----------------------------- MODULE ParityCheck ----------------------------
(***************************************************************************)
(* check-parity (internal/paritycheck): one source is checked while its    *)
(* producer keeps writing files and the ingest daemon keeps committing     *)
(* rows.  With --db the check fingerprints the live tree, reads it twice   *)
(* (source extractor, payload refs of the canonical rows) and verifies the *)
(* fingerprints afterwards; without --db it freezes the tree into a        *)
(* private image, reads only that, and ingests it into a temporary         *)
(* database.  --resume reuses a terminal result recorded for the same      *)
(* fingerprints; --changed-since and --sample are diagnostic.              *)
(*                                                                         *)
(* A file is its content generation and its number of records; every       *)
(* change moves its mtime.  A record gives one op_boundary artifact, whose *)
(* canonical value comes from the database row, and one user_prompt        *)
(* artifact, whose canonical value is read through the payload ref from    *)
(* the file itself.                                                        *)
(***************************************************************************)
EXTENDS ParityManifest

CONSTANTS Files,        \* sequence of the tree's paths, in WalkDir order
          MaxChanges,   \* producer changes: bounds the mtimes
          MaxChecks,    \* check-parity runs
          SampleSize    \* --sample of a sampled run

ASSUME CheckAssumption ==
    /\ Files \in Seq(ToSet(Files))
    /\ MaxChanges \in Nat /\ MaxChecks \in Nat /\ SampleSize \in Nat \ {0}

VARIABLES tree,      \* [path -> file]: the source as the producer left it
          db,        \* [path -> [gen, len]]: the daemon's canonical rows
          recent,    \* source_progress.updated_at >= the changed-since cutoff
          changes,   \* changes made so far
          cursor,    \* the resume file: NoEntry or [snap, state]
          checks,    \* runs started
          chk,       \* the run in progress
          proved     \* ghost: contents a fresh run compared and passed
cvars == <<tree, db, recent, changes, cursor, checks, chk, proved>>

Paths == ToSet(Files)
NoEntry == [state |-> "none"]
Absent == [gen |-> 0, len |-> 0, mtime |-> 0]
Content(f) == [gen |-> f.gen, len |-> f.len]
Contents(t) == [p \in Paths |-> Content(t[p])]

\* sourceSnapshotFile: size and mtime of one stat, the hash of the bytes read.
Fingerprint(stat, read) == [size |-> stat.len, mtime |-> stat.mtime, sha |-> Content(read)]
NoFile == Fingerprint(Absent, Absent)
Hashes(snap) == [p \in Paths |-> snap[p].sha]

CheckMatrix == [op_boundary |-> [avail |-> {"available"}, doms |-> {"identity"}],
                user_prompt |-> [avail |-> {"available", "source_empty"}, doms |-> {"text"}]]

\* The option combinations CheckSources accepts.
Options == {o \in [db : BOOLEAN, sample : BOOLEAN, use : {"none", "resume", "cursor", "since"}] :
              /\ o.use = "since" => o.db
              /\ o.use = "resume" => ~o.sample}

Idle == [pc |-> "idle"]
Fresh(o) == [pc |-> "capture", opt |-> o, todo |-> Files, stat |-> Absent,
             snap |-> [p \in Paths |-> NoFile], img |-> [p \in Paths |-> Absent],
             src |-> <<>>, pin |-> [p \in Paths |-> Content(Absent)], can |-> <<>>,
             err |-> FALSE, state |-> "INCOMPLETE", skipped |-> FALSE,
             atPin |-> [p \in Paths |-> Absent]]

CheckInit ==
    /\ tree \in [Paths -> {Absent, [gen |-> 1, len |-> 1, mtime |-> 0]}]
    /\ db = Contents(tree) /\ recent = FALSE /\ changes = 0
    /\ cursor = NoEntry /\ checks = 0 /\ chk = Idle /\ proved = {}

-----------------------------------------------------------------------------
(* The producer and the daemon.                                            *)

Change(p) ==
    /\ changes < MaxChanges /\ changes' = changes + 1
    /\ \E f \in {[tree[p] EXCEPT !.len = @ + 1], [tree[p] EXCEPT !.gen = @ + 1], Absent} :
          /\ Content(f) # Content(tree[p])
          /\ tree' = [tree EXCEPT ![p] =
                        IF f = Absent THEN Absent
                        ELSE [f EXCEPT !.mtime = changes + 1, !.gen = IF @ = 0 THEN 1 ELSE @,
                                       !.len = IF @ = 0 THEN 1 ELSE @]]
    /\ UNCHANGED <<db, recent, cursor, checks, chk, proved>>

\* The daemon commits what it read of a file; rows of a removed file stay.
Ingest(p) ==
    /\ tree[p] # Absent /\ db[p] # Content(tree[p])
    /\ db' = [db EXCEPT ![p] = Content(tree[p])] /\ recent' = TRUE
    /\ UNCHANGED <<tree, changes, cursor, checks, chk, proved>>

-----------------------------------------------------------------------------
(* The check.                                                              *)

Artifact(cls, id, avail, dom, val) ==
    [cls |-> cls, id |-> id, avail |-> avail, dom |-> dom, val |-> val, sel |-> "line",
     synth |-> "no", failures |-> FALSE]

\* The extractors' view of one file: what the source proves ...
SourceArtifacts(p, f) ==
    [i \in 1..f.len |-> Artifact("op_boundary", <<"op", p, i>>, "available", "identity", <<f.gen, i>>)]
    \o [i \in 1..f.len |-> Artifact("user_prompt", <<"line", p, i>>, "available", "text", <<f.gen, i>>)]

\* ... and what its canonical rows prove, their payloads resolved against f.
CanonicalArtifacts(p, rows, f) ==
    [i \in 1..rows.len |->
        Artifact("op_boundary", <<"op", p, i>>, "available", "identity", <<rows.gen, i>>)]
    \o [i \in 1..rows.len |->
        IF i <= f.len
        THEN Artifact("user_prompt", <<"line", p, i>>, "available", "text", <<f.gen, i>>)
        ELSE Artifact("user_prompt", <<"line", p, i>>, "unverifiable", "text", NoVal)]

At(pc) == chk.pc = pc
Walk(pc) == At(pc) /\ chk.todo # <<>>
Walked(pc) == At(pc) /\ chk.todo = <<>>
Step(new) == chk' = new /\ UNCHANGED <<tree, db, recent, changes, cursor, checks, proved>>
Goto(c, pc) == [c EXCEPT !.pc = pc, !.todo = Files]
Diagnostic(o) == o.sample \/ o.use \in {"cursor", "since"}

\* sourceChangedSince: the progress of the source is older than the cutoff.
Unchanged(o) == o.use = "since" /\ ~recent

\* runCheckParity .. checkSourceForRun: an unchanged source is skipped before
\* anything is read.
Begin(o) ==
    /\ At("idle") /\ checks < MaxChecks
    /\ checks' = checks + 1
    /\ chk' = IF Unchanged(o)
              THEN [Fresh(o) EXCEPT !.pc = "done", !.state = "SAMPLE_ONLY", !.skipped = TRUE]
              ELSE Fresh(o)
    /\ UNCHANGED <<tree, db, recent, changes, cursor, proved>>

\* captureSourceForRun, per file: stat first ...
Stat ==
    /\ Walk("capture")
    /\ Step([chk EXCEPT !.pc = "read", !.stat = tree[Head(chk.todo)]])

\* ... then read.  fingerprintSourceSnapshotFile hashes whatever is there now under
\* the size and mtime stat saw; copySourceSnapshotFile stats again and fails when
\* they moved.  A file that vanished in between fails both.
ReadFile ==
    /\ At("read")
    /\ LET p == Head(chk.todo)
           next == [chk EXCEPT !.pc = "capture", !.todo = Tail(@)]
           gone == tree[p] = Absent /\ chk.stat # Absent
           moved == tree[p] # chk.stat
       IN  Step(IF gone \/ (~chk.opt.db /\ moved)
                THEN [Goto(chk, "source") EXCEPT !.err = TRUE]
                ELSE IF chk.stat = Absent THEN next
                ELSE [next EXCEPT !.img[p] = tree[p],
                                  !.snap[p] = Fingerprint(chk.stat, tree[p])])

\* resumeState.lookup / hasMatchingSourceSnapshot.
Matches == cursor # NoEntry /\ cursor.snap = chk.snap

Lookup ==
    /\ Walked("capture")
    /\ Step(CASE chk.opt.use = "resume" /\ Matches ->
                   [Goto(chk, "verify") EXCEPT !.state = cursor.state, !.skipped = TRUE]
              [] chk.opt.use = "cursor" /\ Matches ->
                   [Goto(chk, "verify") EXCEPT !.state = "SAMPLE_ONLY", !.skipped = TRUE]
              [] OTHER -> Goto(chk, "source"))

\* The file a reader of this run opens: the frozen copy, or the live one.
Readable(p) == IF chk.opt.db THEN tree[p] ELSE chk.img[p]

\* writeSourceArtifacts: the extractor walks the tree again.  A freeze that failed
\* leaves no source to read.
ExtractSource ==
    /\ Walk("source")
    /\ LET p == Head(chk.todo) IN
         Step([chk EXCEPT !.todo = Tail(@),
                 !.src = IF chk.err /\ ~chk.opt.db THEN @
                         ELSE @ \o SourceArtifacts(p, Readable(p))])

\* beginCanonicalReadSnapshot pins one version of the database; without --db the
\* adapter, the ingester and one resolver pass build one from the image.
PinCanonical ==
    /\ Walked("source")
    /\ Step([Goto(chk, "canonical") EXCEPT
               !.pin = IF chk.opt.db THEN db
                       ELSE IF chk.err THEN @ ELSE Contents(chk.img),
               !.atPin = tree])

\* scanSourceIntoDBWithCursor: an adapter, ingester or resolver error.
TempScanFails ==
    /\ Walked("source") /\ ~chk.opt.db
    /\ Step([Goto(chk, "canonical") EXCEPT !.err = TRUE, !.atPin = tree])

\* ExtractCanonicalForSourceIDsFromQuerierToWriterFiltered, resolving payload refs.
ExtractCanonical ==
    /\ Walk("canonical")
    /\ LET p == Head(chk.todo) IN
         Step([chk EXCEPT !.todo = Tail(@),
                 !.can = @ \o CanonicalArtifacts(p, chk.pin[p], Readable(p))])

\* A slip: the fingerprints are taken but never compared with what was read.
ExtractedUnverified == Walked("canonical") /\ Step(Goto(chk, "diff"))

\* verifyAfterExtraction holds with --db only; a capture that failed has nothing
\* to verify.
Extracted ==
    /\ Walked("canonical")
    /\ Step(IF chk.opt.db /\ ~chk.err THEN Goto(chk, "verify") ELSE Goto(chk, "diff"))

\* sourceSnapshot.Verify: added, removed and modified files.
Verify ==
    /\ Walk("verify")
    /\ LET p == Head(chk.todo) IN
         Step([chk EXCEPT !.todo = Tail(@), !.err = @ \/ Fingerprint(tree[p], tree[p]) # chk.snap[p]])

Verified ==
    /\ Walked("verify")
    /\ Step(IF chk.skipped
            THEN [chk EXCEPT !.pc = "done", !.state = IF chk.err THEN "INCOMPLETE" ELSE @]
            ELSE Goto(chk, "diff"))

\* boundedSourceSampleWriter and sampledArtifactSet: the artifacts with the
\* smallest sort keys (class first), and the canonical artifacts that share an id.
Sampled(m) ==
    LET sorted == SelectSeq(m, LAMBDA a : a.cls = "op_boundary")
                  \o SelectSeq(m, LAMBDA a : a.cls = "user_prompt")
    IN  SubSeq(sorted, 1, IF Len(m) < SampleSize THEN Len(m) ELSE SampleSize)

\* diff.Result and the state a source result takes from it: any error outranks
\* the diff, a sampled or changed-since run never claims full parity.
DiffManifests ==
    /\ At("diff")
    /\ LET o == chk.opt
           src == IF o.sample THEN Sampled(chk.src) ELSE chk.src
           can == IF o.sample
                  THEN SelectSeq(chk.can, LAMBDA c : \E s \in ToSet(src) : s.id = c.id)
                  ELSE chk.can
           verdict == Diff(CheckMatrix, 0, src, can).state
           state == CASE chk.err -> "INCOMPLETE"
                      [] ~chk.err /\ o.sample -> "SAMPLE_ONLY"
                      [] ~chk.err /\ ~o.sample /\ verdict = "PASS" /\ Diagnostic(o) -> "SAMPLE_ONLY"
                      [] OTHER -> verdict
       IN  Step([chk EXCEPT !.pc = "record", !.state = state])

\* resumeState.record: terminal results only; a rename replaces the file.
Record ==
    /\ At("record")
    /\ cursor' = IF chk.opt.use = "resume" /\ chk.state \in {"PASS", "FAIL"}
                 THEN [snap |-> chk.snap, state |-> chk.state] ELSE cursor
    /\ proved' = IF chk.state = "PASS" THEN proved \cup {Hashes(chk.snap)} ELSE proved
    /\ chk' = [chk EXCEPT !.pc = "done"]
    /\ UNCHANGED <<tree, db, recent, changes, checks>>

\* --timeout: whatever the run was doing returns the context's error.
Timeout ==
    /\ chk.pc \notin {"idle", "done"}
    /\ Step([chk EXCEPT !.pc = "done", !.err = TRUE, !.state = "INCOMPLETE"])

\* The process ends: with its result printed, or killed before it had one.
Exit ==
    /\ ~At("idle")
    /\ Step(Idle)

CheckStep ==
    \/ Stat \/ ReadFile \/ Lookup \/ ExtractSource \/ PinCanonical \/ TempScanFails
    \/ ExtractCanonical \/ Extracted \/ Verify \/ Verified \/ DiffManifests \/ Record
    \/ Timeout \/ Exit

CheckNext ==
    \/ \E p \in Paths : Change(p) \/ Ingest(p)
    \/ \E o \in Options : Begin(o)
    \/ CheckStep

CheckSpec == CheckInit /\ [][CheckNext]_cvars

-----------------------------------------------------------------------------
(* The claims.                                                             *)

Settled == At("done") /\ ~chk.skipped

\* The file was there when its fingerprint was taken.
Captured(p) == chk.snap[p] # NoFile

\* A fresh PASS is about the content whose hashes it records: the rows pinned are those
\* of every captured file, or of the whole image, and a file that was not captured has
\* rows only if the source extractor met it while it was there.
PassIsParity ==
    Settled /\ chk.state = "PASS" =>
        \A p \in Paths :
            /\ Captured(p) \/ ~chk.opt.db => chk.pin[p] = chk.snap[p].sha
            /\ chk.pin[p] # Content(Absent) => \E a \in ToSet(chk.src) : a.id[2] = p

\* A captured file that changed between its fingerprint and its verification never
\* becomes a terminal verdict, a FAIL included: both manifests are of the captured file.
MutationIsIncomplete ==
    Settled /\ chk.opt.db /\ chk.state \in {"PASS", "FAIL"} =>
        \A p \in Paths : Captured(p) => chk.snap[p] = Fingerprint(chk.atPin[p], chk.atPin[p])

\* A reused PASS was earned by an earlier fresh run over the same content.
ResumeIsEarned ==
    At("done") /\ chk.skipped /\ chk.state = "PASS" => Hashes(chk.snap) \in proved

\* Sampled and changed-since runs never report full parity.
DiagnosticNeverPasses ==
    At("done") /\ chk.state = "PASS" => ~Diagnostic(chk.opt)

\* What a verdict of check-parity is worth while the source and the database
\* both move underneath it.
VerdictIsSound ==
    /\ PassIsParity
    /\ MutationIsIncomplete
    /\ ResumeIsEarned
    /\ DiagnosticNeverPasses

\* A claim TLC refutes, of the existing-DB check: "Any changed file makes the run
\* INCOMPLETE" (ingestion-parity.md).  A file that comes after the fingerprints and is
\* gone before the verification is in the manifests and in no fingerprint.
AnyChangeIsIncomplete ==
    Settled /\ chk.opt.db /\ chk.state \in {"PASS", "FAIL"} =>
        \A p \in Paths : chk.snap[p] = Fingerprint(chk.atPin[p], chk.atPin[p])

=============================================================================
