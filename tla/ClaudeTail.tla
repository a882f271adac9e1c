------------------------------ MODULE ClaudeTail ------------------------------
(***************************************************************************)
(* How the claude-code adapter follows a session and its sub-agents, each  *)
(* in a transcript of its own: the scan, the tail with its catch-up and    *)
(* its flushes, and the state that spans files.  The Agent call is a line  *)
(* of the main transcript, its end is the last line of the sub-agent's,    *)
(* and which sub-agent a call made is in a sidecar file written by neither.*)
(* The three appear in any order, some of them while the daemon is down.   *)
(*                                                                         *)
(* A transcript is a sequence of lines plus, possibly, an unfinished one;  *)
(* sizes and offsets count half lines.  A line of the main transcript is   *)
(* an Agent call or its tool_result, a line of a sub-agent's is assistant  *)
(* "text", with which a finished sub-agent ends, or other "work".          *)
(* ClaudeMapper has the mapping of the lines.                              *)
(***************************************************************************)
EXTENDS Integers, Sequences, FiniteSets, SequencesExt

CONSTANTS Main,        \* the main transcript, <session>.jsonl
          Agents,      \* the sub-agents: each has a transcript and a sidecar
          MaxCalls,    \* lines written to the main transcript
          MaxWork,     \* lines written to a sub-agent's transcript
          MaxSlips     \* cut files, failed reads, failed watches, stops of daemon or tail

ASSUME ClaudeTailAssumption == Main \notin Agents

VARIABLES scripts,   \* the transcripts: lines, unfinished line, generation, lines ever written
          sidecars,  \* the sub-agents whose .meta.json is there
          subs,      \* the directory of the sub-agents exists
          stage,     \* "off", "scan", "scanned", "watching", "idle" or "flush"
          left,      \* transcripts the pass has still to read
          cache,     \* the sidecars read in this pass, once they are
          ccur,      \* the cursor in memory
          scanCur,   \* the cursor the scan ended with (Adapter.scanCursor)
          def,       \* tailDeferral: pending, completed, finalized
          eyes,      \* the sub-agents' directory is watched
          news,      \* the notification of that directory was not received yet
          marks,     \* transcripts and sidecars announced since the last flush
          wire,      \* events sent and not committed
          store,     \* what is committed
          missed,    \* transcripts a fault made the tail miss
          dim,       \* sidecars a fault made it miss
          torn,      \* transcripts cut and regrown between two reads
          rewound,   \* the tail went back to the scan's cursor
          slips      \* how many faults so far

cvars == <<scripts, sidecars, subs, stage, left, cache, ccur, scanCur, def, eyes, news,
           marks, wire, store, missed, dim, torn, rewound, slips>>

files   == <<scripts, sidecars, subs>>
reader  == <<left, cache>>
memory  == <<ccur, scanCur, def>>
record  == <<missed, dim, torn, rewound>>

Scripts == Agents \cup {Main}

NotRead == <<>>
Unread == [off |-> 0, size |-> 0, gen |-> 1]
EmptyCursor == [at |-> [x \in Scripts |-> Unread], meta |-> {},
                parked |-> {}, fin |-> {}]

\* A slip: what was parked is left in the cursor.
RestoredUnparked(c) == [pend |-> {}, compl |-> {}, fin |-> c.fin]

\* restoredTailDeferral, restoreDeferral.  The calls seen are not in the cursor: reading
\* the main transcript again rebuilds them.
Restored(c) == [pend |-> {}, compl |-> c.parked \ c.fin, fin |-> c.fin]

Bytes(d) == 2 * Len(d.lines) + (IF d.part THEN 1 ELSE 0)
OnDisk == {x \in Scripts : Bytes(scripts[x]) > 0 \/ scripts[x].gen > 1}

NoMarks == [scripts |-> {}, metas |-> {}]

CInit == /\ scripts = [x \in Scripts |-> [lines |-> <<>>, part |-> FALSE, gen |-> 1, written |-> 0]]
         /\ sidecars = {}
         /\ subs = FALSE
         /\ stage = "off" /\ left = {} /\ cache = NotRead
         /\ ccur = EmptyCursor /\ scanCur = EmptyCursor /\ def = Restored(EmptyCursor)
         /\ eyes = FALSE /\ news = FALSE /\ marks = NoMarks /\ wire = <<>>
         /\ store = [seen |-> {}, rows |-> {}, named |-> {}, closed |-> {}, cur |-> EmptyCursor]
         /\ missed = {} /\ dim = {} /\ torn = {} /\ rewound = FALSE /\ slips = 0

-----------------------------------------------------------------------------
(* Claude Code writes.                                                     *)

\* What was sent is committed before anything else happens, unless the daemon or the tail
\* stops: nothing but a stop depends on how much is committed, and what happened since the
\* send could as well happen after the stop, which forgets all notifications.
Settled == wire = <<>>

\* fsnotify and handleEvent: a change in a watched directory marks the file; a flush takes
\* the marks there are, and those made while it runs wait for the next.
Watching == stage \in {"watching", "idle", "flush"}
Announced(x) == Watching /\ (x = Main \/ eyes)

Put(x, d) ==
    /\ Settled /\ (x = Main \/ subs)
    /\ scripts' = [scripts EXCEPT ![x] = d]
    /\ marks' = IF Announced(x) THEN [marks EXCEPT !.scripts = @ \cup {x}] ELSE marks
    /\ UNCHANGED <<sidecars, subs, stage, reader, memory, eyes, news, wire, store, record>>

Quota(x) == IF x = Main THEN MaxCalls ELSE MaxWork
Said(d, r) == \E n \in DOMAIN d.lines : d.lines[n] = r

Write(x, r) ==
    /\ scripts[x].written < Quota(x)
    /\ Put(x, [scripts[x] EXCEPT !.lines = Append(@, r), !.part = FALSE, !.written = @ + 1])
    /\ UNCHANGED slips

WriteCall(a)   == ~Said(scripts[Main], <<"call", a>>) /\ Write(Main, <<"call", a>>)
WriteResult(a) == /\ Said(scripts[Main], <<"call", a>>) /\ ~Said(scripts[Main], <<"result", a>>)
                  /\ Write(Main, <<"result", a>>)
WriteText(a)   == Write(a, <<"text", a>>)
WriteWork(a)   == Write(a, <<"work", a>>)

WritePartial(a) ==
    /\ ~scripts[a].part /\ scripts[a].written \in 1 .. MaxWork - 1
    /\ Put(a, [scripts[a] EXCEPT !.part = TRUE])
    /\ UNCHANGED slips

Cut(a) ==
    /\ slips < MaxSlips /\ Bytes(scripts[a]) > 0
    /\ slips' = slips + 1
    /\ Put(a, [scripts[a] EXCEPT !.lines = <<>>, !.part = FALSE, !.gen = @ + 1])

WriteSidecar(a) ==
    /\ Settled /\ subs /\ a \notin sidecars
    /\ sidecars' = sidecars \cup {a}
    /\ marks' = IF Announced(a) THEN [marks EXCEPT !.metas = @ \cup {a}] ELSE marks
    /\ UNCHANGED <<scripts, subs, stage, reader, memory, eyes, news, wire, store, record, slips>>

MakeSubs ==
    /\ Settled /\ ~subs /\ subs' = TRUE
    /\ news' = Watching
    /\ UNCHANGED <<scripts, sidecars, stage, reader, memory, eyes, marks, wire, store, record, slips>>

-----------------------------------------------------------------------------
(* What the reader sends.                                                  *)

SentRows(items) == {i \in DOMAIN items : items[i].tag = "rows"}
OnWire(field) == UNION {wire[i][field] : i \in SentRows(wire)}
Shown == store.seen \cup OnWire("lines")
Named == store.named \cup OnWire("named")
Rows  == store.rows \cup OnWire("rows")

\* Events that change rows: lines, session rows, names of sub-agents, closed Agent calls.
Batch(lines, rows, named, closed) ==
    IF lines = {} /\ rows = {} /\ named = {} /\ closed = {} THEN <<>>
    ELSE <<[tag |-> "rows", lines |-> lines, rows |-> rows, named |-> named, closed |-> closed]>>

\* emitProgress; a report that repeats the last one changes nothing.
LastSaved == LET i == SelectLastInSeq(wire, LAMBDA m : m.tag = "progress")
             IN  IF i = 0 THEN store.cur ELSE wire[i].cur
Saved(items, c) == IF c = LastSaved THEN items ELSE Append(items, [tag |-> "progress", cur |-> c])

\* persistDeferral: withParked and withFinalized replace what the cursor has.
Persist(c, d) == [c EXCEPT !.parked = d.compl, !.fin = d.fin]

-----------------------------------------------------------------------------
(* Reading one transcript.                                                 *)

Busy == stage \in {"scan", "flush"}

\* slices.Sorted: the main transcript comes before those of its sub-agents.
Turn(x) == x \in left /\ (Main \in left => x = Main)

\* metasFor, readSessionMetas: the sidecars, read once per pass, at the first transcript.
Cached == IF cache = NotRead THEN <<sidecars>> ELSE cache

\* cursorForSize, clampEmitFrom.
CursorForSize(fc, size) == IF fc.size > 0 /\ size < fc.size THEN Unread ELSE fc
EmitFrom(fc, size) == IF fc.off > size THEN size ELSE fc.off

\* processLine: every line is mapped, those that start at the offset or after it are sent.
\* readOneLine: a line without its newline is held back and the offset stays before it.
SentLines(d, from) == {n \in DOMAIN d.lines : 2 * (n - 1) >= from}
Consumed(d) == 2 * Len(d.lines)

\* collectAgentDeferral for the main transcript: the calls whose sub-agent the sidecars
\* name, those with a tool_result apart.
FoldCalls(d, known, dfr) ==
    LET resolved == {a \in known : Said(d, <<"result", a>>)}
        calls    == {a \in known : Said(d, <<"call", a>>)} \ resolved
        fin      == dfr.fin \cup resolved
    IN  [pend |-> (dfr.pend \ resolved) \cup (calls \ fin), compl |-> dfr.compl \ resolved, fin |-> fin]

\* A slip: nothing is retracted.
FoldChildAddOnly(a, d, from, dfr) ==
    LET n == Len(d.lines)
    IN  IF ~d.part /\ n > 0 /\ d.lines[n][1] = "text" /\ 2 * (n - 1) >= from
        THEN [dfr EXCEPT !.compl = @ \cup {a}] ELSE dfr

\* recordChildCompletion: added when the text that ends the transcript is new, retracted
\* when the transcript does not end so, left alone when it is an old text again.
FoldChild(a, d, from, dfr) ==
    LET n        == Len(d.lines)
        complete == ~d.part /\ n > 0 /\ d.lines[n][1] = "text"
    IN  CASE complete /\ 2 * (n - 1) >= from -> [dfr EXCEPT !.compl = @ \cup {a}]
          [] ~complete -> [dfr EXCEPT !.compl = @ \ {a}]
          [] OTHER -> dfr

\* readTranscript, withFile, collectAgentDeferral and, in a scan, maybeEmitProgress.  All
\* lines are replayed in a new mapper, those from the offset on are sent; the session's
\* start goes with the first line and bears the name the sidecar gives it.
ReadScript(x) ==
    /\ Busy /\ Turn(x) /\ Settled
    /\ LET d     == scripts[x]
           known == cache'[1]
           fc    == CursorForSize(ccur.at[x], Bytes(d))
           from  == EmitFrom(fc, Bytes(d))
           sent  == SentLines(d, from)
           start == IF 1 \in sent THEN {x} ELSE {}
           batch == Batch({<<x, d.gen, n>> : n \in sent} \ Shown, start \ Rows, (start \cap known) \ Named, {})
           next  == [ccur EXCEPT !.at[x] = [off |-> Consumed(d), size |-> Bytes(d), gen |-> d.gen]]
       IN  /\ cache' = Cached
           /\ def' = IF x = Main THEN FoldCalls(d, known, def) ELSE FoldChild(x, d, from, def)
           /\ torn' = IF fc.off > 0 /\ fc.gen # d.gen THEN torn \cup {x} ELSE torn
           /\ missed' = missed \ {x}
           /\ left' = left \ {x}
           /\ \E report \in IF stage = "scan" THEN BOOLEAN ELSE {FALSE} :
                 /\ ccur' = IF report THEN Persist(next, def') ELSE next
                 /\ wire' = IF report THEN Saved(wire \o batch, ccur') ELSE wire \o batch
    /\ UNCHANGED <<files, stage, scanCur, eyes, news, marks, store, dim, rewound, slips>>

\* handleTranscriptError: reported, and the pass goes on.
ReadScriptFails(x) ==
    /\ slips < MaxSlips /\ Busy /\ Turn(x) /\ Settled
    /\ slips' = slips + 1
    /\ left' = left \ {x}
    /\ missed' = missed \cup {x}
    /\ UNCHANGED <<files, stage, cache, memory, eyes, news, marks, wire, store, dim, torn, rewound>>

-----------------------------------------------------------------------------
(* The end of a pass.                                                      *)

\* pairCompletedFinalizations.
Due(d) == (d.compl \ d.fin) \cap d.pend
Paired(d) == [d EXCEPT !.compl = @ \ (d.fin \cup Due(d)), !.fin = @ \cup Due(d)]

\* A slip: the hashes are recorded before they are compared.
RepairedNever(metas, unread) == {}

\* repairChangedMetas: a sidecar whose hash is not the recorded one is announced; it is
\* read again for that, and what cannot be read is left out.  (A sidecar rewritten later
\* is announced again, which changes nothing here.)
NewMetas(metas) == (metas \cap sidecars) \ ccur.meta
Repaired(metas, unread) == NewMetas(metas) \ unread

\* withMetaSeen, recordChangedMetaHashes: every hash taken, announced or not.
RecordMetas(c, metas) == [c EXCEPT !.meta = @ \cup (metas \cap sidecars)]

\* The second read of a sidecar may fail.
Misread(unread) ==
    /\ slips' = slips + Cardinality(unread) /\ slips' <= MaxSlips
    /\ dim' = dim \cup unread

Repairs(metas, unread) == LET r == Repaired(metas, unread) IN Batch({}, r \ Rows, r \ Named, {})

-----------------------------------------------------------------------------
(* Scan.                                                                   *)

\* orphanRootTimestamps: sub-agents of a session without a transcript of its own.
OrphanRoot == IF Main \notin OnDisk /\ OnDisk # {} THEN Batch({}, {Main} \ Rows, {}, {}) ELSE <<>>

StartScanAll ==
    /\ stage = "off" /\ Settled
    /\ stage' = "scan" /\ left' = OnDisk /\ cache' = NotRead
    /\ ccur' = store.cur /\ def' = Restored(store.cur)
    /\ wire' = wire \o OrphanRoot
    /\ UNCHANGED <<files, scanCur, eyes, news, marks, store, record, slips>>

EndScanAll ==
    /\ stage = "scan" /\ left = {} /\ Settled
    /\ \E unread \in SUBSET NewMetas(Agents) :
          /\ Misread(unread)
          /\ def' = Paired(def)
          /\ ccur' = Persist(RecordMetas(ccur, Agents), def')
          /\ wire' = Saved(wire \o Batch({}, {}, {}, Due(def)) \o Repairs(Agents, unread), ccur')
    /\ scanCur' = ccur'
    /\ stage' = "scanned"
    /\ UNCHANGED <<files, reader, eyes, news, marks, store, missed, torn, rewound>>

-----------------------------------------------------------------------------
(* Tail.                                                                   *)

\* addWatchTree: watcher.Add may fail, and is tried again at the next tick.
AddEyes == \/ eyes' = (eyes \/ subs) /\ UNCHANGED slips
           \/ subs /\ ~eyes /\ slips < MaxSlips /\ slips' = slips + 1 /\ UNCHANGED eyes

\* Adapter.Tail, newTailRuntime: the scan's cursor, the watches, then the catch-up.
StartTail ==
    /\ stage = "scanned" /\ Settled
    /\ stage' = "watching"
    /\ AddEyes
    /\ ccur' = scanCur /\ def' = Restored(scanCur)
    /\ UNCHANGED <<files, reader, scanCur, news, marks, wire, store, record>>

\* flushDirty: the sidecars first, then the transcripts.
Flushing(dirty, metas) ==
    /\ Settled
    /\ cache' = NotRead
    /\ \E unread \in SUBSET NewMetas(metas) :
          /\ Misread(unread)
          /\ ccur' = RecordMetas(ccur, metas)
          /\ LET sent == wire \o Repairs(metas, unread)
             IN  IF dirty = {}
                 THEN stage' = "idle" /\ left' = {} /\ wire' = Saved(sent, ccur')
                 ELSE stage' = "flush" /\ left' = dirty /\ wire' = sent
    /\ UNCHANGED <<files, scanCur, def, eyes, store, missed, torn, rewound>>

\* catchUpFromCursor: everything there is, unless there is no transcript.
CatchUpNothing ==
    /\ stage = "watching" /\ OnDisk = {} /\ Settled
    /\ stage' = "idle"
    /\ UNCHANGED <<files, reader, memory, eyes, news, marks, wire, store, record, slips>>

CatchUpAll ==
    /\ stage = "watching" /\ OnDisk # {}
    /\ Flushing(OnDisk, Agents)
    /\ UNCHANGED <<news, marks>>

\* A slip: a new directory is watched and its files are left.
FoundNothing == marks

\* markExistingDirty.
Found == [scripts |-> marks.scripts \cup (OnDisk \cap Agents),
          metas   |-> marks.metas \cup sidecars]

\* handleCreatedDirectory.
TakeDirectory ==
    /\ stage = "idle" /\ news /\ Settled
    /\ AddEyes
    /\ news' = FALSE /\ marks' = Found
    /\ UNCHANGED <<files, stage, reader, memory, wire, store, record>>

\* flushNow, from the debounce timer or at debounceMaxEntries.
FlushNow ==
    /\ stage = "idle" /\ marks # NoMarks
    /\ Flushing(marks.scripts, marks.metas)
    /\ marks' = NoMarks
    /\ UNCHANGED news

\* finishDeferral and the report.
FinishFlush ==
    /\ stage = "flush" /\ left = {} /\ Settled
    /\ def' = Paired(def)
    /\ ccur' = Persist(ccur, def')
    /\ wire' = Saved(wire \o Batch({}, {}, {}, Due(def)), ccur')
    /\ stage' = "idle"
    /\ UNCHANGED <<files, reader, scanCur, eyes, news, marks, store, record, slips>>

\* onTick: a directory watched only now keeps what was written to it to itself.
OnTick ==
    /\ stage = "idle" /\ Settled
    /\ AddEyes
    /\ LET late == IF eyes' /\ ~eyes /\ ~news THEN Agents ELSE {}
       IN  missed' = missed \cup late /\ dim' = dim \cup late
    /\ wire' = Saved(wire, ccur)
    /\ UNCHANGED <<files, stage, reader, memory, news, marks, store, torn, rewound>>

\* The supervisor replaces the tail: it starts from the scan's cursor again.
Retail ==
    /\ Watching /\ slips < MaxSlips
    /\ slips' = slips + 1
    /\ stage' = "scanned" /\ rewound' = TRUE
    /\ left' = {} /\ eyes' = FALSE /\ news' = FALSE /\ marks' = NoMarks
    /\ UNCHANGED <<files, cache, memory, wire, store, missed, dim, torn>>

Die ==
    /\ stage # "off" /\ slips < MaxSlips
    /\ slips' = slips + 1
    /\ stage' = "off" /\ rewound' = FALSE
    /\ left' = {} /\ cache' = NotRead /\ eyes' = FALSE
    /\ news' = FALSE /\ marks' = NoMarks /\ wire' = <<>>
    /\ ccur' = EmptyCursor /\ scanCur' = EmptyCursor /\ def' = Restored(EmptyCursor)
    /\ UNCHANGED <<files, store, missed, dim, torn>>

\* The ingester.  An update of a session without a row makes the row (requireSessionID);
\* an empty name never replaces one.
Apply ==
    /\ wire # <<>>
    /\ LET m == Head(wire)
       IN  store' = IF m.tag = "progress" THEN [store EXCEPT !.cur = m.cur]
                    ELSE [store EXCEPT !.seen = @ \cup m.lines, !.rows = @ \cup m.rows,
                                       !.named = @ \cup m.named, !.closed = @ \cup m.closed]
    /\ wire' = Tail(wire)
    /\ UNCHANGED <<files, stage, reader, memory, eyes, news, marks, record, slips>>

-----------------------------------------------------------------------------
CNext == \/ \E a \in Agents : \/ WriteCall(a) \/ WriteResult(a) \/ WriteText(a) \/ WriteWork(a)
                              \/ WritePartial(a) \/ Cut(a)
                              \/ WriteSidecar(a)
         \/ \E x \in Scripts : ReadScript(x) \/ ReadScriptFails(x)
         \/ MakeSubs \/ StartScanAll \/ EndScanAll \/ StartTail
         \/ CatchUpNothing \/ CatchUpAll \/ TakeDirectory \/ FlushNow \/ FinishFlush
         \/ OnTick \/ Retail \/ Die \/ Apply

CSpec == CInit /\ [][CNext]_cvars

-----------------------------------------------------------------------------
(* Properties.                                                             *)

\* The cursor is at the end of a finished sub-agent.
Finished(c, a) ==
    LET f == c.at[a]
    IN  /\ f.gen = scripts[a].gen /\ f.off > 0 /\ f.off >= f.size
        /\ scripts[a].lines[f.off \div 2][1] = "text"

ClosedByResult(a) ==
    \E n \in DOMAIN scripts[Main].lines :
       /\ scripts[Main].lines[n] = <<"result", a>>
       /\ <<Main, scripts[Main].gen, n>> \in store.seen

\* No completion is lost between the files: a cursor that is past the end of a finished
\* sub-agent also carries its completion, parked or spent, whichever of the two files was
\* read first, in whichever process; what is recorded as spent has closed the call; and an
\* idle tail parks nothing whose call it knows.
CompletionKept ==
    \A a \in Agents :
       /\ Finished(store.cur, a) /\ a \notin torn => a \in store.cur.parked \cup store.cur.fin
       /\ stage = "idle" /\ Finished(ccur, a) /\ a \notin torn => a \in ccur.parked \cup ccur.fin
       /\ a \in store.cur.fin => a \in store.closed \/ ClosedByResult(a)
       /\ stage = "idle" => a \notin ccur.parked \cap def.pend

\* A call is closed for its sub-agent's sake only when the sub-agent ended with text as far
\* as it was read, which it may stop doing after it was parked; and a call the stored cursor
\* has as closed is not closed again, in this process or the next.  (A tail that is replaced
\* starts from the scan's cursor and repeats itself.)
ClosesAreDue ==
    [][\A i \in DOMAIN wire' \ DOMAIN wire :
          wire'[i].tag = "rows" =>
             \A a \in wire'[i].closed :
                /\ Finished(ccur, a) \/ a \in torn \/ ccur.at[a].gen # scripts[a].gen
                /\ a \in store.cur.fin => rewound]_wire

\* A late sidecar reaches its session: an idle tail has named every sub-agent whose sidecar
\* is complete, unless the notification is still to be handled, and a recorded sidecar was
\* announced.  (A sidecar that cannot be read the second time is recorded all the same.)
NamesCatchUp ==
    \A a \in Agents \ dim :
       /\ stage = "idle" /\ a \in Rows \cap sidecars /\ eyes =>
             a \in Named \cup marks.metas \/ news
       /\ a \in store.cur.meta => a \in store.named

\* The cursors claim no line that was not delivered, and an idle tail has read every line it
\* was not told to read yet; only faults make it miss one.
TranscriptsKeptUp ==
    \A x \in Scripts :
       /\ \A n \in DOMAIN scripts[x].lines :
             /\ x \notin torn /\ ccur.at[x].gen = scripts[x].gen /\ 2 * n <= ccur.at[x].off =>
                   <<x, scripts[x].gen, n>> \in Shown
             /\ x \notin torn /\ store.cur.at[x].gen = scripts[x].gen /\ 2 * n <= store.cur.at[x].off =>
                   <<x, scripts[x].gen, n>> \in store.seen
       /\ stage = "idle" /\ x \notin missed /\ ccur.at[x].off < 2 * Len(scripts[x].lines) =>
             x \in marks.scripts \/ (x # Main /\ (news \/ ~eyes))

=============================================================================
