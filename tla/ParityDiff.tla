----------------------------- MODULE ParityDiff -----------------------------
(***************************************************************************)
(* StreamDiff (parity/diff_stream.go): the disk-backed diff.  Two          *)
(* extractors write artifacts into one temporary table in any order, each  *)
(* validated as it is written; FinishWrites commits the inserts and builds *)
(* the indexes; Result finds the duplicate keys and compares, reading the  *)
(* rows of each side in insertion order.                                   *)
(***************************************************************************)
EXTENDS ParityManifest

CONSTANTS Shapes,    \* artifacts the extractors may write
          Matrix,    \* the adapter's availability matrix
          MaxRows,   \* rows per side: bounds the manifests explored
          Cap        \* --max-findings

ASSUME DiffAssumption == MaxRows \in Nat /\ Cap \in Nat

VARIABLES table,      \* the rows of each side, by id
          findings,   \* the accumulator's findings, in the order added
          finished,   \* writesFinished
          result      \* what Result returned
vars == <<table, findings, finished, result>>

NoResult == [state |-> "none"]

Sides == {"source", "canonical"}

\* SELECT ... WHERE side = ? ORDER BY id.
Rows(side) == table[side]

Init == /\ table = [side \in Sides |-> <<>>] /\ findings = <<>>
        /\ finished = FALSE /\ result = NoResult

\* A slip: an artifact is stored without the validation findings it deserves.
WriteArtifactUnchecked(side, a) ==
    /\ ~finished /\ Len(Rows(side)) < MaxRows
    /\ table' = [table EXCEPT ![side] = Append(@, a)]
    /\ UNCHANGED <<findings, finished, result>>

\* writeArtifact: refused once the writes are finished.
WriteArtifact(side, a) ==
    /\ ~finished /\ Len(Rows(side)) < MaxRows
    /\ findings' = findings \o Validation(Matrix, side, a)
    /\ table' = [table EXCEPT ![side] = Append(@, a)]
    /\ UNCHANGED <<finished, result>>

\* FinishWrites: commit the insert transaction, create the lookup indexes.
FinishWrites ==
    /\ ~finished /\ finished' = TRUE
    /\ UNCHANGED <<table, findings, result>>

\* recordDuplicateKeys, compareSourceArtifacts, compareCanonicalArtifacts.
AllFindings ==
    LET source == Rows("source")  canonical == Rows("canonical")
    IN  findings \o Duplicates(source, "source") \o Duplicates(canonical, "canonical")
        \o Comparisons(source, canonical)

Result ==
    /\ finished /\ result = NoResult
    /\ findings' = AllFindings
    /\ result' = Accumulate(Cap, AllFindings)
    /\ UNCHANGED <<table, finished>>

Done == result # NoResult /\ UNCHANGED vars

Next == \/ \E side \in Sides, a \in Shapes : WriteArtifact(side, a)
        \/ FinishWrites
        \/ Result
        \/ Done

Spec == Init /\ [][Next]_vars

-----------------------------------------------------------------------------
(* The claims.                                                             *)

\* What a verdict is about: every source artifact has one canonical artifact of
\* its class and id that proves the same bytes, and every canonical artifact has
\* a source artifact of its id unless it is a documented synthetic.
Agree(matrix, source, canonical) ==
    /\ \A m \in {source, canonical} : \A i, j \in 1..Len(m) :
          /\ Valid(m[i]) /\ MatrixAllows(matrix, m[i])
          /\ i # j => Key(m[i]) # Key(m[j])
    /\ \A i \in 1..Len(source) : LET s == source[i] IN
          \E c \in ToSet(canonical) :
             /\ Key(c) = Key(s) /\ c.avail = s.avail /\ c.avail # "unverifiable"
             /\ ByteProof(s) => /\ c.dom = s.dom /\ c.val = s.val
                                /\ s.cls \in SelectorClasses => c.sel = s.sel
    /\ \A c \in ToSet(canonical) :
          Documented(c) \/ \E s \in ToSet(source) : ClasslessKey(s) = ClasslessKey(c)

Corrupt(m) == \E a \in ToSet(m) : a.avail = "source_corrupt"

\* The verdict means what it says, however many findings the cap drops and in
\* whatever order the sides were written: PASS exactly when the manifests agree
\* and no source artifact is corrupt, INCOMPLETE exactly when one is.
VerdictIsExact ==
    result # NoResult =>
      LET source == Rows("source")  canonical == Rows("canonical") IN
        /\ result.state = "INCOMPLETE" <=> Corrupt(source)
        /\ result.state = "PASS" <=> ~Corrupt(source) /\ Agree(Matrix, source, canonical)

\* How often f is among findings s.
Times(f, s) == Cardinality({i \in DOMAIN s : s[i] = f})

\* The disk-backed engine and the in-memory one, run on the same manifests,
\* count the same findings and reach the same state.
EnginesAgree ==
    result # NoResult =>
      LET memory == Diff(Matrix, -1, Rows("source"), Rows("canonical")) IN
        /\ result.state = memory.state
        /\ result.total = memory.total
        /\ \A f \in ToSet(findings) \cup ToSet(memory.details) :
              Times(f, findings) = Times(f, memory.details)

\* "Canonical artifact with no source match: failure unless synthetic=true with
\* documented reason" (ingestion-parity.md): a match is an equal key.
ExtrasFail ==
    result # NoResult =>
      \A c \in ToSet(Rows("canonical")) :
         \/ Documented(c)
         \/ \E s \in ToSet(Rows("source")) : Key(s) = Key(c)
         \/ result.state # "PASS"

=============================================================================
