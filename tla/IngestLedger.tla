----------------------------- MODULE IngestLedger -----------------------------
(***************************************************************************)
(* What ingestion promises for the events of each source, whatever goes on *)
(* between its adapter and the database: they are settled in order, none   *)
(* is skipped, a checkpoint only covers settled events, and a restart      *)
(* repeats events from the checkpoint on.                                  *)
(***************************************************************************)
EXTENDS Naturals

CONSTANT Sources

VARIABLES frontier,  \* per source: every event up to here is settled
          cursor,    \* per source: the checkpoint a restart resumes after
          written,   \* <<source, position>> committed
          dropped    \* <<source, position>> given up

ledger == <<frontier, cursor, written, dropped>>

Init == /\ frontier = [s \in Sources |-> 0] /\ cursor = [s \in Sources |-> 0]
        /\ written = {} /\ dropped = {}

\* The events a step settles.
Advance == UNION {{s} \X (frontier[s] + 1 .. frontier'[s]) : s \in Sources}
Forward == \A s \in Sources : frontier[s] <= frontier'[s]

\* One transaction: the next events of some sources, and checkpoints within
\* what is settled then.
Commit == /\ Forward
          /\ written' = written \cup Advance
          /\ \A s \in Sources : cursor[s] <= cursor'[s] /\ cursor'[s] <= frontier'[s]
          /\ UNCHANGED dropped

\* The next events of some sources are given up; checkpoints stay.
Drop == /\ Forward
        /\ dropped' = dropped \cup Advance
        /\ UNCHANGED <<cursor, written>>

Restart == /\ frontier' = cursor
           /\ UNCHANGED <<cursor, written, dropped>>

Next == Commit \/ Drop \/ Restart

Spec == Init /\ [][Next]_ledger
==============================================================================
