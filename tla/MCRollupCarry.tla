--------------------------- MODULE MCRollupCarry ---------------------------
(***************************************************************************)
(* Small instances of RollupCarry: one source s1 with a session x1 and an  *)
(* op o1 of it.                                                            *)
(***************************************************************************)
EXTENDS RollupCarry

CONSTANTS s1, x1, o1

MCSourceOf == [x \in Sessions |-> s1]
MCSessionOf == [o \in Ops |-> x1]

\* Content changes of sessions and ops are explored within the first day, starts
\* over the whole calendar.
Budget == clock < MaxClock \/ \A i \in Items : tx.ver[i] = 0 /\ db.ver[i] = 0
MCSpec == Init /\ [][Next /\ Budget']_vars
============================================================================
