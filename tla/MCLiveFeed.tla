------------------------------ MODULE MCLiveFeed ------------------------------
(***************************************************************************)
(* Small instances of LiveFeed.                                            *)
(***************************************************************************)
EXTENDS LiveFeed

CONSTANTS p1, p2, a, st, src

\* Every page watches everything.
Everything == [s \in Subs |-> Keys]
==============================================================================
