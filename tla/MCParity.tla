------------------------------ MODULE MCParity ------------------------------
(* The diff engines and the check run, explored side by side: the first     *)
(* state decides which of the two moves.                                    *)
EXTENDS MCParityDiff, ParityCheck

VARIABLE part   \* "diff" or "check"

MCFiles == <<"a", "b">>

MCInit == part \in {"diff", "check"} /\ Init /\ CheckInit

MCNext == \/ part = "diff" /\ Next /\ UNCHANGED <<cvars, part>>
          \/ part = "check" /\ CheckNext /\ UNCHANGED <<vars, part>>

MCSpec == MCInit /\ [][MCNext]_<<vars, cvars, part>>
=============================================================================
