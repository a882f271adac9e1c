------------------------------- MODULE MCTails -------------------------------
(* The two tails side by side: a behaviour is one of either. *)
EXTENDS CodexTail, ClaudeTail

VARIABLE which

Placement == [f \in Files |-> "day"]
OnlyDay == {"day"}

TailsInit == Init /\ CInit /\ which \in {"codex", "claude"}
TailsNext == \/ which = "codex" /\ Next /\ UNCHANGED <<cvars, which>>
             \/ which = "claude" /\ CNext /\ UNCHANGED <<tvars, which>>
TailsSpec == TailsInit /\ [][TailsNext]_<<tvars, cvars, which>>

=============================================================================
