------------------------ MODULE MCSourceSupervisor ------------------------
(***************************************************************************)
(* The supervisor of one source, with failures, a hung tail, a rebuild and *)
(* a restart; and, in behaviours of their own, the passes over the read    *)
(* models that the supervisor's repairs and the daemon's rebuild make.     *)
(***************************************************************************)
EXTENDS SourceSupervisor, SearchIndex

VARIABLE part   \* "supervisor" or "index"

\* Three ops in two sessions and two buckets; by id the second comes first.
ThreeAndTwo == [t \in Tables |-> IF t = "ops" THEN 3 ELSE 2]
LaterFirst == <<2, 1, 3>>
Homes == [t \in Tables |-> IF t = "ops" THEN <<1, 2, 1>> ELSE <<1, 1>>]
Hours == <<1, 2, 2>>

RepairInit == Init /\ IndexInit /\ part \in {"supervisor", "index"}
RepairNext == \/ part = "supervisor" /\ Next /\ UNCHANGED <<ivars, part>>
              \/ part = "index" /\ IndexNext /\ UNCHANGED <<vars, part>>
RepairSafety == RepairInit /\ [][RepairNext]_<<vars, ivars, part>>
==============================================================================
