-------------------------- MODULE SourceSupervisor --------------------------
(***************************************************************************)
(* The life of one source: its supervisor goroutine                        *)
(* (cmd/ai-viewer-ingest/source_supervisor.go), its repair goroutine, the  *)
(* tail it runs, the watchdog and the heartbeat writer that act on its     *)
(* durable state (internal/ingest/tail_liveness.go), and the debt of read  *)
(* models that scans, the all-sources rebuild and tail batches leave to    *)
(* it (read_model_repair*.go, worker.go, ingester.go).                     *)
(*                                                                         *)
(* `owed' is a ghost: rows of the source are missing from its read models. *)
(* `dropped' and `unmarked' record the two ways a repair request is lost:  *)
(* it is received while the repair goroutine is on its way out, or the     *)
(* failed rebuild cannot read the list of sources.                         *)
(***************************************************************************)
EXTENDS Naturals

CONSTANTS
    MaxBatches,   \* bound: committed batches that skip the read models
    MaxFaults,    \* bound: scan, tail, construction, rebuild and repair failures
    MaxRestarts,  \* bound: restarts of the daemon
    MaxTroubles   \* bound: the three together

ASSUME BoundsAssumption == {MaxBatches, MaxFaults, MaxRestarts, MaxTroubles} \subseteq Nat

VARIABLES
    sup,          \* where the supervisor goroutine is
    startup,      \* its scan is the startup scan
    life, rms,    \* durable: lifecycle_state, read_model_state
    deferral,     \* the source's read models are deferred
    scanDone,     \* this source has reported to the scan wait group
    scanActive,   \* Ingester.startupScanActive
    tail,         \* the adapter's Tail goroutine
    restartQ, repairQ,   \* the two channels of capacity one
    pending, rep, \* readModelRepairPending; where the repair goroutine is
    late, hbq,    \* heartbeat older than staleAfter; a persist request is queued
    wd,           \* where the watchdog is
    rebuild,      \* BackfillReadModels
    wake,         \* a committed batch has still to request a repair
    stop,         \* the adapters' context is cancelled
    owed, dropped, unmarked,
    batches, faults, restarts

supervision == <<sup, startup, scanDone, restartQ>>
repairing == <<pending, rep>>
tailing == <<tail, late, hbq, wd>>
world == <<rebuild, scanActive, wake, stop>>
debt == <<owed, dropped, unmarked>>
bounds == <<batches, faults, restarts>>
vars == <<sup, startup, life, rms, deferral, scanDone, scanActive, tail, restartQ,
          repairQ, pending, rep, late, hbq, wd, rebuild, wake, stop, owed, dropped,
          unmarked, batches, faults, restarts>>

Running == rep # "off"
Ended == sup \in {"drain", "ended"}
Registered == sup \notin {"start", "ended"}

Init ==
    /\ sup = "start" /\ startup = TRUE
    /\ life = "starting" /\ rms = "unknown"
    /\ deferral = FALSE /\ scanDone = FALSE /\ scanActive = TRUE
    /\ tail = "none" /\ restartQ = 0 /\ repairQ = 0
    /\ pending = FALSE /\ rep = "off"
    /\ late = FALSE /\ hbq = 0 /\ wd = "idle"
    /\ rebuild = "no" /\ wake = FALSE /\ stop = FALSE
    /\ owed = FALSE /\ dropped = FALSE /\ unmarked = FALSE
    /\ batches = 0 /\ faults = 0 /\ restarts = 0

MoreTrouble == batches + faults + restarts < MaxTroubles

Fault == faults < MaxFaults /\ MoreTrouble /\ faults' = faults + 1
NoFault == UNCHANGED faults

\* Failing record calls are retried until the context ends: a record happens,
\* or the context is cancelled and the supervisor gives up.
Record(state) == life' = state

\* recordStopped: a bounded attempt on a detached context.
RecordStopped == life' \in {"stopped", life}

------------------------------------------------------------------------------
(* Starting a source.                                                       *)

\* Unknown format, unreadable location, adapter that cannot be built, or an
\* ingester that has stopped: the source is skipped and its scan counted.
StartFails ==
    /\ sup = "start" /\ Fault
    /\ life' \in {"start_failed", "construct_failed"}
    /\ sup' = "ended" /\ scanDone' = TRUE
    /\ UNCHANGED <<startup, rms, deferral, restartQ, repairQ, repairing, tailing, world, debt, batches, restarts>>

\* Deferral is switched on before the source is submitted and its channels
\* are registered.
StartSource ==
    /\ sup = "start" /\ NoFault
    /\ deferral' = TRUE
    /\ Record("scanning") /\ sup' = "scan"
    /\ UNCHANGED <<startup, scanDone, rms, restartQ, repairQ, repairing, tailing, world, debt, batches, restarts>>

------------------------------------------------------------------------------
(* Scanning, the first time and after every restart of the tail.            *)

\* Plausible bug: the deferral is lifted and nothing is left to do.
ClearDeferralOnly ==
    /\ deferral' = FALSE
    /\ UNCHANGED <<pending, rms>>

\* clearReadModelDeferral: the first scan leaves a repair to do.
ClearDeferral ==
    /\ deferral' = FALSE
    /\ pending' = (pending \/ deferral)
    /\ rms' = IF deferral THEN "repair_pending" ELSE rms

ScanReturns ==
    /\ sup = "scan" /\ ~stop /\ NoFault
    /\ life' = IF startup THEN "scan_complete" ELSE life
    /\ ClearDeferral
    /\ scanDone' = TRUE /\ sup' = "tailstart"
    /\ UNCHANGED <<startup, restartQ, repairQ, rep, tailing, world, debt, batches, restarts>>

\* A failed first scan still tails; a failed catch-up scan restarts.
ScanFails ==
    /\ sup = "scan" /\ ~stop /\ Fault
    /\ IF startup
       THEN Record("scan_failed") /\ ClearDeferral /\ sup' = "tailstart"
       ELSE Record("tail_restarting") /\ sup' = "restart" /\ UNCHANGED <<deferral, pending, rms>>
    /\ scanDone' = TRUE
    /\ UNCHANGED <<startup, restartQ, repairQ, rep, tailing, world, debt, batches, restarts>>

\* Plausible bug: only the two handled outcomes report to the wait group.
ScanFailsFatallyQuietly ==
    /\ sup = "scan" /\ ~stop /\ Fault
    /\ Record("scan_failed")
    /\ sup' = "drain"
    /\ UNCHANGED <<startup, scanDone, rms, deferral, restartQ, repairQ, repairing, tailing, world, debt, batches, restarts>>

ScanFailsFatally ==
    /\ sup = "scan" /\ ~stop /\ Fault
    /\ Record("scan_failed")
    /\ sup' = "drain" /\ scanDone' = TRUE
    /\ UNCHANGED <<startup, rms, deferral, restartQ, repairQ, repairing, tailing, world, debt, batches, restarts>>

------------------------------------------------------------------------------
(* Tailing.                                                                 *)

\* Plausible bug: the running flag is not consulted.
MaybeStartRepairAlways(p) ==
    IF p THEN rep' = "check" /\ dropped' = FALSE ELSE rep' = rep /\ UNCHANGED dropped

\* startReadModelRepairIfPending.
MaybeStartRepair(p) ==
    IF p /\ ~Running
    THEN rep' = "check" /\ dropped' = FALSE
    ELSE rep' = rep /\ UNCHANGED dropped

\* tail_starting, then tailing with a fresh heartbeat, then the goroutine.
RunTail ==
    /\ sup = "tailstart" /\ ~stop
    /\ Record("tailing")
    /\ tail' = "alive" /\ late' = FALSE
    /\ startup' = FALSE /\ sup' = "tail"
    /\ MaybeStartRepair(pending)
    /\ UNCHANGED <<scanDone, rms, deferral, restartQ, repairQ, pending, hbq, wd, world, owed, unmarked, bounds>>

\* The adapter: it hangs, comes back, fails, panics or returns.
TailHangs ==
    /\ tail = "alive" /\ Fault
    /\ tail' = "hung"
    /\ UNCHANGED <<supervision, life, rms, deferral, repairQ, repairing, late, hbq, wd, world, debt, batches, restarts>>

TailResumes ==
    /\ tail = "hung" /\ tail' = "alive"
    /\ UNCHANGED <<supervision, life, rms, deferral, repairQ, repairing, late, hbq, wd, world, debt, bounds>>

TailFails ==
    /\ tail = "alive" /\ sup = "tail" /\ Fault
    /\ tail' \in {"returned", "errored"}
    /\ UNCHANGED <<supervision, life, rms, deferral, repairQ, repairing, late, hbq, wd, world, debt, batches, restarts>>

\* A cancelled adapter that is not hung returns; one the supervisor gave up
\* on may still do so.
TailObeys ==
    /\ tail = "alive" /\ (sup \in {"cancel", "drain", "ended"} \/ stop)
    /\ tail' = "errored"
    /\ UNCHANGED <<supervision, life, rms, deferral, repairQ, repairing, late, hbq, wd, world, debt, bounds>>

\* handleTailReturn: after a cancellation the source is stopped; a return
\* without error takes a queued restart request with it; anything else has
\* failed.  Failed and restarted tails are scanned again.
TailDone ==
    /\ sup = "tail" /\ tail \in {"returned", "errored"}
    /\ tail' = "none"
    /\ \/ /\ tail = "returned" /\ restartQ = 1
          /\ restartQ' = 0 /\ sup' = "restart" /\ UNCHANGED life
       \/ /\ ~(tail = "returned" /\ restartQ = 1) /\ UNCHANGED restartQ
          /\ IF stop THEN sup' = "drain" /\ RecordStopped
             ELSE sup' = "restart" /\ Record("tail_failed")
    /\ UNCHANGED <<startup, scanDone, rms, deferral, repairQ, repairing, late, hbq, wd, world, debt, bounds>>

\* A repair request of the select loop.  When the repair goroutine is past
\* its repair, the request it overwrites (or the goroutine it does not start)
\* is lost.
RepairRequested ==
    /\ sup = "tail" /\ repairQ = 1
    /\ repairQ' = 0 /\ pending' = TRUE
    /\ IF rep \in {"ready", "clear", "exit"}
       THEN dropped' = TRUE /\ UNCHANGED rep
       ELSE MaybeStartRepair(TRUE)
    /\ UNCHANGED <<supervision, life, rms, deferral, tailing, world, owed, unmarked, bounds>>

RestartRequested ==
    /\ sup = "tail" /\ restartQ = 1
    /\ restartQ' = 0 /\ sup' = "cancel"
    /\ UNCHANGED <<startup, scanDone, life, rms, deferral, repairQ, repairing, tailing, world, debt, bounds>>

StopRequested ==
    /\ sup = "tail" /\ stop
    /\ sup' = "cancel"
    /\ UNCHANGED <<startup, scanDone, restartQ, life, rms, deferral, repairQ, repairing, tailing, world, debt, bounds>>

\* waitTailReturn: the cancelled tail returns within the grace, or the source
\* is given up as failed.
CancelReturns ==
    /\ sup = "cancel" /\ tail \in {"returned", "errored"}
    /\ tail' = "none"
    /\ IF stop THEN sup' = "drain" /\ RecordStopped ELSE sup' = "restart" /\ UNCHANGED life
    /\ UNCHANGED <<startup, scanDone, restartQ, rms, deferral, repairQ, repairing, late, hbq, wd, world, debt, bounds>>

\* Plausible bug: the supervisor waits for its tail without a grace.
CancelTimesOutNever == FALSE /\ UNCHANGED vars

CancelTimesOut ==
    /\ sup = "cancel" /\ tail = "hung"
    /\ life' \in (IF stop THEN {"tail_failed", life} ELSE {"tail_failed"})
    /\ sup' = "drain"
    /\ UNCHANGED <<startup, scanDone, restartQ, rms, deferral, repairQ, repairing, tailing, world, debt, bounds>>

\* tail_restarting, a backoff, a new adapter (construction may fail and is
\* tried again) and its catch-up scan.
RestartTail ==
    /\ sup = "restart" /\ ~stop
    /\ Record("tail_restarting") /\ sup' = "backoff"
    /\ UNCHANGED <<startup, scanDone, restartQ, rms, deferral, repairQ, repairing, tailing, world, debt, bounds>>

BackoffEnds ==
    /\ sup = "backoff" /\ ~stop
    /\ \/ NoFault /\ sup' = "scan"
       \/ Fault /\ sup' = "restart"
    /\ UNCHANGED <<startup, scanDone, restartQ, life, rms, deferral, repairQ, repairing, tailing, world, debt, batches, restarts>>

\* Every wait and every record ends when the context is cancelled.
GiveUp ==
    /\ stop /\ sup \in {"start", "scan", "tailstart", "restart", "backoff"}
    /\ RecordStopped
    /\ sup' = "drain" /\ scanDone' = TRUE
    /\ UNCHANGED <<startup, restartQ, rms, deferral, repairQ, repairing, tailing, world, debt, bounds>>

\* run waits for the repair goroutine before it unregisters and returns.
Return ==
    /\ sup = "drain" /\ ~Running
    /\ sup' = "ended"
    /\ UNCHANGED <<startup, scanDone, restartQ, life, rms, deferral, repairQ, repairing, tailing, world, debt, bounds>>

------------------------------------------------------------------------------
(* The repair goroutine.                                                    *)

RepairCheck ==
    /\ rep = "check"
    /\ \/ /\ ~pending \/ stop
          /\ rep' = "exit" /\ UNCHANGED rms
       \/ /\ pending /\ ~stop /\ ~scanActive
          /\ rep' = "marked" /\ rms' = "repairing"
    /\ UNCHANGED <<supervision, life, deferral, repairQ, pending, tailing, world, debt, bounds>>

\* RepairSourceReadModels holds backfillMu, so it never overlaps the rebuild.
RepairBegins ==
    /\ rep = "marked" /\ rebuild # "active"
    /\ rep' = "locked"
    /\ UNCHANGED <<supervision, life, rms, deferral, repairQ, pending, tailing, world, debt, bounds>>

RepairSucceeds ==
    /\ rep = "locked"
    /\ rep' = "ready" /\ owed' = FALSE
    /\ UNCHANGED <<supervision, life, rms, deferral, repairQ, pending, tailing, world, dropped, unmarked, bounds>>

RepairFails ==
    /\ rep = "locked"
    /\ \/ /\ stop /\ NoFault
          /\ rms' \in {"repair_pending", rms} /\ rep' = "exit"
       \/ /\ ~stop /\ Fault
          /\ rms' \in {"repair_failed", "repair_timeout"} /\ rep' = "check"
    /\ UNCHANGED <<supervision, life, deferral, repairQ, pending, tailing, world, debt, batches, restarts>>

RepairRecordsReady ==
    /\ rep = "ready"
    /\ \/ rms' = "ready" /\ rep' = "clear"
       \/ stop /\ rep' = "check" /\ UNCHANGED rms
    /\ UNCHANGED <<supervision, life, deferral, repairQ, pending, tailing, world, debt, bounds>>

RepairClears ==
    /\ rep = "clear"
    /\ pending' = FALSE /\ rep' = "exit"
    /\ UNCHANGED <<supervision, life, rms, deferral, repairQ, tailing, world, debt, bounds>>

RepairExits ==
    /\ rep = "exit" /\ rep' = "off"
    /\ UNCHANGED <<supervision, life, rms, deferral, repairQ, pending, tailing, world, debt, bounds>>

------------------------------------------------------------------------------
(* Heartbeats and the watchdog.                                             *)

Heartbeat ==
    /\ tail = "alive" /\ (late \/ hbq = 0)
    /\ late' = FALSE /\ hbq' = 1
    /\ UNCHANGED <<supervision, life, rms, deferral, repairQ, repairing, tail, wd, world, debt, bounds>>

HeartbeatAges ==
    /\ ~late /\ life = "tailing"
    /\ late' = TRUE
    /\ UNCHANGED <<supervision, life, rms, deferral, repairQ, repairing, tail, hbq, wd, world, debt, bounds>>

\* Only a stale tail is flipped back.
PersistHeartbeat ==
    /\ hbq = 1 /\ hbq' = 0
    /\ life' = IF life = "tail_stale" THEN "tailing" ELSE life
    /\ UNCHANGED <<supervision, rms, deferral, repairQ, repairing, tail, late, wd, world, debt, bounds>>

CheckTailStaleness ==
    /\ wd = "idle" /\ life = "tailing" /\ late
    /\ wd' = "mark"
    /\ UNCHANGED <<supervision, life, rms, deferral, repairQ, repairing, tail, late, hbq, world, debt, bounds>>

MarkTailStale ==
    /\ wd = "mark" /\ wd' = "enqueue"
    /\ life' = IF life = "tailing" THEN "tail_stale" ELSE life
    /\ UNCHANGED <<supervision, rms, deferral, repairQ, repairing, tail, late, hbq, world, debt, bounds>>

\* Plausible bug: a live heartbeat seen after the mark cancels the restart.
EnqueueTailRestartIfLate ==
    /\ wd = "enqueue" /\ wd' = "idle"
    /\ restartQ' = IF Registered /\ late THEN 1 ELSE restartQ
    /\ UNCHANGED <<sup, startup, scanDone, life, rms, deferral, repairQ, repairing, tail, late, hbq, world, debt, bounds>>

EnqueueTailRestart ==
    /\ wd = "enqueue" /\ wd' = "idle"
    /\ restartQ' = IF Registered THEN 1 ELSE restartQ
    /\ UNCHANGED <<sup, startup, scanDone, life, rms, deferral, repairQ, repairing, tail, late, hbq, world, debt, bounds>>

------------------------------------------------------------------------------
(* Debt: batches that skip the read models, and the all-sources rebuild.    *)

\* The mark is part of the batch; the request follows the commit, and only
\* when the mark changed the state.
Batch ==
    /\ batches < MaxBatches /\ MoreTrouble /\ sup \notin {"start", "ended"}
    /\ deferral \/ rebuild = "active"
    /\ batches' = batches + 1
    /\ owed' = TRUE
    /\ rms' = "repair_pending" /\ wake' = (wake \/ rms # "repair_pending")
    /\ UNCHANGED <<supervision, life, deferral, repairQ, repairing, tailing, rebuild, scanActive, stop, dropped, unmarked, faults, restarts>>

RequestRepair ==
    /\ wake /\ wake' = FALSE
    /\ repairQ' = IF Registered THEN 1 ELSE repairQ
    /\ UNCHANGED <<supervision, life, rms, deferral, repairing, tailing, rebuild, scanActive, stop, debt, bounds>>

ScanGateOpens ==
    /\ scanDone /\ scanActive
    /\ scanActive' = FALSE
    /\ UNCHANGED <<supervision, life, rms, deferral, repairQ, repairing, tailing, rebuild, wake, stop, debt, bounds>>

RebuildBegins ==
    /\ scanDone /\ rebuild = "no" /\ ~stop /\ rep # "locked"
    /\ rebuild' = "active"
    /\ UNCHANGED <<supervision, life, rms, deferral, repairQ, repairing, tailing, scanActive, wake, stop, debt, bounds>>

RebuildSucceeds ==
    /\ rebuild = "active" /\ rebuild' = "done"
    /\ UNCHANGED <<supervision, life, rms, deferral, repairQ, repairing, tailing, scanActive, wake, stop, debt, bounds>>

\* The rebuild had truncated the read models.  failBackfillReadModels marks
\* and wakes every source; when marking fails it still wakes them; when the
\* list of sources cannot be read it does neither.
RebuildFails ==
    /\ rebuild = "active" /\ rebuild' = "done" /\ Fault
    /\ owed' = TRUE
    /\ \/ /\ rms' = "repair_pending"
          /\ repairQ' = IF Registered THEN 1 ELSE repairQ
          /\ UNCHANGED unmarked
       \/ /\ repairQ' = IF Registered THEN 1 ELSE repairQ
          /\ UNCHANGED <<rms, unmarked>>
       \/ unmarked' = TRUE /\ UNCHANGED <<rms, repairQ>>
    /\ UNCHANGED <<supervision, life, deferral, repairing, tailing, scanActive, wake, stop, dropped, batches, restarts>>

CancelAdapters ==
    /\ ~stop /\ stop' = TRUE
    /\ UNCHANGED <<supervision, life, rms, deferral, repairQ, repairing, tailing, rebuild, scanActive, wake, debt, bounds>>

\* A crash, or a new start: ReconcileSourceLifecycles repairs the residue.
Restart ==
    /\ restarts < MaxRestarts /\ MoreTrouble /\ restarts' = restarts + 1
    /\ sup' = "start" /\ startup' = TRUE /\ life' = "starting"
    /\ rms' = IF rms = "repairing" THEN "repair_pending" ELSE rms
    /\ deferral' = FALSE /\ scanDone' = FALSE /\ scanActive' = TRUE
    /\ tail' = "none" /\ restartQ' = 0 /\ repairQ' = 0 /\ pending' = FALSE /\ rep' = "off"
    /\ late' = FALSE /\ hbq' = 0 /\ wd' = "idle" /\ rebuild' = "no" /\ wake' = FALSE
    /\ stop' = FALSE /\ dropped' = FALSE /\ unmarked' = FALSE
    /\ UNCHANGED <<owed, batches, faults>>

SupervisorStep ==
    \/ StartSource \/ ScanReturns \/ RunTail \/ TailDone \/ RepairRequested
    \/ RestartRequested \/ StopRequested \/ CancelReturns \/ CancelTimesOut
    \/ RestartTail \/ BackoffEnds \/ GiveUp \/ Return

RepairStep ==
    \/ RepairCheck \/ RepairBegins \/ RepairSucceeds \/ RepairRecordsReady
    \/ RepairClears \/ RepairExits

WatchdogStep == CheckTailStaleness \/ MarkTailStale \/ EnqueueTailRestart

Next ==
    \/ SupervisorStep \/ RepairStep \/ WatchdogStep \/ RepairFails
    \/ StartFails \/ ScanFails \/ ScanFailsFatally
    \/ TailHangs \/ TailResumes \/ TailFails \/ TailObeys
    \/ Heartbeat \/ HeartbeatAges \/ PersistHeartbeat
    \/ Batch \/ RequestRepair \/ ScanGateOpens
    \/ RebuildBegins \/ RebuildSucceeds \/ RebuildFails
    \/ CancelAdapters \/ Restart

\* The goroutines of the daemon and its timers run; scans, rebuilds and
\* transactions end; an adapter that is not hung obeys a cancellation.
Fairness ==
    /\ WF_vars(SupervisorStep) /\ WF_vars(RepairStep) /\ WF_vars(WatchdogStep)
    /\ SF_vars(RepairRequested) /\ SF_vars(RestartRequested)
    /\ WF_vars(HeartbeatAges) /\ WF_vars(TailObeys) /\ WF_vars(RequestRepair)
    /\ WF_vars(ScanGateOpens) /\ WF_vars(RebuildSucceeds)

Safety == Init /\ [][Next]_vars
Spec == Safety /\ Fairness

------------------------------------------------------------------------------
(* Properties.                                                              *)

\* The columns hold states of source_lifecycle.go, the channels at most one
\* request, and the repair goroutine runs only while its supervisor does.
TypeOK ==
    /\ sup \in {"start", "scan", "tailstart", "tail", "cancel", "restart", "backoff", "drain", "ended"}
    /\ life \in {"starting", "scanning", "scan_complete", "scan_failed", "start_failed", "construct_failed",
                 "tailing", "tail_stale", "tail_failed", "tail_restarting", "stopped"}
    /\ rms \in {"unknown", "repair_pending", "repairing", "repair_failed", "repair_timeout", "ready"}
    /\ tail \in {"none", "alive", "hung", "returned", "errored"}
    /\ {restartQ, repairQ, hbq} \subseteq 0 .. 1
    /\ rep \in {"off", "check", "marked", "locked", "ready", "clear", "exit"}
    /\ wd \in {"idle", "mark", "enqueue"} /\ rebuild \in {"no", "active", "done"}
    /\ {startup, deferral, scanDone, scanActive, pending, late, wake, stop, owed, dropped, unmarked} \subseteq BOOLEAN
    /\ Running => sup \notin {"start", "ended"}

\* Rows missing from the read models of a live source always have someone who
\* will add them: the deferral of a scan, a request on its way, a pending flag
\* the repair goroutine (or the next tail) will still look at.  The two ways
\* the code loses a request are recorded in dropped and unmarked.
RepairNeverForgotten ==
    owed /\ ~stop /\ ~dropped /\ ~unmarked /\ ~Ended =>
        \/ sup = "start" \/ deferral \/ wake \/ repairQ = 1
        \/ pending /\ rep \in {"check", "marked", "locked"}
        \/ pending /\ rep \in {"off", "exit"} /\ sup # "tail"

\* A tail shown as stale is being dealt with: the watchdog has its restart to
\* send, the request is queued, or the supervisor has left that tail.
StaleIsHandled ==
    life = "tail_stale" /\ ~stop => wd = "enqueue" \/ restartQ = 1 \/ sup # "tail"

\* Every source, failed ones included, reports its scan: the wait group that
\* holds back repairs, backfill and discovery opens.
ScanGateOpensEventually == []<>~scanActive

\* After the adapters are cancelled the supervisor returns, whatever its tail
\* and its repair are doing.
StopEnds == stop ~> (sup = "ended" \/ ~stop)

\* Debt is repaid unless its source ends or the request was lost.
DebtIsRepaid == owed ~> (~owed \/ Ended \/ dropped \/ unmarked)
==============================================================================
