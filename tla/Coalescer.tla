------------------------------ MODULE Coalescer ------------------------------
(***************************************************************************)
(* The write path of ai-viewer-ingest: one channel per source, one merger  *)
(* goroutine per source that forwards into the merged channel, and the     *)
(* single coalescer goroutine that batches across sources and flushes each *)
(* batch in one transaction, through one persistent writer per source.     *)
(*                                                                         *)
(* An event is its position in its source's stream.  A stream holds three  *)
(* kinds of events: "session" writes the row of a parent, "op" needs that  *)
(* row and inserts a stub of it if its cache does not know it, "progress"  *)
(* carries the cursor an adapter resumes after.  A parent stands for a     *)
(* session and its turn: rows that dependent rows reference.               *)
(***************************************************************************)
EXTENDS Integers, Sequences

CONSTANTS Sources,          \* the configured sources
          Parents,          \* parent rows a source's events may refer to
          Streams,          \* the streams to consider: a set of [Sources -> Seq(Event)]
          ChanCap,          \* adapterEventChanSize, 1024 in the code
          MergedCap,        \* capacity of coalescer.merged, 4096 in the code
          BatchSize,        \* coalescer.batchSize
          FlushMaxRetries,  \* flushMaxRetries, 3 in the code
          MaxFailures,      \* bound: environment failures of a transaction
          MaxRestarts       \* bound: restarts of the daemon

Event == [kind : {"session", "op", "progress"}, parent : Parents]

ASSUME ConstantsAssumption ==
    /\ Streams \subseteq [Sources -> Seq(Event)] /\ Streams # {}
    /\ ChanCap \in Nat \ {0} /\ MergedCap \in Nat \ {0} /\ BatchSize \in Nat \ {0}
    /\ FlushMaxRetries \in Nat /\ MaxFailures \in Nat /\ MaxRestarts \in Nat

VARIABLES stream,     \* what each source's files hold
          sent,       \* position of the last event its adapter has sent
          base,       \* the cursor its adapter resumed from in this life
          chan,       \* the source's event channel
          closed,     \* the source goroutine has closed it
          hand,       \* the event its merger holds, 0 for none
          mode,       \* the merger: "recv", "drain" (after stop), "done"
          merged,     \* coalescer.merged: <<source, position>>
          batch,      \* the coalescer's batch
          co,         \* where the coalescer goroutine is
          reason,     \* of the flush it is in
          attempt,    \* of the flush it is in
          timer,      \* the flush timer is armed
          ctxDone,    \* the run context is cancelled
          stop,       \* coalescer.stop is closed
          writer,     \* per source: the batch state of its writer
          rows,       \* committed parent rows, <<source, parent>>
          written,    \* <<source, position>> whose writes are committed
          cursor,     \* committed source_progress.cursor
          dropped,    \* <<source, position>> of batches dropped after all retries
          reported,   \* sources whose worker was told of a dropped batch
          failures, restarts  \* spent of the two bounds

pipeVars == <<stream, sent, base, chan, closed, hand, mode>>
flushVars == <<co, reason, attempt, timer>>
dbVars == <<rows, written, cursor>>
histVars == <<dropped, reported, failures, restarts>>
vars == <<pipeVars, merged, batch, flushVars, ctxDone, stop, writer, dbVars, histVars>>

-----------------------------------------------------------------------------
NoBatch == [cursor |-> 0, cached |-> {}, affected |-> {}, carry |-> FALSE]

Init ==
    /\ stream \in Streams
    /\ sent = [s \in Sources |-> 0] /\ base = [s \in Sources |-> 0]
    /\ chan = [s \in Sources |-> <<>>] /\ closed = [s \in Sources |-> FALSE]
    /\ hand = [s \in Sources |-> 0] /\ mode = [s \in Sources |-> "recv"]
    /\ merged = <<>> /\ batch = <<>>
    /\ co = "loop" /\ reason = "size" /\ attempt = 0 /\ timer = FALSE
    /\ ctxDone = FALSE /\ stop = FALSE
    /\ writer = [s \in Sources |-> NoBatch]
    /\ rows = {} /\ written = {} /\ cursor = [s \in Sources |-> 0]
    /\ dropped = {} /\ reported = {}
    /\ failures = 0 /\ restarts = 0

-----------------------------------------------------------------------------
(***************************************************************************)
(* Adapters and mergers.                                                   *)
(***************************************************************************)
\* The adapter sends the next event of its source.
AdapterSend(s) ==
    /\ ~closed[s] /\ sent[s] < Len(stream[s]) /\ Len(chan[s]) < ChanCap
    /\ sent' = [sent EXCEPT ![s] = @ + 1]
    /\ chan' = [chan EXCEPT ![s] = Append(@, sent[s] + 1)]
    /\ UNCHANGED <<stream, base, closed, hand, mode, merged, batch, flushVars, ctxDone, stop,
                   writer, dbVars, histVars>>

\* The source goroutine ends after a cancellation and closes its channel.
AdapterClose(s) ==
    /\ ctxDone /\ ~closed[s]
    /\ closed' = [closed EXCEPT ![s] = TRUE]
    /\ UNCHANGED <<stream, sent, base, chan, hand, mode, merged, batch, flushVars, ctxDone, stop,
                   writer, dbVars, histVars>>

\* The merger takes an event, in its loop or while it drains after stop.
MergerRecv(s) ==
    /\ mode[s] # "done" /\ hand[s] = 0 /\ chan[s] # <<>>
    /\ hand' = [hand EXCEPT ![s] = Head(chan[s])]
    /\ chan' = [chan EXCEPT ![s] = Tail(@)]
    /\ UNCHANGED <<stream, sent, base, closed, mode, merged, batch, flushVars, ctxDone, stop,
                   writer, dbVars, histVars>>

\* Mutant: the event in hand is lost when stop is closed while it waits.
MergerForwardLossy(s) ==
    /\ hand[s] # 0
    /\ \/ Len(merged) < MergedCap /\ merged' = Append(merged, <<s, hand[s]>>) /\ mode' = mode
       \/ stop /\ merged' = merged /\ mode' = [mode EXCEPT ![s] = "done"]
    /\ hand' = [hand EXCEPT ![s] = 0]
    /\ UNCHANGED <<stream, sent, base, chan, closed, batch, flushVars, ctxDone, stop,
                   writer, dbVars, histVars>>

\* It forwards the event, waiting for room however long that takes; with stop
\* closed the select may take either branch and go on draining.
MergerForward(s) ==
    /\ hand[s] # 0 /\ Len(merged) < MergedCap
    /\ merged' = Append(merged, <<s, hand[s]>>)
    /\ hand' = [hand EXCEPT ![s] = 0]
    /\ \E m \in (IF stop THEN {mode[s], "drain"} ELSE {mode[s]}) : mode' = [mode EXCEPT ![s] = m]
    /\ UNCHANGED <<stream, sent, base, chan, closed, batch, flushVars, ctxDone, stop,
                   writer, dbVars, histVars>>

\* It sees stop while it waits for an event.
MergerStop(s) ==
    /\ mode[s] = "recv" /\ hand[s] = 0 /\ stop
    /\ mode' = [mode EXCEPT ![s] = "drain"]
    /\ UNCHANGED <<stream, sent, base, chan, closed, hand, merged, batch, flushVars, ctxDone, stop,
                   writer, dbVars, histVars>>

\* Mutant: the drain waits for the channel to be closed.
MergerExitWaiting(s) ==
    /\ mode[s] # "done" /\ hand[s] = 0 /\ chan[s] = <<>> /\ closed[s]
    /\ mode' = [mode EXCEPT ![s] = "done"]
    /\ UNCHANGED <<stream, sent, base, chan, closed, hand, merged, batch, flushVars, ctxDone, stop,
                   writer, dbVars, histVars>>

\* It finds its channel closed, or empty while it drains, and exits.
MergerExit(s) ==
    /\ mode[s] # "done" /\ hand[s] = 0 /\ chan[s] = <<>>
    /\ closed[s] \/ mode[s] = "drain"
    /\ mode' = [mode EXCEPT ![s] = "done"]
    /\ UNCHANGED <<stream, sent, base, chan, closed, hand, merged, batch, flushVars, ctxDone, stop,
                   writer, dbVars, histVars>>

-----------------------------------------------------------------------------
(***************************************************************************)
(* What flushBatch does inside its transaction, step by step: the events   *)
(* of each source in the order the sources were first seen, and after each *)
(* source its end step (aggregates, source_progress, notify rows).         *)
(***************************************************************************)
EndStep == 0

SourcesIn(b) == {b[k][1] : k \in 1 .. Len(b)}
EventsIn(b) == {b[k] : k \in 1 .. Len(b)}

\* The positions of source s in a queue of tagged events, and in the first k.
PosUpTo(q, s) ==
    LET pos[k \in 0 .. Len(q)] ==
            IF k = 0 THEN <<>>
            ELSE IF q[k][1] = s THEN Append(pos[k - 1], q[k][2]) ELSE pos[k - 1]
    IN  pos
PosIn(q, s) == PosUpTo(q, s)[Len(q)]

\* The k-th event of the batch is the first of its source.
FirstSeen(b, k) == \A j \in 1 .. k - 1 : b[j][1] # b[k][1]

\* All a source has in the batch, and its end step.
SourceRun(b, s) == LET run == Append(PosIn(b, s), EndStep)
                   IN  [k \in 1 .. Len(run) |-> <<s, run[k]>>]

StepsUpTo(b) ==
    LET steps[k \in 0 .. Len(b)] ==
            IF k = 0 THEN <<>>
            ELSE IF FirstSeen(b, k) THEN steps[k - 1] \o SourceRun(b, b[k][1]) ELSE steps[k - 1]
    IN  steps
Steps(b) == StepsUpTo(b)[Len(b)]

\* What the open transaction sees, and the writers it works through.
TxStart == [rows |-> rows, written |-> written, cursor |-> cursor, writer |-> writer, err |-> "none"]

Touch(w, p) == [w EXCEPT !.affected = @ \cup {p}, !.carry = TRUE]

\* applySessionStarted: upserts the row whatever the caches say.
ApplySession(tx, s, n, p) ==
    [tx EXCEPT !.rows = @ \cup {<<s, p>>}, !.written = @ \cup {<<s, n>>},
               !.writer[s] = Touch(@, p)]

\* applyOpStarted: requireSessionID and opStartedIdentity insert the parent
\* rows only if the batch caches do not hold them; the op's foreign keys fail
\* if they are missing all the same.
ApplyOp(tx, s, n, p) ==
    LET known == p \in tx.writer[s].cached
        parents == IF known THEN tx.rows ELSE tx.rows \cup {<<s, p>>}
        w == Touch(tx.writer[s], p)
    IN  IF <<s, p>> \notin parents
        THEN [tx EXCEPT !.err = "fk"]
        ELSE [tx EXCEPT !.rows = parents, !.written = @ \cup {<<s, n>>},
                        !.writer[s] = [w EXCEPT !.cached = @ \cup {p}]]

\* applySourceProgress: the cursor is kept for the end of the source's batch.
ApplyProgress(tx, s, n) ==
    [tx EXCEPT !.written = @ \cup {<<s, n>>}, !.writer[s].cursor = n]

\* upsertSourceProgress, then emitSessionChangedNotify, which looks up every
\* affected session and fails on one that has no row.
ApplyEnd(tx, s) ==
    IF \E p \in tx.writer[s].affected : <<s, p>> \notin tx.rows
    THEN [tx EXCEPT !.err = "notify"]
    ELSE [tx EXCEPT !.cursor[s] = IF tx.writer[s].cursor = 0 THEN @ ELSE tx.writer[s].cursor]

ApplyStep(tx, step) ==
    LET s == step[1]
        n == step[2]
    IN  CASE tx.err # "none" -> tx
          [] tx.err = "none" /\ n = EndStep -> ApplyEnd(tx, s)
          [] tx.err = "none" /\ n # EndStep ->
               LET e == stream[s][n]
               IN  CASE e.kind = "session"  -> ApplySession(tx, s, n, e.parent)
                     [] e.kind = "op"       -> ApplyOp(tx, s, n, e.parent)
                     [] e.kind = "progress" -> ApplyProgress(tx, s, n)

\* The transaction after each number of steps of the batch.
Transaction(b) ==
    LET tx[k \in 0 .. Len(Steps(b))] ==
            IF k = 0 THEN TxStart ELSE ApplyStep(tx[k - 1], Steps(b)[k])
    IN  tx
TxAfter(b, k) == Transaction(b)[k]
TxAfterAll(b) == TxAfter(b, Len(Steps(b)))

\* The commit: rows become durable; each applied source's writer is promoted
\* and reset.  Whether buckets stay carried depends on the hour.
CommitBatch(b) ==
    LET tx == TxAfterAll(b)
    IN  /\ tx.err = "none"
        /\ rows' = tx.rows /\ written' = tx.written /\ cursor' = tx.cursor
        /\ \E open \in SUBSET {s \in SourcesIn(b) : tx.writer[s].carry} :
              writer' = [s \in Sources |->
                           IF s \in SourcesIn(b) THEN [NoBatch EXCEPT !.carry = s \in open]
                           ELSE writer[s]]

\* Mutant: source_progress is written outside the batch's transaction.
FailAttemptProgressed(b) ==
    /\ failures < MaxFailures
    /\ writer' = TxAfterAll(b).writer /\ failures' = failures + 1
    /\ cursor' = TxAfterAll(b).cursor
    /\ UNCHANGED <<rows, written>>

\* An attempt fails: on its own error, or on one of the environment's (begin,
\* statement, commit) after k steps.  The rows are rolled back; what the steps
\* did to the writers stays.
FailAttempt(b) ==
    /\ \/ /\ TxAfterAll(b).err # "none"
          /\ writer' = TxAfterAll(b).writer
          /\ failures' = failures
       \/ /\ failures < MaxFailures
          /\ \E k \in 0 .. Len(Steps(b)) :
                /\ TxAfter(b, k).err = "none"
                /\ writer' = TxAfter(b, k).writer
          /\ failures' = failures + 1
    /\ UNCHANGED dbVars

-----------------------------------------------------------------------------
(***************************************************************************)
(* The coalescer goroutine.                                                *)
(***************************************************************************)
\* Mutant: the first event of a batch does not arm the timer.
CoReceiveUnarmed ==
    /\ co = "loop" /\ merged # <<>>
    /\ batch' = Append(batch, Head(merged)) /\ merged' = Tail(merged)
    /\ IF Len(batch') >= BatchSize
       THEN co' = "flush" /\ reason' = "size" /\ attempt' = 0
       ELSE UNCHANGED <<co, reason, attempt>>
    /\ UNCHANGED <<pipeVars, timer, ctxDone, stop, writer, dbVars, histVars>>

\* A received event; a full batch is flushed, a first one arms the timer.
CoReceive ==
    /\ co = "loop" /\ merged # <<>>
    /\ batch' = Append(batch, Head(merged)) /\ merged' = Tail(merged)
    /\ IF Len(batch') >= BatchSize
       THEN co' = "flush" /\ reason' = "size" /\ attempt' = 0 /\ timer' = timer
       ELSE /\ timer' = (timer \/ Len(batch') = 1)
            /\ UNCHANGED <<co, reason, attempt>>
    /\ UNCHANGED <<pipeVars, ctxDone, stop, writer, dbVars, histVars>>

\* The timer fires: flush what there is, then look at the idle rollups.
CoTimer ==
    /\ co = "loop" /\ timer
    /\ timer' = FALSE
    /\ IF batch = <<>>
       THEN co' = "tick" /\ UNCHANGED <<reason, attempt>>
       ELSE co' = "flush" /\ reason' = "interval" /\ attempt' = 0
    /\ UNCHANGED <<pipeVars, merged, batch, ctxDone, stop, writer, dbVars, histVars>>

\* Where the flush closure returns to.
EndFlush ==
    /\ co' = IF reason = "size" THEN "loop" ELSE "tick"
    /\ timer' = FALSE
    /\ UNCHANGED <<reason, attempt>>

FlushCommit ==
    /\ co = "flush" /\ ~ctxDone
    /\ CommitBatch(batch)
    /\ batch' = <<>> /\ EndFlush
    /\ UNCHANGED <<pipeVars, merged, ctxDone, stop, histVars>>

\* No attempt is left after this one.
Exhausted == attempt = FlushMaxRetries

\* A failed attempt that will be repeated after a pause.
FlushRetry ==
    /\ co = "flush" /\ ~ctxDone /\ ~Exhausted
    /\ FailAttempt(batch)
    /\ attempt' = attempt + 1
    /\ UNCHANGED <<pipeVars, merged, batch, co, reason, timer, ctxDone, stop,
                   dropped, reported, restarts>>

\* The last attempt fails: the batch is dropped and the worker of its first
\* event's source is told.
FlushDrop ==
    /\ co = "flush" /\ ~ctxDone /\ Exhausted
    /\ FailAttempt(batch)
    /\ dropped' = dropped \cup EventsIn(batch)
    /\ reported' = reported \cup {batch[1][1]}
    /\ batch' = <<>> /\ EndFlush
    /\ UNCHANGED <<pipeVars, merged, ctxDone, stop, restarts>>

\* Mutant: a flush cut off by the cancellation empties its batch.
FlushSuppressedClearing ==
    /\ co = "flush" /\ ctxDone
    /\ batch' = <<>> /\ EndFlush
    /\ UNCHANGED <<pipeVars, merged, ctxDone, stop, writer, dbVars, histVars>>

\* The context is done: the attempt cannot begin its transaction or is cut off
\* after k steps, and the flush returns with the batch kept.
FlushSuppressed ==
    /\ co = "flush" /\ ctxDone
    /\ \E k \in 0 .. Len(Steps(batch)) : /\ TxAfter(batch, k).err = "none"
                                         /\ writer' = TxAfter(batch, k).writer
    /\ EndFlush
    /\ UNCHANGED <<pipeVars, merged, batch, ctxDone, stop, dbVars, histVars>>

\* The idle rollup pass resets every writer with carried buckets, some of
\* which may materialise (none once the context is done), and re-arms the
\* timer while any is left.
CoTick ==
    /\ co = "tick"
    /\ \E open \in SUBSET {s \in Sources : writer[s].carry} :
          /\ ctxDone => open = {s \in Sources : writer[s].carry}
          /\ writer' = [s \in Sources |-> IF writer[s].carry THEN [NoBatch EXCEPT !.carry = s \in open]
                                          ELSE writer[s]]
    /\ timer' = (\E s \in Sources : writer'[s].carry)
    /\ co' = "loop"
    /\ UNCHANGED <<pipeVars, merged, batch, reason, attempt, ctxDone, stop, dbVars, histVars>>

\* Ingester.StopContext cancels the run context.
Cancel ==
    /\ ~ctxDone
    /\ ctxDone' = TRUE
    /\ UNCHANGED <<pipeVars, merged, batch, flushVars, stop, writer, dbVars, histVars>>

\* The loop sees the cancellation: close(stop), then mergerWG.Wait().
CoStop ==
    /\ co = "loop" /\ ctxDone
    /\ stop' = TRUE /\ co' = "wait"
    /\ UNCHANGED <<pipeVars, merged, batch, reason, attempt, timer, ctxDone, writer, dbVars, histVars>>

\* All mergers are gone: drain the merged channel into the batch.
CoDrain ==
    /\ co = "wait" /\ \A s \in Sources : mode[s] = "done"
    /\ batch' = batch \o merged /\ merged' = <<>>
    /\ co' = IF batch' = <<>> THEN "done" ELSE "final"
    /\ attempt' = 0
    /\ UNCHANGED <<pipeVars, reason, timer, ctxDone, stop, writer, dbVars, histVars>>

\* The final flush runs on a detached context.
FinalCommit ==
    /\ co = "final"
    /\ CommitBatch(batch)
    /\ batch' = <<>> /\ co' = "done"
    /\ UNCHANGED <<pipeVars, merged, reason, attempt, timer, ctxDone, stop, histVars>>

\* Its last failure is reported as a drop, but the process ends with the
\* cursor where it was: the next start replays the events.
FinalFail ==
    /\ co = "final"
    /\ FailAttempt(batch)
    /\ IF Exhausted
       THEN co' = "done" /\ attempt' = attempt /\ reported' = reported \cup {batch[1][1]}
       ELSE attempt' = attempt + 1 /\ UNCHANGED <<co, reported>>
    /\ UNCHANGED <<pipeVars, merged, batch, reason, timer, ctxDone, stop, dropped, restarts>>

\* The daemon starts again after it stopped, was killed or crashed: only the
\* database is left, and each adapter resumes after its committed cursor.
Restart ==
    /\ restarts < MaxRestarts
    /\ restarts' = restarts + 1
    /\ sent' = cursor /\ base' = cursor
    /\ chan' = [s \in Sources |-> <<>>] /\ closed' = [s \in Sources |-> FALSE]
    /\ hand' = [s \in Sources |-> 0] /\ mode' = [s \in Sources |-> "recv"]
    /\ merged' = <<>> /\ batch' = <<>>
    /\ co' = "loop" /\ reason' = "size" /\ attempt' = 0 /\ timer' = FALSE
    /\ ctxDone' = FALSE /\ stop' = FALSE
    /\ writer' = [s \in Sources |-> NoBatch]
    /\ reported' = {}
    /\ UNCHANGED <<stream, dbVars, dropped, failures>>

-----------------------------------------------------------------------------
Merger(s) == MergerRecv(s) \/ MergerForward(s) \/ MergerStop(s) \/ MergerExit(s)

CoStep == \/ CoReceive \/ CoTimer \/ FlushCommit \/ FlushRetry \/ FlushDrop \/ FlushSuppressed
          \/ CoTick \/ CoStop \/ CoDrain \/ FinalCommit \/ FinalFail

Next == \/ \E s \in Sources : AdapterSend(s) \/ AdapterClose(s) \/ Merger(s)
        \/ CoStep \/ Cancel \/ Restart

Spec == Init /\ [][Next]_vars

\* The coalescer leaves an attempt or an idle pass: some step of "flush",
\* "tick" and "final" is always enabled, and changes co or attempt.
AttemptEnds ==
    /\ co \in {"flush", "tick", "final"}
    /\ co' \in {"flush", "tick", "final", "loop", "done"} /\ attempt' \in 0 .. FlushMaxRetries

\* Goroutines that can run do run; a select that is ready again and again
\* takes each ready case in the end (the runtime chooses at random), so that
\* the channel, the timer and the cancellation do not starve each other.
Fairness ==
    /\ \A s \in Sources : WF_vars(Merger(s))
    /\ WF_<<co, attempt>>(AttemptEnds) /\ WF_vars(CoDrain)
    /\ SF_vars(CoReceive) /\ SF_vars(CoTimer) /\ SF_vars(CoStop)

FairSpec == Spec /\ Fairness

-----------------------------------------------------------------------------
Positions(s) == 1 .. Len(stream[s])
WriterState == [cursor : Nat, cached : SUBSET Parents, affected : SUBSET Parents, carry : BOOLEAN]
Tagged == {e \in Sources \X Nat : e[2] \in Positions(e[1])}

\* Every variable keeps its shape, and no channel holds more than it can.
TypeOK ==
    /\ stream \in Streams
    /\ \A s \in Sources : /\ sent[s] \in 0 .. Len(stream[s]) /\ base[s] \in 0 .. sent[s]
                          /\ cursor[s] \in 0 .. Len(stream[s])
                          /\ chan[s] \in Seq(Positions(s)) /\ Len(chan[s]) <= ChanCap
                          /\ hand[s] \in Positions(s) \cup {0}
                          /\ mode[s] \in {"recv", "drain", "done"}
                          /\ writer[s] \in WriterState
    /\ closed \in [Sources -> BOOLEAN]
    /\ merged \in Seq(Tagged) /\ batch \in Seq(Tagged)
    /\ Len(merged) <= MergedCap
    /\ co \in {"loop", "flush", "tick", "wait", "final", "done"} /\ reason \in {"size", "interval"}
    /\ attempt \in 0 .. FlushMaxRetries
    /\ {timer, ctxDone, stop} \subseteq BOOLEAN
    /\ rows \subseteq Sources \X Parents /\ reported \subseteq Sources
    /\ written \subseteq Tagged /\ dropped \subseteq Tagged

Settled(s, n) == <<s, n>> \in written \cup dropped

\* The events of s between its adapter and the database, oldest first.
Pipe(s) == PosIn(batch, s) \o PosIn(merged, s)
           \o (IF hand[s] = 0 THEN <<>> ELSE <<hand[s]>>) \o chan[s]

\* The last event of s of this life that has left the pipeline.
Frontier(s) == sent[s] - Len(Pipe(s))

\* register: "Never drop - a dropped event is data loss": the pipeline of a
\* source always holds, once each and in order, exactly the events sent and
\* not yet written or dropped with their batch, through mergers, the merged
\* channel, retries, suppressed flushes and the shutdown drain.
NothingLostInOrder ==
    \A s \in Sources :
        /\ Pipe(s) = [k \in 1 .. Len(Pipe(s)) |-> Frontier(s) + k]
        /\ Frontier(s) >= base[s]
        /\ \A n \in base[s] + 1 .. Frontier(s) : Settled(s, n)

\* The committed cursor never runs ahead of the writes it stands for: a
\* restart from it repeats events but skips none, unless their batch was
\* dropped after all retries.
CursorCovered == \A s \in Sources : \A n \in 1 .. cursor[s] : Settled(s, n)

\* The whole write path implements an in-order, at-least-once ledger.
Ledger == INSTANCE IngestLedger WITH frontier <- [s \in Sources |-> Frontier(s)]
LedgerSpec == Ledger!Spec

AllPositions == UNION {1 .. Len(st[s]) : st \in Streams, s \in Sources}

\* While the daemon runs, whatever an adapter has sent is written or, after
\* all retries, dropped, unless a restart takes it back to be sent again: no
\* event waits for a later one.
EventuallySettled ==
    \A s \in Sources : \A n \in AllPositions :
        (n <= sent[s]) ~> (Settled(s, n) \/ ctxDone \/ n > sent[s])

\* run waits for the mergers before it reads merged, and one of them waits for
\* room in merged: nobody is left to make any.
Jammed == /\ co = "wait" /\ Len(merged) = MergedCap
          /\ \E s \in Sources : hand[s] # 0

\* A cancelled coalescer that is not killed first comes to its end, so that StopContext's wait for the
\* goroutines is over before its deadline, or it is jammed: nothing else holds
\* it, no attempt, retry, idle pass, open source channel or event that is sent
\* while the mergers drain, and no backlog that merged has room for.
ShutdownCompletes == ctxDone ~> (co = "done" \/ Jammed \/ ~ctxDone)

-----------------------------------------------------------------------------
(***************************************************************************)
(* What the repository says of the coalescer and its writers and the code  *)
(* does not do; TLC refutes each of these.                                 *)
(***************************************************************************)
\* coalescer.go, register: "On shutdown the coalescer's ctx.Done path drains
\* c.merged after mergerWG.Wait(), so the event will be picked up": the event
\* a merger holds when stop is closed gets into merged.
ShutdownPicksUpEvents == \A s \in Sources : (stop /\ hand[s] # 0) ~> (hand[s] = 0)

\* ingester.md: "Recovered retries are warnings, not terminal worker errors":
\* with fewer environment failures than attempts no batch is dropped.
RetriesOutlastFailures == failures <= FlushMaxRetries => dropped = {}
=============================================================================
