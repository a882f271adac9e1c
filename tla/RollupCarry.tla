----------------------------- MODULE RollupCarry -----------------------------
(***************************************************************************)
(* How the closed hour and day cells of rollup_hourly / rollup_daily are   *)
(* kept equal to a fold of the committed ops and sessions.                 *)
(*                                                                         *)
(* Three parties touch the cells of one source_format:                     *)
(*   - the coalescer goroutine, whose per-source writers mark buckets      *)
(*     dirty while they apply events, recompute the closed ones before the *)
(*     commit and forget them after it, and which also runs the idle       *)
(*     refresh of the buckets that were still open;                        *)
(*   - the all-sources rebuild (BackfillReadModels) that each start of the *)
(*     daemon runs after its scans, over a clock value read at its start;  *)
(*   - a restart, which forgets everything a writer carries in memory.     *)
(*                                                                         *)
(* Time is counted in hours.  Cells are abstracted to the set of           *)
(* <<item, version>> pairs folded into them: two cells are equal exactly   *)
(* when they were computed from the same ops and session starts.  All      *)
(* sources of a model share one source_format, since a recompute deletes   *)
(* and re-reads by format and never touches the cells of another one.      *)
(***************************************************************************)
EXTENDS Integers, FiniteSets

CONSTANTS Sources,      \* the sources of one source_format
          Sessions,     \* the sessions of those sources
          Ops,          \* the ops of those sessions
          SourceOf,     \* [Sessions -> Sources]
          SessionOf,    \* [Ops -> Sessions]
          HoursPerDay,  \* 24 in the code
          MaxClock,     \* bound: last hour of the model
          MaxVersion,   \* bound: content changes of one item
          MaxRestarts   \* bound: restarts of the daemon

ASSUME ConstantsAssumption ==
    /\ SourceOf \in [Sessions -> Sources]
    /\ SessionOf \in [Ops -> Sessions]
    /\ Sessions \cap Ops = {}
    /\ "none" \notin Sources
    /\ HoursPerDay \in Nat \ {0}
    /\ MaxClock \in Nat /\ MaxVersion \in Nat /\ MaxRestarts \in Nat

VARIABLES clock,     \* the wall clock, in hours
          db,        \* committed rows: item starts, item versions, rollup cells
          tx,        \* the same rows as the open transaction sees them
          cur,       \* the source whose events the open flush is applying
          applied,   \* the sources whose flushBody has ended in this flush
          marked,    \* those of them whose batch set repair_pending instead
          dirty,     \* writer.dirtyRollupBuckets and dirtyRollupDays
          staged,    \* writer.pendingMaterializedBuckets and ...Days
          deferred,  \* the per-source deferReadModels flags
          idle,      \* the source whose idle refresh passed its flag checks
          rb,        \* the all-sources rebuild: phase, cutoff, loaded rows
          restarts,  \* restarts so far
          missed,    \* ghost: <<cell, cause>> the open flush changed and nobody marked
          owed,      \* ghost: cells left to source-scoped repair
          gap        \* ghost: <<cell, cause>> nobody is going to recompute, as it is

vars == <<clock, db, tx, cur, applied, marked, dirty, staged, deferred, idle, rb,
          restarts, missed, owed, gap>>

flushVars == <<tx, cur, applied, marked, missed>>
writers == <<dirty, staged>>
ghosts == <<owed, gap>>

-----------------------------------------------------------------------------
(***************************************************************************)
(* Buckets.                                                                *)
(***************************************************************************)
Grans == {"hour", "day"}
Items == Sessions \cup Ops
NoTs  == -1             \* the item has no row yet
NoSource == "none"
Times == 0 .. MaxClock
Buckets == Times        \* bucket numbers; an hour's number is its start
Cells == Grans \X Buckets

Span(g) == IF g = "hour" THEN 1 ELSE HoursPerDay

\* rollups.BucketTS: floor to the bucket (the number of the bucket).
BucketTS(ts, g) == ts \div Span(g)

\* The buckets markDirtyRollupBucket marks for an input at ts.
CellsOf(ts) == {<<g, BucketTS(ts, g)>> : g \in Grans}

OwnerOf(i) == IF i \in Ops THEN SessionOf[i] ELSE i

\* The items folded into a cell: every op and session start of the format
\* whose start lies in the bucket, with the content it has.
Fold(at, ver, c) ==
    {<<i, ver[i]>> : i \in {j \in Items : /\ at[j] # NoTs
                                           /\ BucketTS(at[j], c[1]) = c[2]}}

Closed(c, now) == c[2] < BucketTS(now, c[1])

\* The carried cells of all writers of this life.
Carried == UNION {dirty[s] : s \in Sources}

\* hasPendingRollupBuckets
Pending(s) == dirty[s] # {}

\* Why a cell may stay wrong: a stub session no event marked; an op that was
\* emitted again at another time; a bucket of an earlier life still open at the
\* rebuild; a row filled after the rebuild read its cutoff and truncated; a row
\* of moved items a failed rebuild left.
Causes == {"stub", "reemitted", "inherited", "truncated", "kept"}

-----------------------------------------------------------------------------
EmptyDB == [at   |-> [i \in Items |-> NoTs],
            ver  |-> [i \in Items |-> 0],
            cell |-> [c \in Cells |-> {}]]

NoRebuild == [phase |-> "none", now |-> 0,
              at |-> [x \in Sessions |-> NoTs],
              ver |-> [x \in Sessions |-> 0],
              days |-> {}]

Init ==
    /\ clock = 0
    /\ db = EmptyDB /\ tx = EmptyDB
    /\ cur = NoSource /\ applied = {} /\ marked = {}
    /\ dirty = [s \in Sources |-> {}]
    /\ staged = [s \in Sources |-> {}]
    /\ deferred = [s \in Sources |-> TRUE]
    /\ idle = NoSource
    /\ rb = NoRebuild
    /\ restarts = 0
    /\ missed = {} /\ owed = {} /\ gap = {}

Rebuilding == rb.phase \in {"fts", "truncated", "starts", "days"}
TxOpen == cur # NoSource \/ applied # {}

\* The wall clock reaches the next hour.
Tick ==
    /\ clock < MaxClock
    /\ clock' = clock + 1
    /\ UNCHANGED <<db, flushVars, writers, deferred, idle, rb, restarts, ghosts>>

-----------------------------------------------------------------------------
(***************************************************************************)
(* One flush: events of one source after another are applied inside one    *)
(* transaction.  The marks are made in memory at once; a rollback does not *)
(* take them back.                                                         *)
(***************************************************************************)
Applying(s) ==
    /\ cur \in {NoSource, s} /\ s \notin applied
    /\ idle = NoSource
    /\ cur' = s

\* s carries the marked cells from now on.  A changed cell it does not carry is
\* missed, for the cause; one it carries now is missed no more, and no gap.
Mark(s, marks, changed, cause) ==
    LET carried == dirty[s] \cup marks
    IN  /\ dirty' = [dirty EXCEPT ![s] = carried]
        /\ missed' = {m \in missed \cup (changed \X {cause}) : m[1] \notin carried}
        /\ gap' = {g \in gap : g[1] \notin carried}

MarkAll(s, marks) == Mark(s, marks, {}, "stub")

\* Mutant: filling the agent or the cwd marks no bucket.
SessionCellsNone(at, x) == {}

\* The cells that read the denormalised agent and cwd of session x.
SessionCells(at, x) ==
    UNION {CellsOf(at[i]) : i \in {j \in Items : OwnerOf(j) = x /\ at[j] # NoTs}}

\* ver with the content of session x, and of its ops' dimension rows, changed.
Refilled(ver, x) == [i \in Items |-> IF OwnerOf(i) = x THEN ver[i] + 1 ELSE ver[i]]

EarlierOf(a, b) == IF a < b THEN a ELSE b

\* SessionStarted; fill: the event carries an agent name or a cwd.
ApplySessionStarted(s, x, t, fill) ==
    LET old == tx.at[x]
        existed == old # NoTs
        at == [tx.at EXCEPT ![x] = IF existed THEN EarlierOf(old, t) ELSE t]
    IN  /\ Applying(s) /\ SourceOf[x] = s
        /\ existed /\ fill => tx.ver[x] < MaxVersion
        /\ tx' = [tx EXCEPT !.at = at,
                            !.ver = IF existed /\ fill THEN Refilled(@, x) ELSE @]
        /\ MarkAll(s, CellsOf(t)
                      \cup (IF existed /\ fill THEN SessionCells(at, x) ELSE {})
                      \cup (IF existed /\ t < old THEN CellsOf(old) ELSE {}))
        /\ UNCHANGED <<clock, db, applied, marked, staged, deferred, idle, rb, restarts, owed>>

\* SessionUpdated with an agent name or a cwd.
ApplySessionUpdated(s, x, t) ==
    LET at == [tx.at EXCEPT ![x] = IF @ = NoTs THEN t ELSE @]
    IN  /\ Applying(s) /\ SourceOf[x] = s
        /\ tx.ver[x] < MaxVersion
        /\ tx' = [tx EXCEPT !.at = at, !.ver = Refilled(@, x)]
        /\ MarkAll(s, SessionCells(at, x))
        /\ UNCHANGED <<clock, db, applied, marked, staged, deferred, idle, rb, restarts, owed>>

\* OpStarted.  A first emission inserts the op, and a stub of an unseen session
\* at the same time.  A re-emission, which the codex adapter stamps with the
\* record that enriches the op, keeps the earlier start and may change what
\* is folded (name, namespace, model).  Only the bucket of the event is marked.
ApplyOpStarted(s, o, t, change) ==
    LET x == SessionOf[o]
        old == tx.at[o]
        existed == old # NoTs
        at == [tx.at EXCEPT ![o] = IF existed THEN EarlierOf(old, t) ELSE t,
                            ![x] = IF tx.at[x] = NoTs THEN t ELSE tx.at[x]]
    IN  /\ Applying(s) /\ SourceOf[x] = s
        /\ change => existed /\ tx.ver[o] < MaxVersion
        /\ tx' = [tx EXCEPT !.at = at,
                            !.ver = IF change THEN [@ EXCEPT ![o] = tx.ver[o] + 1] ELSE @]
        /\ Mark(s, CellsOf(t),
                   IF existed /\ (change \/ t < old) THEN CellsOf(old) ELSE {}, "reemitted")
        /\ UNCHANGED <<clock, db, applied, marked, staged, deferred, idle, rb, restarts, owed>>

\* OpFinalized of a known op: its persisted start bucket is marked.
ApplyOpFinalized(s, o) ==
    /\ Applying(s) /\ SourceOf[SessionOf[o]] = s
    /\ tx.at[o] # NoTs
    /\ tx.ver[o] < MaxVersion
    /\ tx' = [tx EXCEPT !.ver[o] = @ + 1]
    /\ MarkAll(s, CellsOf(tx.at[o]))
    /\ UNCHANGED <<clock, db, applied, marked, staged, deferred, idle, rb, restarts, owed>>

\* Any other event of an unseen session (a turn, a log entry, a payload, a
\* finalize): requireSessionID inserts a stub row and marks no bucket.
ApplyOther(s, x, t) ==
    /\ Applying(s) /\ SourceOf[x] = s
    /\ tx.at[x] = NoTs
    /\ tx' = [tx EXCEPT !.at[x] = t]
    /\ Mark(s, {}, CellsOf(t), "stub")
    /\ UNCHANGED <<clock, db, applied, marked, staged, deferred, idle, rb, restarts, owed>>

-----------------------------------------------------------------------------
\* refreshRollups: recompute the closed ones of the carried cells.
Recompute(view, cells) ==
    [view EXCEPT !.cell = [c \in Cells |-> IF c \in cells THEN Fold(view.at, view.ver, c)
                                                          ELSE view.cell[c]]]

\* Mutant: the open bucket is materialised like any other.
ClosedDirtyAll(s) == dirty[s]

\* The carried buckets a refresh materialises: never an open one.
ClosedDirty(s) == {c \in dirty[s] : Closed(c, clock)}

\* The end of flushBody: refreshBatchReadModels of the source, which skips
\* the rollups while its deferral or the rebuild flag is up.
FinishSource(s) ==
    LET skip == deferred[s] \/ Rebuilding
    IN  /\ cur = s
        /\ tx' = IF skip THEN tx ELSE Recompute(tx, ClosedDirty(s))
        /\ staged' = IF skip THEN staged
                     ELSE [staged EXCEPT ![s] = @ \cup ClosedDirty(s)]
        /\ cur' = NoSource /\ applied' = applied \cup {s}
        /\ marked' = IF skip THEN marked \cup {s} ELSE marked
        /\ UNCHANGED <<clock, db, dirty, deferred, idle, rb, restarts, missed, ghosts>>

\* The cells a commit forgets although this transaction did not recompute
\* them: the refresh was skipped and repair_pending set, so that only the
\* source-scoped repair is left to recompute them.
Unmaterialized == UNION {staged[s] \cap dirty[s] : s \in marked}

\* Commit, then promoteCommittedBatch and resetBatch of every applied source.
Commit ==
    /\ cur = NoSource /\ applied # {}
    /\ db' = tx
    /\ dirty' = [s \in Sources |-> IF s \in applied THEN dirty[s] \ staged[s] ELSE dirty[s]]
    /\ staged' = [s \in Sources |-> IF s \in applied THEN {} ELSE staged[s]]
    /\ owed' = owed \cup Unmaterialized
    /\ gap' = gap \cup missed
    /\ applied' = {} /\ marked' = {} /\ missed' = {}
    /\ UNCHANGED <<clock, tx, cur, deferred, idle, rb, restarts>>

\* Mutant: the repair marks of a rolled back batch are kept.
RollbackMarked ==
    /\ TxOpen
    /\ tx' = db
    /\ cur' = NoSource /\ applied' = {} /\ missed' = {}
    /\ UNCHANGED <<clock, db, marked, writers, deferred, idle, rb, restarts, ghosts>>

\* Any error rolls the shared transaction back; no writer is reset.
Rollback ==
    /\ TxOpen
    /\ tx' = db
    /\ cur' = NoSource /\ applied' = {} /\ marked' = {} /\ missed' = {}
    /\ UNCHANGED <<clock, db, writers, deferred, idle, rb, restarts, ghosts>>

-----------------------------------------------------------------------------
(***************************************************************************)
(* The idle refresh: the flags are read first, the transaction begins      *)
(* later.                                                                  *)
(***************************************************************************)
IdleCheck(s) ==
    /\ ~TxOpen /\ idle = NoSource
    /\ Pending(s)
    /\ IF deferred[s] \/ Rebuilding
       THEN idle' = NoSource /\ staged' = [staged EXCEPT ![s] = {}]
       ELSE idle' = s /\ staged' = staged
    /\ UNCHANGED <<clock, db, flushVars, dirty, deferred, rb, restarts, ghosts>>

\* The refresh materialises the closed carried cells and commits; resetBatch.
IdleRefresh(s) ==
    /\ idle = s
    /\ db' = Recompute(db, ClosedDirty(s)) /\ tx' = db'
    /\ dirty' = IF ClosedDirty(s) = {} THEN dirty
                ELSE [dirty EXCEPT ![s] = @ \ (staged[s] \cup ClosedDirty(s))]
    /\ staged' = [staged EXCEPT ![s] = {}]
    /\ idle' = NoSource
    /\ UNCHANGED <<clock, cur, applied, marked, missed, deferred, rb, restarts, ghosts>>

\* The refresh fails and is rolled back; resetBatch all the same.
IdleFail(s) ==
    /\ idle = s
    /\ staged' = [staged EXCEPT ![s] = {}]
    /\ idle' = NoSource
    /\ UNCHANGED <<clock, db, flushVars, dirty, deferred, rb, restarts, ghosts>>

-----------------------------------------------------------------------------
(***************************************************************************)
(* The all-sources rebuild, once in each life of the daemon after all its  *)
(* scans.  Each step is a transaction of its own.                          *)
(***************************************************************************)
\* The supervisor of s has seen its scan end.
EndScan(s) ==
    /\ deferred[s]
    /\ deferred' = [deferred EXCEPT ![s] = FALSE]
    /\ UNCHANGED <<clock, db, flushVars, writers, idle, rb, restarts, ghosts>>

\* The cells with rows of an earlier life that the rebuild will find open.
Inherited == {c \in Cells : /\ ~Closed(c, clock) /\ c \notin Carried
                            /\ db.cell[c] # Fold(db.at, db.ver, c)}

\* The flag goes up and the cutoff is read, before the long FTS rebuild.
RebuildStart ==
    /\ rb.phase = "none"
    /\ \A s \in Sources : ~deferred[s]
    /\ rb' = [rb EXCEPT !.phase = "fts", !.now = clock]
    /\ gap' = gap \cup (Inherited \X {"inherited"})
    /\ UNCHANGED <<clock, db, flushVars, writers, deferred, idle, restarts, owed>>

\* truncateRollups.  A cell past the cutoff that an idle refresh filled in
\* the meantime goes too, and the rebuild will not bring it back; the days of
\* the rebuild are still to fold every other one anew.
RebuildTruncate ==
    /\ rb.phase = "fts" /\ ~TxOpen
    /\ db' = [db EXCEPT !.cell = [c \in Cells |-> {}]] /\ tx' = db'
    /\ gap' = {g \in gap : ~Closed(g[1], rb.now)}
              \cup ({c \in Cells : db.cell[c] # {} /\ ~Closed(c, rb.now)} \X {"truncated"})
    /\ rb' = [rb EXCEPT !.phase = "truncated"]
    /\ UNCHANGED <<clock, cur, applied, marked, missed, writers, deferred, idle, restarts, owed>>

\* loadSessionStarts: the session starts before the open hour, read once.
RebuildLoadStarts ==
    /\ rb.phase = "truncated" /\ ~TxOpen
    /\ rb' = [rb EXCEPT !.phase = "starts",
                        !.at = [x \in Sessions |-> IF db.at[x] < rb.now THEN db.at[x] ELSE NoTs],
                        !.ver = [x \in Sessions |-> db.ver[x]]]
    /\ UNCHANGED <<clock, db, flushVars, writers, deferred, idle, restarts, ghosts>>

\* closedDays: the days with a loaded session start or a closed op.
RebuildLoadDays ==
    /\ rb.phase = "starts" /\ ~TxOpen
    /\ rb' = [rb EXCEPT !.phase = "days",
                        !.days = {BucketTS(rb.at[x], "day") : x \in {y \in Sessions : rb.at[y] # NoTs}}
                            \cup {BucketTS(db.at[o], "day") :
                                    o \in {p \in Ops : db.at[p] # NoTs /\ db.at[p] < rb.now}}]
    /\ UNCHANGED <<clock, db, flushVars, writers, deferred, idle, restarts, ghosts>>

\* What flushDay folds: the loaded session starts and the closed ops as they
\* are now.
DayAt == [i \in Items |-> IF i \in Sessions THEN rb.at[i]
                          ELSE IF db.at[i] < rb.now THEN db.at[i] ELSE NoTs]
\* An op's dimension rows read its session as it is now, too.
DayVer == [i \in Items |-> IF i \in Sessions THEN rb.ver[i] ELSE db.ver[i]]

\* flushDay: upsert the day's hours and, if the day is closed, the day.
RebuildDay(d) ==
    /\ rb.phase = "days" /\ ~TxOpen
    /\ d \in rb.days
    /\ LET mine == {c \in Cells : \/ c = <<"day", d>> /\ Closed(c, rb.now)
                                  \/ c[1] = "hour" /\ BucketTS(c[2], "day") = d}
           new(c) == Fold(DayAt, DayVer, c)
       IN  db' = [db EXCEPT !.cell = [c \in Cells |->
                    IF c \in mine /\ new(c) # {} THEN new(c) ELSE db.cell[c]]]
    /\ tx' = db'
    /\ rb' = [rb EXCEPT !.days = @ \ {d}]
    /\ UNCHANGED <<clock, cur, applied, marked, missed, writers, deferred, idle, restarts, ghosts>>

\* backfillDone; the flag goes down.
RebuildDone ==
    /\ rb.phase = "days" /\ rb.days = {}
    /\ rb' = [NoRebuild EXCEPT !.phase = "done"]
    /\ UNCHANGED <<clock, db, flushVars, writers, deferred, idle, restarts, ghosts>>

\* failBackfillReadModels: every source is marked repair_pending, which leaves
\* the closed cells to the source-scoped repairs; those visit the cells that
\* have items, so a row whose items moved away stays.
RebuildFail ==
    LET left == {c \in Cells : Closed(c, rb.now)}
        kept == {c \in left : Fold(db.at, db.ver, c) = {} /\ db.cell[c] # {}}
    IN  /\ Rebuilding
        /\ rb' = [NoRebuild EXCEPT !.phase = "failed"]
        /\ owed' = owed \cup (left \ kept)
        /\ gap' = gap \cup (kept \X {"kept"})
        /\ UNCHANGED <<clock, db, flushVars, writers, deferred, idle, restarts>>

\* The daemon is killed, or stopped, and started again.
Restart ==
    /\ restarts < MaxRestarts
    /\ restarts' = restarts + 1
    /\ tx' = db /\ cur' = NoSource /\ applied' = {} /\ marked' = {} /\ missed' = {}
    /\ dirty' = [s \in Sources |-> {}]
    /\ staged' = [s \in Sources |-> {}]
    /\ deferred' = [s \in Sources |-> TRUE]
    /\ idle' = NoSource
    /\ rb' = NoRebuild
    /\ owed' = {} /\ gap' = {}
    /\ UNCHANGED <<clock, db>>
-----------------------------------------------------------------------------
Next ==
    \/ Tick
    \/ \E s \in Sources, x \in Sessions, t \in 0 .. clock :
          \/ \E fill \in BOOLEAN : ApplySessionStarted(s, x, t, fill)
          \/ ApplySessionUpdated(s, x, t)
          \/ ApplyOther(s, x, t)
    \/ \E s \in Sources, o \in Ops :
          \/ \E t \in 0 .. clock, change \in BOOLEAN : ApplyOpStarted(s, o, t, change)
          \/ ApplyOpFinalized(s, o)
    \/ \E s \in Sources : FinishSource(s) \/ IdleCheck(s) \/ IdleRefresh(s)
                          \/ IdleFail(s) \/ EndScan(s)
    \/ Commit \/ Rollback
    \/ RebuildStart \/ RebuildTruncate \/ RebuildLoadStarts \/ RebuildLoadDays
    \/ \E d \in Buckets : RebuildDay(d)
    \/ RebuildDone \/ RebuildFail \/ Restart

Spec == Init /\ [][Next]_vars

-----------------------------------------------------------------------------
View == [at : [Items -> Times \cup {NoTs}], ver : [Items -> Nat],
         cell : [Cells -> SUBSET (Items \X Nat)]]

Rebuild == [phase : {"none", "fts", "truncated", "starts", "days", "done", "failed"},
            now : Times, at : [Sessions -> Times \cup {NoTs}], ver : [Sessions -> Nat],
            days : SUBSET Buckets]

\* Every variable keeps its shape, and a rollup row is only ever keyed by a
\* bucket of the model's calendar.
TypeOK ==
    /\ clock \in Times
    /\ db \in View /\ tx \in View
    /\ cur \in Sources \cup {NoSource}
    /\ applied \subseteq Sources /\ marked \subseteq applied
    /\ dirty \in [Sources -> SUBSET Cells] /\ staged \in [Sources -> SUBSET Cells]
    /\ deferred \in [Sources -> BOOLEAN]
    /\ idle \in Sources \cup {NoSource}
    /\ rb \in Rebuild
    /\ restarts \in 0 .. MaxRestarts
    /\ missed \subseteq Cells \X Causes
    /\ owed \subseteq Cells /\ gap \subseteq Cells \X Causes

\* The rebuild of this life has yet to recompute the cell.
ToRebuild(c) ==
    \/ rb.phase = "none"
    \/ rb.phase \in {"fts", "truncated", "starts"} /\ Closed(c, rb.now)
    \/ rb.phase = "days" /\ Closed(c, rb.now)
       /\ (IF c[1] = "day" THEN c[2] ELSE BucketTS(c[2], "day")) \in rb.days

Mismatch(c) == db.cell[c] # Fold(db.at, db.ver, c)
GapOf(c) == {k \in Causes : <<c, k>> \in gap}

\* Every cell that differs from a fold of the committed rows is one somebody
\* will recompute - a writer carries it, the rebuild has yet to reach it, or a
\* source-scoped repair is left with it - or one of the five named gaps: what
\* markDirtyRollupBucket, the carried sets, promotion after the commit and the
\* rebuild's cutoff together guarantee, through rollbacks and restarts.  A gap
\* ends when a writer carries the cell again or the rebuild is to fold it.
MismatchCovered ==
    \A c \in Cells : Mismatch(c) =>
        c \in Carried \/ ToRebuild(c) \/ c \in owed \/ GapOf(c) # {}

\* The open hour and the open day are never materialised (data-model.md,
\* "Open-bucket rule"): the query layer adds a live fold of them to the rows,
\* so that a row of an open bucket would be counted twice.
OpenNeverMaterialized ==
    \A c \in Cells : db.cell[c] # {} => Closed(c, clock)

-----------------------------------------------------------------------------
(***************************************************************************)
(* What the repository says of the carried buckets and the code does not   *)
(* do; TLC refutes each of these.                                          *)
(***************************************************************************)
\* A closed cell that is wrong and that nobody is going to recompute.
Stranded(c) == /\ Closed(c, clock) /\ Mismatch(c)
               /\ c \notin Carried /\ ~ToRebuild(c) /\ c \notin owed

\* writer.go, markDirtyRollupBucket: "Called ONLY from the three
\* rollup-affecting apply paths": no other apply path strands a cell.
OnlyThreePathsAffectRollups == \A c \in Cells : Stranded(c) => GapOf(c) # {"stub"}

\* writer.go, afterOpStarted: "ev.Ts IS the op start ..., which is the bucket the
\* op rolls up into": a re-emitted start strands no cell.
ReemissionStrandsNoBucket == \A c \in Cells : Stranded(c) => GapOf(c) # {"reemitted"}

\* ingester.md: the carry-forward "keeps every closed bucket materialized in
\* normal operation", a restart included.
RestartStrandsNoBucket == \A c \in Cells : Stranded(c) => GapOf(c) # {"inherited"}
=============================================================================
