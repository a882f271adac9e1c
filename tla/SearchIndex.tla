---------------------------- MODULE SearchIndex ----------------------------
(***************************************************************************)
(* The search index (fts_ops, fts_logs) and the rollup cells of one source *)
(* under the three writers that maintain them: live batches                *)
(* (fts_refresh.go, writer.go), the one all-sources rebuild of a daemon    *)
(* (fts_backfill.go, BackfillReadModels) and the source's repairs          *)
(* (read_model_repair.go).  Rebuild and repair exclude each other by       *)
(* backfillMu; both read a page in one transaction and write it in a later *)
(* one, and yield to live batches in between.                              *)
(*                                                                         *)
(* A row's text is its version; 0 is a row that is not there.  How the     *)
(* debt travels to the repair goroutine is SourceSupervisor's; here a      *)
(* repair may start while there is debt.  Ghosts: `overtaken' are the ops  *)
(* whose index row a repair wrote from a page older than the op;           *)
(* `unrecorded' says a failed rebuild could not record the debt it left.   *)
(***************************************************************************)
EXTENDS Naturals, Sequences, FiniteSets

CONSTANTS
    RowsOf,       \* per table, how many rows it can get (rowid order)
    IdRank,       \* the place of op r in the order of ops.id
    SessionOf,    \* per table and row, the session it belongs to
    BucketOf,     \* the closed rollup bucket of op r
    PageSize,     \* ftsBackfillBatchSize
    MaxEdits,     \* bound: versions of an op
    MaxBreaks,    \* bound: failing transactions of rebuilds and repairs
    MaxCrashes    \* bound: crashes of the daemon

Tables == {"ops", "logs"}
Ids(t) == 1 .. RowsOf[t]

\* Ids and sessions are strings in the code; here they are their ranks.
ASSUME IndexAssumption ==
    /\ RowsOf \in [Tables -> Nat]
    /\ IdRank \in [Ids("ops") -> Nat \ {0}]
    /\ \A i, j \in Ids("ops") : IdRank[i] = IdRank[j] => i = j
    /\ \A t \in Tables : SessionOf[t] \in [Ids(t) -> Nat \ {0}]
    /\ BucketOf \in [Ids("ops") -> Nat]
    /\ PageSize \in Nat \ {0} /\ {MaxEdits, MaxBreaks, MaxCrashes} \subseteq Nat

VARIABLES
    row,          \* per table and row: its committed version
    index,        \* per table and row: the version its index row was made from
    stale,        \* buckets whose rollup cell lacks committed rows
    indexLogs,    \* sources.fts5_index_logs
    held,         \* the startup scan's deferral of the source
    active,       \* Ingester.readModelRebuildActive
    tried,        \* startPostScanBackfill has made its one attempt
    pass,         \* the rebuild or repair that holds backfillMu
    owing,         \* durable: read_model_state is not ready
    overtaken, unrecorded,
    breaks, crashes

store == <<row, index, stale>>
gates == <<held, active, tried>>
ghosts == <<overtaken, unrecorded>>
ivars == <<row, index, stale, indexLogs, held, active, tried, pass, owing,
           overtaken, unrecorded, breaks, crashes>>

Present(t) == {r \in Ids(t) : row[t][r] > 0}
Buckets == {BucketOf[r] : r \in Ids("ops")}
Idle == [kind |-> "none", stage |-> "none", after |-> 0, sessions |-> <<>>, last |-> FALSE,
         cursor |-> 0, page |-> <<>>, buckets |-> {}]

IndexInit ==
    /\ row = [t \in Tables |-> [r \in Ids(t) |-> 0]]
    /\ index = [t \in Tables |-> [r \in Ids(t) |-> 0]]
    /\ stale = {} /\ indexLogs \in BOOLEAN
    /\ held = TRUE /\ active = FALSE /\ tried = FALSE
    /\ pass = Idle /\ owing = FALSE
    /\ overtaken = {} /\ unrecorded = FALSE
    /\ breaks = 0 /\ crashes = 0

Break == breaks < MaxBreaks /\ breaks' = breaks + 1

------------------------------------------------------------------------------
(* Live batches: one transaction each.                                      *)

\* Plausible bug: the rebuild's flag is not consulted.
SuspendedByScan == held

\* The condition of refreshBatchReadModels.
Suspended == held \/ active

\* Rows of a table appear in rowid order; an op's row changes again when its
\* start is re-emitted or it finishes.
CommitOp(r) ==
    /\ row["ops"][r] < MaxEdits
    /\ r > 1 => row["ops"][r - 1] > 0
    /\ row' = [row EXCEPT !["ops"][r] = @ + 1]
    /\ IF Suspended
       THEN /\ owing' = TRUE
            /\ stale' = stale \union {BucketOf[r]}
            /\ UNCHANGED <<index, overtaken>>
       ELSE /\ index' = [index EXCEPT !["ops"][r] = row'["ops"][r]]
            /\ overtaken' = overtaken \ {r}
            /\ UNCHANGED <<owing, stale>>
    /\ UNCHANGED <<indexLogs, gates, pass, unrecorded, breaks, crashes>>

\* A new log is indexed inline, by the source's own flag, even while the rest
\* of the read models is suspended.
CommitLog(r) ==
    /\ row["logs"][r] = 0
    /\ r > 1 => row["logs"][r - 1] > 0
    /\ row' = [row EXCEPT !["logs"][r] = 1]
    /\ index' = IF indexLogs THEN [index EXCEPT !["logs"][r] = 1] ELSE index
    /\ owing' = (owing \/ Suspended)
    /\ UNCHANGED <<stale, indexLogs, gates, pass, ghosts, breaks, crashes>>

\* clearReadModelDeferral at the end of the startup scan.
ScanEnds ==
    /\ held /\ held' = FALSE
    /\ owing' = TRUE
    /\ UNCHANGED <<store, indexLogs, active, tried, pass, ghosts, breaks, crashes>>

------------------------------------------------------------------------------
(* Pages, shared by rebuild and repair.                                     *)

Smallest(S, key) == CHOOSE x \in S : \A y \in S : key[x] <= key[y]
OwnOrder(S) == [x \in S |-> x]

\* The first PageSize members of S by key: ORDER BY ... LIMIT.
PagesUpTo(S, key) ==
    LET f[n \in 0 .. PageSize] ==
            IF n = 0 THEN [left |-> S, got |-> <<>>]
            ELSE IF f[n - 1].left = {} THEN f[n - 1]
            ELSE LET x == Smallest(f[n - 1].left, key)
                 IN  [left |-> f[n - 1].left \ {x}, got |-> Append(f[n - 1].got, x)]
    IN f
FirstPage(S, key) == PagesUpTo(S, key)[PageSize].got

\* What a loaded page keeps of its rows: their text at that moment.
Loaded(t, rows) == [i \in 1 .. Len(rows) |-> [id |-> rows[i], text |-> row[t][rows[i]]]]
Short(page) == Len(page) < PageSize

\* The order of the two rebuild queries: ops by their TEXT id, logs by rowid.
RebuildKey(t, r) == IF t = "ops" THEN IdRank[r] ELSE r

RebuildPage(t) ==
    LET wanted == IF t = "ops" \/ indexLogs THEN Present(t) ELSE {}
    IN Loaded(t, FirstPage({r \in wanted : RebuildKey(t, r) > pass.cursor},
                           [r \in Ids(t) |-> RebuildKey(t, r)]))

SessionPage ==
    LET all == UNION {{SessionOf[t][r] : r \in Present(t)} : t \in Tables}
    IN FirstPage({s \in all : s > pass.after}, OwnOrder(all))

RepairPage(t) ==
    Loaded(t, FirstPage({r \in Present(t) : SessionOf[t][r] = Head(pass.sessions) /\ r > pass.cursor},
                        OwnOrder(Ids(t))))

Stage(s) == [Idle EXCEPT !.kind = pass.kind, !.stage = s]
AfterOps == Stage("logs")
AfterLogs == Stage("rollups")
NextStage == IF pass.stage = "ops" THEN AfterOps ELSE AfterLogs

------------------------------------------------------------------------------
(* The all-sources rebuild.                                                 *)

\* One attempt per daemon, once every scan has an outcome.
RebuildLocks ==
    /\ pass = Idle /\ ~held /\ ~tried
    /\ tried' = TRUE /\ active' = TRUE
    /\ pass' = [Idle EXCEPT !.kind = "rebuild", !.stage = "wipe"]
    /\ UNCHANGED <<store, indexLogs, held, owing, ghosts, breaks, crashes>>

TruncateFTS ==
    /\ pass.kind = "rebuild" /\ pass.stage = "wipe"
    /\ index' = [t \in Tables |-> [r \in Ids(t) |-> 0]]
    /\ overtaken' = {}
    /\ pass' = Stage("ops")
    /\ UNCHANGED <<row, stale, indexLogs, gates, owing, unrecorded, breaks, crashes>>

RebuildLoads ==
    /\ pass.kind = "rebuild" /\ pass.stage \in Tables /\ pass.page = <<>>
    /\ LET page == RebuildPage(pass.stage)
       IN pass' = IF page = <<>> THEN NextStage ELSE [pass EXCEPT !.page = page]
    /\ UNCHANGED <<store, indexLogs, gates, owing, ghosts, breaks, crashes>>

\* Plain INSERTs: a row that is there already fails the transaction.
Collides == \E i \in DOMAIN pass.page : index[pass.stage][pass.page[i].id] > 0

InsertPage(t, page) ==
    [index EXCEPT ![t] = [r \in Ids(t) |->
        IF \E i \in DOMAIN page : page[i].id = r
        THEN page[CHOOSE i \in DOMAIN page : page[i].id = r].text
        ELSE index[t][r]]]

RebuildWrites ==
    /\ pass.kind = "rebuild" /\ pass.page # <<>> /\ ~Collides
    /\ index' = InsertPage(pass.stage, pass.page)
    /\ pass' = IF Short(pass.page) THEN NextStage
               ELSE [pass EXCEPT !.page = <<>>,
                                 !.cursor = RebuildKey(pass.stage, pass.page[Len(pass.page)].id)]
    /\ UNCHANGED <<row, stale, indexLogs, gates, owing, ghosts, breaks, crashes>>

\* BackfillRollups (its buckets and days are RollupCarry's).
RebuildEnds ==
    /\ pass.kind = "rebuild" /\ pass.stage = "rollups"
    /\ stale' = {}
    /\ pass' = Idle /\ active' = FALSE
    /\ UNCHANGED <<row, index, indexLogs, held, tried, owing, ghosts, breaks, crashes>>

\* Plausible bug: the failure is only logged.
FailRebuildQuietly(n) ==
    /\ pass' = Idle /\ active' = FALSE
    /\ breaks' = n /\ UNCHANGED <<owing, unrecorded>>

\* failBackfillReadModels: every source is marked and woken, unless not even
\* the list of sources can be read.
FailRebuild(n) ==
    /\ pass' = Idle /\ active' = FALSE
    /\ \/ owing' = TRUE /\ breaks' = n /\ UNCHANGED unrecorded
       \/ n < MaxBreaks /\ breaks' = n + 1 /\ unrecorded' = TRUE /\ UNCHANGED owing

RebuildCollides ==
    /\ pass.kind = "rebuild" /\ pass.page # <<>> /\ Collides
    /\ FailRebuild(breaks)
    /\ UNCHANGED <<store, indexLogs, held, tried, overtaken, crashes>>

\* Any transaction fails, or the rebuild runs into its time limit; rollups
\* that were being rebuilt have been truncated.
RebuildBreaks ==
    /\ pass.kind = "rebuild" /\ breaks < MaxBreaks
    /\ FailRebuild(breaks + 1)
    /\ stale' = IF pass.stage = "rollups" THEN {BucketOf[r] : r \in Present("ops")} ELSE stale
    /\ UNCHANGED <<row, index, indexLogs, held, tried, overtaken, crashes>>

------------------------------------------------------------------------------
(* The source's repair: ops, logs, rollups.                                 *)

RepairLocks ==
    /\ pass = Idle /\ owing /\ ~held
    /\ pass' = [Idle EXCEPT !.kind = "repair", !.stage = "ops"]
    /\ UNCHANGED <<store, indexLogs, gates, owing, ghosts, breaks, crashes>>

Repairing == pass.kind = "repair" /\ pass.stage \in Tables

\* repairSourceFTSLogs looks at the flag first.
RepairSkipsLogs ==
    /\ Repairing /\ pass.stage = "logs" /\ ~indexLogs
    /\ pass' = AfterLogs
    /\ UNCHANGED <<store, indexLogs, gates, owing, ghosts, breaks, crashes>>

RepairLoadsSessions ==
    /\ Repairing /\ pass.sessions = <<>> /\ (pass.stage = "ops" \/ indexLogs)
    /\ LET page == SessionPage
       IN pass' = IF page = <<>> THEN NextStage
                  ELSE [pass EXCEPT !.sessions = page, !.after = page[Len(page)], !.last = Short(page), !.cursor = 0]
    /\ UNCHANGED <<store, indexLogs, gates, owing, ghosts, breaks, crashes>>

\* The session is finished: the next of the page, the next page, or the stage
\* is over.
SessionDone ==
    LET rest == Tail(pass.sessions)
    IN IF rest = <<>> /\ pass.last THEN NextStage
       ELSE [pass EXCEPT !.sessions = rest, !.cursor = 0, !.page = <<>>]

RepairLoads ==
    /\ Repairing /\ pass.sessions # <<>> /\ pass.page = <<>>
    /\ LET page == RepairPage(pass.stage)
       IN pass' = IF page = <<>> THEN SessionDone ELSE [pass EXCEPT !.page = page]
    /\ UNCHANGED <<store, indexLogs, gates, owing, ghosts, breaks, crashes>>

PageIds == {pass.page[i].id : i \in DOMAIN pass.page}
Outdated == {pass.page[i].id : i \in {j \in DOMAIN pass.page : pass.page[j].text # row[pass.stage][pass.page[j].id]}}

\* DELETE and INSERT of every row of the page, with the text it was loaded with.
RepairWrites ==
    /\ Repairing /\ pass.page # <<>>
    /\ index' = InsertPage(pass.stage, pass.page)
    /\ overtaken' = IF pass.stage = "ops" THEN (overtaken \ PageIds) \union Outdated ELSE overtaken
    /\ pass' = IF Short(pass.page) THEN SessionDone
               ELSE [pass EXCEPT !.page = <<>>, !.cursor = pass.page[Len(pass.page)].id]
    /\ UNCHANGED <<row, stale, indexLogs, gates, owing, unrecorded, breaks, crashes>>

\* The buckets of the source are listed once, then recomputed one transaction
\* each, from the rows of that moment.
RepairListsBuckets ==
    /\ pass.kind = "repair" /\ pass.stage = "rollups"
    /\ pass' = [pass EXCEPT !.stage = "buckets", !.buckets = {BucketOf[r] : r \in Present("ops")}]
    /\ UNCHANGED <<store, indexLogs, gates, owing, ghosts, breaks, crashes>>

RepairBucket ==
    /\ pass.stage = "buckets" /\ pass.buckets # {}
    /\ LET b == Smallest(pass.buckets, OwnOrder(pass.buckets))
       IN /\ stale' = stale \ {b}
          /\ pass' = [pass EXCEPT !.buckets = @ \ {b}]
    /\ UNCHANGED <<row, index, indexLogs, gates, owing, ghosts, breaks, crashes>>

RepairEnds ==
    /\ pass.stage = "buckets" /\ pass.buckets = {}
    /\ pass' = Idle /\ owing' = FALSE
    /\ UNCHANGED <<store, indexLogs, gates, ghosts, breaks, crashes>>

\* The debt stays; the next repair starts from the first page.
RepairBreaks ==
    /\ pass.kind = "repair" /\ Break
    /\ pass' = Idle
    /\ UNCHANGED <<store, indexLogs, gates, owing, ghosts, crashes>>

\* A crash; the next daemon defers the source again until its scan is over.
DaemonCrashes ==
    /\ crashes < MaxCrashes /\ crashes' = crashes + 1
    /\ held' = TRUE /\ active' = FALSE /\ tried' = FALSE /\ pass' = Idle
    /\ unrecorded' = FALSE
    /\ UNCHANGED <<store, indexLogs, owing, overtaken, breaks>>

IndexNext ==
    \/ \E r \in Ids("ops") : CommitOp(r)
    \/ \E r \in Ids("logs") : CommitLog(r)
    \/ ScanEnds
    \/ RebuildLocks \/ TruncateFTS \/ RebuildLoads \/ RebuildWrites \/ RebuildEnds
    \/ RebuildCollides \/ RebuildBreaks
    \/ RepairLocks \/ RepairSkipsLogs \/ RepairLoadsSessions \/ RepairLoads \/ RepairWrites
    \/ RepairListsBuckets \/ RepairBucket \/ RepairEnds \/ RepairBreaks
    \/ DaemonCrashes

IndexSpec == IndexInit /\ [][IndexNext]_ivars

------------------------------------------------------------------------------
(* Properties.                                                              *)

\* At rest: no pass holds the lock, nothing is deferred and no debt is known.
AtRest == pass = Idle /\ ~held /\ ~owing /\ ~unrecorded

\* At rest the source can be found by all of its rows: every op has its index
\* row, every log has one exactly when the source indexes logs, no rollup cell
\* lacks a row, and an index row shows an older text only where a repair's
\* page was overtaken by a live batch (repairFTSOpsBatch, refreshFTS).
SearchSettles ==
    AtRest =>
        /\ \A r \in Present("ops") \ overtaken : index["ops"][r] = row["ops"][r]
        /\ \A r \in Present("ops") : index["ops"][r] > 0
        /\ \A r \in Ids("logs") : index["logs"][r] = IF indexLogs THEN row["logs"][r] ELSE 0
        /\ stale = {}

\* A rebuild never inserts an op that is indexed already, and what it has
\* written is current or owed to a repair: batches do not refresh ops while
\* it streams (readModelRebuildActive).
RebuildDoesNotRaceOps ==
    pass.kind = "rebuild" =>
        /\ pass.stage = "ops" => ~Collides
        /\ pass.stage # "wipe" /\ ~owing =>
               \A r \in Present("ops") \ overtaken : index["ops"][r] \in {0, row["ops"][r]}

\* What writer.go says of the rebuild: tail batches defer their index refresh
\* "so they cannot race the truncate/rebuild window".  The inline insert of a
\* new log (indexLogEntryFTS) is not deferred, so the rebuild's insert of the
\* same log can fail.
RebuildNeverCollides == pass.kind = "rebuild" => ~Collides
=============================================================================
