# ai-viewer: a TLA+ verification project

ai-viewer collects the session logs of AI coding agents into one SQLite
database and shows them in a browser, live. Two processes share the database:
`ai-viewer-ingest` reads the logs and writes, `ai-viewer-serve` answers HTTP
requests, reads, and pushes invalidations over SSE. This directory models the
parts of them where the difficulty lies in interleavings, failures and restarts,
checks the models with TLC and proves the most important results with TLAPS.

Contents: [inventory](#1-inventory), [modules and code](#2-modules-and-code),
[runs](#3-runs), [fairness](#4-fairness), [proofs](#5-proofs),
[disagreements](#6-where-code-and-documents-disagree),
[limits](#7-what-is-not-modelled), [plan](#8-plan), [use](#9-how-to-run-it).
`PROJECT.json` holds the same facts for tools: the source lines behind each
definition, the hazards and the mutants.

## 1. Inventory

| Component | State | Operations | What is hard | What makes it correct |
|---|---|---|---|---|
| Codex and Claude Code adapters (`internal/adapters/codex`, `claude_code`) | file offsets and watches, a cursor, open turns and calls, Agent calls waiting for a sub-agent's file | scan, tail, map records to events | half-written lines, truncation, new directories, lost notifications, state that spans files | from a cursor every later event is sent again; no file is forgotten; every turn and op ends once |
| Other adapters (`opencode`, `aiagent_v2`, `aiagent_v3`) | a cursor each | scan, tail | polling another program's files or database | as above |
| Source supervisor, tail liveness (`cmd/ai-viewer-ingest/source_supervisor.go`, `internal/ingest/tail_liveness.go`, `source_lifecycle.go`) | one goroutine per source, lifecycle row, restart and repair requests | scan, tail, watchdog, restart with backoff, repair | requests racing the end of what they ask for | a stale tail restarts; a repair debt is paid |
| Coalescer and mergers (`internal/ingest/coalescer.go`) | channel per source, merged channel, batch, flush timer | merge, batch, flush with retries, idle pass, drain | backpressure, cancelled attempts, shutdown | nothing lost or reordered; every event is settled; shutdown ends |
| Writer (`internal/ingest/writer.go`, `worker.go`) | per-source caches, cursor, dirty buckets, staged buckets, affected sets | apply each event kind, refresh read models, promote, reset | a rollback takes back rows and not memory | the cursor commits with what it covers |
| Rollups (`internal/ingest/rollup_refresh.go`, `rollup_backfill.go`, `internal/rollups`) | `rollup_hourly`, `rollup_daily` | mark, recompute closed buckets, idle refresh, rebuild | hours close while work is under way; rebuild against writers; restart | closed cell = fold of the rows; open buckets have none |
| Ingester lifecycle (`internal/ingest/ingester.go`) | sources, flags, wait groups | Submit, StopContext, BackfillReadModels | late Submit, deadline | no source runs on after the stop |
| Orphan resolver (`internal/ingest/resolver.go`) | generation and watermark gates | link parents, roots, ops | gates advanced before the commit | every resolvable orphan is resolved |
| Read-model repair (`internal/ingest/read_model_repair.go`) | `repair_pending` | mark, repair one source | lost wake-ups | a marked source is repaired |
| Search index (`fts_*.go`) | `fts_ops`, `fts_logs` | refresh with a batch, rebuild, repair, page by page | pages read before and written after a live batch | at rest every row is found, by its present text |
| Catalog (`catalog*.go`) | delta tables | refresh | deltas against recounts | equal to a recount |
| Pricing (`internal/pricing`) | effective intervals | load, look up, reprice | interval ends | latest interval in force |
| Notify table and poller (`internal/ingest/notify_producer.go`, `internal/presenter/notify_poller.go`) | rows by `seq`; cursor, coalesce map | append, prune; poll, match, deliver | a prune past the reader; a snapshot used for many rows | a row reaches every page it concerns |
| Hub, registry, streams (`internal/notify`, `internal/presenter/subscriptions.go`, `events_sse.go`) | subscriptions with a bounded channel and a replay ring, retention timers | create, deliver, attach, detach, expire, delete, shutdown | timers against reconnects, three locks | registry and hub agree; windows are honoured; all is reclaimed |
| Browser side (`frontend/src/api/sse.ts`, `state/useLiveUpdates.ts`) | connection, last id, query cache | subscribe, stream, reconnect, invalidate, close | abort at any point, lost frames | no page is silently behind; nothing leaks |
| Store and migrations (`internal/store`) | schema version | open, migrate | crash between steps | each step once |
| Presenter API (`internal/presenter`) | none of its own | queries | open bucket added to rollup rows | sums as if from the rows |
| Parity checker (`internal/parity`, `internal/paritycheck`) | manifests, a scratch database, a resume file | image the source, extract both sides, diff, record | the source changes while it is read; a second interpreter of every format | PASS only for what agrees |
| Views (`frontend/src`) | none | render | - | - |

**How they interact.** An adapter sends canonical events into its source's
channel; a merger forwards them into the coalescer's merged channel; the
coalescer collects a batch across sources and writes it in one transaction
through one persistent writer per source. In that transaction the writer updates
rows, cursor and read models and appends notify rows. The poller in the other
process reads the notify rows, matches each with the registered subscriptions and
delivers into the hub; a stream handler per connection writes frames; the page
fetches again what a frame names. The rebuild of the read models runs beside the
coalescer, serialised with it only transaction by transaction.

**Hazards.** `PROJECT.json` lists them at their lines. They are of four families:
memory that outlives a rolled back transaction (writer caches, staged buckets,
gates); values read before and used after something else moves (the rebuild's
cutoff and session starts, the idle refresh's flag checks, the poller's registry
snapshot, a retention callback's generation); what a restart forgets (carried
buckets, subscriptions) or repeats (events after the cursor); and queues at their
limit (merged channel, SSE channel, replay ring, notify retention). Two more came
with the adapters and the checker: state assembled from files that arrive in any
order, and two programs that must read the same file alike.

## 2. Modules and code

    RollupCarry <- RollupCarryProofs
    Coalescer --refines--> IngestLedger   Coalescer <- CoalescerProofs
    Resolver <- ResolverProofs            LiveFeed <- LiveFeedProofs
    SourceSupervisor + SearchIndex        (one run, two kinds of behaviour)
    SourceSupervisor + SearchIndex <- ReadModelProofs
    CountingLemmas <- CoalescerProofs, ReadModelProofs, ResolverProofs, LiveFeedProofs,
                      TailProofs, ParityProofs
    ParityManifest <- ParityDiff, ParityCheck       ParityDiff + ParityCheck <- ParityProofs
    CanonicalRows  <- CodexMapper, ClaudeMapper, CanonicalManifest
    CanonicalManifest <- CodexSource, ClaudeSource
    CodexMapper + CodexSource <- CodexParity      ClaudeMapper + ClaudeSource <- ClaudeParity
    CodexTail + ClaudeTail                (one run, two kinds of behaviour)
    CodexTail + ClaudeTail <- TailProofs

Each `MC*` module instantiates the module, or the modules, of its name for TLC.
Where two modules share a run a variable of the MC module (`part`, `which`) picks
in the first state the one that moves; the other stands still.

### RollupCarry

How the closed cells of `rollup_hourly` and `rollup_daily` stay equal to a fold
of the committed rows. A *cell* is a granularity and a bucket. Its metrics are
abstracted to the set of `<<item, version>>` folded into it: two cells are equal
exactly when they were computed from the same content. All sources of a model
share one `source_format`, since a recompute deletes and reads by format.

| State | Code |
|---|---|
| `db`, `tx` | committed rows and what the open transaction sees: item starts, item versions, rollup cells |
| `dirty`, `staged` | `dirtyRollupBuckets`/`Days`, `pendingMaterializedBuckets`/`Days` of each writer |
| `cur`, `applied`, `marked` | progress of a flush over its sources; those that set `repair_pending` because their refresh was skipped |
| `deferred`, `rb` | `deferReadModels` flags; the all-sources rebuild: phase, cutoff, session starts and days it loaded |
| `idle` | an idle refresh between its flag checks and its transaction |
| `clock` | the wall clock in hours |
| `owed`, `gap`, `missed` | history: cells left to a source-scoped repair; cells nobody is going to recompute, as things stand, and why; what the open flush adds to those if it commits |

The actions are the event kinds that touch a rollup input (`ApplySessionStarted`,
`ApplySessionUpdated`, `ApplyOpStarted`, `ApplyOpFinalized`, and `ApplyOther` for
every event that only inserts a stub session), `FinishSource`
(`refreshBatchReadModels`), `Commit` with promotion and reset, `Rollback`, the
two halves of the idle refresh, the steps of `BackfillReadModels` one transaction
each, its failure, and `Restart`.

`ApplyOpStarted` takes any time. A repeated event keeps the earlier start of the op
(`start_ts = MIN`, `writer.go:1257`), may replace what is folded of it (name,
namespace, model), and marks the bucket of its own time only (`writer.go:1287`). The
codex adapter sends such events, with the timestamp of the record that enriches or
ends the call (`ops_enrich.go:138`, `169`, `308`). The bucket the op was folded into
is then missed, if the writer does not carry it anyway: because its contents changed,
or because an earlier start moved it out.

The code does not keep every cell right. Instead of hiding that behind an
assumption the model records, in `gap`, each way a cell may stay wrong, and the
main invariant says there is no other:

- `stub`: a stub session changes a bucket that no event marked;
- `reemitted`: an op that was emitted again at another time changed in, or moved out
  of, a bucket the writer did not carry;
- `inherited`: a bucket open before a restart and still open at the next rebuild;
- `truncated`: a bucket the idle refresh filled between the rebuild's reading of
  its cutoff and its truncate;
- `kept`: after a failed rebuild, a row whose items have all moved away.

A gap ends when a writer marks the cell after all, as the `OpFinalized` behind a
repeated `OpStarted` does, or when the rebuild truncates it in order to fold it anew.
So a gap is a statement about now, and not an excuse for the rest of the run.

### Coalescer and IngestLedger

The write path. An event is its position in its source's stream, and is of one of
three kinds: `session` writes a parent row, `op` needs it and inserts a stub
unless the writer's cache knows it, `progress` carries a cursor. `chan`, `hand`,
`merged` and `batch` are the places an event can be in; `mode` and `co` are where
the mergers and the coalescer are; `writer` is what each writer keeps in memory
through a rollback. One flush is one step per attempt: the transaction is the fold
of `ApplyStep` over the batch's events, grouped by source as `flushBatch` does,
and an attempt may fail after any number of steps, which rolls back `rows`,
`written` and `cursor` and leaves the writers as far as they had come. An attempt
under a cancelled context keeps its batch; the final flush uses a detached
context; a batch that exhausts its retries is dropped and reported to the worker
of its first event. `Restart` may come anywhere and keeps the database only.

`IngestLedger` is what this promises, without channels, batches, retries or
writers: per source a frontier up to which every event is settled (written or
given up), a checkpoint within it that commits with what it covers, and a restart
that falls back to the checkpoint. `LedgerSpec` is the refinement, with the
frontier mapped to the events sent less those still in the pipe.

### LiveFeed

From a committed notify row to the page that shows its data. A *key* is what a
row invalidates: a session, the statistics, a source. A page is identified with
its subscription. `stale[s]` holds the keys of page `s` that changed since it
last fetched them: what the user sees wrong.

| Part | State | Actions |
|---|---|---|
| notify table | `log`, `pruned` | `Commit` (append and prune) |
| poller | `pc`, `cursor`, `row`, `upto`, `snap`, `todo`, `to`, `coalesce` | `PollInit`, `PollRead`, `PollSnapshot`, `FanMatch`, `FanError`, `FanDeliver`, `WindowEnds` |
| registry | `registry`, `creating`, `posts`, `del` | `CreateAdd`, `CreatePublish`, `CreateRefused`, `DeleteEntry`, `DeleteHub` |
| hub | `hubSubs`, `sub`, `hubSeq`, `armed`, `fired`, `hook` | `Attach`, `TimerFires`, `Expire`, `HookForget`, `HookCoalesce` |
| stream | `handler`, `net` | `WriteReplay`, `WriteLive`, `HandlerEnd` |
| page | `client`, `last`, `stale` | `Mount`, `Opens`, `Refused`, `Receive`, `Break`, `StreamEnds`, `Abort`, `Leave` |
| process | `stage` | `StopPoller`, `RaiseFlag`, `Broadcast`, `HubShutdown`, `RegistryClear`, `Exit`, `Restart` |

Each place where the code lets go of a lock is a step boundary: a create
registers in the hub before it publishes to the registry, a delete removes in the
other order, an expiry removes in the hub and leaves the registry to a hook, and
a timer that has fired can no longer be stopped. As in RollupCarry, `gap` names
the ways a key may stay behind until something else refreshes it: `pruned` (the
retention deleted a row before the poller read it), `late` (the poll passed
before the page was subscribed), `coalesced` (a second statistics row within the
window: nothing is sent when the window ends), `match` (the match query failed),
`dropped` (the channel overflowed), `unacked` (a frame was lost before the client
had any id to resume from).

Abstractions: ids are random and never repeat, so a subscription is named by its
page; a fetch is one atomic read; heartbeats and the dropped counter, which the
client does not read, are left out; the poll interval of 1 s, the coalescing window of 1 s
and the retention of 60 s are steps that may come at any time. A page has one subscription here.
In the application the layout holds a second one, unfiltered, that shares the
query cache: it can only make a page less stale than the model says.

### Resolver

Late linkage. A transcript names its parent, its root and the child of an
operation by native id and may be read before what it names; the writer links what
is there and stashes the rest, and the resolver's loop links it later. `rows` and
`ops` are the link columns; `gen`, `seenGen`, `seenSession`, `rootsGen` are the
three gates that let a tick skip work; `pass` is a tick with the gate values it
captured; `unbumped` are batches committed whose hook has not yet raised the
generation. Actions: `Commit` of one event (`applySessionStarted`, op start, stub),
`BumpIngestionGen`, `Tick`, `Probe`, `PassCommits`, `PassFails`, `StopContext`,
`Drain`, `FinalPass`, `Restart`. Two histories record what the gates let slip:
`late` (a session committed with an older `last_activity_ts` than the maximum) and
`rootsLost` (a root pass that is owed and skipped by its own gate).

### SourceSupervisor and SearchIndex

*SourceSupervisor* is one source: the supervisor goroutine (`sup`), its tail
(`tail`, which may hang), its repair goroutine (`rep`, `pending`), the two
one-place channels (`restartQ`, `repairQ`), the watchdog and the heartbeat writer
(`wd`, `late`, `hbq`), the durable columns (`life`, `rms`), and what the rest of
the daemon does to it: the scan gate, the rebuild, a tail batch that leaves debt.
`owed` is the history the properties speak of: rows are missing from the source's
read models. `dropped` and `unmarked` are the two ways a request is lost.

*SearchIndex* is what those repairs do. A row's text is its version; `row` is
committed, `index` is what `fts_ops` and `fts_logs` show, `stale` the rollup cells
that lack rows. `pass` is the rebuild or repair that holds `backfillMu`, with its
stage, its session page, its cursor and the page it has read and not yet written:
loading and writing are two transactions in the code and two actions here, with
live batches in between. Rebuild pages follow the order of the TEXT id, repair
pages the rowid, as the queries do. `overtaken` records the ops whose index row a
repair wrote from a page that was older than the op.

### ParityManifest, ParityDiff, ParityCheck

*ParityManifest* has the artifacts, the rules that make one valid and the in-memory
diff, as operators. *ParityDiff* is the engine that streams both sides through a
scratch database: rows arrive in any order, are validated as they arrive, then
indexed and compared. *ParityCheck* is a whole run of the checker against a source
that goes on changing and a daemon that goes on ingesting it: image of the tree or
fingerprints of the live one, extraction of both sides, verification, deadline,
cancellation, `--resume`, `--changed-since` and `--sample`. Files may be there from the
start, come later, change and go; a change moves the mtime, and a file that comes back
has a later one than it had.

### The mappers and the readers that check them

*CanonicalRows* is the writer as a function: what each canonical event does to the
rows of one session. *CodexMapper* and *ClaudeMapper* are the adapters' mappers, one
operator per record kind, over a mapper state that carries the rows its events have
made. *CodexSource* and *ClaudeSource* are the parity checker's own readers of the
same formats; *CanonicalManifest* extracts the manifest of the rows. *CodexParity*
and *ClaudeParity* feed one file, record by record, to both, and at its end diff
the two manifests. Records carry what the two tell apart: ids, turns, status,
presence of text, arguments and outputs; a payload is the line and pointer it is
read from. Token counts, previews and extras are left out unless an artifact
carries them.

There are shapes of file on which the two interpreters part (section 6). Each is
recognised when it occurs and collected in `odd`; the parity properties speak of
files without one, the discipline properties also of files with one.

### CodexTail and ClaudeTail

Reading files that grow. Sizes and offsets count half lines, so a line that is half
written is a state. *CodexTail*: scan, catch-up, watches, debounce and flush,
cursor and progress, truncation, and the decision about a turn left open at the end
of a file whose mtime is an hour old. A line is reduced to its effect on turns.
*ClaudeTail*: the same for a main transcript, its sub-agents' transcripts and the
sidecars that say which call made which sub-agent; `def` is `tailDeferral`, which
pairs an Agent call with the last line of its sub-agent's file and is persisted in
the cursor (`parked`). In both, `Commit`/`Apply` is the ingester taking events in
order, a fault is a failed read or a watcher overflow, and a crash keeps what was
committed. `lost`, `spliced`, `missed`, `dim`, `torn` and `rewound` are histories of
the faults after which the code knowingly does not catch up.

## 3. Runs

Each passing run has, per property, a mutant: a plausible slip in one modelled
definition with which the property fails. Behaviours end when the bounds are
spent, so deadlock checking is off; that the real system does not get stuck is
what the liveness properties say.

| Run | Question | Properties | States |
|---|---|---|---|
| `rollup_restart` | three hours over two days, content changes within the first, an op emitted again at other times, rollbacks, a rebuild, a restart | `TypeOK`, `MismatchCovered`, `OpenNeverMaterialized` | 566 k |
| `coalescer_two` | two sources in shared transactions with failures, drop, shutdown, restart | `NothingLostInOrder`, `CursorCovered`, `LedgerSpec` | 373 k |
| `coalescer_live` | progress while running and at shutdown, with a backlog larger than the merged channel and a restart | `EventuallySettled`, `ShutdownCompletes` | 85 k |
| `feed_client` | one page, prunes, errors, overflow, two breaks, an unmount, retention | `StaleCovered`, `RegistryMirrorsHub`, `WindowHonoured` | 1.55 M |
| `feed_shutdown` | shutdown and restart at any point | `PagesCatchUp`, `Reclaimed` | 65 k |
| `resolver_links` | a nested lineage committed in any order, failing passes, a stop, a restart | `GatesHideNothing`, `CleanStopLinked`, `OpsLinkOwnChildren`, `LinksAreAnnounced`, `LinksAreStable`, `EventuallyLinked` | 738 k |
| `supervisor` | a source's life; and the passes of rebuild and repair against live batches | `RepairNeverForgotten`, `StaleIsHandled`, `SearchSettles`, `RebuildDoesNotRaceOps` | 3.78 M |
| `supervisor_live` | does everything that waits for a source get its answer, with one failure, deferred batch or restart | `ScanGateOpensEventually`, `StopEnds`, `DebtIsRepaid` | 299 k |
| `parity` | both diff engines over all small manifests; a check of a changing source | `VerdictIsExact`, `EnginesAgree`, `VerdictIsSound` | 3.59 M |
| `mappers` | every short file of two formats through mapper, rows, both readers and the diff | `CodexParityPasses`, `CodexTurnsDisciplined`, `ClaudeParityPasses`, `ClaudeOpsDisciplined` | 597 k |
| `tails` | growing files, faults and crashes under both tails | `CursorsAreHonest`, `NothingForgotten`, `EofNotRepeated`, `CompletionKept`, `ClosesAreDue`, `NamesCatchUp`, `TranscriptsKeptUp` | 2.57 M |
| `coalescer_shutdown_claim` | see section 6 | `ShutdownPicksUpEvents`, violated | |

Type invariants are stated in each module; where no proof needs one it is left out
of the configurations, which list what says something about the code.

What they show:

- **`MismatchCovered`**: whenever a cell differs from a fold of the committed rows
  a writer carries it, the rebuild has yet to reach it, a repair owes it, or it is
  one of the five gaps. It spans marking, staging, promotion, rollback, the idle
  refresh, the rebuild's stale snapshot and restarts.
- **`OpenNeverMaterialized`**: queries add a live fold of the open bucket to the
  rollup rows, so a row there would count twice.
- **`NothingLostInOrder`, `CursorCovered`, `LedgerSpec`**: the pipe of a source
  holds, in order and once each, exactly what was sent and is not settled; the
  committed cursor never passes an unsettled event; the whole implements the ledger.
- **`EventuallySettled`, `ShutdownCompletes`**: no event waits for a later one,
  unless a restart takes it back to its adapter; a
  cancelled coalescer that is not killed first ends, or it is `Jammed`: its `run` waits for the mergers with
  the merged channel full and an event in a merger's hand. The run's channel holds one
  event and its stream three, so the jam happens; the property says that nothing else
  can keep a cancelled coalescer from its end, and section 6 quotes what the code says
  of the jam.
- **`StaleCovered`, `PagesCatchUp`**: no connected page is silently behind, and one
  that is behind catches up, up to the six named losses and a lost subscription.
- **`RegistryMirrorsHub`, `WindowHonoured`, `Reclaimed`**: the
  three tables that list subscriptions agree except while the operation that makes
  them agree is under way; no entry outlives its subscription; no callback of an
  older window ends a newer one; what had a stream is given back even if the
  DELETE never arrives.
- **`GatesHideNothing`, `CleanStopLinked`, `EventuallyLinked`**: when the loop would
  skip its next tick nothing linkable is unlinked, outside the two recorded gaps; the
  final pass, which ignores the gates, closes the first of them; failed passes are
  retried until they link. `LinksAreStable`, `OpsLinkOwnChildren`,
  `LinksAreAnnounced`: a link is never moved or dropped by a re-emission or a
  restart, goes to a session of the operation's own lineage, and is named in the
  notify rows of the same transaction.
- **`RepairNeverForgotten`, `DebtIsRepaid`**: as long as rows are missing from a
  source's read models a request is queued, a repair will look again, or the scan has
  yet to end; and the debt is repaid, unless the source ended or a request was lost
  in one of the two recorded ways. **`StaleIsHandled`, `StopEnds`,
  `ScanGateOpensEventually`**: a tail shown as stale is being replaced; a stop ends
  even with a hung tail; no source can keep the others from starting.
- **`SearchSettles`, `RebuildDoesNotRaceOps`**: with no pass under way and no debt,
  every op and, where the source indexes logs, every log is in the index and no
  rollup cell lacks a row. An index row may show an older text only where a repair's
  page was overtaken.
- **`VerdictIsExact`, `EnginesAgree`**: PASS, FAIL and INCOMPLETE are what a direct
  definition of agreement says, whatever the cap on findings, and the in-memory and
  the streaming engine give the same result. **`VerdictIsSound`**: a PASS, fresh or
  resumed, is about contents the database agreed with, the contents whose hashes it
  records; a fingerprinted file that changed under the check gives no verdict; a
  diagnostic run never passes. A file that was not there when the fingerprints were
  taken and is gone again at the verification is in neither, and section 6 has it.
- **`CodexParityPasses`, `ClaudeParityPasses`**: mapper, writer, canonical reader and
  source reader together give PASS on every file without a recorded oddity (and, for
  Claude Code, never PASS on a corrupt one). **`CodexTurnsDisciplined`,
  `ClaudeOpsDisciplined`**: turns are closed exactly once and in order, no event names
  a row that is not there, and an op is running only while somebody waits for it.
- **`CursorsAreHonest`, `NothingForgotten`, `TranscriptsKeptUp`**: no committed cursor
  passes a line that was not delivered; at rest every line on disk has been read,
  unless a recorded fault hit that file. **`EofNotRepeated`**: a file's open turn is
  closed at its end at most once for the same content. **`CompletionKept`,
  `ClosesAreDue`**: a finished sub-agent's completion survives flushes and restarts
  until its call is known, and a call is closed only by a sub-agent that is finished.
  **`NamesCatchUp`**: a sidecar that appears late still names its sub-agent.

**Bounds, and why they are enough.** *Rollups*: two hours per day, so that an hour
can close with and without its day within three hours; one restart, as its
successor starts from nothing a further one could add to; two version changes, so
that an op can be emitted again with other contents and finalized after it, before the
second day begins (`Budget`). With one
source: cells are shared by the sources of a format, and the proof in section 5
covers any number. *Coalescer*: channels of capacity one and batches of two make
every queue full and every batch mix sources; streams of up to three events put a
cursor between two writes; one retry with one or two failures reaches both recovery
and drop. *Feed*: a ring of one and a channel of two make eviction, overflow,
coverage and non-coverage all happen with three rows; two breaks give a second
retention window for a late callback; a cap of one makes a create that meets its
predecessor's subscription be refused. *Resolver*: three commits of a lineage three
deep bring parent, child and grandchild in every order, with operations that name
their child or only a tool use; one failing pass and one restart. *Supervisor*: one
debt from a batch, one fault, one restart, any one of the three in the liveness run.
*SearchIndex*: pages of two over three ops
and two logs in two sessions, so that there are full, short and empty pages, two
versions of an op, two failures, a crash; the order of ids differs from that of
rowids. *Parity*: two rows a side from eleven shapes that reach every branch of the
comparison, a cap of one; two files, each there from the start or not, two changes and two
checks, the second of which may resume. *Mappers*: eight alphabets for codex and four for Claude Code, each a
group of records that share state, with every file of up to three to six records of
it; one oddity per file. *Tails*: one codex file of three lines in one directory with
one fault and one crash; one Claude Code session with one sub-agent, two calls, two
lines of work and one fault or crash. The codex tail limits its environment to
moments when it is not about to take a step of its own that commutes (`Room`), the
Claude Code tail likewise (`Settled`).

## 4. Fairness

*Coalescer*: weak fairness for mergers, the end of an attempt and the drain:
goroutines that can run do run, and a local SQLite transaction commits or fails. Strong fairness
for receiving, the timer and the stop of the main loop: they are cases of one Go
`select`, which chooses at random among those that are ready, so a case that is
ready again and again is taken. Nothing is assumed of adapters, failures,
cancellation or restart.

*LiveFeed*: weak fairness for the poller, the request handlers, the timers and
their callbacks, hooks, stream handlers, the browser and, once begun, the shutdown
sequence. None for commits, the user, broken connections or a restart of the
process. The properties of `feed_client` do not depend on it.

*Resolver*: weak fairness for the ticker, the probe, the hook that counts a batch and
the end of the deferral, and that a pass does not run for ever; none for its success.

*SourceSupervisor*: weak fairness for the supervisor, repair and watchdog goroutines,
for the wake-ups and for the heartbeat of a silent tail to age; strong fairness for
taking a repair or restart request, which are cases of a `select`. A scan is assumed to
end, and a tail that is alive obeys its cancellation; a hung one never does. None for
faults, batches, stop or restart.

The other modules state safety only.

## 5. Proofs

Ten components are proved about; the supervisor and the search index share a module,
and so do the two tails and the parity engines with the check run. Each theorem holds for every value of the
constants that the component's named assumption admits; the assumption gives the
constants their types and says that what the code keeps apart is distinct
(`ConstantsAssumption`, `BoundsAssumption`, `IndexAssumption`, `FeedAssumption`,
`TailAssumption`, `ClaudeTailAssumption`, `DiffAssumption`, `CheckAssumption`; a page's keys are finitely many), and TLC
evaluates it in every run of the component. The bounds of the runs (failures,
restarts, breaks) are arbitrary naturals here.

| Module | Theorem | Statement |
|---|---|---|
| `RollupCarryProofs` | `TypeCorrect` | `Spec => []TypeOK` |
| | `Invariance` | `Spec => []IInv` |
| | `MismatchAlwaysCovered` | `Spec => []MismatchCovered` |
| | `OpenBucketsNeverMaterialized` | `Spec => []OpenNeverMaterialized` |
| `CoalescerProofs` | `NothingIsLost` | `Spec => []NothingLostInOrder` |
| | `CursorsAreCovered` | `Spec => []CursorCovered` |
| | `ImplementsLedger` | `Spec => LedgerSpec` (the refinement of `IngestLedger`) |
| `ReadModelProofs` | `SupervisorTypes` | `Spec => []TypeOK` |
| | `RepairIsNeverForgotten` | `Spec => []RepairNeverForgotten` |
| | `StaleTailsAreHandled` | `Spec => []StaleIsHandled` |
| | `SearchSettlesAtRest` | `Spec => []SearchSettles` |
| | `RebuildKeepsOps` | `Spec => []RebuildDoesNotRaceOps` |
| `ResolverProofs` | `GatesNeverHideWork` | `Spec => []GatesHideNothing` |
| | `CleanStopsLeaveNothing` | `Spec => []CleanStopLinked` |
| | `LinksNeverMove` | `Spec => LinksAreStable` |
| | `LinksAreNeverSilent` | `Spec => LinksAreAnnounced` |
| `LiveFeedProofs` | `RegistryFollowsHub` | `Spec => []RegistryMirrorsHub` |
| | `WindowIsHonoured` | `Spec => WindowHonoured` |
| | `NoPageSilentlyBehind` | `Spec => []StaleCovered` |
| `TailProofs` | `CursorsStayHonest` | `Spec => []CursorsAreHonest` |
| | `TailForgetsNothing` | `Spec => []NothingForgotten` |
| | `EndDecidedOnce` | `Spec => EofNotRepeated` |
| | `TranscriptsAreKeptUp` | `CSpec => []TranscriptsKeptUp` |
| | `NamesDoCatchUp` | `CSpec => []NamesCatchUp` |
| | `CompletionsAreKept` | `CSpec => []CompletionKept` |
| | `OnlyDueCloses` | `CSpec => ClosesAreDue` |
| `ParityProofs` | `DiffVerdictIsExact` | `Spec => []VerdictIsExact` |
| | `DiffEnginesAgree` | `Spec => []EnginesAgree` |
| | `CheckVerdictIsSound` | `CheckSpec => []VerdictIsSound` |

`CountingLemmas` holds what several of them need: every non-empty set of naturals has
a least member, and a greatest if it is bounded, and induction over the naturals and over an interval stated for
*sets*, not for an operator, so that the provers can use it. With it the recursive
functions of the models (positions in a queue, the steps of a flush, the rows of a
page, the lines of a read) are shown to obey their definitions, and facts about them are proved for queues
and pages of any length. Every component's proof has one lemma per action, or per
group of actions that disturb the same things, and under it one step per conjunct.

**RollupCarry.** `MismatchCovered` is not inductive: it speaks of committed rows only,
while a commit replaces them with the transaction's. `IInv` adds

- `FlushShape`: without an open flush the transaction's view is the database, and
  no flush is open while an idle refresh is;
- `CutoffPast`: the rebuild's cutoff is not in the future and the starts it has
  loaded lie before it;
- `OnlyClosed`: neither view has a row of an open bucket, and only closed buckets
  are staged. Closed buckets stay closed (`ClosedMonotone`), so the clock keeps it;
- `TxDelta`: a cell of the transaction that differs from its fold is one some
  writer will still carry, or owe, after the commit, or is missed (a gap once the
  transaction commits), or differs in the database in the same way. This is where staged buckets of a rolled back attempt
  meet an attempt that skipped its refresh;
- `TxChanged`: what the transaction would change is carried or missed, so a
  rollback, which keeps the marks, loses nothing;
- `AfterTruncate`: after the truncate, while the rebuild flag is up, no refresh
  writes a cell, so a row that exists is right or left with somebody;
- `Snapshot`: where the session starts the rebuild has loaded differ from the
  database, a writer that moved them left a mark.

The apply actions share `ApplyPreserves`: after each, every cell whose fold it changed
is carried by its source or missed. For a repeated `OpStarted` (`ApplyOpStartedIInv`)
those are the marked cells of the event and the cells of the op's old start, and
nothing is assumed of the time it carries. `MarkFacts` shows that a gap or a missed
cell is only taken off the books when the source carries the cell.

Since the theorems hold for any set of sources they also cover what no run does: two
sources of one format recomputing one cell.

**Coalescer.** `IInv` says, per source, that its pipe (batch, merged channel, the
merger's hand, source channel) is the gapless run of positions after the frontier;
that the frontier has passed the committed cursor and the cursor this life started
from; that everything up to it is written or dropped; and (`StagedInReach`) that a
cursor a failed attempt left in its writer lies between the committed one and the end
of the batch. The last is what an induction needs and no run looks at: such a cursor
survives retries, cut-off flushes and the drop of its batch, and is committed by
whatever attempt succeeds next. `TransactionSound` is the induction over the steps of
one attempt. The refinement follows: every action settles a prefix of the pipe, moves
the checkpoint within it, falls back to it, or stutters.

**SourceSupervisor.** `SupervisorInv` names who answers for missing rows (`Cover`: a request on
its way, a repair that has not yet read, a tail about to start) and adds what keeps
that true: a repair holds its request until it clears it and never holds the lock
beside the rebuild (`RepairDiscipline`); the deferral of the scan precedes the first
tail; and (`MarkCovered`) a `repair_pending` mark always has its request, except
between a repair's end and its record, when the rebuild that set the mark is over.

**SearchIndex.** What holds at rest was built page by page by a pass that live batches
overtook. `IndexInv` says where a row that is not yet right is waiting: in the page that
is loaded, behind that page, in a later session, or in a stage that has not begun
(`StageCovered`, `StagesDone`); that a loaded page is never ahead of its rows
(`PageSound`); and that ops beyond the rebuild's cursor have no index row
(`RebuildAhead`). A rebuild is trusted only while nothing is owed. `PagedStep` and the
lemmas after it show that a page is the smallest rows of its query, in order, with
none skipped, for any page size.

**Resolver.** The gates are three integers; `IInv` says what each stands for:
generation seen (`GenerationMark`), watermark seen (`SessionMark`), generation of the
last root pass (`RootMark`), that none is ahead of what it marks, and
(`SkipJustified`) that a pass which decided to skip the sessions still has its reason
when it commits, although batches have committed in between. Under them lie lemmas on
the passes: each leaves nothing of its own kind due (`LinkOps`, `LinkParents`,
`LinkRoots` with the chain of parents, which cannot be longer than the table), undoes
nothing of an earlier one, and does not move the watermark; and the watermark of a
finite table is its maximum. A cycle of parents is allowed: its sessions are never
misrooted, since the recursive query does not reach them.

**LiveFeed.** `IInv` says of every page where each of the tables may know it: one that
has not reached the server is in none (`NotYet`); a create under way is in the hub
only (`Creating`); a delete comes only from a page that has left, and a subscription
that owes its hook is out of the hub (`Removed`); after the hub's shutdown nothing is
left (`Stages`). `StaleCovered` says that a page is nowhere silently behind. A row the
page has not shown is on its way in one of three places: the subscription's channel,
what the handler's stream begins with, the wire; and a page that reconnects takes up
again from its last id, so what is in the channel may reach it twice and out of order.
`FInv` therefore says that ids are in order in each place and the ring knows every
event under way (`Ordered`); that a frame counts for a key only if nothing before it on
the way has its id or a later one (`Fresh`), since the page drops what is not newer
than its last; that a page without its stream is served by a ring that still has an
event of the key past the page's last id, or does not cover that id, which makes it
resync (`Reaches`); and that a resync comes first and stays justified until it arrives
(`Resyncs`). Rows the poller has yet to hand out count as pending, and rows it lost
are in `gap`, as in the property. TLC checked `IInv` on ten million states of the instance
of `feed_client` before it was proved, `FInv` on four smaller ones of a single page.

**CodexTail.** Three invariants. `CursorsAreHonest` relates each cursor to what is
delivered, and is not inductive for two reasons. A committed cursor was a report in the
channel before, so `HInv` says of every report there that it is sound once the events
ahead of it are committed (`ReportsSound`); committing the head of the channel then
keeps it, and a crash, which throws the channel away, cannot hurt it. And a cursor must
stay sound while its rollout grows: `SoundFor` adds that it stands between two lines and
not beyond the last one, so the next line to be written is one it does not claim, and
that its generation is not ahead of the file's. `SentIs` is the induction over the lines
of one read, whatever was written between its open and its end. For `NothingForgotten`,
`RInv` says that in every stage of the tail, not only the idle one, complete lines beyond
the cursor are announced, dirty or still on the list of the pass (`Remembered`); the
catch-up pass starts with everything it finds, and a rollout with a header is always
found (`FoundOnDisk`). `EofNotRepeated` compares an end about to be decided with those
decided before, perhaps by a process that has since crashed. `EndsKept` says that no
marker lies beyond its file or its cursor's size (`Marked`), and that from the committed
cursor over the reports in the channel to the one in memory markers only advance, within
one generation of the file (`Behind`): whichever of them a restart resumes from, its
marker is at most the one in memory, and what lies between is decided with the
report that carries it or not at all. TLC checked each on the codex half of the
instance of `tails`.

**ClaudeTail.** One invariant, `SInv`, for all four properties. A step sends its rows
first and its cursor last (`ReportsEnd`), so when a cursor is committed everything sent
before it is delivered. The cursor has four copies: committed, on the wire, the scan's,
and the one in memory, whose parked and spent completions are those of the deferral.
`Carries` says the same of each: its positions stand between lines, not beyond the
transcript, and everything before them is delivered; a sub-agent it has read to its
final text is parked or spent (`Kept`); a parked one did finish (`Owed`); a spent one was
closed, or the main transcript showed its result (`Spent`); and a sidecar it records was
named. So a restart from any of them is as good as going on. The rest relates the
copies: cursor and deferral agree while no pass runs (`InStep`), though not within a
pass; what a cursor has as spent stays spent unless the tail was rewound (`SpentOnce`),
which is what `ClosesAreDue` needs; a sub-agent has a row only on account of a
transcript or a name, and a sidecar not yet applied is one the tail is told of
(`Naming`); an unread line is in the pass or the tail is told of it (`Following`). The
faults the properties except (a transcript that was cut, a sidecar that could not be
read, a transcript whose read failed) are exempt in the same places. TLC checked `SInv` on
the bounds of `tails`.

**ParityDiff.** The findings table is an accumulator, and its result a fold. `DiffInv`
says what it holds. While rows are written, it holds as many findings, and each as often,
as the validations of the two sides give one after the other, in whatever order the
extractors took turns (`Gathered`); once the result is taken, the findings of duplicate keys
and comparisons follow (`Following`), which is what the in-memory engine adds to the same
validations. The rest is about operators, for sequences of any length. The accumulator's
total is the number of findings and its state depends only on which there are, not on
their order nor on the cap (`AccumulateIs`); so the engines agree. A manifest without
validation and duplicate findings is one whose artifacts are valid and have distinct keys
(`ValidationIs`, `DuplicatesIs`), and two of those compare without a finding exactly when
they agree (`CleanCompare`); so the verdict is exact (`VerdictIs`). Both rest on `FlattenIs`,
which says what the concatenation of a sequence of sequences contains and how often; the
model states its folds as recursive functions over positions, and `CountingLemmas` gives
the induction.

**ParityCheck.** A verdict is about a tree that moved while it was read. `CheckInv` says of
every stage what the fingerprint is worth: as long as a captured file still has the mtime
its fingerprint has, it has the fingerprint's size and content as well (`PrintOk`), for
the mtime a change gives was never used before (`StampOk` says the same of the file between
its stat and its read, where the two may come from different contents). So a file that
verifies at the end has not moved since its fingerprint was taken, and its
rows in the source manifest are those of the fingerprint (`SrcOk`), those in the
canonical manifest the pinned rows' (`CanOk`), and if the manifests agree the pinned rows
are the fingerprint's (`OpArtifactsDiffer`). What the resume file offers was proved when it
was recorded (`Verdicts`). An earlier form of the property spoke of every path: it is
false for a file that comes after the fingerprints and goes before the verification, and
`MutationIsIncomplete` and `PassIsParity` now say what holds of it. TLC checked `CheckInv`
with two files and two changes, and with one file and three.

**Only model-checked.** Liveness (`EventuallySettled`, `ShutdownCompletes`,
`PagesCatchUp`, `Reclaimed`, `EventuallyLinked`, `ScanGateOpensEventually`,
`StopEnds`, `DebtIsRepaid`) is out of the prover's reach: it needs ENABLED and
fairness. `OpsLinkOwnChildren` depends on a feed whose records name a consistent
lineage, which is a fact about the agents' files and not about this code. The
mappers (`CodexParityPasses`, `CodexTurnsDisciplined`, `ClaudeParityPasses`,
`ClaudeOpsDisciplined`) are checked on their instances only: their agreement is that
of two interpreters of one transcript, an induction over the records of a file with
an invariant between two interpreters' states, and both are written as folds.

## 6. Where code and documents disagree

One run checks what the repository says of the program and finds it violated:

- `coalescer_shutdown_claim`: `coalescer.go:111` says that on shutdown the context's
  path "drains c.merged after mergerWG.Wait(), so the event will be picked up". With
  more events outstanding than `merged` holds, `run` waits for the mergers
  (`coalescer.go:217`) before it reads the channel (`219`), and a merger waits for room
  in it. Neither ends, the final flush is not reached and `StopContext` runs into its
  deadline; the next start replays from the cursor.

Further claims are stated in the modules and refuted by TLC when they are added to a
configuration of the module:

| Claim | Said | Found |
|---|---|---|
| `RollupCarry!OnlyThreePathsAffectRollups` | `writer.go:1901`: buckets are marked "ONLY from the three rollup-affecting apply paths" | a turn or log entry of an unseen session inserts a stub session whose start is a rollup input; nothing marks its bucket |
| `RollupCarry!ReemissionStrandsNoBucket` | `writer.go:1283`: "ev.Ts IS the op start (the OpStarted timestamp), which is the bucket the op rolls up into", and "an op never moves buckets after its start" | codex repeats an op's start with the timestamp of the record that ends it and another name and namespace (`ops_enrich.go:296`); the op keeps its start, the later bucket is marked, and the op's own, closed and forgotten by then, keeps the old name until the `OpFinalized` behind it is applied in a later batch, or, if that batch is dropped, until the next start |
| `RollupCarry!RestartStrandsNoBucket` | `ingester.md:637`: carrying "keeps every closed bucket materialized in normal operation" | a bucket open before and after a restart is carried by nobody and the rebuild excludes it |
| `Coalescer!RetriesOutlastFailures` | `ingester.md:852`: retries are for transient contention and recover | after a rollback the caches hold parents that have no row; each retry skips the insert and fails on the foreign key until the batch is dropped |
| `LiveFeed!AbandonedDropped` | `frontend-architecture.md:190`: "NO leaked EventSource or undeleted server subscription" | a page that unmounts during its POST sends no DELETE, and a subscription that never had a stream has no retention timer |
| `Resolver!NeverMissesASessionChange` | `ingester.go:745`: the session passes "never miss a real session change" | a session committed with an older `last_activity_ts` than the maximum does not move the watermark; it waits for the next newer session or the stop |
| `Resolver!NoopPassIsSilent` | `resolver.go:568`: "a no-op pass is silent" | (with a feed in which the root lands and the parent of its grandchild does not) a session with a stashed root and no parent link is moved to the stashed root by the first update and back to itself by the chain in the second: every root pass leaves it as it was and announces it |
| `SearchIndex!RebuildNeverCollides` | `writer.go:215`: tail batches "defer derived FTS/rollup refresh so they cannot race the truncate/rebuild window" | the inline insert of a new log entry (`indexLogEntryFTS`, `writer.go:1795`) looks at no flag; a log committed between the truncate and the rebuild's page of logs is in `fts_logs` already, the page's plain `INSERT` of its rowid fails, and with it the rebuild; the sources are then repaired one by one |
| `ParityDiff!ExtrasFail` | `ingestion-parity.md:365`: a canonical artifact without a source match is a failure | an extra that shares its key but for the class with some source artifact is passed over (`diff.go:80`); when that source artifact has its own exact match, nothing is reported and the verdict is PASS |
| `ParityCheck!AnyChangeIsIncomplete` | `ingestion-parity.md:761`: of the existing-DB check, "Any changed file makes the run `INCOMPLETE`" | a file that is created after the fingerprints and removed before the verification is in neither listing (`source_snapshot.go:43`); the extractors read it, its artifacts are compared, and the verdict stands |

What else the models exhibit, without a property of its own:

- *Rollups, coalescer, feed.* Buckets staged by a rolled back attempt are promoted by
  a later commit that did not refresh them (covered by `owed`); the rebuild's truncate
  removes rows past its cutoff (gap `truncated`); a size flush stops the timer the
  idle pass depends on; a reconnect answered 404 or 409 closes the EventSource for
  good; a statistics row inside the coalescing window is dropped with nothing sent when
  the window ends.
- *Search index.* A repair loads a page, a live batch re-indexes an op of it, the
  repair writes the older text: the row stays behind the op until the op changes again
  (`overtaken`), although `writer.go:177` calls the index byte-identical to a
  backfill. `backfillFTSOps` says a page is read and written in one transaction; it is
  two, with a yield between them. `fts_content_backfill.go:50` says `refreshFTS`
  populates `fts_content`; it does not touch it. A rebuild that fails and cannot read
  the list of sources leaves a wiped index without debt until the next start
  (`unrecorded`).
- *Supervisor.* A repair request received while the repair goroutine is on its way out
  is forgotten until the next request or tail restart (`dropped`). A tail that does
  not return within the cancel grace ends its source until the daemon restarts. The
  watchdog queues a restart even when its update changed no row.
- *Codex tail.* Whether a grown file had new content is judged per read
  (`eofGrewWithoutContent`): content delivered by an earlier read while the file was
  fresh is not seen by the read that finds it stale after a restart, so the turn it
  opened stays running, against the rule for stale files in `adapter-codex.md:631`.
  The tick watches a directory it finds without reading the files in it; a watcher
  overflow is only logged; a failed read drops the file until its next write or a
  restart; a file cut and regrown to its old size is not recognised as cut; stale
  files are closed by a scan only.
- *Claude Code tail.* A replaced tail starts again from the scan's cursor and repeats
  what was sent since (`rewound`). A sidecar whose second read fails is recorded as
  seen. An Agent call whose sidecar comes late stays running until the main transcript
  is read again (accepted in `adapter-claude-code.md:1151`). A turn is not finalised
  at the end of the file, against `adapter-claude-code.md:567`.
- *Two interpreters.* The shapes on which mapper and parity reader part, each an
  oddity of CodexParity or ClaudeParity. Codex: a web search or image op orphaned by
  the split of a turn at a user input; tokens of a turn that ends by abort, split or
  the end of the file; the open-tool flag after an MCP or patch end; a prompt and its
  companion event with the same text; an end that corrects an op already completed;
  artifacts only one side has (final answer log, image request, encrypted reasoning,
  call without arguments); content between turns; a turn announced again; unmatched
  outputs and ends. Claude Code: a compaction before any turn; a summary without a
  compaction; a tool-use id used again; a transcript without a timestamp; one read
  before its first timestamp.
- *Parity check.* A resumed PASS is keyed by the fingerprints of the source only, not
  of the database; a frozen image of several files may mix moments; a sample run with
  findings still reports that it was a sample.

## 7. What is not modelled

- **Inside the modelled components**: the metrics of a cell and the row cap
  (`collapse.go`); catalog and pricing effects of an event; `fts_content`; `Submit` of
  a late source and the deadline of `StopContext`; filter predicates beyond which keys
  they admit; contents of payloads; backoff durations. In the tails: the read of one
  transcript is atomic in ClaudeTail (CodexTail splits it at open), sidecars are
  written once, a tail without a scan before it, legacy codex `.json` files beyond
  their mark, orphan roots.
- **Not modelled**: the opencode and ai-agent adapters and their parity readers,
  catalog, pricing, migrations, the presenter's queries and page cursors.
- **Not to be modelled**: field decoding in the adapters and `internal/extract`, JSON
  layout, React views (conversions and layout without state of their own); SQLite,
  fsnotify and the browser's EventSource, taken as external and modelled by how the
  code uses them.
- **Out of reach here**: a composition of the coalescer's timer with RollupCarry's
  clock (the product exceeds a run); adapters, supervisor and coalescer in one state
  space. They meet at narrow interfaces instead: a cursor and the events after it, a
  repair debt, a committed row.

## 8. Plan

Done: RollupCarry, Coalescer with IngestLedger, LiveFeed, Resolver,
SourceSupervisor with SearchIndex, the parity engines and check, the codex and Claude
Code mappers with both readers, and their tails.

Proved: the safety properties of RollupCarry, Coalescer (with its refinement),
SourceSupervisor, SearchIndex, LiveFeed, CodexTail, ClaudeTail, ParityDiff and
ParityCheck, and all of Resolver's but `OpsLinkOwnChildren`.

Open: `OpsLinkOwnChildren`, and the agreement of the mappers with the checker's readers,
which needs their folds over transcripts restated as recursive functions over positions.

Then, modules: `Submit` against `StopContext`; the opencode tail with its poll state;
catalog deltas against a recount; pricing interval lookup and rollup collapse as
operators against reference definitions; presenter page cursors.

## 9. How to run it

    tlc -workers 2 -config rollup_restart.cfg MCRollupCarry
    tlc -workers 2 -config supervisor.cfg MCSourceSupervisor
    tlc -workers 2 -config supervisor_live.cfg SourceSupervisor
    tlapm RollupCarryProofs.tla      # likewise CoalescerProofs, ReadModelProofs,
                                     # ResolverProofs, LiveFeedProofs, TailProofs,
                                     # ParityProofs, CountingLemmas

Every run takes under five minutes, each module of proofs a few minutes. The run whose
name ends in `_claim` is expected to end with a counterexample.
