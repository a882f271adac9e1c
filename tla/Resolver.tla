------------------------------ MODULE Resolver ------------------------------
(***************************************************************************)
(* Late linkage of sessions and operations (internal/ingest/resolver.go,   *)
(* the link columns of writer.go, the gates of ingester.go).               *)
(*                                                                         *)
(* A transcript names its parent session, its root session and the child   *)
(* of an operation by NATIVE id, and may be read before the transcript it  *)
(* names.  The writer links what has landed and stashes the rest; the      *)
(* resolver's loop links the rest later, in one transaction that also      *)
(* writes the notify rows.  Three gates let a tick skip work: the          *)
(* generation counter, MAX(last_activity_ts), and the generation of the    *)
(* last root pass.                                                         *)
(*                                                                         *)
(* The writer and the resolver share one connection, so transactions are   *)
(* atomic steps; the gates are read outside them.  Two ghosts record the   *)
(* gaps the gates leave: `late' (a session commit that did not raise the   *)
(* watermark) and `rootsLost' (a root pass skipped by its generation gate  *)
(* although it is owed: its generation was recorded by a pass that then    *)
(* rolled back, or a batch is committed but not counted yet).              *)
(***************************************************************************)
EXTENDS Naturals, Integers, FiniteSets, FiniteSetsExt

CONSTANTS
    Feed,        \* the events adapters may emit, in any order, repeatedly
    Scope,       \* session id -> the source it belongs to
    NativeOf,    \* session id -> its native id
    MaxCommits,  \* bound: committed batches
    MaxFailures, \* bound: passes that fail
    MaxRestarts  \* bound: restarts of the daemon

Ids == DOMAIN Scope
None == "none"
OpKeys == {e.op : e \in {f \in Feed : f.kind = "op"}}

ASSUME FeedAssumption ==
    /\ \A e \in Feed : e.kind \in {"session", "op"} /\ e.id \in Ids /\ e.ts \in Nat
    /\ None \notin Ids

VARIABLES
    rows,      \* landed sessions: id -> link columns, stash, last_activity_ts
    ops,       \* landed operations: op -> session, child link, stash
    gen,       \* Ingester.ingestionGen
    unbumped,  \* committed batches whose onCommittedBatch hook has not run
    deferred,  \* deferredNow: startupScanActive or readModelRebuildActive
    seenGen, seenSession, rootsGen,     \* lastSeenGen, lastSeenSession, lastRootsGen
    pass,      \* the tick in progress: its captured gates
    notified,  \* sessions named by the notify rows the last step wrote
    life,      \* "up", "stopping", "final" (all returned), "stopped", "failed"
    commits, failures, restarts,        \* bounds' counters
    late, rootsLost

data == <<rows, ops>>
gates == <<seenGen, seenSession, rootsGen>>
ghosts == <<late, rootsLost>>
vars == <<rows, ops, gen, unbumped, deferred, seenGen, seenSession,
          rootsGen, pass, notified, life, commits, failures, restarts, late, rootsLost>>

NoPass == [at |-> "idle", gen |-> -1, wm |-> -1, sessions |-> FALSE]

\* lookupSessionID: the landed session of that source with that native id.
Lookup(r, src, nat) ==
    IF nat = None THEN {} ELSE {i \in DOMAIN r : Scope[i] = src /\ NativeOf[i] = nat}

Pick1(S, default) == IF S = {} THEN default ELSE CHOOSE x \in S : TRUE

\* The table f with the row of key x inserted or replaced.
Put(f, x, row) == [y \in DOMAIN f \cup {x} |-> IF y = x THEN row ELSE f[y]]

\* MAX(last_activity_ts) over sessions; 0 for an empty table.
Watermark(r) == Max({0} \cup {r[i].ts : i \in DOMAIN r})

Init ==
    /\ rows = <<>> /\ ops = <<>>
    /\ gen = 0 /\ unbumped = 0
    /\ deferred = TRUE
    /\ seenGen = -1 /\ seenSession = -1 /\ rootsGen = -1
    /\ pass = NoPass
    /\ notified = {} /\ life = "up"
    /\ commits = 0 /\ failures = 0 /\ restarts = 0
    /\ late = FALSE /\ rootsLost = FALSE

------------------------------------------------------------------------------
(* The writer's side: what a committed event does to the link columns.      *)

Grafted(old, new) == IF new # None THEN new ELSE old

\* A synthetic parent-side announcement of a session whose own transcript has
\* been read is a hint: it fills empty stash keys and replaces nothing.
Hint(e, old) == e.synthetic /\ old.real

\* ... and keeps a lineage it contradicts.
Contradicts(e, old, key) == Hint(e, old) /\ old[key] # None /\ e[key] # old[key]

\* ON CONFLICT: a re-emit keeps a resolved parent, but takes its own root.
MergeSession(e, old, new) ==
    [parent  |-> IF Contradicts(e, old, "toParent") \/ old.parent # None
                 THEN old.parent ELSE new.parent,
     root    |-> IF Contradicts(e, old, "toRoot") THEN old.root ELSE new.root,
     toParent |-> IF Hint(e, old) THEN Grafted(e.toParent, old.toParent) ELSE e.toParent,
     toRoot  |-> IF Hint(e, old) THEN Grafted(e.toRoot, old.toRoot) ELSE e.toRoot,
     tool    |-> IF Hint(e, old) THEN Grafted(e.tool, old.tool) ELSE Grafted(old.tool, e.tool),
     real    |-> old.real \/ e.real,
     ts      |-> Max({old.ts, new.ts})]

NewSession(r, e) ==
    [parent |-> Pick1(Lookup(r, Scope[e.id], e.toParent), None),
     root   |-> IF e.toRoot = NativeOf[e.id] THEN e.id
                ELSE Pick1(Lookup(r, Scope[e.id], e.toRoot), e.id),
     toParent |-> e.toParent, toRoot |-> e.toRoot, tool |-> e.tool,
     real |-> e.real, ts |-> e.ts]

ApplySession(r, e) ==
    LET new == NewSession(r, e) IN
    Put(r, e.id, IF e.id \in DOMAIN r THEN MergeSession(e, r[e.id], new) ELSE new)

\* requireSessionID: an operation of an unseen session inserts a stub.
Stub(id, ts) ==
    [parent |-> None, root |-> id, toParent |-> None, toRoot |-> None,
     tool |-> None, real |-> FALSE, ts |-> ts]

RowsAfterOp(r, e) ==
    Put(r, e.id, IF e.id \in DOMAIN r THEN [r[e.id] EXCEPT !.ts = Max({@, e.ts})]
                 ELSE Stub(e.id, e.ts))

\* Mutant: a re-emit takes its own, possibly unresolved, child.
OpAfterReplaces(r, o, e) ==
    [session |-> e.id, child |-> Pick1(Lookup(r, Scope[e.id], e.toChild), None),
     toChild |-> e.toChild, tool |-> e.tool]

\* resolveOpStartedChild and the ops upsert: a resolved child is kept, the
\* stash keys survive a re-emit that omits them.
OpAfter(r, o, e) ==
    LET hit == Lookup(r, Scope[e.id], e.toChild)
        prior == IF e.op \in DOMAIN o THEN o[e.op]
                 ELSE [child |-> None, toChild |-> None, tool |-> None]
    IN [session |-> e.id,
        child |-> IF prior.child # None THEN prior.child ELSE Pick1(hit, None),
        toChild |-> IF hit = {} THEN Grafted(prior.toChild, e.toChild) ELSE prior.toChild,
        tool |-> Grafted(prior.tool, e.tool)]

\* A committed batch of one event.
Commit(e) ==
    /\ life \in {"up", "stopping"} /\ commits < MaxCommits
    /\ commits' = commits + 1
    /\ rows' = IF e.kind = "session" THEN ApplySession(rows, e) ELSE RowsAfterOp(rows, e)
    /\ ops' = IF e.kind = "session" THEN ops
              ELSE Put(ops, e.op, OpAfter(rows', ops, e))
    /\ unbumped' = unbumped + 1
    /\ notified' = {e.id}
    /\ late' = (late \/ (rows' # rows /\ Watermark(rows') = Watermark(rows)))
    /\ UNCHANGED <<gen, deferred, gates, pass, life, failures, restarts, rootsLost>>

\* onCommittedBatch runs after the commit is visible.
BumpIngestionGen ==
    /\ unbumped > 0 /\ life \in {"up", "stopping"}
    /\ gen' = gen + 1 /\ unbumped' = unbumped - 1
    /\ notified' = {} /\ UNCHANGED <<commits, data, deferred, gates, pass, life, failures, restarts, ghosts>>

\* The startup scan and the rebuild after it are over.  The resolver sees one
\* interval: nothing it reads changes between the two flags.
DeferralEnds ==
    /\ life = "up" /\ deferred
    /\ deferred' = FALSE
    /\ notified' = {} /\ UNCHANGED <<commits, data, gen, unbumped, gates, pass, life, failures, restarts, ghosts>>

------------------------------------------------------------------------------
(* The link passes: each maps the tables and the affected set onward.       *)

\* Sessions whose parent column is empty although the parent has landed.
ParentHit(r, i) == Lookup(r, Scope[i], r[i].toParent)
Orphans(r) == {i \in DOMAIN r : r[i].parent = None /\ ParentHit(r, i) # {}}

ParentsLinked(r) ==
    [i \in DOMAIN r |-> IF i \in Orphans(r)
                        THEN [r[i] EXCEPT !.parent = Pick1(ParentHit(r, i), None)] ELSE r[i]]

\* Mutant: only the linked child is recorded as affected.
LinkParentsQuiet(t) ==
    [t EXCEPT !.rows = ParentsLinked(@), !.affected = @ \cup Orphans(t.rows)]

LinkParents(t) ==
    [t EXCEPT !.rows = ParentsLinked(@),
              !.affected = @ \cup Orphans(t.rows) \cup {t.rows[i].root : i \in Orphans(t.rows)}
                             \cup {Pick1(ParentHit(t.rows, i), None) : i \in Orphans(t.rows)}]

\* Sessions that are still their own root although the root they name has landed.
RootHit(r, i) == Lookup(r, Scope[i], r[i].toRoot)
SelfRooted(r) ==
    {i \in DOMAIN r : r[i].root = i /\ RootHit(r, i) # {} /\ r[i].toRoot # NativeOf[i]}

ExplicitRoots(r) ==
    [i \in DOMAIN r |-> IF i \in SelfRooted(r)
                        THEN [r[i] EXCEPT !.root = Pick1(RootHit(r, i), None)] ELSE r[i]]

LinkExplicitRoots(t) ==
    [t EXCEPT !.rows = ExplicitRoots(@),
              !.affected = @ \cup SelfRooted(t.rows)
                             \cup {Pick1(RootHit(t.rows, i), None) : i \in SelfRooted(t.rows)}]

\* The end of the parent chain of i, after at most as many steps as there are
\* sessions.  In a cycle the walk ends at a session that still has a parent,
\* and the recursive query never reaches it.
ParentOf(r) == [i \in DOMAIN r |-> r[i].parent]

ChainEnd(parent, i) ==
    LET up[n \in 0 .. Cardinality(DOMAIN parent)] ==
            IF n = 0 THEN i
            ELSE LET below == up[n - 1] IN
                 IF parent[below] = None THEN below ELSE parent[below]
    IN up[Cardinality(DOMAIN parent)]

Top(r, i) == ChainEnd(ParentOf(r), i)

Misrooted(r) == {i \in DOMAIN r : ParentOf(r)[Top(r, i)] = None /\ r[i].root # Top(r, i)}

ChainRoots(r) ==
    [i \in DOMAIN r |-> IF i \in Misrooted(r) THEN [r[i] EXCEPT !.root = Top(r, i)] ELSE r[i]]

LinkTransitiveRoots(t) ==
    LET wrong == Misrooted(t.rows) IN
    [t EXCEPT !.rows = ChainRoots(@),
              !.affected = @ \cup wrong \cup {Top(t.rows, i) : i \in wrong}
                             \cup ({t.rows[i].parent : i \in wrong} \ {None})]

\* Mutant: roots are taken from the explicit stash only.
LinkRootsExplicitOnly(t) == LinkExplicitRoots(t)

LinkRoots(t) == LinkTransitiveRoots(LinkExplicitRoots(t))

ChildHit(t, o) ==
    IF t.ops[o].child # None THEN {}
    ELSE Lookup(t.rows, Scope[t.ops[o].session], t.ops[o].toChild)

\* Mutant: any session of the source with the tool use id.
ToolHitAnywhere(t, o) ==
    LET s == t.ops[o].session IN
    IF t.ops[o].child # None \/ t.ops[o].tool = None THEN {}
    ELSE {c \in DOMAIN t.rows : Scope[c] = Scope[s] /\ c # s /\ t.rows[c].tool = t.ops[o].tool}

\* Same source, same tool use, and a structural child of the operation's
\* own session.
ToolHit(t, o) ==
    LET s == t.ops[o].session IN
    IF t.ops[o].child # None \/ t.ops[o].tool = None THEN {}
    ELSE {c \in DOMAIN t.rows :
            /\ Scope[c] = Scope[s] /\ c # s /\ t.rows[c].tool = t.ops[o].tool
            /\ t.rows[c].parent = s \/ t.rows[c].toParent = NativeOf[s]}

LinkOps(t, hit(_, _)) ==
    LET linked == {o \in DOMAIN t.ops : hit(t, o) # {}} IN
    [t EXCEPT !.ops = [o \in DOMAIN @ |-> IF o \in linked
                          THEN [t.ops[o] EXCEPT !.child = Pick1(hit(t, o), None)] ELSE t.ops[o]],
              !.affected = @ \cup {t.ops[o].session : o \in linked}]

LinkOpChildren(t) == LinkOps(t, ChildHit)
LinkOpChildrenByToolUse(t) == LinkOps(t, ToolHit)

\* The root pass is gated on the generation it last ran at.
RootsDue(sessionsChanged) == sessionsChanged /\ gen # rootsGen

Linked(sessionsChanged) ==
    LET t0 == [rows |-> rows, ops |-> ops, affected |-> {}]
        t1 == IF sessionsChanged THEN LinkParents(t0) ELSE t0
        t2 == IF RootsDue(sessionsChanged) THEN LinkRoots(t1) ELSE t1
    IN LinkOpChildrenByToolUse(LinkOpChildren(t2))

\* One transaction: the links and their notify rows commit together.
LinkOrphansCommit(sessionsChanged) ==
    LET t == Linked(sessionsChanged) IN
    /\ rows' = t.rows /\ ops' = t.ops
    /\ notified' = t.affected
    /\ rootsGen' = IF RootsDue(sessionsChanged) THEN gen ELSE rootsGen
    /\ late' = (late /\ ~sessionsChanged)
    /\ rootsLost' = /\ ~RootsDue(sessionsChanged)
                    /\ rootsLost \/ (sessionsChanged /\ unbumped > 0)

\* The transaction rolls back.  When the root pass had finished, its
\* generation has already been recorded.
LinkOrphansRollback(sessionsChanged) ==
    /\ failures < MaxFailures \/ life = "stopping"
    /\ failures' = IF life = "stopping" THEN failures ELSE failures + 1
    /\ \/ UNCHANGED <<rootsGen, rootsLost>>
       \/ /\ RootsDue(sessionsChanged)
          /\ rootsGen' = gen /\ rootsLost' = TRUE
    /\ notified' = {} /\ UNCHANGED <<data, late>>

------------------------------------------------------------------------------
(* The resolver's loop.                                                     *)

\* A tick that is neither deferred nor idle captures the generation...
Tick ==
    /\ life = "up" /\ pass.at = "idle"
    /\ ~deferred /\ gen # seenGen
    /\ pass' = [NoPass EXCEPT !.at = "probe", !.gen = gen]
    /\ notified' = {} /\ UNCHANGED <<commits, data, gen, unbumped, deferred, gates, life, failures, restarts, ghosts>>

\* ... then probes the watermark (a failed probe runs every pass)...
Probe(ok) ==
    /\ pass.at = "probe" /\ life = "up"
    /\ ok \/ failures < MaxFailures
    /\ failures' = IF ok THEN failures ELSE failures + 1
    /\ pass' = LET wm == Watermark(rows) IN
               [pass EXCEPT !.at = "run",
                            !.sessions = (~ok \/ wm # seenSession),
                            !.wm = IF ok /\ wm # seenSession THEN wm ELSE -1]
    /\ notified' = {} /\ UNCHANGED <<commits, data, gen, unbumped, deferred, gates, life, restarts, ghosts>>

\* ... and advances its marks only when the pass commits.
PassCommits ==
    /\ pass.at = "run" /\ life \in {"up", "stopping"}
    /\ LinkOrphansCommit(pass.sessions)
    /\ seenGen' = pass.gen
    /\ seenSession' = IF pass.wm # -1 THEN pass.wm ELSE seenSession
    /\ pass' = NoPass
    /\ UNCHANGED <<commits, gen, unbumped, deferred, life, failures, restarts>>

\* Mutant: a failed pass advances the generation mark.
PassFailsForgets ==
    /\ pass.at = "run" /\ life \in {"up", "stopping"}
    /\ LinkOrphansRollback(pass.sessions)
    /\ pass' = NoPass /\ seenGen' = pass.gen
    /\ UNCHANGED <<commits, gen, unbumped, deferred, seenSession, life, restarts>>

PassFails ==
    /\ \/ pass.at = "run" /\ life \in {"up", "stopping"}
       \/ pass.at = "probe" /\ life = "stopping"
    /\ LinkOrphansRollback(pass.at = "run" /\ pass.sessions)
    /\ pass' = NoPass
    /\ UNCHANGED <<commits, gen, unbumped, deferred, seenGen, seenSession, life, restarts>>

\* StopContext cancels the workers' and the loop's context; batches are still
\* flushed...
StopContext ==
    /\ life = "up" /\ life' = "stopping"
    /\ notified' = {} /\ UNCHANGED <<commits, data, gen, unbumped, deferred, gates, pass, failures, restarts, ghosts>>

\* ... until every goroutine has returned, or the deadline passes...
Drain ==
    /\ life = "stopping"
    /\ \/ unbumped = 0 /\ pass.at = "idle" /\ life' = "final"
       \/ life' = "failed"
    /\ notified' = {} /\ UNCHANGED <<commits, data, gen, unbumped, deferred, gates, pass, failures, restarts, ghosts>>

\* Mutant: the final pass trusts the session gate.
FinalPassGated ==
    /\ life = "final"
    /\ LinkOrphansCommit(Watermark(rows) # seenSession)
    /\ life' = "stopped" /\ pass' = NoPass
    /\ UNCHANGED <<commits, gen, unbumped, deferred, seenGen, seenSession, failures, restarts>>

\* ... then one ungated pass runs, deferred or not.
FinalPass ==
    /\ life = "final"
    /\ \/ /\ LinkOrphansCommit(TRUE)
          /\ life' = "stopped" /\ UNCHANGED failures
       \/ /\ LinkOrphansRollback(TRUE)
          /\ life' = "failed"
    /\ pass' = NoPass
    /\ UNCHANGED <<commits, gen, unbumped, deferred, seenGen, seenSession, restarts>>

\* A crash at any point, or a start after a stop: newResolver.
Restart ==
    /\ restarts < MaxRestarts
    /\ restarts' = restarts + 1
    /\ gen' = 0 /\ unbumped' = 0 /\ deferred' = TRUE
    /\ seenGen' = -1 /\ seenSession' = -1 /\ rootsGen' = -1
    /\ pass' = NoPass /\ life' = "up" /\ notified' = {}
    /\ late' = FALSE /\ rootsLost' = FALSE
    /\ UNCHANGED <<commits, data, failures>>

LoopStep == Tick \/ (\E ok \in BOOLEAN : Probe(ok)) \/ PassCommits \/ PassFails

Next ==
    \/ \E e \in Feed : Commit(e)
    \/ BumpIngestionGen \/ DeferralEnds
    \/ LoopStep \/ StopContext \/ Drain \/ FinalPass \/ Restart

\* The ticker, the worker's hook and the startup sequence make progress, and
\* a transaction ends, one way or the other.
Fairness ==
    /\ WF_vars(Tick) /\ WF_vars(\E ok \in BOOLEAN : Probe(ok))
    /\ []<>(pass.at # "run") /\ WF_vars(BumpIngestionGen)
    /\ WF_vars(DeferralEnds)

Spec == Init /\ [][Next]_vars /\ Fairness

------------------------------------------------------------------------------
(* Properties.                                                              *)

\* Sessions and operations a full pass over the tables would change.
ParentsDue == Orphans(rows)
OpsDue == LET t == [rows |-> rows, ops |-> ops] IN
          {o \in DOMAIN ops : ChildHit(t, o) \cup ToolHit(t, o) # {}}

\* Type correctness: link columns name landed sessions only, so the foreign
\* keys of schema hold after every writer and resolver transaction.
TypeOK ==
    /\ DOMAIN rows \subseteq Ids /\ DOMAIN ops \subseteq OpKeys
    /\ \A i \in DOMAIN rows : /\ rows[i].parent \in DOMAIN rows \cup {None}
                              /\ rows[i].root \in DOMAIN rows
    /\ \A o \in DOMAIN ops : /\ ops[o].session \in DOMAIN rows
                             /\ ops[o].child \in DOMAIN rows \cup {None}
    /\ gen \in Nat /\ unbumped \in Nat /\ rootsGen \in Int
    /\ pass.at \in {"idle", "probe", "run"}
    /\ life \in {"up", "stopping", "final", "stopped", "failed"}

\* The gates never hide work: when every committed batch has been counted and
\* the loop has nothing left to do (its tick would skip), no parent, root or
\* operation that could be linked is unlinked, unless one of the two recorded
\* gaps is open (resolver.go loop, linkOrphansGated).
GatesHideNothing ==
    (pass.at = "idle" /\ unbumped = 0 /\ gen = seenGen) =>
        /\ OpsDue = {}
        /\ ~late => ParentsDue = {}
        /\ (~late /\ ~rootsLost) => Misrooted(rows) = {}

\* A clean stop leaves nothing linkable behind, however late a session was
\* committed: the final pass ignores the loop's gates.  Only a root pass that
\* was rolled back after it had been recorded may leave a root wrong.
CleanStopLinked ==
    life = "stopped" =>
        /\ ParentsDue = {} /\ OpsDue = {}
        /\ rootsLost \/ Misrooted(rows) = {}

\* A resolver transaction that links a session or an operation names it, and
\* the session it links it to, in the notify rows of the same transaction
\* (linkOrphans: one transaction for the links and the notify rows).
LinksAreAnnounced ==
    [][UNCHANGED unbumped =>
          /\ \A i \in DOMAIN rows :
                /\ rows'[i].parent # rows[i].parent => {i, rows'[i].parent} \subseteq notified'
                /\ rows'[i].root # rows[i].root => {i, rows'[i].root} \subseteq notified'
          /\ \A o \in DOMAIN ops :
                ops'[o].child # ops[o].child => ops[o].session \in notified']_vars

\* No step, of the writer or the resolver, ever re-points or drops a resolved
\* parent or a resolved child, across re-emits and restarts.
LinksAreStable ==
    [][/\ \A i \in DOMAIN rows : rows[i].parent # None => rows'[i].parent = rows[i].parent
       /\ \A o \in DOMAIN ops : ops[o].child # None => ops'[o].child = ops[o].child]_vars

\* An operation is only ever linked to a session that descends from its own
\* session, even when two sessions of a source carry the same tool use id
\* (linkOpChildrenByToolUse).
OpsLinkOwnChildren ==
    \A o \in DOMAIN ops : ops[o].child # None =>
        LET c == rows[ops[o].child] IN
        /\ Scope[ops[o].child] = Scope[ops[o].session]
        /\ c.parent = ops[o].session \/ c.toParent = NativeOf[ops[o].session]

\* Whatever can be linked is linked in the end, unless a gap is open or the
\* daemon stops: passes that fail are retried, deferral ends.
EventuallyLinked ==
    (ParentsDue # {} \/ OpsDue # {} \/ Misrooted(rows) # {}) ~>
        \/ ParentsDue = {} /\ OpsDue = {} /\ Misrooted(rows) = {}
        \/ late \/ rootsLost \/ life # "up"

\* A claim TLC refutes, of sessionLinkWatermark: the session passes "never miss a real
\* session change".
NeverMissesASessionChange ==
    (pass.at = "idle" /\ unbumped = 0 /\ gen = seenGen /\ ~rootsLost) =>
        ParentsDue = {} /\ Misrooted(rows) = {}

\* A claim TLC refutes, of linkOrphans, when a feed lets the root of a session land and
\* its parent not: a pass that links nothing writes no notify rows.
NoopPassIsSilent ==
    [][UNCHANGED <<rows, ops, commits>> => notified' = {}]_vars
==============================================================================
