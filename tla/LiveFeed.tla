------------------------------- MODULE LiveFeed -------------------------------
(***************************************************************************)
(* How a change reaches an open page: the notify table the ingester        *)
(* appends to, the poller of ai-viewer-serve that reads it, the            *)
(* subscription registry, the hub with its bounded channels and replay     *)
(* rings, the stream handler of /api/events, and the browser's side: the   *)
(* POST that subscribes, the EventSource that reconnects with the last id  *)
(* it has seen, and the queries a frame makes stale.                       *)
(*                                                                         *)
(* A key stands for what one notify row invalidates: a session, the        *)
(* statistics or a source.  A page is identified with its subscription     *)
(* (ids are random and never used twice); stale[s] are the keys of page s  *)
(* whose rows changed since the page last fetched them.                    *)
(***************************************************************************)
EXTENDS Integers, Sequences, FiniteSets, SequencesExt

CONSTANTS Subs,              \* pages, each with its subscription
          Sessions,          \* keys of session_changed rows
          SourceKeys,        \* keys of source_status_changed rows
          Stats,             \* the key of stats_invalidated rows
          Disconnect,        \* in the place of a key: a disconnect event
          NoSub,             \* no subscription
          Filter,            \* per page: the keys its filter admits
          ChannelCap,        \* notify.Options.ChannelCap, 256 in the code
          ReplayBuffer,      \* notify.Options.ReplayBuffer, 100 in the code
          MaxSubscriptions,  \* maxSubscriptions, 100 in the code
          MaxSeq,            \* bound: notify rows
          MaxErrors,         \* bound: failed queries of the poller
          MaxBreaks,         \* bound: connections the network breaks
          MaxLeaves,         \* bound: pages that are closed
          MaxShutdowns       \* bound: shutdowns of ai-viewer-serve

Keys == Sessions \cup SourceKeys \cup {Stats}

ASSUME FeedAssumption ==
    /\ Sessions \cap SourceKeys = {} /\ Stats \notin Sessions \cup SourceKeys
    /\ Disconnect \notin Keys /\ NoSub \notin Subs /\ IsFiniteSet(Keys)
    /\ Filter \in [Subs -> SUBSET Keys] /\ \A s \in Subs : Stats \in Filter[s]
    /\ ChannelCap \in Nat \ {0} /\ ReplayBuffer \in Nat \ {0} /\ MaxSubscriptions \in Nat
    /\ {MaxSeq, MaxErrors, MaxBreaks, MaxLeaves, MaxShutdowns} \subseteq Nat

VARIABLES log,        \* the notify table: the key of each row, by seq
          pruned,     \* rows up to this seq are deleted
          pc,         \* the poller: "boot", "idle", "snap", "fan", "deliver"
          cursor,     \* notifyCursor
          row, upto,  \* the row it is at and the last one it has read
          snap,       \* the registry snapshot of this poll
          todo,       \* subscriptions it has still to match with the row
          to,         \* the subscription it is delivering to
          coalesce,   \* statsCoalesce: "none", "recent" (in the window), "old"
          registry,   \* subscriptionManager.entries
          creating,   \* the create that holds sseLifecycleMu
          posts,      \* POST requests that wait for it
          del,        \* a DELETE: "none", "asked", "entry" (entry removed)
          hubSubs,    \* Hub.subs
          sub,        \* subscription objects: channel, ring, attached, gen
          hubSeq,     \* Hub.seq
          armed,      \* subscriptions whose retention timer runs
          fired,      \* retention callbacks under way, <<subscription, gen>>
          hook,       \* onSubRemoved: "none", "forget", "coalesce"
          stage,      \* the server: "up" ... "exited"
          handler,    \* the stream handler: running, and frames to write first
          net,        \* frames on the wire
          client,     \* the page
          last,       \* its Last-Event-ID, 0 for none
          stale,      \* its keys that are behind
          gap,        \* why a key may stay behind, <<page, key, cause>>
          spent       \* of the bounds

\* The resync frame carries no id.
Resync == [id |-> 0, key |-> Disconnect]
Frame == [id : Nat, key : Keys \cup {Disconnect}]

tableVars  == <<log, pruned>>
pollVars   == <<pc, cursor, row, upto, snap, todo, to>>
regVars    == <<registry, creating, posts, del>>
hubVars    == <<hubSubs, sub, hubSeq, armed, fired, hook>>
streamVars == <<handler, net>>
pageVars   == <<client, last, stale, gap>>
vars == <<tableVars, pollVars, coalesce, regVars, hubVars, stage, streamVars, pageVars, spent>>

NewSub == [ch |-> <<>>, ring |-> <<>>, attached |-> FALSE, gen |-> 0]

Init ==
    /\ log = <<>> /\ pruned = 0
    /\ pc = "boot" /\ cursor = 0 /\ row = 0 /\ upto = 0
    /\ snap = {} /\ todo = {} /\ to = NoSub
    /\ coalesce = [s \in Subs |-> "none"]
    /\ registry = {} /\ creating = NoSub /\ posts = {}
    /\ del = [s \in Subs |-> "none"]
    /\ hubSubs = {} /\ sub = [s \in Subs |-> NewSub] /\ hubSeq = 0
    /\ armed = {} /\ fired = {} /\ hook = [s \in Subs |-> "none"]
    /\ stage = "up"
    /\ handler = [s \in Subs |-> [on |-> FALSE, out |-> <<>>]]
    /\ net = [s \in Subs |-> <<>>]
    /\ client = [s \in Subs |-> "new"] /\ last = [s \in Subs |-> 0]
    /\ stale = [s \in Subs |-> {}] /\ gap = {}
    /\ spent = [errors |-> 0, breaks |-> 0, leaves |-> 0, shutdowns |-> 0]

Spend(what, max) == spent[what] < max /\ spent' = [spent EXCEPT ![what] = @ + 1]

Mounted(s) == client[s] \notin {"new", "gone"}

\* The keys of page s that are lost to it for a cause, if they are behind.
Lost(s, ks, cause) == {<<s, k, cause>> : k \in ks \cap stale[s]}

KeysOf(frames) == {frames[i].key : i \in 1..Len(frames)}

-----------------------------------------------------------------------------
(* The notify table.                                                       *)

\* The rows of one transaction: a flush and the resolver append a row per
\* changed session and one for the statistics, a flush also one for its
\* source; a lifecycle change appends a source row alone.
Emitted(ks, rollup, status) ==
    {p \o (IF ks # {} \/ rollup THEN <<Stats>> ELSE <<>>) \o q :
        p \in SetToSeqs(ks), q \in SetToSeqs(status)}

\* The last row the poller holds in memory or is past.
Read == IF pc \in {"snap", "fan", "deliver"} THEN upto ELSE cursor

RowKeys(a, b) == {log[r] : r \in a..b}

\* A transaction of the ingester commits its rows with the data they
\* describe; a flush also prunes the rows older than the retention.
Commit ==
    /\ \E ks \in SUBSET Sessions, rollup \in BOOLEAN, status \in SUBSET SourceKeys :
         \E rows \in Emitted(ks, rollup, status) :
           /\ rows # <<>> /\ Len(log) + Len(rows) <= MaxSeq
           /\ log' = log \o rows
           /\ stale' = [s \in Subs |->
                 IF Mounted(s) THEN stale[s] \cup (Range(rows) \cap Filter[s]) ELSE {}]
    /\ \E p \in pruned..Len(log) :
         /\ pruned' = p
         /\ gap' = gap \cup UNION {Lost(s, RowKeys(Read + 1, p), "pruned") : s \in Subs}
    /\ UNCHANGED <<pollVars, coalesce, regVars, hubVars, stage, streamVars, client, last, spent>>

-----------------------------------------------------------------------------
(* The hub.                                                                *)

\* enqueue: the ring keeps the newest ReplayBuffer events, a full channel
\* loses its oldest.
Enqueue(r, ev) ==
    LET ring == Append(r.ring, ev)
        ch   == Append(r.ch, ev)
    IN  [r EXCEPT !.ring = IF Len(ring) > ReplayBuffer THEN Tail(ring) ELSE ring,
                  !.ch   = IF Len(ch) > ChannelCap THEN Tail(ch) ELSE ch]

\* What a page loses when enqueue discards the oldest event: it is still in
\* the ring or behind it, which only a later reconnect with an id looks at.
Dropped(s) ==
    IF Len(sub[s].ch) = ChannelCap /\ (sub[s].attached \/ last[s] = 0)
    THEN Lost(s, {Head(sub[s].ch).key}, "dropped") ELSE {}

\* Mutant: a ring that holds anything is taken to cover the gap.
CoveredByAny(r, lastID) == lastID = 0 \/ r.ring # <<>>

\* parseAndValidateBounds: the ring proves that it covers the gap.
Covered(r, lastID) ==
    \/ lastID = 0
    \/ r.ring # <<>> /\ r.ring[1].id <= lastID /\ lastID <= r.ring[Len(r.ring)].id

\* replaySince: the frames a new stream starts with, oldest first.
NewerUpTo(ring, lastID) ==
    LET up[i \in 0..Len(ring)] ==
            IF i = 0 THEN <<>>
            ELSE IF ring[i].id > lastID THEN Append(up[i - 1], ring[i]) ELSE up[i - 1]
    IN  up
ReplaySince(r, lastID) == IF lastID = 0 THEN <<>> ELSE NewerUpTo(r.ring, lastID)[Len(r.ring)]

\* Mutant: the OnRemove hook is not called.
RemoveLockedSilent(s) ==
    /\ hubSubs' = hubSubs \ {s}
    /\ armed' = armed \ {s}
    /\ UNCHANGED hook

\* removeLocked: the timer is stopped and the entry deleted; the channel is
\* closed but keeps its events for the handler that holds it.
RemoveLocked(s) ==
    /\ hubSubs' = hubSubs \ {s}
    /\ armed' = armed \ {s}
    /\ hook' = [hook EXCEPT ![s] = "forget"]

\* The retention timer fires; Stop can no longer prevent its callback.
TimerFires(s) ==
    /\ s \in armed
    /\ armed' = armed \ {s}
    /\ fired' = fired \cup {<<s, sub[s].gen>>}
    /\ UNCHANGED <<tableVars, pollVars, coalesce, regVars, hubSubs, sub, hubSeq, hook, stage,
                   streamVars, pageVars, spent>>

\* Mutant: the generation is not compared.
ExpireAnyWindow(s, g) ==
    /\ <<s, g>> \in fired
    /\ fired' = fired \ {<<s, g>>}
    /\ IF s \in hubSubs /\ ~sub[s].attached
       THEN RemoveLocked(s)
       ELSE UNCHANGED <<hubSubs, armed, hook>>
    /\ UNCHANGED <<tableVars, pollVars, coalesce, regVars, sub, hubSeq, stage, streamVars,
                   pageVars, spent>>

\* expire runs: it removes the subscription only if no client has attached
\* and no later Detach has begun a new window.
Expire(s, g) ==
    /\ <<s, g>> \in fired
    /\ fired' = fired \ {<<s, g>>}
    /\ IF s \in hubSubs /\ ~sub[s].attached /\ sub[s].gen = g
       THEN RemoveLocked(s)
       ELSE UNCHANGED <<hubSubs, armed, hook>>
    /\ UNCHANGED <<tableVars, pollVars, coalesce, regVars, sub, hubSeq, stage, streamVars,
                   pageVars, spent>>

\* onSubRemoved, without the hub's lock: the registry entry, then the
\* coalesce entry.
HookForget(s) ==
    /\ hook[s] = "forget"
    /\ hook' = [hook EXCEPT ![s] = "coalesce"]
    /\ registry' = registry \ {s}
    /\ UNCHANGED <<tableVars, pollVars, coalesce, creating, posts, del, hubSubs, sub, hubSeq,
                   armed, fired, stage, streamVars, pageVars, spent>>

HookCoalesce(s) ==
    /\ hook[s] = "coalesce"
    /\ hook' = [hook EXCEPT ![s] = "none"]
    /\ coalesce' = [coalesce EXCEPT ![s] = "none"]
    /\ UNCHANGED <<tableVars, pollVars, regVars, hubSubs, sub, hubSeq, armed, fired, stage,
                   streamVars, pageVars, spent>>

-----------------------------------------------------------------------------
(* The poller.                                                             *)

\* initNotifyCursor: the poller starts at the newest row, or at 0 when the
\* query fails.  Rows up to there never reach a page.
PollInit ==
    /\ pc = "boot" /\ stage = "up"
    /\ \/ cursor' = Len(log) /\ UNCHANGED spent
       \/ cursor' = 0 /\ Spend("errors", MaxErrors)
    /\ pc' = "idle"
    /\ gap' = gap \cup UNION {Lost(s, RowKeys(1, cursor'), "late") : s \in Subs}
    /\ UNCHANGED <<tableVars, row, upto, snap, todo, to, coalesce, regVars, hubVars, stage,
                   streamVars, client, last, stale>>

\* queryNotifyRows: the rows past the cursor that are not pruned.
PollRead ==
    /\ pc = "idle" /\ stage = "up"
    /\ row' = (IF cursor < pruned THEN pruned ELSE cursor) + 1
    /\ row' <= Len(log)
    /\ upto' = Len(log) /\ pc' = "snap"
    /\ UNCHANGED <<tableVars, cursor, snap, todo, to, coalesce, regVars, hubVars, stage,
                   streamVars, pageVars, spent>>

\* The loops of pollNotifyOnce and fanOut: the next subscription, the next
\* row, or advanceCursor.
NextPair(rest, subs) ==
    IF rest # {} THEN pc' = "fan" /\ todo' = rest /\ UNCHANGED <<row, cursor>>
    ELSE IF row < upto /\ subs # {} THEN pc' = "fan" /\ todo' = subs /\ row' = row + 1 /\ UNCHANGED cursor
    ELSE pc' = "idle" /\ todo' = {} /\ cursor' = upto /\ UNCHANGED row

\* The registry is read once per poll, after the rows.
PollSnapshot ==
    /\ pc = "snap"
    /\ snap' = registry
    /\ NextPair(registry, registry)
    /\ gap' = gap \cup UNION {Lost(s, RowKeys(row, upto), "late") : s \in Subs \ registry}
    /\ UNCHANGED <<tableVars, upto, to, coalesce, regVars, hubVars, stage, streamVars, client,
                   last, stale, spent>>

\* matchOne and allowStatsEmit for one subscription.
FanMatch(s) ==
    /\ pc = "fan" /\ s \in todo
    /\ IF log[row] \in Filter[s] /\ ~(log[row] = Stats /\ coalesce[s] = "recent")
       THEN /\ pc' = "deliver" /\ to' = s
            /\ coalesce' = IF log[row] = Stats THEN [coalesce EXCEPT ![s] = "recent"] ELSE coalesce
            /\ UNCHANGED <<row, cursor, todo, gap>>
       ELSE /\ NextPair(todo \ {s}, snap)
            /\ gap' = gap \cup Lost(s, {log[row]} \cap Filter[s], "coalesced")
            /\ UNCHANGED <<to, coalesce>>
    /\ UNCHANGED <<tableVars, upto, snap, regVars, hubVars, stage, streamVars, client, last,
                   stale, spent>>

\* The match of a session row is a query; when it fails the subscription is
\* skipped for this row.
FanError(s) ==
    /\ pc = "fan" /\ s \in todo /\ log[row] \in Sessions
    /\ IF stage = "up" THEN Spend("errors", MaxErrors) ELSE UNCHANGED spent
    /\ NextPair(todo \ {s}, snap)
    /\ gap' = gap \cup Lost(s, {log[row]} \cap Filter[s], "match")
    /\ UNCHANGED <<tableVars, upto, snap, to, coalesce, regVars, hubVars, stage, streamVars,
                   client, last, stale>>

\* hub.Deliver; a subscription that is gone loses its coalesce entry again.
FanDeliver ==
    /\ pc = "deliver"
    /\ IF to \in hubSubs
       THEN /\ hubSeq' = hubSeq + 1
            /\ sub' = [sub EXCEPT ![to] = Enqueue(@, [id |-> hubSeq + 1, key |-> log[row]])]
            /\ gap' = gap \cup Dropped(to)
            /\ UNCHANGED coalesce
       ELSE /\ coalesce' = [coalesce EXCEPT ![to] = "none"]
            /\ UNCHANGED <<hubSeq, sub, gap>>
    /\ NextPair(todo \ {to}, snap) /\ to' = NoSub
    /\ UNCHANGED <<tableVars, upto, snap, regVars, hubSubs, armed, fired, hook, stage, streamVars,
                   client, last, stale, spent>>

\* statsCoalesceWindow passes.
WindowEnds(s) ==
    /\ coalesce[s] = "recent"
    /\ coalesce' = [coalesce EXCEPT ![s] = "old"]
    /\ UNCHANGED <<tableVars, pollVars, regVars, hubVars, stage, streamVars, pageVars, spent>>

-----------------------------------------------------------------------------
(* Subscribing and unsubscribing.                                          *)

\* A page mounts: its queries fetch and its effect posts the subscription.
Mount(s) ==
    /\ client[s] = "new"
    /\ client' = [client EXCEPT ![s] = "posting"]
    /\ posts' = posts \cup {s}
    /\ UNCHANGED <<tableVars, pollVars, coalesce, registry, creating, del, hubVars, stage,
                   streamVars, last, stale, gap, spent>>

Answer(s, state) == client' = [client EXCEPT ![s] = IF @ = "posting" THEN state ELSE @]

\* createSubscriptionLifecycle takes sseLifecycleMu, finds no shutdown and
\* room below the cap, and registers the new id in the hub first.
CreateAdd(s) ==
    /\ s \in posts /\ creating = NoSub
    /\ stage \in {"up", "stopping"} /\ Cardinality(registry) < MaxSubscriptions
    /\ posts' = posts \ {s} /\ creating' = s
    /\ hubSubs' = hubSubs \cup {s}
    /\ UNCHANGED <<tableVars, pollVars, coalesce, registry, del, sub, hubSeq, armed, fired, hook,
                   stage, streamVars, pageVars, spent>>

\* 503 while shutting down, 500 at the cap, a network error when the server
\* is gone: the page stays without live updates.
CreateRefused(s) ==
    /\ s \in posts /\ creating = NoSub
    /\ stage \notin {"up", "stopping"} \/ Cardinality(registry) >= MaxSubscriptions
    /\ posts' = posts \ {s}
    /\ Answer(s, "failed")
    /\ UNCHANGED <<tableVars, pollVars, coalesce, registry, creating, del, hubVars, stage,
                   streamVars, last, stale, gap, spent>>

\* The entry is published to the poller and the POST answered.  The second
\* test of the cap cannot fail: creates exclude each other.
CreatePublish(s) ==
    /\ creating = s
    /\ creating' = NoSub
    /\ registry' = registry \cup {s}
    /\ Answer(s, "answered")
    /\ UNCHANGED <<tableVars, pollVars, coalesce, posts, del, hubVars, stage, streamVars, last,
                   stale, gap, spent>>

\* connectSse: the answer arrives and the EventSource is opened.
Opens(s) ==
    /\ client[s] = "answered"
    /\ client' = [client EXCEPT ![s] = "connecting"]
    /\ UNCHANGED <<tableVars, pollVars, coalesce, regVars, hubVars, stage, streamVars, last,
                   stale, gap, spent>>

\* The page is gone: nothing of it is behind any more.
Forgotten(s) ==
    /\ client' = [client EXCEPT ![s] = "gone"]
    /\ stale' = [stale EXCEPT ![s] = {}]
    /\ gap' = {g \in gap : g[1] # s}
    /\ net' = [net EXCEPT ![s] = <<>>]
    /\ Spend("leaves", MaxLeaves)

\* The page unmounts while its POST is under way: fetch rejects and nothing
\* is deleted; the server may or may not have received the request.
Abort(s) ==
    /\ client[s] \in {"posting", "answered"}
    /\ Forgotten(s)
    /\ posts' \in {posts, posts \ {s}}
    /\ UNCHANGED <<tableVars, pollVars, coalesce, registry, creating, del, hubVars, stage, handler,
                   last>>

\* close: the EventSource is closed and a DELETE sent, which may not arrive.
Leave(s) ==
    /\ client[s] \in {"connecting", "open", "closed"}
    /\ Forgotten(s)
    /\ \/ UNCHANGED del
       \/ stage # "exited" /\ del' = [del EXCEPT ![s] = "asked"]
    /\ UNCHANGED <<tableVars, pollVars, coalesce, registry, creating, posts, hubVars, stage, handler,
                   last>>

\* subscriptionManager.delete: the entry, then hub.Remove and its hook.
DeleteEntry(s) ==
    /\ del[s] = "asked"
    /\ del' = [del EXCEPT ![s] = "entry"]
    /\ registry' = registry \ {s}
    /\ UNCHANGED <<tableVars, pollVars, coalesce, creating, posts, hubVars, stage, streamVars,
                   pageVars, spent>>

DeleteHub(s) ==
    /\ del[s] = "entry"
    /\ del' = [del EXCEPT ![s] = "none"]
    /\ IF s \in hubSubs THEN RemoveLocked(s) ELSE UNCHANGED <<hubSubs, armed, hook>>
    /\ UNCHANGED <<tableVars, pollVars, coalesce, registry, creating, posts, sub, hubSeq, fired,
                   stage, streamVars, pageVars, spent>>

-----------------------------------------------------------------------------
(* The stream.                                                             *)

\* GET /api/events: 404 for an unknown subscription, 409 while another
\* stream is attached; an EventSource does not retry after either.
Refused(s) ==
    /\ client[s] = "connecting" /\ stage # "exited"
    /\ s \notin hubSubs \/ sub[s].attached
    /\ client' = [client EXCEPT ![s] = "closed"]
    /\ UNCHANGED <<tableVars, pollVars, coalesce, regVars, hubVars, stage, streamVars, last,
                   stale, gap, spent>>

\* Mutant: the channel is drained, as if the replay always covered it.
AttachDraining(s) ==
    /\ client[s] = "connecting"
    /\ s \in hubSubs /\ ~sub[s].attached
    /\ client' = [client EXCEPT ![s] = "open"]
    /\ sub' = [sub EXCEPT ![s].attached = TRUE, ![s].ch = <<>>]
    /\ armed' = armed \ {s}
    /\ handler' = [handler EXCEPT ![s] =
          [on |-> TRUE,
           out |-> IF Covered(sub[s], last[s]) THEN ReplaySince(sub[s], last[s]) ELSE <<Resync>>]]
    /\ UNCHANGED <<tableVars, pollVars, coalesce, regVars, hubSubs, hubSeq, fired, hook, stage, net,
                   last, stale, gap, spent>>

\* Attach: the timer is stopped; the stream begins with a resync or with
\* the events after the client's id.  The channel keeps what it holds.
Attach(s) ==
    /\ client[s] = "connecting"
    /\ s \in hubSubs /\ ~sub[s].attached
    /\ client' = [client EXCEPT ![s] = "open"]
    /\ sub' = [sub EXCEPT ![s].attached = TRUE]
    /\ armed' = armed \ {s}
    /\ handler' = [handler EXCEPT ![s] =
          [on |-> TRUE,
           out |-> IF Covered(sub[s], last[s]) THEN ReplaySince(sub[s], last[s]) ELSE <<Resync>>]]
    /\ UNCHANGED <<tableVars, pollVars, coalesce, regVars, hubSubs, hubSeq, fired, hook, stage, net,
                   last, stale, gap, spent>>

\* writeEvent: a frame written to a connection that is broken is lost; a
\* client that has no id yet will not ask for it again.
Write(s, f) ==
    IF client[s] = "open"
    THEN net' = [net EXCEPT ![s] = Append(@, f)] /\ UNCHANGED gap
    ELSE /\ gap' = gap \cup (IF last[s] = 0 THEN Lost(s, {f.key}, "unacked") ELSE {})
         /\ UNCHANGED net

\* replayEventStream.
WriteReplay(s) ==
    /\ handler[s].on /\ handler[s].out # <<>>
    /\ Write(s, Head(handler[s].out))
    /\ handler' = [handler EXCEPT ![s].out = Tail(@)]
    /\ UNCHANGED <<tableVars, pollVars, coalesce, regVars, hubVars, stage, client, last, stale, spent>>

\* streamLoop takes an event from the channel.
WriteLive(s) ==
    /\ handler[s].on /\ handler[s].out = <<>> /\ sub[s].ch # <<>>
    /\ Write(s, Head(sub[s].ch))
    /\ sub' = [sub EXCEPT ![s].ch = Tail(@)]
    /\ UNCHANGED <<tableVars, pollVars, coalesce, regVars, hubSubs, hubSeq, armed, fired, hook,
                   stage, handler, client, last, stale, spent>>

\* Mutant: Detach arms no timer.
HandlerEndUnarmed(s) ==
    /\ handler[s].on
    /\ client[s] # "open" \/ (s \notin hubSubs /\ handler[s].out = <<>> /\ sub[s].ch = <<>>)
    /\ handler' = [handler EXCEPT ![s] = [on |-> FALSE, out |-> <<>>]]
    /\ sub' = IF s \in hubSubs THEN [sub EXCEPT ![s].attached = FALSE, ![s].gen = @ + 1] ELSE sub
    /\ UNCHANGED <<tableVars, pollVars, coalesce, regVars, hubSubs, hubSeq, armed, fired, hook,
                   stage, net, pageVars, spent>>

\* The handler returns: its client is gone, or the closed channel is empty.
\* Its deferred Detach begins a retention window of its own.
HandlerEnd(s) ==
    /\ handler[s].on
    /\ \/ client[s] # "open"
       \/ s \notin hubSubs /\ handler[s].out = <<>> /\ sub[s].ch = <<>>
    /\ handler' = [handler EXCEPT ![s] = [on |-> FALSE, out |-> <<>>]]
    /\ IF s \in hubSubs
       THEN /\ sub' = [sub EXCEPT ![s].attached = FALSE, ![s].gen = @ + 1]
            /\ armed' = armed \cup {s}
       ELSE UNCHANGED <<sub, armed>>
    /\ UNCHANGED <<tableVars, pollVars, coalesce, regVars, hubSubs, hubSeq, fired, hook, stage, net,
                   pageVars, spent>>

\* The network breaks the connection; frames on the wire are lost.
Break(s) ==
    /\ client[s] = "open"
    /\ Spend("breaks", MaxBreaks)
    /\ client' = [client EXCEPT ![s] = "connecting"]
    /\ net' = [net EXCEPT ![s] = <<>>]
    /\ gap' = gap \cup (IF last[s] = 0 THEN Lost(s, KeysOf(net[s]), "unacked") ELSE {})
    /\ UNCHANGED <<tableVars, pollVars, coalesce, regVars, hubVars, stage, handler, last, stale>>

\* The server ended the stream: the EventSource reconnects.
StreamEnds(s) ==
    /\ client[s] = "open" /\ ~handler[s].on /\ net[s] = <<>>
    /\ client' = [client EXCEPT ![s] = "connecting"]
    /\ UNCHANGED <<tableVars, pollVars, coalesce, regVars, hubVars, stage, streamVars, last,
                   stale, gap, spent>>

\* A frame arrives: its id is remembered and the queries of its key fetch
\* again; a resync makes all of them fetch.
Receive(s) ==
    /\ client[s] = "open" /\ net[s] # <<>>
    /\ LET f == Head(net[s])
           fetched == IF f = Resync THEN Keys ELSE {f.key}
       IN  /\ net' = [net EXCEPT ![s] = Tail(@)]
           /\ last' = [last EXCEPT ![s] = IF f = Resync THEN @ ELSE f.id]
           /\ stale' = [stale EXCEPT ![s] = @ \ fetched]
           /\ gap' = {g \in gap : ~(g[1] = s /\ g[2] \in fetched)}
    /\ UNCHANGED <<tableVars, pollVars, coalesce, regVars, hubVars, stage, handler, client, spent>>

-----------------------------------------------------------------------------
(* Shutdown.                                                               *)

\* stopPoller: no further poll begins; one under way may outlast the wait.
StopPoller ==
    /\ stage = "up"
    /\ Spend("shutdowns", MaxShutdowns)
    /\ stage' = "stopping"
    /\ UNCHANGED <<tableVars, pollVars, coalesce, regVars, hubVars, streamVars, pageVars>>

\* ShutdownSSE raises its flag under sseLifecycleMu.
RaiseFlag ==
    /\ stage = "stopping" /\ creating = NoSub
    /\ stage' = "flagged"
    /\ UNCHANGED <<tableVars, pollVars, coalesce, regVars, hubVars, streamVars, pageVars, spent>>

\* broadcastDisconnect.
Broadcast ==
    /\ stage = "flagged"
    /\ stage' = "told"
    /\ LET ids == SetToSeq(hubSubs)
       IN  /\ hubSeq' = hubSeq + Len(ids)
           /\ sub' = [s \in Subs |-> IF s \notin hubSubs THEN sub[s] ELSE
                 Enqueue(sub[s], [id |-> hubSeq + CHOOSE i \in 1..Len(ids) : ids[i] = s,
                                  key |-> Disconnect])]
    /\ gap' = gap \cup UNION {Dropped(s) : s \in hubSubs}
    /\ UNCHANGED <<tableVars, pollVars, coalesce, regVars, hubSubs, armed, fired, hook, streamVars,
                   client, last, stale, spent>>

\* hub.Shutdown: every timer stopped, every channel closed, no hook called.
HubShutdown ==
    /\ stage = "told"
    /\ stage' = "closed"
    /\ hubSubs' = {} /\ armed' = {}
    /\ UNCHANGED <<tableVars, pollVars, coalesce, regVars, sub, hubSeq, fired, hook, streamVars,
                   pageVars, spent>>

\* The registry follows the hub, which called no hooks.
RegistryClear ==
    /\ stage = "closed"
    /\ stage' = "cleared"
    /\ registry' = {}
    /\ UNCHANGED <<tableVars, pollVars, coalesce, creating, posts, del, hubVars, streamVars,
                   pageVars, spent>>

\* The process ends, with the state it keeps in memory and the requests
\* it had not answered.
Exit ==
    /\ stage = "cleared"
    /\ stage' = "exited"
    /\ pc' = "boot" /\ cursor' = 0 /\ row' = 0 /\ upto' = 0
    /\ snap' = {} /\ todo' = {} /\ to' = NoSub
    /\ coalesce' = [s \in Subs |-> "none"]
    /\ del' = [s \in Subs |-> "none"]
    /\ sub' = [s \in Subs |-> NewSub] /\ hubSeq' = 0
    /\ fired' = {} /\ hook' = [s \in Subs |-> "none"]
    /\ handler' = [s \in Subs |-> [on |-> FALSE, out |-> <<>>]]
    /\ posts' = {}
    /\ client' = [s \in Subs |-> IF client[s] = "posting" THEN "failed" ELSE client[s]]
    /\ UNCHANGED <<tableVars, registry, creating, hubSubs, armed, net, last, stale, gap, spent>>

\* ai-viewer-serve is started again.
Restart ==
    /\ stage = "exited"
    /\ stage' = "up"
    /\ UNCHANGED <<tableVars, pollVars, coalesce, regVars, hubVars, streamVars, pageVars, spent>>

-----------------------------------------------------------------------------
Poller == PollInit \/ PollRead \/ PollSnapshot \/ FanDeliver
             \/ \E s \in Subs : FanMatch(s) \/ FanError(s)
Server(s) == CreateAdd(s) \/ CreateRefused(s) \/ CreatePublish(s)
Deletes(s) == DeleteEntry(s) \/ DeleteHub(s)
Callback(s) == \E g \in 0..sub[s].gen : Expire(s, g)
Hook(s) == HookForget(s) \/ HookCoalesce(s)
Handler(s) == WriteReplay(s) \/ WriteLive(s) \/ HandlerEnd(s)
Browser(s) == Opens(s) \/ Refused(s) \/ Attach(s) \/ Receive(s) \/ StreamEnds(s)
User(s) == Mount(s) \/ Abort(s) \/ Leave(s) \/ Break(s)
Shutdown == RaiseFlag \/ Broadcast \/ HubShutdown \/ RegistryClear \/ Exit

Next == \/ Commit \/ Poller \/ Shutdown \/ StopPoller \/ Restart
        \/ \E s \in Subs : \/ Server(s) \/ Deletes(s) \/ TimerFires(s) \/ Callback(s) \/ Hook(s)
                           \/ WindowEnds(s) \/ Handler(s) \/ Browser(s) \/ User(s)

\* Goroutines and the browser are scheduled and timers fire; what the
\* ingester, the user, the network and the operator do is not promised.
Fairness ==
    /\ WF_vars(Poller) /\ WF_vars(Shutdown)
    /\ \A s \in Subs : /\ WF_vars(Server(s)) /\ WF_vars(Deletes(s)) /\ WF_vars(TimerFires(s))
                       /\ WF_vars(Callback(s)) /\ WF_vars(Hook(s)) /\ WF_vars(WindowEnds(s))
                       /\ WF_vars(Handler(s)) /\ WF_vars(Browser(s))

Spec == Init /\ [][Next]_vars
FairSpec == Spec /\ Fairness

-----------------------------------------------------------------------------
(* Properties.                                                             *)

\* Every variable has its type; channels and rings stay within their
\* capacities and the registry within maxSubscriptions.
TypeOK ==
    /\ log \in Seq(Keys) /\ pruned \in 0..Len(log)
    /\ pc \in {"boot", "idle", "snap", "fan", "deliver"}
    /\ cursor \in 0..Len(log) /\ row \in 0..Len(log) /\ upto \in 0..Len(log)
    /\ snap \subseteq Subs /\ todo \subseteq snap /\ to \in Subs \cup {NoSub}
    /\ coalesce \in [Subs -> {"none", "recent", "old"}]
    /\ registry \subseteq Subs /\ Cardinality(registry) <= MaxSubscriptions
    /\ creating \in Subs \cup {NoSub} /\ posts \subseteq Subs
    /\ del \in [Subs -> {"none", "asked", "entry"}]
    /\ hubSubs \subseteq Subs /\ hubSeq \in Nat /\ armed \subseteq hubSubs
    /\ \A s \in Subs : /\ DOMAIN sub[s] = {"ch", "ring", "attached", "gen"}
                       /\ sub[s].ch \in Seq(Frame) /\ Len(sub[s].ch) <= ChannelCap
                       /\ sub[s].ring \in Seq(Frame) /\ Len(sub[s].ring) <= ReplayBuffer
                       /\ sub[s].attached \in BOOLEAN /\ sub[s].gen \in Nat
    /\ fired \subseteq Subs \X Nat
    /\ hook \in [Subs -> {"none", "forget", "coalesce"}]
    /\ stage \in {"up", "stopping", "flagged", "told", "closed", "cleared", "exited"}
    /\ handler \in [Subs -> [on : BOOLEAN, out : Seq(Frame \cup {Resync})]]
    /\ net \in [Subs -> Seq(Frame \cup {Resync})]
    /\ client \in [Subs -> {"new", "posting", "answered", "connecting", "open", "closed",
                            "failed", "gone"}]
    /\ last \in [Subs -> Nat] /\ stale \in [Subs -> SUBSET Keys]
    /\ gap \subseteq Subs \X Keys \X {"pruned", "late", "coalesced", "match", "dropped", "unacked"}

\* The rows of the table that can still reach page s.
Pending(s) ==
    RowKeys((IF Read < pruned THEN pruned ELSE Read) + 1, Len(log))
        \cup (IF pc = "snap" THEN RowKeys(row, upto) ELSE {})
        \cup (IF pc \in {"fan", "deliver"}
              THEN (IF s \in todo THEN {log[row]} ELSE {})
                   \cup (IF s \in snap THEN RowKeys(row + 1, upto) ELSE {})
              ELSE {})

\* The frames on their way to page s, and what its next connection replays.
Coming(s) ==
    LET again == client[s] = "connecting" /\ last[s] # 0
    IN  KeysOf(sub[s].ch) \cup KeysOf(net[s])
          \cup (IF client[s] = "open" /\ handler[s].on
                THEN IF Resync \in Range(handler[s].out) THEN Keys ELSE KeysOf(handler[s].out)
                ELSE {})
          \cup (IF Resync \in Range(net[s]) THEN Keys ELSE {})
          \cup (IF again THEN IF Covered(sub[s], last[s]) THEN KeysOf(ReplaySince(sub[s], last[s]))
                              ELSE Keys
                ELSE {})

\* No page is silently behind: as long as the page is subscribing or
\* streams or reconnects, a key that is behind has a row or a frame on its
\* way, or is one of the six named losses, or the subscription itself is
\* lost, which closes the EventSource.
StaleCovered ==
    \A s \in Subs : client[s] \in {"posting", "answered", "connecting", "open"} =>
      \/ client[s] \in {"answered", "connecting", "open"} /\ s \notin hubSubs
      \/ \A k \in stale[s] : \/ k \in Pending(s) \cup Coming(s)
                             \/ \E g \in gap : g[1] = s /\ g[2] = k

\* The registry and the hub agree on which subscriptions exist, except
\* while the create, the delete, the hook or the shutdown that makes them
\* agree again is under way; and no coalesce entry outlives its subscription:
\* the poller may write one after the hook ran, and then takes it back.
RegistryMirrorsHub ==
    \A s \in Subs :
      /\ s \in registry \ hubSubs => hook[s] = "forget" \/ stage = "closed"
      /\ s \in hubSubs \ registry => creating = s \/ del[s] = "entry"
      /\ coalesce[s] # "none" => \/ s \in hubSubs \/ hook[s] # "none"
                                 \/ pc = "deliver" /\ to = s
                                 \/ stage \in {"closed", "cleared"}

\* While the server is up a subscription ends only by its DELETE or when
\* the timer of its latest disconnect has run out and nobody is attached.
WindowHonoured ==
    [][\A s \in Subs : (s \in hubSubs /\ s \notin hubSubs' /\ stage' = stage /\ del[s] # "entry")
          => <<s, sub[s].gen>> \in fired /\ ~sub[s].attached]_vars

\* A key that is behind is fetched again, unless it is one of the named
\* losses, the page has lost its subscription or the server has ended.
PagesCatchUp ==
    \A s \in Subs, k \in Keys :
      (k \in stale[s]) ~> (\/ k \notin stale[s]
                           \/ \E g \in gap : g[1] = s /\ g[2] = k
                           \/ client[s] \in {"closed", "failed", "gone"}
                           \/ stage = "exited")

\* A subscription that ever had a stream is dropped everywhere once its
\* page is gone, even if the DELETE never arrives.
Reclaimed ==
    \A s \in Subs :
      (client[s] = "gone" /\ (sub[s].attached \/ sub[s].gen > 0)) ~>
      (s \notin hubSubs /\ s \notin registry /\ coalesce[s] = "none")

\* A claim of frontend-architecture.md that TLC refutes:
\* "connectSse must leave NO leaked EventSource or undeleted server
\* subscription under any unmount timing": once the page is gone its
\* subscription is dropped.
AbandonedDropped ==
    \A s \in Subs : (client[s] = "gone") ~> (s \notin hubSubs)
=============================================================================
