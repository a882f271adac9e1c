---------------------------- MODULE LiveFeedProofs ----------------------------
(***************************************************************************)
(* Proofs about LiveFeed, for any pages, keys, capacities and bounds: the  *)
(* registry mirrors the hub through every race of creates, deletes,        *)
(* expiries, polls and shutdowns, the retention window of a disconnected   *)
(* page is honoured, and no page is silently behind.                       *)
(***************************************************************************)
EXTENDS LiveFeed, CountingLemmas, FiniteSetTheorems, SequenceTheorems, TLAPS

\* What of the types the proofs need.
Tables ==
    /\ coalesce \in [Subs -> {"none", "recent", "old"}]
    /\ del \in [Subs -> {"none", "asked", "entry"}]
    /\ hook \in [Subs -> {"none", "forget", "coalesce"}]
    /\ client \in [Subs -> {"new", "posting", "answered", "connecting", "open", "closed",
                            "failed", "gone"}]
    /\ DOMAIN handler = Subs
    /\ \A s \in Subs : handler[s] = [on |-> handler[s].on, out |-> handler[s].out]
    /\ creating \in Subs \cup {NoSub} /\ posts \subseteq Subs
    /\ registry \subseteq Subs /\ hubSubs \subseteq Subs
    /\ stage \in {"up", "stopping", "flagged", "told", "closed", "cleared", "exited"}

\* Nothing that a stream, a timer or a delete leaves behind exists yet.
Untouched(s) ==
    /\ s \notin armed /\ (\A g : <<s, g>> \notin fired)
    /\ hook[s] = "none" /\ del[s] = "none" /\ ~handler[s].on
    /\ s \notin registry

\* A page that has not reached the server is unknown to it ...
NotYet ==
    \A s \in Subs : client[s] = "new" \/ s \in posts =>
        Untouched(s) /\ s \notin hubSubs /\ creating # s
\* ... a POST is pending until the page leaves or is answered ...
Posting == 
    /\ \A s \in posts : client[s] \in {"posting", "gone"}
    /\ \A s \in Subs : client[s] = "new" => s \notin posts
\* ... and the create under way has its page in the hub and nowhere else.
Creating ==
    \A s \in Subs : creating = s =>
        /\ Untouched(s) /\ s \in hubSubs /\ client[s] \in {"posting", "gone"}
        /\ stage \in {"up", "stopping"}

\* Only a page that has left sends a DELETE, and a removed subscription is
\* not in the hub.
Removed ==
    \A s \in Subs : /\ del[s] # "none" => client[s] = "gone"
                    /\ hook[s] # "none" => s \notin hubSubs

Stages ==
    /\ stage \in {"closed", "cleared", "exited"} => hubSubs = {}
    /\ stage \in {"cleared", "exited"} => registry = {}

IInv == Tables /\ NotYet /\ Posting /\ Creating /\ Removed /\ Stages /\ RegistryMirrorsHub

-----------------------------------------------------------------------------
(* The inductive invariant, action by action.                               *)

\* Steps that leave alone what the invariant is about.
LEMMA QuietKeeps ==
    ASSUME IInv, UNCHANGED <<regVars, hubSubs, armed, fired, hook, client, stage, handler>>,
           UNCHANGED coalesce, UNCHANGED <<pc, to>> \/ (pc # "deliver" /\ UNCHANGED to)
    PROVE  IInv'
  <1> USE DEF regVars
  <1>1. Tables'
    BY DEF IInv, Tables
  <1>2. NotYet' /\ Posting' /\ Creating'
    BY DEF IInv, NotYet, Posting, Creating, Untouched
  <1>3. Removed' /\ Stages'
    BY DEF IInv, Removed, Stages
  <1>4. RegistryMirrorsHub'
    BY DEF IInv, RegistryMirrorsHub
  <1> QED BY <1>1, <1>2, <1>3, <1>4 DEF IInv

\* Only handlers and pages move: streams, and the requests of pages already known.
LEMMA StreamKeeps ==
    ASSUME IInv, UNCHANGED <<regVars, hubSubs, fired, hook, stage, coalesce, pollVars>>,
           NEW s \in Subs, client[s] \notin {"new", "posting", "gone"},
           DOMAIN handler' = Subs, \A t \in Subs \ {s} : handler'[t] = handler[t],
           handler'[s] = [on |-> handler'[s].on, out |-> handler'[s].out],
           client' = [client EXCEPT ![s] = client'[s]],
           client'[s] \in {"answered", "connecting", "open", "closed"},
           armed' \subseteq armed \cup {s}
    PROVE  IInv'
  <1> USE DEF regVars, pollVars
  <1>0. client'[s] \notin {"new", "posting", "gone"}
    OBVIOUS
  <1>1. Tables'
    <2>1. \A t \in Subs : handler'[t] = [on |-> handler'[t].on, out |-> handler'[t].out]
      BY DEF IInv, Tables
    <2>2. client' \in [Subs -> {"new", "posting", "answered", "connecting", "open", "closed",
                               "failed", "gone"}]
      BY DEF IInv, Tables
    <2>3. UNCHANGED <<coalesce, del, hook, creating, posts, registry, hubSubs, stage>>
      OBVIOUS
    <2> HIDE DEF regVars, pollVars
    <2> QED BY <2>1, <2>2, <2>3 DEF IInv, Tables
  <1>2. \A t \in Subs \ {s} : Untouched(t) => Untouched(t)'
    BY DEF IInv, Tables, Untouched
  <1>3. \A t \in Subs \ {s} : client'[t] = client[t]
    BY DEF IInv, Tables
  <1>4. s \notin posts /\ creating # s
    BY DEF IInv, Posting, Creating
  <1>5. NotYet' /\ Posting' /\ Creating'
    <2>1. UNCHANGED <<posts, creating, hubSubs, stage>>
      OBVIOUS
    <2>2. NotYet'
      BY <1>0, <1>2, <1>3, <1>4, <2>1 DEF IInv, NotYet
    <2>3. Posting'
      BY <1>0, <1>3, <1>4, <2>1 DEF IInv, Posting, Tables
    <2>4. Creating'
      BY <1>2, <1>3, <1>4, <2>1 DEF IInv, Creating
    <2> QED BY <2>2, <2>3, <2>4
  <1>6. Removed' /\ Stages'
    <2>1. del[s] = "none"
      BY DEF IInv, Removed
    <2> QED BY <1>3, <2>1 DEF IInv, Removed, Stages
  <1>7. RegistryMirrorsHub'
    BY DEF IInv, RegistryMirrorsHub
  <1> QED BY <1>1, <1>5, <1>6, <1>7 DEF IInv

\* The hub drops a subscription and owes its hook.
LEMMA RemovalKeeps ==
    ASSUME IInv, NEW s \in hubSubs, RemoveLocked(s), creating # s,
           UNCHANGED <<registry, creating, posts, client, stage, handler, coalesce, pollVars>>,
           fired' \subseteq fired,
           del' = [del EXCEPT ![s] = del'[s]], del'[s] \in {del[s], "none"}
    PROVE  IInv'
  <1> USE DEF RemoveLocked, pollVars
  <1>0. s \in Subs
    BY DEF IInv, Tables
  <1>1. Tables'
    BY <1>0 DEF IInv, Tables
  <1>2. \A t \in Subs : /\ del'[t] \in {del[t], "none"}
                        /\ hook'[t] = (IF t = s THEN "forget" ELSE hook[t])
                        /\ t \in hubSubs' <=> t \in hubSubs /\ t # s
                        /\ t # s => del'[t] = del[t]
    BY <1>0 DEF IInv, Tables
  <1>3. \A t \in Subs \ {s} : Untouched(t) => Untouched(t)'
    BY <1>2 DEF Untouched
  <1>4. s \notin posts /\ client[s] # "new"
    BY <1>0 DEF IInv, NotYet
  <1>5. NotYet' /\ Posting' /\ Creating'
    BY <1>2, <1>3, <1>4 DEF IInv, NotYet, Posting, Creating
  <1>6. Removed' /\ Stages'
    BY <1>2 DEF IInv, Removed, Stages
  <1>7. RegistryMirrorsHub'
    BY <1>2 DEF IInv, RegistryMirrorsHub
  <1> QED BY <1>1, <1>5, <1>6, <1>7 DEF IInv

LEMMA ExpireKeeps ==
    ASSUME IInv, NEW s \in Subs, NEW g, Expire(s, g) PROVE IInv'
  <1>1. CASE s \in hubSubs /\ ~sub[s].attached /\ sub[s].gen = g
    <2>1. /\ RemoveLocked(s) /\ fired' \subseteq fired /\ <<s, g>> \in fired
          /\ UNCHANGED <<tableVars, pollVars, coalesce, regVars, stage, streamVars, pageVars>>
      BY <1>1 DEF Expire
    <2>2. /\ UNCHANGED <<registry, creating, posts, client, stage, handler, coalesce, pollVars>>
          /\ del' = del
      BY <2>1 DEF regVars, streamVars, pageVars
    <2>3. creating # s
      BY <2>1 DEF IInv, Creating, Untouched
    <2>4. del' = [del EXCEPT ![s] = del'[s]]
      BY <2>2 DEF IInv, Tables
    <2> QED BY <1>1, <2>1, <2>2, <2>3, <2>4, RemovalKeeps
  <1>2. CASE ~(s \in hubSubs /\ ~sub[s].attached /\ sub[s].gen = g)
    <2>1. /\ fired' \subseteq fired
          /\ UNCHANGED <<hubSubs, armed, hook, registry, creating, posts, del, client, stage,
                         handler, coalesce, pc, to>>
      BY <1>2 DEF Expire, regVars, streamVars, pageVars, pollVars
    <2>2. Tables' /\ Removed' /\ Stages' /\ RegistryMirrorsHub'
      BY <2>1 DEF IInv, Tables, Removed, Stages, RegistryMirrorsHub
    <2>3. NotYet' /\ Posting' /\ Creating'
      BY <2>1 DEF IInv, NotYet, Posting, Creating, Untouched
    <2> QED BY <2>2, <2>3 DEF IInv
  <1> QED BY <1>1, <1>2

LEMMA TimerKeeps ==
    ASSUME IInv, NEW s \in Subs, TimerFires(s) PROVE IInv'
  <1>1. /\ s \in armed /\ armed' = armed \ {s} /\ fired' = fired \cup {<<s, sub[s].gen>>}
        /\ UNCHANGED <<hubSubs, hook, registry, creating, posts, del, client, stage,
                       handler, coalesce, pc, to>>
    BY DEF TimerFires, regVars, streamVars, pageVars, pollVars
  <1>2. Tables' /\ Removed' /\ Stages' /\ RegistryMirrorsHub'
    BY <1>1 DEF IInv, Tables, Removed, Stages, RegistryMirrorsHub
  <1>3. \A t \in Subs : Untouched(t) => Untouched(t)'
    BY <1>1 DEF Untouched
  <1>4. NotYet' /\ Posting' /\ Creating'
    BY <1>1, <1>3 DEF IInv, NotYet, Posting, Creating
  <1> QED BY <1>2, <1>4 DEF IInv

LEMMA HookForgetKeeps ==
    ASSUME IInv, NEW s \in Subs, HookForget(s) PROVE IInv'
  <1>1. /\ hook[s] = "forget" /\ hook' = [hook EXCEPT ![s] = "coalesce"]
        /\ registry' = registry \ {s}
        /\ UNCHANGED <<hubSubs, armed, fired, creating, posts, del, client, stage,
                       handler, coalesce, pc, to>>
    BY DEF HookForget, streamVars, pageVars, pollVars
  <1>2. \A t \in Subs : hook'[t] = IF t = s THEN "coalesce" ELSE hook[t]
    BY <1>1 DEF IInv, Tables
  <1>3. Tables'
    BY <1>1 DEF IInv, Tables
  <1>4. Removed' /\ Stages' /\ RegistryMirrorsHub'
    BY <1>1, <1>2 DEF IInv, Removed, Stages, RegistryMirrorsHub
  <1>5. \A t \in Subs : Untouched(t) => Untouched(t)'
    BY <1>1, <1>2 DEF Untouched
  <1>6. NotYet' /\ Posting' /\ Creating'
    BY <1>1, <1>5 DEF IInv, NotYet, Posting, Creating
  <1> QED BY <1>3, <1>4, <1>6 DEF IInv

LEMMA HookCoalesceKeeps ==
    ASSUME IInv, NEW s \in Subs, HookCoalesce(s) PROVE IInv'
  <1>1. /\ hook[s] = "coalesce" /\ hook' = [hook EXCEPT ![s] = "none"]
        /\ coalesce' = [coalesce EXCEPT ![s] = "none"]
        /\ UNCHANGED <<hubSubs, armed, fired, registry, creating, posts, del, client, stage,
                       handler, pc, to>>
    BY DEF HookCoalesce, regVars, streamVars, pageVars, pollVars
  <1>2. \A t \in Subs : /\ hook'[t] = IF t = s THEN "none" ELSE hook[t]
                        /\ coalesce'[t] = IF t = s THEN "none" ELSE coalesce[t]
    BY <1>1 DEF IInv, Tables
  <1>3. Tables'
    BY <1>1 DEF IInv, Tables
  <1>4. Removed' /\ Stages' /\ RegistryMirrorsHub'
    BY <1>1, <1>2 DEF IInv, Removed, Stages, RegistryMirrorsHub
  <1>5. \A t \in Subs : Untouched(t) => Untouched(t)'
    BY <1>1, <1>2 DEF Untouched
  <1>6. NotYet' /\ Posting' /\ Creating'
    BY <1>1, <1>5 DEF IInv, NotYet, Posting, Creating
  <1> QED BY <1>3, <1>4, <1>6 DEF IInv

\* A page mounts, and its POST waits for the lock.
LEMMA MountKeeps ==
    ASSUME IInv, NEW s \in Subs, Mount(s) PROVE IInv'
  <1>1. /\ client[s] = "new" /\ client' = [client EXCEPT ![s] = "posting"]
        /\ posts' = posts \cup {s}
        /\ UNCHANGED <<hubSubs, armed, fired, registry, creating, del, stage, hook, coalesce,
                       handler, pc, to>>
    BY DEF Mount, hubVars, streamVars, pollVars
  <1>2. \A t \in Subs : client'[t] = IF t = s THEN "posting" ELSE client[t]
    BY <1>1 DEF IInv, Tables
  <1>3. Tables' /\ Stages' /\ RegistryMirrorsHub'
    BY <1>1 DEF IInv, Tables, Stages, RegistryMirrorsHub
  <1>4. Removed'
    BY <1>1, <1>2 DEF IInv, Removed
  <1>5. \A t \in Subs : Untouched(t) => Untouched(t)'
    BY <1>1 DEF Untouched
  <1>6. NotYet' /\ Posting' /\ Creating'
    BY <1>1, <1>2, <1>5 DEF IInv, NotYet, Posting, Creating
  <1> QED BY <1>3, <1>4, <1>6 DEF IInv

\* An answer reaches the page that still waits for it.
LEMMA AnswerTypes ==
    ASSUME Tables, NEW s \in Subs, NEW state \in {"answered", "failed"}, Answer(s, state)
    PROVE  /\ client' \in [Subs -> {"new", "posting", "answered", "connecting", "open", "closed",
                                    "failed", "gone"}]
           /\ \A t \in Subs : client'[t] = IF t = s /\ client[t] = "posting" THEN state ELSE client[t]
  <1>1. client' = [client EXCEPT ![s] = IF client[s] = "posting" THEN state ELSE client[s]]
    BY DEF Answer
  <1> QED BY <1>1 DEF Tables

LEMMA CreateAddKeeps ==
    ASSUME IInv, NEW s \in Subs, CreateAdd(s) PROVE IInv'
  <1>1. /\ s \in posts /\ creating = NoSub /\ stage \in {"up", "stopping"}
        /\ posts' = posts \ {s} /\ creating' = s /\ hubSubs' = hubSubs \cup {s}
        /\ UNCHANGED <<armed, fired, registry, del, stage, hook, coalesce, handler, client, pc, to>>
    BY DEF CreateAdd, streamVars, pageVars, pollVars
  <1>2. Tables' /\ Stages' /\ RegistryMirrorsHub'
    BY <1>1, FeedAssumption DEF IInv, Tables, Stages, RegistryMirrorsHub
  <1>3. \A t \in Subs : Untouched(t) => Untouched(t)'
    BY <1>1 DEF Untouched
  <1>4. Untouched(s) /\ client[s] \in {"posting", "gone"}
    BY <1>1 DEF IInv, NotYet, Posting
  <1>5. Removed'
    BY <1>1, <1>4 DEF IInv, Removed, Untouched
  <1>6. NotYet' /\ Posting' /\ Creating'
    BY <1>1, <1>3, <1>4 DEF IInv, NotYet, Posting, Creating
  <1> QED BY <1>2, <1>5, <1>6 DEF IInv

LEMMA CreateRefusedKeeps ==
    ASSUME IInv, NEW s \in Subs, CreateRefused(s) PROVE IInv'
  <1>1. /\ s \in posts /\ creating = NoSub /\ posts' = posts \ {s} /\ Answer(s, "failed")
        /\ UNCHANGED <<hubSubs, armed, fired, registry, creating, del, stage, hook, coalesce,
                       handler, pc, to>>
    BY DEF CreateRefused, hubVars, streamVars, pollVars
  <1>2. /\ client' \in [Subs -> {"new", "posting", "answered", "connecting", "open", "closed",
                                 "failed", "gone"}]
        /\ \A t \in Subs : client'[t] = IF t = s /\ client[t] = "posting" THEN "failed" ELSE client[t]
    BY <1>1, AnswerTypes DEF IInv
  <1>3. Tables' /\ Stages' /\ RegistryMirrorsHub'
    BY <1>1, <1>2 DEF IInv, Tables, Stages, RegistryMirrorsHub
  <1>4. \A t \in Subs : Untouched(t) => Untouched(t)'
    BY <1>1 DEF Untouched
  <1>5. client[s] # "new"
    BY <1>1 DEF IInv, Posting
  <1>6. Removed'
    BY <1>1, <1>2 DEF IInv, Removed
  <1>7. NotYet' /\ Posting'
    BY <1>1, <1>2, <1>4, <1>5 DEF IInv, NotYet, Posting, Tables
  <1>8. Creating'
    BY <1>1, FeedAssumption DEF Creating
  <1> QED BY <1>3, <1>6, <1>7, <1>8 DEF IInv

LEMMA CreatePublishKeeps ==
    ASSUME IInv, NEW s \in Subs, CreatePublish(s) PROVE IInv'
  <1>1. /\ creating = s /\ creating' = NoSub /\ registry' = registry \cup {s}
        /\ Answer(s, "answered")
        /\ UNCHANGED <<hubSubs, armed, fired, posts, del, stage, hook, coalesce, handler, pc, to>>
    BY DEF CreatePublish, hubVars, streamVars, pollVars
  <1>2. /\ client' \in [Subs -> {"new", "posting", "answered", "connecting", "open", "closed",
                                 "failed", "gone"}]
        /\ \A t \in Subs : client'[t] = IF t = s /\ client[t] = "posting" THEN "answered" ELSE client[t]
    BY <1>1, AnswerTypes DEF IInv
  <1>3. s \in hubSubs /\ stage \in {"up", "stopping"} /\ s \notin posts /\ client[s] # "new"
    BY <1>1 DEF IInv, Creating, NotYet
  <1>4. Tables' /\ Stages' /\ RegistryMirrorsHub'
    BY <1>1, <1>2, <1>3 DEF IInv, Tables, Stages, RegistryMirrorsHub
  <1>5. \A t \in Subs \ {s} : Untouched(t) => Untouched(t)'
    BY <1>1 DEF Untouched
  <1>6. Removed'
    BY <1>1, <1>2 DEF IInv, Removed
  <1>7. NotYet' /\ Posting'
    <2>1. \A t \in Subs : creating' # t
      BY <1>1, FeedAssumption
    <2> QED BY <1>1, <1>2, <1>3, <1>5, <2>1 DEF IInv, NotYet, Posting, Tables
  <1>8. Creating'
    BY <1>1, FeedAssumption DEF Creating
  <1> QED BY <1>4, <1>6, <1>7, <1>8 DEF IInv

\* A page leaves, before or after its POST is answered.
LEMMA AbortKeeps ==
    ASSUME IInv, NEW s \in Subs, Abort(s) PROVE IInv'
  <1>1. /\ client[s] \in {"posting", "answered"} /\ client' = [client EXCEPT ![s] = "gone"]
        /\ posts' \in {posts, posts \ {s}}
        /\ UNCHANGED <<hubSubs, armed, fired, registry, creating, del, stage, hook, coalesce,
                       handler, pc, to>>
    BY DEF Abort, Forgotten, hubVars, streamVars, pollVars
  <1>2. \A t \in Subs : client'[t] = IF t = s THEN "gone" ELSE client[t]
    BY <1>1 DEF IInv, Tables
  <1>3. posts' \subseteq posts
    BY <1>1
  <1>4. Tables'
    BY <1>1, <1>3 DEF IInv, Tables
  <1>5. Stages' /\ RegistryMirrorsHub'
    BY <1>1 DEF IInv, Stages, RegistryMirrorsHub
  <1>6. Removed'
    BY <1>1, <1>2 DEF IInv, Removed
  <1>7. \A t \in Subs : Untouched(t) => Untouched(t)'
    BY <1>1 DEF Untouched
  <1>8. NotYet'
    BY <1>1, <1>2, <1>3, <1>7 DEF IInv, NotYet
  <1>9. Posting'
    BY <1>1, <1>2, <1>3 DEF IInv, Posting, Tables
  <1>10. Creating'
    BY <1>1, <1>2, <1>7 DEF IInv, Creating
  <1> QED BY <1>4, <1>5, <1>6, <1>8, <1>9, <1>10 DEF IInv

LEMMA LeaveKeeps ==
    ASSUME IInv, NEW s \in Subs, Leave(s) PROVE IInv'
  <1>1. /\ client[s] \in {"connecting", "open", "closed"} /\ client' = [client EXCEPT ![s] = "gone"]
        /\ del' = del \/ del' = [del EXCEPT ![s] = "asked"]
        /\ UNCHANGED <<hubSubs, armed, fired, registry, creating, posts, stage, hook, coalesce,
                       handler, pc, to>>
    BY DEF Leave, Forgotten, hubVars, streamVars, pollVars
  <1>2. \A t \in Subs : /\ client'[t] = IF t = s THEN "gone" ELSE client[t]
                        /\ t # s => del'[t] = del[t]
                        /\ del'[t] \in {del[t], "asked"}
    BY <1>1 DEF IInv, Tables
  <1>3. del[s] = "none" /\ s \notin posts /\ creating # s
    BY <1>1 DEF IInv, Removed, Posting, Creating
  <1>4. Tables'
    BY <1>1 DEF IInv, Tables
  <1>5. Stages' /\ RegistryMirrorsHub'
    BY <1>1, <1>2, <1>3 DEF IInv, Stages, RegistryMirrorsHub
  <1>6. Removed'
    BY <1>1, <1>2 DEF IInv, Removed
  <1>7. \A t \in Subs \ {s} : Untouched(t) => Untouched(t)'
    BY <1>1, <1>2 DEF Untouched
  <1>8. NotYet'
    BY <1>1, <1>2, <1>3, <1>7 DEF IInv, NotYet
  <1>9. Posting'
    BY <1>1, <1>2 DEF IInv, Posting, Tables
  <1>10. Creating'
    BY <1>1, <1>2, <1>3, <1>7 DEF IInv, Creating
  <1> QED BY <1>4, <1>5, <1>6, <1>8, <1>9, <1>10 DEF IInv

\* The DELETE of a page that has left.
LEMMA DeleteEntryKeeps ==
    ASSUME IInv, NEW s \in Subs, DeleteEntry(s) PROVE IInv'
  <1>1. /\ del[s] = "asked" /\ del' = [del EXCEPT ![s] = "entry"] /\ registry' = registry \ {s}
        /\ UNCHANGED <<hubSubs, armed, fired, creating, posts, client, stage, hook, coalesce,
                       handler, pc, to>>
    BY DEF DeleteEntry, hubVars, streamVars, pageVars, pollVars
  <1>2. \A t \in Subs : del'[t] = IF t = s THEN "entry" ELSE del[t]
    BY <1>1 DEF IInv, Tables
  <1>3. client[s] = "gone" /\ s \notin posts /\ creating # s
    BY <1>1 DEF IInv, Removed, NotYet, Creating, Untouched
  <1>4. Tables'
    BY <1>1 DEF IInv, Tables
  <1>5. Stages' /\ RegistryMirrorsHub'
    BY <1>1, <1>2 DEF IInv, Stages, RegistryMirrorsHub
  <1>6. Removed'
    BY <1>1, <1>2, <1>3 DEF IInv, Removed
  <1>7. \A t \in Subs \ {s} : Untouched(t) => Untouched(t)'
    BY <1>1, <1>2 DEF Untouched
  <1>8. NotYet' /\ Posting' /\ Creating'
    BY <1>1, <1>3, <1>7 DEF IInv, NotYet, Posting, Creating
  <1> QED BY <1>4, <1>5, <1>6, <1>8 DEF IInv

LEMMA DeleteHubKeeps ==
    ASSUME IInv, NEW s \in Subs, DeleteHub(s) PROVE IInv'
  <1>1. /\ del[s] = "entry" /\ del' = [del EXCEPT ![s] = "none"]
        /\ UNCHANGED <<fired, registry, creating, posts, client, stage, coalesce, handler, pollVars>>
    BY DEF DeleteHub, streamVars, pageVars
  <1>2. creating # s
    BY <1>1 DEF IInv, Creating, Untouched
  <1>3. \A t \in Subs : del'[t] = IF t = s THEN "none" ELSE del[t]
    BY <1>1 DEF IInv, Tables
  <1>4. CASE s \in hubSubs
    <2>1. RemoveLocked(s)
      BY <1>4 DEF DeleteHub
    <2>2. fired' \subseteq fired /\ del' = [del EXCEPT ![s] = del'[s]] /\ del'[s] \in {del[s], "none"}
      BY <1>1, <1>3
    <2> QED BY <1>1, <1>2, <1>4, <2>1, <2>2, RemovalKeeps
  <1>5. CASE s \notin hubSubs
    <2>1. UNCHANGED <<hubSubs, armed, hook>> /\ UNCHANGED <<pc, to>>
      BY <1>1, <1>5 DEF DeleteHub, pollVars
    <2>2. Tables' /\ Stages'
      BY <1>1, <2>1 DEF IInv, Tables, Stages
    <2>3. RegistryMirrorsHub'
      BY <1>1, <1>3, <1>5, <2>1 DEF IInv, RegistryMirrorsHub
    <2>4. Removed'
      BY <1>1, <1>3, <2>1 DEF IInv, Removed
    <2>5. \A t \in Subs : Untouched(t) => Untouched(t)'
      BY <1>1, <1>3, <2>1 DEF Untouched
    <2>6. NotYet' /\ Posting' /\ Creating'
      BY <1>1, <2>1, <2>5 DEF IInv, NotYet, Posting, Creating
    <2> QED BY <2>2, <2>3, <2>4, <2>6 DEF IInv
  <1> QED BY <1>4, <1>5

\* Streams: attaching, writing and ending.
LEMMA AttachKeeps ==
    ASSUME IInv, NEW s \in Subs, Attach(s) PROVE IInv'
  <1>1. PICK out : handler' = [handler EXCEPT ![s] = [on |-> TRUE, out |-> out]]
    BY DEF Attach
  <1>2. /\ DOMAIN handler' = Subs /\ \A t \in Subs \ {s} : handler'[t] = handler[t]
        /\ handler'[s] = [on |-> handler'[s].on, out |-> handler'[s].out]
    <2>1. handler'[s] = [on |-> TRUE, out |-> out]
      BY <1>1 DEF IInv, Tables
    <2>2. handler'[s].on = TRUE /\ handler'[s].out = out
      BY <2>1
    <2>3. handler'[s] = [on |-> handler'[s].on, out |-> handler'[s].out]
      BY <2>1, <2>2, Zenon
    <2> QED BY <1>1, <2>3 DEF IInv, Tables
  <1>3. /\ client[s] = "connecting" /\ client' = [client EXCEPT ![s] = "open"] /\ armed' = armed \ {s}
        /\ UNCHANGED <<regVars, hubSubs, fired, hook, stage, coalesce, pollVars>>
    BY DEF Attach
  <1>4. client'[s] = "open"
    BY <1>3 DEF IInv, Tables
  <1> QED BY <1>2, <1>3, <1>4, StreamKeeps

LEMMA OpensKeeps ==
    ASSUME IInv, NEW s \in Subs, Opens(s) \/ Refused(s) \/ Break(s) \/ StreamEnds(s) PROVE IInv'
  <1>1. PICK c \in {"connecting", "closed"} : client' = [client EXCEPT ![s] = c]
    BY DEF Opens, Refused, Break, StreamEnds
  <1>2. /\ client[s] \in {"answered", "connecting", "open"} /\ handler' = handler /\ armed' = armed
        /\ UNCHANGED <<regVars, hubSubs, fired, hook, stage, coalesce, pollVars>>
    BY DEF Opens, Refused, Break, StreamEnds, hubVars, streamVars
  <1>3. client'[s] = c
    BY <1>1 DEF IInv, Tables
  <1>4. /\ DOMAIN handler' = Subs /\ \A t \in Subs \ {s} : handler'[t] = handler[t]
        /\ handler'[s] = [on |-> handler'[s].on, out |-> handler'[s].out]
    BY <1>2 DEF IInv, Tables
  <1> QED BY <1>1, <1>2, <1>3, <1>4, StreamKeeps

\* The handler of a running stream belongs to a page the server knows.
LEMMA HandlerEndKeeps ==
    ASSUME IInv, NEW s \in Subs, HandlerEnd(s) PROVE IInv'
  <1>1. /\ handler[s].on /\ handler' = [handler EXCEPT ![s] = [on |-> FALSE, out |-> <<>>]]
        /\ armed' \subseteq armed \cup {s}
        /\ UNCHANGED <<hubSubs, fired, hook, coalesce, registry, creating, posts, del, client, stage,
                       pc, to>>
    BY DEF HandlerEnd, regVars, pollVars, pageVars
  <1>2. ~Untouched(s)
    BY <1>1 DEF Untouched
  <1>3. Tables'
    <2>1. \A t \in Subs : handler'[t] = [on |-> handler'[t].on, out |-> handler'[t].out]
      BY <1>1 DEF IInv, Tables
    <2> QED BY <1>1, <2>1 DEF IInv, Tables
  <1>4. Stages' /\ RegistryMirrorsHub' /\ Removed'
    BY <1>1 DEF IInv, Stages, RegistryMirrorsHub, Removed
  <1>5. \A t \in Subs \ {s} : Untouched(t) => Untouched(t)'
    BY <1>1 DEF IInv, Tables, Untouched
  <1>6. NotYet' /\ Posting' /\ Creating'
    BY <1>1, <1>2, <1>5 DEF IInv, NotYet, Posting, Creating
  <1> QED BY <1>3, <1>4, <1>6 DEF IInv

LEMMA WriteReplayKeeps ==
    ASSUME IInv, NEW s \in Subs, WriteReplay(s) PROVE IInv'
  <1>1. PICK out : handler' = [handler EXCEPT ![s].out = out]
    BY DEF WriteReplay
  <1>2. /\ handler[s].on
        /\ UNCHANGED <<hubSubs, armed, fired, hook, coalesce, registry, creating, posts, del, client,
                       stage, pc, to>>
    BY DEF WriteReplay, regVars, pollVars, hubVars
  <1>3. PICK h : h = handler[s]
    OBVIOUS
  <1>4. h = [on |-> h.on, out |-> h.out]
    BY <1>3 DEF IInv, Tables
  <1>5. handler' = [handler EXCEPT ![s] = [on |-> h.on, out |-> out]]
    <2>1. handler' = [handler EXCEPT ![s] = [h EXCEPT !.out = out]]
      BY <1>1, <1>3, Zenon
    <2>2. [h EXCEPT !.out = out] = [on |-> h.on, out |-> out]
      BY <1>4
    <2> QED BY <2>1, <2>2
  <1>6. ~Untouched(s)
    BY <1>2 DEF Untouched
  <1>7. Tables'
    <2>1. \A t \in Subs : handler'[t] = [on |-> handler'[t].on, out |-> handler'[t].out]
      BY <1>5 DEF IInv, Tables
    <2>2. DOMAIN handler' = Subs
      BY <1>5 DEF IInv, Tables
    <2> QED BY <1>2, <2>1, <2>2 DEF IInv, Tables
  <1>8. Stages' /\ RegistryMirrorsHub' /\ Removed'
    BY <1>2 DEF IInv, Stages, RegistryMirrorsHub, Removed
  <1>9. \A t \in Subs \ {s} : Untouched(t) => Untouched(t)'
    BY <1>2, <1>5 DEF IInv, Tables, Untouched
  <1>10. NotYet' /\ Posting' /\ Creating'
    BY <1>2, <1>6, <1>9 DEF IInv, NotYet, Posting, Creating
  <1> QED BY <1>7, <1>8, <1>10 DEF IInv

-----------------------------------------------------------------------------
\* The poller: what it writes about a subscription it is delivering to.
LEMMA NextPairPc ==
    ASSUME NEW rest, NEW subs, NextPair(rest, subs)
    PROVE  pc' \in {"fan", "idle"}
  BY DEF NextPair

LEMMA CoalesceKeeps ==
    ASSUME IInv, UNCHANGED <<regVars, hubSubs, armed, fired, hook, client, stage, handler>>,
           coalesce' \in [Subs -> {"none", "recent", "old"}], RegistryMirrorsHub'
    PROVE  IInv'
  <1> USE DEF regVars
  <1>1. Tables'
    BY DEF IInv, Tables
  <1>2. NotYet' /\ Posting' /\ Creating'
    BY DEF IInv, NotYet, Posting, Creating, Untouched
  <1>3. Removed' /\ Stages'
    BY DEF IInv, Removed, Stages
  <1> QED BY <1>1, <1>2, <1>3 DEF IInv

LEMMA FanMatchKeeps ==
    ASSUME IInv, NEW s \in Subs, FanMatch(s) PROVE IInv'
  <1>1. /\ pc = "fan"
        /\ UNCHANGED <<regVars, hubSubs, armed, fired, hook, client, stage, handler>>
    BY DEF FanMatch, hubVars, streamVars
  <1>2. \/ coalesce' = coalesce
        \/ pc' = "deliver" /\ to' = s /\ coalesce' = [coalesce EXCEPT ![s] = "recent"]
    BY DEF FanMatch
  <1>3. coalesce' \in [Subs -> {"none", "recent", "old"}]
    BY <1>2 DEF IInv, Tables
  <1>4. RegistryMirrorsHub'
    BY <1>1, <1>2 DEF IInv, Tables, RegistryMirrorsHub, regVars
  <1> QED BY <1>1, <1>3, <1>4, CoalesceKeeps

LEMMA FanDeliverKeeps ==
    ASSUME IInv, FanDeliver PROVE IInv'
  <1>1. /\ pc = "deliver" /\ pc' \in {"fan", "idle"}
        /\ UNCHANGED <<regVars, hubSubs, armed, fired, hook, client, stage, handler>>
    BY NextPairPc DEF FanDeliver, streamVars
  <1>2. \/ to \in hubSubs /\ coalesce' = coalesce
        \/ to \notin hubSubs /\ coalesce' = [coalesce EXCEPT ![to] = "none"]
    BY DEF FanDeliver
  <1>3. coalesce' \in [Subs -> {"none", "recent", "old"}]
    BY <1>2 DEF IInv, Tables
  <1>4. RegistryMirrorsHub'
    BY <1>1, <1>2 DEF IInv, Tables, RegistryMirrorsHub, regVars
  <1> QED BY <1>1, <1>3, <1>4, CoalesceKeeps

LEMMA WindowEndsKeeps ==
    ASSUME IInv, NEW s \in Subs, WindowEnds(s) PROVE IInv'
  <1>1. /\ coalesce[s] = "recent" /\ coalesce' = [coalesce EXCEPT ![s] = "old"]
        /\ UNCHANGED <<regVars, hubSubs, armed, fired, hook, client, stage, handler, pc, to>>
    BY DEF WindowEnds, hubVars, streamVars, pageVars, pollVars
  <1>2. coalesce' \in [Subs -> {"none", "recent", "old"}]
    BY <1>1 DEF IInv, Tables
  <1>3. RegistryMirrorsHub'
    BY <1>1 DEF IInv, Tables, RegistryMirrorsHub, regVars
  <1> QED BY <1>1, <1>2, <1>3, CoalesceKeeps

-----------------------------------------------------------------------------
\* Shutdown: no create is under way once the flag is raised.
LEMMA StageKeeps ==
    ASSUME IInv, StopPoller \/ RaiseFlag \/ Broadcast \/ Restart PROVE IInv'
  <1>1. /\ UNCHANGED <<hubSubs, armed, fired, hook, coalesce, registry, creating, posts, del, client,
                       handler, pc, to>>
        /\ \/ stage = "up" /\ stage' = "stopping"
           \/ stage = "stopping" /\ stage' = "flagged" /\ creating = NoSub
           \/ stage = "flagged" /\ stage' = "told"
           \/ stage = "exited" /\ stage' = "up"
    BY DEF StopPoller, RaiseFlag, Broadcast, Restart, regVars, hubVars, streamVars, pageVars, pollVars
  <1>2. Tables'
    BY <1>1 DEF IInv, Tables
  <1>3. NotYet' /\ Posting'
    BY <1>1 DEF IInv, NotYet, Posting, Untouched
  <1>4. Creating'
    BY <1>1, FeedAssumption DEF IInv, Creating, Untouched
  <1>5. Removed' /\ Stages' /\ RegistryMirrorsHub'
    BY <1>1 DEF IInv, Removed, Stages, RegistryMirrorsHub
  <1> QED BY <1>2, <1>3, <1>4, <1>5 DEF IInv

LEMMA HubShutdownKeeps ==
    ASSUME IInv, HubShutdown PROVE IInv'
  <1>1. /\ stage = "told" /\ stage' = "closed" /\ hubSubs' = {} /\ armed' = {}
        /\ UNCHANGED <<fired, hook, coalesce, registry, creating, posts, del, client, handler>>
    BY DEF HubShutdown, regVars, streamVars, pageVars
  <1>2. Tables'
    BY <1>1 DEF IInv, Tables
  <1>3. NotYet' /\ Posting'
    BY <1>1 DEF IInv, NotYet, Posting, Untouched
  <1>4. Creating'
    BY <1>1 DEF IInv, Creating
  <1>5. Removed' /\ Stages' /\ RegistryMirrorsHub'
    BY <1>1 DEF IInv, Removed, Stages, RegistryMirrorsHub
  <1> QED BY <1>2, <1>3, <1>4, <1>5 DEF IInv

LEMMA RegistryClearKeeps ==
    ASSUME IInv, RegistryClear PROVE IInv'
  <1>1. /\ stage = "closed" /\ stage' = "cleared" /\ registry' = {}
        /\ UNCHANGED <<hubSubs, armed, fired, hook, coalesce, creating, posts, del, client, handler>>
    BY DEF RegistryClear, hubVars, streamVars, pageVars
  <1>2. Tables'
    BY <1>1 DEF IInv, Tables
  <1>3. NotYet' /\ Posting'
    BY <1>1 DEF IInv, NotYet, Posting, Untouched
  <1>4. Creating'
    BY <1>1 DEF IInv, Creating
  <1>5. Removed' /\ Stages' /\ RegistryMirrorsHub'
    BY <1>1 DEF IInv, Removed, Stages, RegistryMirrorsHub
  <1> QED BY <1>2, <1>3, <1>4, <1>5 DEF IInv

LEMMA ExitKeeps ==
    ASSUME IInv, Exit PROVE IInv'
  <1>1. /\ stage = "cleared" /\ stage' = "exited" /\ fired' = {} /\ posts' = {}
        /\ coalesce' = [s \in Subs |-> "none"] /\ del' = [s \in Subs |-> "none"]
        /\ hook' = [s \in Subs |-> "none"]
        /\ handler' = [s \in Subs |-> [on |-> FALSE, out |-> <<>>]]
        /\ client' = [s \in Subs |-> IF client[s] = "posting" THEN "failed" ELSE client[s]]
        /\ UNCHANGED <<registry, creating, hubSubs, armed>>
    BY DEF Exit
  <1>2. hubSubs = {} /\ registry = {}
    BY <1>1 DEF IInv, Stages
  <1>3. Tables'
    <2>1. client' \in [Subs -> {"new", "posting", "answered", "connecting", "open", "closed",
                                "failed", "gone"}]
      BY <1>1 DEF IInv, Tables
    <2>2. \A s \in Subs : handler'[s] = [on |-> handler'[s].on, out |-> handler'[s].out]
      BY <1>1
    <2>3. posts' \subseteq Subs /\ DOMAIN handler' = Subs
      BY <1>1
    <2>4. coalesce' \in [Subs -> {"none", "recent", "old"}]
      BY <1>1
    <2>5. del' \in [Subs -> {"none", "asked", "entry"}] /\ hook' \in [Subs -> {"none", "forget", "coalesce"}]
      BY <1>1
    <2> QED BY <1>1, <2>1, <2>2, <2>3, <2>4, <2>5 DEF IInv, Tables
  <1>4. NotYet'
    <2>1. \A s \in Subs : client'[s] = "new" => client[s] = "new"
      BY <1>1
    <2>2. \A s \in Subs : hook'[s] = "none" /\ del'[s] = "none" /\ ~handler'[s].on
      BY <1>1
    <2> QED BY <1>1, <1>2, <2>1, <2>2 DEF IInv, NotYet, Untouched
  <1>5. Posting'
    BY <1>1 DEF Posting
  <1>6. Creating'
    BY <1>1 DEF IInv, Creating
  <1>7. Removed' /\ Stages' /\ RegistryMirrorsHub'
    BY <1>1, <1>2 DEF Removed, Stages, RegistryMirrorsHub
  <1> QED BY <1>3, <1>4, <1>5, <1>6, <1>7 DEF IInv

-----------------------------------------------------------------------------
LEMMA InitHolds ==
    ASSUME Init PROVE IInv
  <1>1. Tables
    <2>1. \A s \in Subs : handler[s] = [on |-> handler[s].on, out |-> handler[s].out]
      BY DEF Init
    <2>2. hubSubs = {} /\ registry = {} /\ posts = {}
      BY DEF Init
    <2> QED BY <2>1, <2>2 DEF Init, Tables
  <1>2. NotYet
    <2>1. \A s \in Subs : creating # s
      BY FeedAssumption DEF Init
    <2>2. \A s \in Subs : Untouched(s)
      BY DEF Init, Untouched
    <2> QED BY <2>1, <2>2 DEF Init, NotYet
  <1>3. Posting /\ Creating
    BY FeedAssumption DEF Init, Posting, Creating
  <1>4. Removed /\ Stages /\ RegistryMirrorsHub
    BY DEF Init, Removed, Stages, RegistryMirrorsHub
  <1> QED BY <1>1, <1>2, <1>3, <1>4 DEF IInv

LEMMA PollerKeeps ==
    ASSUME IInv, Poller PROVE IInv'
  <1>1. CASE PollInit
    BY <1>1, QuietKeeps DEF PollInit, hubVars, streamVars
  <1>2. CASE PollRead
    BY <1>2, QuietKeeps DEF PollRead, hubVars, streamVars, pageVars
  <1>3. CASE PollSnapshot
    BY <1>3, QuietKeeps DEF PollSnapshot, hubVars, streamVars
  <1>4. CASE FanDeliver
    BY <1>4, FanDeliverKeeps
  <1>5. ASSUME NEW s \in Subs, FanMatch(s) PROVE IInv'
    BY <1>5, FanMatchKeeps
  <1>6. ASSUME NEW s \in Subs, FanError(s) PROVE IInv'
    BY <1>6, QuietKeeps DEF FanError, hubVars, streamVars
  <1> QED BY <1>1, <1>2, <1>3, <1>4, <1>5, <1>6 DEF Poller

LEMMA IInvIsInductive ==
    IInv /\ [Next]_vars => IInv'
  <1> SUFFICES ASSUME IInv, [Next]_vars PROVE IInv'
    OBVIOUS
  <1>1. CASE Commit
    BY <1>1, QuietKeeps DEF Commit, hubVars, streamVars, pollVars
  <1>2. CASE Poller
    BY <1>2, PollerKeeps
  <1>3. CASE Shutdown
    BY <1>3, StageKeeps, HubShutdownKeeps, RegistryClearKeeps, ExitKeeps DEF Shutdown
  <1>4. CASE StopPoller \/ Restart
    BY <1>4, StageKeeps
  <1>5. ASSUME NEW s \in Subs, Server(s) PROVE IInv'
    BY <1>5, CreateAddKeeps, CreateRefusedKeeps, CreatePublishKeeps DEF Server
  <1>6. ASSUME NEW s \in Subs, Deletes(s) PROVE IInv'
    BY <1>6, DeleteEntryKeeps, DeleteHubKeeps DEF Deletes
  <1>7. ASSUME NEW s \in Subs, TimerFires(s) PROVE IInv'
    BY <1>7, TimerKeeps
  <1>8. ASSUME NEW s \in Subs, Callback(s) PROVE IInv'
    BY <1>8, ExpireKeeps DEF Callback
  <1>9. ASSUME NEW s \in Subs, Hook(s) PROVE IInv'
    BY <1>9, HookForgetKeeps, HookCoalesceKeeps DEF Hook
  <1>10. ASSUME NEW s \in Subs, WindowEnds(s) PROVE IInv'
    BY <1>10, WindowEndsKeeps
  <1>11. ASSUME NEW s \in Subs, Handler(s) PROVE IInv'
    <2>1. CASE WriteLive(s)
      BY <2>1, QuietKeeps DEF WriteLive, pollVars
    <2> QED BY <1>11, <2>1, WriteReplayKeeps, HandlerEndKeeps DEF Handler
  <1>12. ASSUME NEW s \in Subs, Browser(s) PROVE IInv'
    <2>1. CASE Receive(s)
      BY <2>1, QuietKeeps DEF Receive, hubVars, pollVars
    <2> QED BY <1>12, <2>1, OpensKeeps, AttachKeeps DEF Browser
  <1>13. ASSUME NEW s \in Subs, User(s) PROVE IInv'
    BY <1>13, MountKeeps, AbortKeeps, LeaveKeeps, OpensKeeps DEF User
  <1>14. CASE UNCHANGED vars
    BY <1>14, QuietKeeps DEF vars, hubVars, streamVars, pollVars, pageVars
  <1> QED BY <1>1, <1>2, <1>3, <1>4, <1>5, <1>6, <1>7, <1>8, <1>9, <1>10, <1>11, <1>12,
             <1>13, <1>14 DEF Next

-----------------------------------------------------------------------------
(* The theorems.                                                            *)

\* The registry of the presenter and the hub agree on which subscriptions
\* exist, but for the create, delete, hook or shutdown under way; no coalesce
\* entry outlives its subscription (sse_subscriptions.go, hub.go, poller.go).
THEOREM RegistryFollowsHub ==
    Spec => []RegistryMirrorsHub
  <1>1. IInv => RegistryMirrorsHub
    BY DEF IInv
  <1> QED BY <1>1, InitHolds, IInvIsInductive, PTL DEF Spec

\* While the server is up, the hub drops a subscription only for its DELETE,
\* or when the timer of its latest disconnect has run out and nobody is
\* attached (hub.go expire: the attached flag and the generation).
THEOREM WindowIsHonoured ==
    Spec => WindowHonoured
  <1> DEFINE Kept == \A s \in Subs :
                (s \in hubSubs /\ s \notin hubSubs' /\ stage' = stage /\ del[s] # "entry")
                   => <<s, sub[s].gen>> \in fired /\ ~sub[s].attached
  <1>1. ASSUME [Next]_vars PROVE Kept
    <2>1. CASE hubSubs \subseteq hubSubs'
      BY <2>1
    <2>2. ASSUME NEW s \in Subs, Callback(s) PROVE Kept
      BY <2>2 DEF Callback, Expire, RemoveLocked
    <2>3. ASSUME NEW s \in Subs, Deletes(s) PROVE Kept
      BY <2>1, <2>3 DEF Deletes, DeleteEntry, DeleteHub, RemoveLocked, hubVars
    <2>4. CASE HubShutdown
      BY <2>4 DEF HubShutdown
    <2>5. CASE Shutdown /\ ~HubShutdown
      BY <2>1, <2>5 DEF Shutdown, RaiseFlag, Broadcast, RegistryClear, Exit, hubVars
    <2>6. CASE Commit \/ Poller \/ StopPoller \/ Restart
      BY <2>1, <2>6 DEF Commit, Poller, PollInit, PollRead, PollSnapshot, FanDeliver, FanMatch,
                        FanError, StopPoller, Restart, hubVars
    <2>7. ASSUME NEW s \in Subs, Server(s) \/ TimerFires(s) \/ Hook(s) \/ WindowEnds(s) PROVE Kept
      BY <2>1, <2>7 DEF Server, CreateAdd, CreateRefused, CreatePublish, TimerFires, Hook,
                        HookForget, HookCoalesce, WindowEnds, hubVars
    <2>8. ASSUME NEW s \in Subs, Handler(s) \/ Browser(s) \/ User(s) PROVE Kept
      BY <2>1, <2>8 DEF Handler, WriteReplay, WriteLive, HandlerEnd, Browser, Opens, Refused,
                        Attach, Receive, StreamEnds, User, Mount, Abort, Leave, Break, hubVars
    <2>9. CASE UNCHANGED vars
      BY <2>1, <2>9 DEF vars, hubVars
    <2> QED BY <1>1, <2>2, <2>3, <2>4, <2>5, <2>6, <2>7, <2>8, <2>9 DEF Next
  <1>2. [Next]_vars => [Kept]_vars
    BY <1>1
  <1> QED BY <1>2, PTL DEF Spec, WindowHonoured

-----------------------------------------------------------------------------
(* No page is silently behind.  The frames on their way to a page are in   *)
(* its channel, in what its stream begins with and on the wire; the page   *)
(* goes back to an older id when a stream replays what its channel still   *)
(* holds.  So a key that is behind needs a frame that none before it on    *)
(* the way exceeds (Fresh), or, when the page reconnects, a ring that has  *)
(* an event past its last id or is past that id itself.                    *)

\* A subscription as the hub keeps it.
Hubs == [ch : Seq(Frame), ring : Seq(Frame), attached : BOOLEAN, gen : Nat]
Frames(q) == {q[i] : i \in 1..Len(q)}
Sorted(q) == \A i, j \in 1..Len(q) : i < j => q[i].id < q[j].id

\* The frame is in the ring, or the ring is past it.
Has(ring, f) == ring # <<>> /\ (f.id < ring[1].id \/ f \in Frames(ring))

\* The frame comes before every frame with its id or a later one.
First(q, e) == \E j \in 1..Len(q) : q[j] = e /\ \A i \in 1..j - 1 : q[i].id < e.id
Under(q, e) == \A i \in 1..Len(q) : q[i].id < e.id

Fresh(r, wire, out, id, k) ==
    \E e \in Frame : /\ e.key = k /\ e.id > id
                     /\ \/ First(wire, e)
                        \/ Under(wire, e) /\ First(out, e)
                        \/ Under(wire, e) /\ Under(out, e) /\ First(r.ch, e)

\* How key k reaches a page in state c whose last id is id.
Reaches(r, wire, out, id, c, k) ==
    \/ c \in {"posting", "answered"} /\ k \in KeysOf(r.ch)
    \/ c = "connecting" /\ id = 0 /\ k \in KeysOf(r.ch)
    \/ c = "connecting" /\ id # 0 /\ ( \/ ~Covered(r, id)
                                       \/ \E f \in Frames(r.ring) : f.id > id /\ f.key = k )
    \/ c = "open" /\ (Resync \in Frames(wire) \cup Frames(out) \/ Fresh(r, wire, out, id, k))

\* Events of a subscription in the hub are numbered in order, and its ring
\* knows every one that is under way; nobody has an id it has not seen.
Ordered(r, wire, out, id, n) ==
    /\ Sorted(r.ring) /\ Sorted(r.ch)
    /\ \A f \in Frames(r.ring) \cup Frames(r.ch) : f.id \in 1..n
    /\ \A f \in Frames(wire) \cup Frames(out) \cup Frames(r.ch) : f = Resync \/ Has(r.ring, f)
    /\ id # 0 => r.ring # <<>> /\ id <= r.ring[Len(r.ring)].id

\* A resync comes first, and as long as it is on its way the ring does not
\* cover what the page has missed.
Resyncs(r, wire, out, id) ==
    /\ wire # <<>> => Resync \notin Frames(Tail(wire))
    /\ Resync \in Frames(out) => out = <<Resync>> /\ wire = <<>>
    /\ Resync \in Frames(wire) \cup Frames(out) => ~Covered(r, id)

StreamTypes ==
    /\ sub \in [Subs -> Hubs] /\ net \in [Subs -> Seq(Frame)] /\ last \in [Subs -> Nat]
    /\ stale \in [Subs -> SUBSET Keys] /\ hubSeq \in Nat
    /\ \A s \in Subs : handler[s].out \in Seq(Frame) /\ Len(sub[s].ch) <= ChannelCap
    /\ IsFiniteSet(hubSubs)

\* The poller is within the table, and knows no page that is not published.
Polling ==
    /\ log \in Seq(Keys) /\ pruned \in 0..Len(log)
    /\ cursor \in 0..Len(log) /\ row \in 0..Len(log) /\ upto \in 0..Len(log)
    /\ pc \in {"boot", "idle", "snap", "fan", "deliver"}
    /\ pc \in {"snap", "fan", "deliver"} => row # 0
    /\ todo \subseteq snap /\ snap \subseteq Subs /\ (pc = "deliver" => to \in snap)
    /\ \A s \in registry \cup snap : client[s] \notin {"new", "posting"}

\* What holds of a page whether or not the hub has its subscription.
Streams(s) ==
    /\ \A f \in Frames(net[s]) \cup Frames(handler[s].out) : f = Resync \/ f.id # 0
    /\ \A f \in Frames(sub[s].ch) : f.id # 0
    /\ client[s] # "open" => net[s] = <<>>
    /\ ~handler[s].on => handler[s].out = <<>>
    /\ handler[s].out # <<>> => last[s] # 0
    /\ client[s] \in {"new", "posting", "answered"} \/ s \in posts => last[s] = 0
    /\ client[s] = "new" \/ s \in posts => sub[s].ch = <<>> /\ sub[s].ring = <<>>
    /\ stale[s] \subseteq Filter[s]
    /\ client[s] = "new" => stale[s] = {}

InHub(s) ==
    s \in hubSubs =>
      /\ Ordered(sub[s], net[s], handler[s].out, last[s], hubSeq)
      /\ client[s] = "open" => /\ sub[s].attached /\ handler[s].on
                               /\ Resyncs(sub[s], net[s], handler[s].out, last[s])

Gapped(s, k) == \E g \in gap : g[1] = s /\ g[2] = k
Served(s) == client[s] = "posting" \/ (client[s] \in {"answered", "connecting", "open"} /\ s \in hubSubs)
Behind(s) ==
    Served(s) => \A k \in stale[s] :
        \/ k \in Pending(s) \/ Gapped(s, k)
        \/ Reaches(sub[s], net[s], handler[s].out, last[s], client[s], k)

FInv == IInv /\ StreamTypes /\ Polling /\ \A s \in Subs : Streams(s) /\ InHub(s) /\ Behind(s)

-----------------------------------------------------------------------------
\* Sequences of frames.
LEMMA TailFrames ==
    ASSUME NEW F, NEW q \in Seq(F), q # <<>>
    PROVE  /\ Tail(q) \in Seq(F) /\ Len(Tail(q)) = Len(q) - 1 /\ Len(q) \in Nat \ {0}
           /\ \A i \in 1..Len(q) - 1 : Tail(q)[i] = q[i + 1]
           /\ Head(q) = q[1] /\ Head(q) \in Frames(q) /\ Head(q) \in F
           /\ Frames(Tail(q)) \subseteq Frames(q)
           /\ \A f \in Frames(q) : f = Head(q) \/ f \in Frames(Tail(q))
  <1>1. /\ Tail(q) \in Seq(F) /\ Len(Tail(q)) = Len(q) - 1 /\ Len(q) \in Nat \ {0}
        /\ \A i \in 1..Len(q) - 1 : Tail(q)[i] = q[i + 1]
        /\ Head(q) = q[1]
    BY HeadTailProperties, LenProperties, EmptySeq
  <1>2. Head(q) \in Frames(q) /\ Head(q) \in F
    <2>1. 1 \in 1..Len(q)
      BY <1>1
    <2> QED BY <1>1, <2>1, ElementOfSeq DEF Frames
  <1>3. Frames(Tail(q)) \subseteq Frames(q)
    <2> HIDE DEF Frames
    <2> SUFFICES ASSUME NEW i \in 1..Len(q) - 1 PROVE Tail(q)[i] \in Frames(q)
      BY <1>1 DEF Frames
    <2>1. i + 1 \in 1..Len(q)
      BY <1>1
    <2> QED BY <1>1, <2>1 DEF Frames
  <1>4. ASSUME NEW i \in 1..Len(q) PROVE q[i] = Head(q) \/ q[i] \in Frames(Tail(q))
    <2>1. CASE i = 1
      BY <1>1, <2>1
    <2>2. CASE i # 1
      <3>1. i - 1 \in 1..Len(q) - 1 /\ (i - 1) + 1 = i
        BY <1>1, <2>2
      <3>2. Tail(q)[i - 1] = q[i]
        BY <1>1, <3>1
      <3> QED BY <1>1, <3>1, <3>2 DEF Frames
    <2> QED BY <2>1, <2>2
  <1>5. \A f \in Frames(q) : f = Head(q) \/ f \in Frames(Tail(q))
    BY <1>4 DEF Frames
  <1> QED BY <1>1, <1>2, <1>3, <1>5

LEMMA AppendFrames ==
    ASSUME NEW F, NEW q \in Seq(F), NEW f \in F
    PROVE  /\ Append(q, f) \in Seq(F) /\ Len(Append(q, f)) = Len(q) + 1 /\ Len(q) \in Nat
           /\ \A i \in 1..Len(q) : Append(q, f)[i] = q[i]
           /\ Append(q, f)[Len(q) + 1] = f
           /\ Frames(Append(q, f)) = Frames(q) \cup {f}
  <1>1. /\ Append(q, f) \in Seq(F) /\ Len(Append(q, f)) = Len(q) + 1 /\ Len(q) \in Nat
        /\ \A i \in 1..Len(q) : Append(q, f)[i] = q[i]
        /\ Append(q, f)[Len(q) + 1] = f
    BY AppendProperties, LenProperties
  <1> DEFINE a == Append(q, f)
             n == Len(q)
  <1>2. Frames(a) = {a[i] : i \in 1..n + 1} /\ Frames(q) = {q[i] : i \in 1..n}
    BY <1>1 DEF Frames
  <1> HIDE DEF a, n
  <1>3. n \in Nat /\ (\A i \in 1..n : a[i] = q[i]) /\ a[n + 1] = f
    BY <1>1 DEF a, n
  <1>4. Frames(a) = Frames(q) \cup {f}
    <2>1. 1..n + 1 = 1..n \cup {n + 1}
      BY <1>3
    <2> QED BY <1>2, <1>3, <2>1
  <1> QED BY <1>1, <1>4 DEF a

LEMMA FirstIsFrame ==
    ASSUME NEW q, NEW e, First(q, e) PROVE e \in Frames(q)
  BY DEF First, Frames

LEMMA UnderIs ==
    ASSUME NEW q, NEW e PROVE Under(q, e) <=> \A f \in Frames(q) : f.id < e.id
  BY DEF Under, Frames

LEMMA FirstAppend ==
    ASSUME NEW q \in Seq(Frame), NEW f \in Frame, NEW e,
           First(q, e) \/ (Under(q, e) /\ f = e)
    PROVE  First(Append(q, f), e)
  <1> DEFINE a == Append(q, f)
             n == Len(q)
  <1>1. Len(a) = n + 1 /\ n \in Nat /\ (\A i \in 1..n : a[i] = q[i]) /\ a[n + 1] = f
    BY AppendFrames
  <1>2. First(a, e) <=> \E j \in 1..Len(a) : a[j] = e /\ \A i \in 1..j - 1 : a[i].id < e.id
    BY DEF First
  <1>3. CASE First(q, e)
    <2>1. PICK j \in 1..n : q[j] = e /\ \A i \in 1..j - 1 : q[i].id < e.id
      BY <1>3 DEF First
    <2> HIDE DEF a, n
    <2>2. j \in 1..Len(a) /\ \A i \in 1..j - 1 : i \in 1..n
      BY <1>1
    <2> QED BY <1>1, <1>2, <2>1, <2>2 DEF a
  <1>4. CASE Under(q, e) /\ f = e
    <2>1. \A i \in 1..n : q[i].id < e.id
      BY <1>4 DEF Under
    <2> HIDE DEF a, n
    <2>2. n + 1 \in 1..Len(a) /\ (n + 1) - 1 = n
      BY <1>1
    <2>3. \A i \in 1..(n + 1) - 1 : a[i].id < e.id
      BY <1>1, <2>1, <2>2
    <2> QED BY <1>1, <1>2, <1>4, <2>2, <2>3 DEF a
  <1> QED BY <1>3, <1>4

LEMMA FirstTail ==
    ASSUME NEW q \in Seq(Frame), q # <<>>, NEW e, First(q, e), Head(q) # e
    PROVE  Head(q).id < e.id /\ First(Tail(q), e)
  <1> DEFINE t == Tail(q)
             n == Len(q)
  <1>1. /\ Len(t) = n - 1 /\ n \in Nat \ {0} /\ Head(q) = q[1]
        /\ \A i \in 1..n - 1 : t[i] = q[i + 1]
    BY TailFrames
  <1>2. PICK j \in 1..n : q[j] = e /\ \A i \in 1..j - 1 : q[i].id < e.id
    BY DEF First
  <1>3. First(t, e) <=> \E i \in 1..Len(t) : t[i] = e /\ \A h \in 1..i - 1 : t[h].id < e.id
    BY DEF First
  <1> HIDE DEF t, n
  <1>4. j # 1
    BY <1>1, <1>2
  <1>5. 1 \in 1..j - 1 /\ j - 1 \in 1..Len(t) /\ j - 1 \in 1..n - 1 /\ (j - 1) + 1 = j
    BY <1>1, <1>4
  <1>6. Head(q).id < e.id
    BY <1>1, <1>2, <1>5
  <1>7. t[j - 1] = e
    BY <1>1, <1>2, <1>5
  <1>8. ASSUME NEW h \in 1..(j - 1) - 1 PROVE t[h].id < e.id
    <2>1. h \in 1..n - 1 /\ h + 1 \in 1..j - 1
      BY <1>1
    <2>2. t[h] = q[h + 1]
      BY <1>1, <2>1
    <2> QED BY <1>2, <2>1, <2>2
  <1> QED BY <1>3, <1>5, <1>6, <1>7, <1>8 DEF t

LEMMA SortedFirst ==
    ASSUME NEW q \in Seq(Frame), Sorted(q), NEW e \in Frames(q) PROVE First(q, e)
  <1>1. PICK j \in 1..Len(q) : q[j] = e
    BY DEF Frames
  <1>2. Len(q) \in Nat
    BY LenProperties
  <1>3. \A i \in 1..j - 1 : i \in 1..Len(q) /\ i < j
    BY <1>2
  <1> QED BY <1>1, <1>3 DEF First, Sorted

LEMMA SortedAppend ==
    ASSUME NEW q \in Seq(Frame), Sorted(q), NEW f \in Frame, Under(q, f)
    PROVE  Sorted(Append(q, f))
  <1> DEFINE a == Append(q, f)
             n == Len(q)
  <1>1. Len(a) = n + 1 /\ n \in Nat /\ (\A i \in 1..n : a[i] = q[i]) /\ a[n + 1] = f
    BY AppendFrames
  <1>2. /\ \A i, j \in 1..n : i < j => q[i].id < q[j].id
        /\ \A i \in 1..n : q[i].id < f.id
    BY DEF Sorted, Under
  <1> HIDE DEF a, n
  <1>3. ASSUME NEW i \in 1..n + 1, NEW j \in 1..n + 1, i < j PROVE a[i].id < a[j].id
    <2>1. i \in 1..n
      BY <1>1, <1>3
    <2>2. j \in 1..n \/ j = n + 1
      BY <1>1
    <2> QED BY <1>1, <1>2, <1>3, <2>1, <2>2
  <1> QED BY <1>1, <1>3 DEF Sorted, a

LEMMA SortedTail ==
    ASSUME NEW q \in Seq(Frame), Sorted(q), q # <<>>
    PROVE  Sorted(Tail(q)) /\ \A f \in Frames(Tail(q)) : Head(q).id < f.id
  <1> DEFINE t == Tail(q)
             n == Len(q)
  <1>1. /\ Len(t) = n - 1 /\ n \in Nat \ {0} /\ Head(q) = q[1]
        /\ \A i \in 1..n - 1 : t[i] = q[i + 1]
    BY TailFrames
  <1>2. \A i, j \in 1..n : i < j => q[i].id < q[j].id
    BY DEF Sorted
  <1>0. Frames(t) = {t[i] : i \in 1..Len(t)}
    BY DEF Frames
  <1> HIDE DEF t, n
  <1>3. ASSUME NEW i \in 1..n - 1, NEW j \in 1..n - 1, i < j PROVE t[i].id < t[j].id
    <2>1. i + 1 \in 1..n /\ j + 1 \in 1..n /\ i + 1 < j + 1
      BY <1>1, <1>3
    <2> QED BY <1>1, <1>2, <2>1
  <1>4. ASSUME NEW j \in 1..n - 1 PROVE q[1].id < t[j].id
    <2>1. 1 \in 1..n /\ j + 1 \in 1..n /\ 1 < j + 1
      BY <1>1
    <2> QED BY <1>1, <1>2, <2>1
  <1> QED BY <1>0, <1>1, <1>3, <1>4 DEF Sorted, t

LEMMA Bounds ==
    ASSUME NEW q \in Seq(Frame), Sorted(q), NEW f \in Frames(q)
    PROVE  /\ q # <<>> /\ q[1] \in Frames(q) /\ q[Len(q)] \in Frames(q)
           /\ q[1] \in Frame /\ q[Len(q)] \in Frame /\ f \in Frame
           /\ q[1].id <= f.id /\ f.id <= q[Len(q)].id
  <1>1. PICK i \in 1..Len(q) : q[i] = f
    BY DEF Frames
  <1>2. Len(q) \in Nat \ {0} /\ 1 \in 1..Len(q) /\ Len(q) \in 1..Len(q)
    BY <1>1, LenProperties
  <1>3. q # <<>>
    BY <1>2, EmptySeq
  <1>4. q[1] \in Frame /\ q[Len(q)] \in Frame /\ f \in Frame
    BY <1>1, <1>2, ElementOfSeq
  <1>5. q[1].id \in Nat /\ f.id \in Nat /\ q[Len(q)].id \in Nat
    BY <1>4 DEF Frame
  <1>6. (1 < i => q[1].id < q[i].id) /\ (i < Len(q) => q[i].id < q[Len(q)].id)
    BY <1>2 DEF Sorted
  <1>7. (1 = i => q[1] = f) /\ (i = Len(q) => q[Len(q)] = f)
    BY <1>1
  <1>8. q[1].id <= f.id /\ f.id <= q[Len(q)].id
    BY <1>1, <1>2, <1>5, <1>6, <1>7
  <1> QED BY <1>2, <1>3, <1>4, <1>8 DEF Frames

LEMMA FrameTypes ==
    ASSUME NEW q \in Seq(Frame)
    PROVE  \A f \in Frames(q) : f \in Frame /\ f.id \in Nat
  <1>1. \A i \in 1..Len(q) : q[i] \in Frame
    BY ElementOfSeq
  <1>2. \A f \in Frame : f.id \in Nat
    BY DEF Frame
  <1> QED BY <1>1, <1>2 DEF Frames

\* The ring and the channel after an event.
NewRing(ring, ev) ==
    IF Len(Append(ring, ev)) > ReplayBuffer THEN Tail(Append(ring, ev)) ELSE Append(ring, ev)
NewCh(ch, ev) ==
    IF Len(Append(ch, ev)) > ChannelCap THEN Tail(Append(ch, ev)) ELSE Append(ch, ev)

LEMMA EnqueueIs ==
    ASSUME NEW r \in Hubs, NEW ev \in Frame
    PROVE  /\ Enqueue(r, ev).ring = NewRing(r.ring, ev) /\ Enqueue(r, ev).ch = NewCh(r.ch, ev)
           /\ Enqueue(r, ev).attached = r.attached
           /\ Enqueue(r, ev) \in Hubs
           /\ r.ring \in Seq(Frame) /\ r.ch \in Seq(Frame)
  <1> DEFINE x == NewRing(r.ring, ev)
             y == NewCh(r.ch, ev)
             F == Seq(Frame)
  <1>1. Enqueue(r, ev) = [r EXCEPT !.ring = x, !.ch = y]
    BY DEF Enqueue, NewRing, NewCh
  <1>2. r \in [ch : F, ring : F, attached : BOOLEAN, gen : Nat]
    BY DEF Hubs
  <1>3. x \in F /\ y \in F
    <2>1. r.ring \in F /\ r.ch \in F
      <3> HIDE DEF F
      <3> QED BY <1>2
    <2>2. /\ Append(r.ring, ev) \in F /\ Append(r.ch, ev) \in F
          /\ Append(r.ring, ev) # <<>> /\ Append(r.ch, ev) # <<>>
      BY <2>1, AppendProperties
    <2>3. Tail(Append(r.ring, ev)) \in F /\ Tail(Append(r.ch, ev)) \in F
      BY <2>2, HeadTailProperties
    <2> HIDE DEF F
    <2> QED BY <2>2, <2>3 DEF NewRing, NewCh
  <1> HIDE DEF x, y, F
  <1>4. [r EXCEPT !.ring = x, !.ch = y] \in [ch : F, ring : F, attached : BOOLEAN, gen : Nat]
    BY <1>2, <1>3, Zenon
  <1>5. /\ [r EXCEPT !.ring = x, !.ch = y].ring = x /\ [r EXCEPT !.ring = x, !.ch = y].ch = y
        /\ r.ring \in F /\ r.ch \in F
    BY <1>2
  <1>6. [r EXCEPT !.ring = x, !.ch = y].attached = r.attached
    BY <1>2, Zenon
  <1> QED BY <1>1, <1>4, <1>5, <1>6 DEF x, y, F, Hubs

LEMMA NewRingIs ==
    ASSUME NEW q \in Seq(Frame), Sorted(q), NEW ev \in Frame, \A f \in Frames(q) : f.id < ev.id
    PROVE  /\ NewRing(q, ev) \in Seq(Frame) /\ NewRing(q, ev) # <<>> /\ Sorted(NewRing(q, ev))
           /\ Frames(NewRing(q, ev)) \subseteq Frames(q) \cup {ev} /\ ev \in Frames(NewRing(q, ev))
           /\ \A f \in Frames(q) : f \in Frames(NewRing(q, ev)) \/ f.id < NewRing(q, ev)[1].id
           /\ q # <<>> => q[1].id <= NewRing(q, ev)[1].id
           /\ \A f \in Frames(q) \cup {ev} : f.id <= NewRing(q, ev)[Len(NewRing(q, ev))].id
  <1> DEFINE a == Append(q, ev)
             n == Len(q)
  <1>1. a \in Seq(Frame) /\ Len(a) = n + 1 /\ n \in Nat /\ Frames(a) = Frames(q) \cup {ev}
    BY AppendFrames
  <1>2. Sorted(a)
    BY SortedAppend, UnderIs
  <1>3. a # <<>> /\ (\A i \in 1..n : a[i] = q[i]) /\ a[n + 1] = ev
    BY AppendFrames, <1>1, EmptySeq
  <1>e. ev \in Frames(a) /\ ev.id \in Nat /\ \A f \in Frames(q) : f.id \in Nat
    BY <1>1, FrameTypes DEF Frame
  <1>b. /\ a[1] \in Frames(a) /\ \A f \in Frames(a) : a[1].id <= f.id /\ f.id \in Nat
    BY <1>1, <1>2, <1>e, Bounds, FrameTypes
  <1>t. \A new \in Seq(Frame) : Sorted(new) /\ ev \in Frames(new) =>
            /\ new # <<>> /\ new[1] \in Frames(new) /\ new[1].id \in Nat /\ new[Len(new)].id \in Nat
            /\ ev.id <= new[Len(new)].id
            /\ \A f \in Frames(q) \cup {ev} : f.id <= new[Len(new)].id
    <2> SUFFICES ASSUME NEW new \in Seq(Frame), Sorted(new), ev \in Frames(new)
                 PROVE  /\ new # <<>> /\ new[1] \in Frames(new)
                        /\ new[1].id \in Nat /\ new[Len(new)].id \in Nat
                        /\ ev.id <= new[Len(new)].id
                        /\ \A f \in Frames(q) : f.id <= new[Len(new)].id
      OBVIOUS
    <2>1. /\ new # <<>> /\ new[1] \in Frames(new) /\ new[Len(new)] \in Frames(new)
          /\ ev.id <= new[Len(new)].id
      BY Bounds
    <2>2. new[1].id \in Nat /\ new[Len(new)].id \in Nat
      BY <2>1, FrameTypes
    <2> QED BY <1>e, <2>1, <2>2
  <1>q. q # <<>> => q[1] = a[1] /\ q[1] \in Frames(q)
    <2> SUFFICES ASSUME q # <<>> PROVE q[1] = a[1] /\ q[1] \in Frames(q)
      OBVIOUS
    <2>1. 1 \in 1..n
      BY <1>1, EmptySeq
    <2> QED BY <1>3, <2>1 DEF Frames
  <1>4. CASE ~(Len(a) > ReplayBuffer)
    <2>1. NewRing(q, ev) = a
      BY <1>4 DEF NewRing
    <2>2. q # <<>> => q[1].id <= a[1].id
      BY <1>e, <1>q
    <2>3. \A f \in Frames(q) : f \in Frames(a)
      BY <1>1
    <2> HIDE DEF a, n
    <2> QED BY <1>1, <1>2, <1>e, <1>t, <2>1, <2>2, <2>3
  <1>5. CASE Len(a) > ReplayBuffer
    <2> DEFINE t == Tail(a)
    <2>1. NewRing(q, ev) = t
      BY <1>5 DEF NewRing
    <2>2. n # 0 /\ q # <<>>
      BY <1>1, <1>5, EmptySeq, FeedAssumption
    <2>3. /\ t \in Seq(Frame) /\ Frames(t) \subseteq Frames(a)
          /\ Head(a) = a[1] /\ \A f \in Frames(a) : f = Head(a) \/ f \in Frames(t)
      BY <1>1, <1>3, TailFrames
    <2>4. Sorted(t) /\ \A f \in Frames(t) : a[1].id < f.id
      BY <1>1, <1>2, <1>3, <2>3, SortedTail
    <2>5. ev \in Frames(t)
      <3>1. a[1].id < ev.id
        BY <1>q, <2>2
      <3> QED BY <1>e, <2>3, <3>1
    <2>6. t[1] \in Frames(t) /\ t[1].id \in Nat /\ a[1].id < t[1].id
      BY <1>t, <2>3, <2>4, <2>5
    <2>7. q[1].id <= t[1].id /\ \A f \in Frames(q) : f \in Frames(t) \/ f.id < t[1].id
      BY <1>1, <1>b, <1>q, <2>2, <2>3, <2>6
    <2>8. Frames(t) \subseteq Frames(q) \cup {ev}
      BY <1>1, <2>3
    <2> HIDE DEF a, n, t
    <2> QED BY <1>t, <2>1, <2>3, <2>4, <2>5, <2>7, <2>8
  <1> QED BY <1>4, <1>5

LEMMA NewChIs ==
    ASSUME NEW q \in Seq(Frame), Sorted(q), Len(q) <= ChannelCap,
           NEW ev \in Frame, \A f \in Frames(q) : f.id < ev.id
    PROVE  /\ NewCh(q, ev) \in Seq(Frame) /\ Len(NewCh(q, ev)) <= ChannelCap /\ Sorted(NewCh(q, ev))
           /\ Frames(NewCh(q, ev)) \subseteq Frames(q) \cup {ev} /\ First(NewCh(q, ev), ev)
           /\ \A e : First(q, e) => \/ First(NewCh(q, ev), e)
                                    \/ Len(q) = ChannelCap /\ q # <<>> /\ e = Head(q)
           /\ \A f \in Frames(q) : \/ f \in Frames(NewCh(q, ev))
                                   \/ Len(q) = ChannelCap /\ q # <<>> /\ f = Head(q)
  <1> DEFINE a == Append(q, ev)
             n == Len(q)
  <1>1. a \in Seq(Frame) /\ Len(a) = n + 1 /\ n \in Nat /\ Frames(a) = Frames(q) \cup {ev}
    BY AppendFrames
  <1>2. Sorted(a)
    BY SortedAppend, UnderIs
  <1>3. First(a, ev) /\ \A e : First(q, e) => First(a, e)
    BY FirstAppend, UnderIs
  <1>4. CASE ~(Len(a) > ChannelCap)
    <2>1. NewCh(q, ev) = a /\ Len(a) <= ChannelCap
      BY <1>1, <1>4, FeedAssumption DEF NewCh
    <2> HIDE DEF a, n
    <2> QED BY <1>1, <1>2, <1>3, <2>1
  <1>5. CASE Len(a) > ChannelCap
    <2> DEFINE t == Tail(a)
    <2>1. NewCh(q, ev) = t
      BY <1>5 DEF NewCh
    <2>2. n = ChannelCap /\ n # 0 /\ q # <<>> /\ a # <<>>
      BY <1>1, <1>5, EmptySeq, FeedAssumption
    <2>3. /\ t \in Seq(Frame) /\ Len(t) = n /\ Frames(t) \subseteq Frames(a)
          /\ Head(a) = a[1] /\ \A f \in Frames(a) : f = Head(a) \/ f \in Frames(t)
      <3>1. /\ t \in Seq(Frame) /\ Len(t) = Len(a) - 1 /\ Frames(t) \subseteq Frames(a)
            /\ Head(a) = a[1] /\ \A f \in Frames(a) : f = Head(a) \/ f \in Frames(t)
        BY <1>1, <2>2, TailFrames
      <3>2. Len(a) - 1 = n
        BY <1>1
      <3> QED BY <3>1, <3>2
    <2>4. Head(a) = Head(q) /\ Head(q) \in Frames(q)
      <3>1. 1 \in 1..n
        BY <1>1, <2>2
      <3>2. a[1] = q[1]
        BY <3>1, AppendFrames
      <3> QED BY <2>2, <2>3, <3>2, TailFrames
    <2>5. Sorted(t)
      BY <1>1, <1>2, <2>2, SortedTail
    <2>6. \A e : First(a, e) /\ Head(a) # e => First(t, e)
      BY <1>1, <2>2, FirstTail
    <2>7. Head(a) # ev
      <3>1. Head(q).id < ev.id /\ ev.id \in Nat
        BY <2>4 DEF Frame
      <3> QED BY <2>4, <3>1
    <2> HIDE DEF a, n, t
    <2>8. First(t, ev) /\ Frames(t) \subseteq Frames(q) \cup {ev}
      BY <1>1, <1>3, <2>3, <2>6, <2>7
    <2>9. /\ \A e : First(q, e) => First(t, e) \/ e = Head(q)
          /\ \A f \in Frames(q) : f \in Frames(t) \/ f = Head(q)
      BY <1>1, <1>3, <2>3, <2>4, <2>6
    <2>10. Len(t) <= ChannelCap
      BY <1>1, <2>2, <2>3
    <2>11. Len(q) = ChannelCap
      BY <2>2 DEF n
    <2> QED BY <2>1, <2>2, <2>3, <2>5, <2>8, <2>9, <2>10, <2>11
  <1> QED BY <1>4, <1>5

\* The recursive definition of NewerUpTo has a solution, so NewerUpTo obeys it.
NewerStep(q, id, prev, i) == IF q[i].id > id THEN Append(prev, q[i]) ELSE prev

LEMMA NewerUpToDef ==
    ASSUME NEW q \in Seq(Frame), NEW id
    PROVE  /\ NewerUpTo(q, id)[0] = <<>>
           /\ \A i \in 1..Len(q) : NewerUpTo(q, id)[i] = NewerStep(q, id, NewerUpTo(q, id)[i - 1], i)
  <1> DEFINE N == Len(q)
             Val(g, k) == IF k = 0 THEN <<>> ELSE NewerStep(q, id, g[k - 1], k)
             Is(g, n) == \A k \in 0 .. n : g[k] = Val(g, k)
             S == {n \in Nat : \E g : Is(g, n)}
  <1>0. N \in Nat
    BY LenProperties
  <1>1. 0 \in S
    <2>1. Is([k \in 0 .. 0 |-> <<>>], 0)
      OBVIOUS
    <2> QED BY <2>1
  <1>2. ASSUME NEW n \in Nat, n \in S PROVE n + 1 \in S
    <2>1. PICK g : Is(g, n)
      BY <1>2
    <2> DEFINE h == [k \in 0 .. n + 1 |-> IF k <= n THEN g[k] ELSE Val(g, k)]
    <2>2. \A k \in 0 .. n + 1 : Val(h, k) = Val(g, k)
      OBVIOUS
    <2>3. Is(h, n + 1)
      <3> HIDE DEF Val
      <3> QED BY <2>1, <2>2
    <2> HIDE DEF Is, h
    <2> QED BY <2>3
  <1>3. PICK g : Is(g, N)
    <2> HIDE DEF Is
    <2>1. Nat \subseteq S
      <3> HIDE DEF S
      <3> QED BY <1>1, <1>2, SetInduction
    <2> QED BY <1>0, <2>1
  <1> DEFINE h == [k \in 0 .. N |-> g[k]]
             Table(t) == t = [k \in 0 .. N |-> Val(t, k)]
  <1>4. Table(h)
    <2>1. \A k \in 0 .. N : Val(h, k) = Val(g, k)
      BY <1>0
    <2> HIDE DEF Val
    <2> QED BY <1>3, <2>1
  <1>5. NewerUpTo(q, id) = CHOOSE t : Table(t)
    BY DEF NewerUpTo, NewerStep
  <1>6. Table(NewerUpTo(q, id))
    <2> HIDE DEF Table, h
    <2> QED BY <1>4, <1>5
  <1>7. \A k \in 0 .. N : NewerUpTo(q, id)[k] = Val(NewerUpTo(q, id), k)
    <2> HIDE DEF Val
    <2> QED BY <1>6, Zenon
  <1>8. 0 \in 0 .. N /\ \A k \in 1 .. N : k \in 0 .. N /\ k # 0
    BY <1>0
  <1> QED BY <1>7, <1>8, Zenon

\* A stream begins with the events of the ring past the id, in order.
LEMMA ReplayIs ==
    ASSUME NEW r \in Hubs, Sorted(r.ring), NEW id \in Nat \ {0}
    PROVE  /\ ReplaySince(r, id) \in Seq(Frame) /\ Sorted(ReplaySince(r, id))
           /\ Frames(ReplaySince(r, id)) = {f \in Frames(r.ring) : f.id > id}
  <1> DEFINE q == r.ring
             N == Len(q)
             up(k) == NewerUpTo(q, id)[k]
             Good(p, k) == /\ p \in Seq(Frame) /\ Sorted(p)
                           /\ Frames(p) = {f \in {q[i] : i \in 1..k} : f.id > id}
             S == {k \in 0..N : Good(up(k), k)}
  <1>0. q \in Seq(Frame)
    <2> DEFINE F == Seq(Frame)
    <2>1. r \in [ch : F, ring : F, attached : BOOLEAN, gen : Nat]
      BY DEF Hubs
    <2> HIDE DEF F
    <2>2. r.ring \in F
      BY <2>1
    <2> QED BY <2>2 DEF F
  <1>n. N \in Nat /\ \A i \in 1..N : q[i] \in Frame /\ q[i].id \in Nat
    <2>1. N \in Nat /\ \A i \in 1..N : q[i] \in Frame
      BY <1>0, LenProperties, ElementOfSeq
    <2>2. \A f \in Frame : f.id \in Nat
      BY DEF Frame
    <2> QED BY <2>1, <2>2
  <1>s. \A i, j \in 1..N : i < j => q[i].id < q[j].id
    BY DEF Sorted
  <1>d. /\ up(0) = <<>>
        /\ \A k \in 1..N : up(k) = IF q[k].id > id THEN Append(up(k - 1), q[k]) ELSE up(k - 1)
    BY <1>0, NewerUpToDef DEF NewerStep
  <1>r. ReplaySince(r, id) = up(N)
    BY DEF ReplaySince
  <1>f. Frames(q) = {q[i] : i \in 1..N}
    BY DEF Frames
  <1> HIDE DEF q, N, up
  <1>1. 0 \in S
    <2>1. <<>> \in Seq(Frame) /\ Len(<<>>) = 0
      BY EmptySeq
    <2>2. Good(<<>>, 0)
      BY <2>1 DEF Sorted, Frames
    <2> HIDE DEF Good
    <2> QED BY <1>n, <1>d, <2>2
  <1>2. ASSUME NEW k \in 1..N, k - 1 \in S PROVE k \in S
    <2> DEFINE p == up(k - 1)
    <2>1. Good(p, k - 1) /\ k \in 0..N
      BY <1>2, <1>n
    <2> HIDE DEF p
    <2>2. {q[i] : i \in 1..k} = {q[i] : i \in 1..k - 1} \cup {q[k]}
      <3>1. 1..k = 1..k - 1 \cup {k}
        BY <1>n
      <3> QED BY <3>1
    <2>3. up(k) = IF q[k].id > id THEN Append(p, q[k]) ELSE p
      BY <1>d DEF p
    <2>4. CASE q[k].id > id
      <3>1. \A f \in Frames(p) : f.id < q[k].id
        <4>1. \A i \in 1..k - 1 : i \in 1..N /\ i < k
          BY <1>n
        <4> QED BY <1>s, <2>1, <4>1
      <3>2. Under(p, q[k])
        BY <3>1, UnderIs
      <3>3. Sorted(Append(p, q[k]))
        BY <1>n, <2>1, <3>2, SortedAppend
      <3>4. Append(p, q[k]) \in Seq(Frame) /\ Frames(Append(p, q[k])) = Frames(p) \cup {q[k]}
        BY <1>n, <2>1, AppendFrames
      <3>5. Frames(Append(p, q[k])) = {f \in {q[i] : i \in 1..k} : f.id > id}
        BY <2>1, <2>2, <2>4, <3>4
      <3>6. Good(up(k), k)
        BY <2>3, <2>4, <3>3, <3>4, <3>5
      <3> HIDE DEF Good
      <3> QED BY <2>1, <3>6
    <2>5. CASE ~(q[k].id > id)
      <3>1. Good(p, k)
        BY <2>1, <2>2, <2>5
      <3> HIDE DEF Good
      <3> QED BY <2>1, <2>3, <2>5, <3>1
    <2> QED BY <2>4, <2>5
  <1>3. Good(up(N), N)
    <2>1. 0..N \subseteq S
      <3> HIDE DEF S
      <3> QED BY <1>n, <1>1, <1>2, UpToInduction
    <2> HIDE DEF Good
    <2> QED BY <1>n, <2>1
  <1>4. Frames(q) = Frames(r.ring)
    BY DEF q
  <1> QED BY <1>3, <1>4, <1>r, <1>f

-----------------------------------------------------------------------------
\* What the steps of the stream do to the frames of one page.
LEMMA HubFields ==
    ASSUME NEW r \in Hubs
    PROVE  r.ring \in Seq(Frame) /\ r.ch \in Seq(Frame) /\ r.attached \in BOOLEAN /\ r.gen \in Nat
  <1> DEFINE F == Seq(Frame)
  <1>1. r \in [ch : F, ring : F, attached : BOOLEAN, gen : Nat]
    BY DEF Hubs
  <1> HIDE DEF F
  <1>2. r.ring \in F /\ r.ch \in F /\ r.attached \in BOOLEAN /\ r.gen \in Nat
    BY <1>1
  <1> QED BY <1>2 DEF F

\* No frame under way has an id past the newest of the ring, nor has the page.
LEMMA OrderedBounds ==
    ASSUME NEW r \in Hubs, NEW wire \in Seq(Frame), NEW out \in Seq(Frame), NEW id \in Nat,
           NEW n \in Nat, Ordered(r, wire, out, id, n)
    PROVE  /\ id <= n
           /\ \A f \in Frames(wire) \cup Frames(out) \cup Frames(r.ch) \cup Frames(r.ring) : f.id <= n
           /\ \A f \in Frames(wire) \cup Frames(out) \cup Frames(r.ch) :
                 f = Resync \/ (r.ring # <<>> /\ f.id <= r.ring[Len(r.ring)].id)
  <1>1. r.ring \in Seq(Frame) /\ r.ch \in Seq(Frame)
    BY HubFields
  <1>2. \A f \in Frames(wire) \cup Frames(out) \cup Frames(r.ch) \cup Frames(r.ring) : f.id \in Nat
    BY <1>1, FrameTypes
  <1>3. r.ring # <<>> => /\ r.ring[1].id \in Nat /\ r.ring[Len(r.ring)].id \in Nat
                         /\ r.ring[1].id <= r.ring[Len(r.ring)].id /\ r.ring[Len(r.ring)].id <= n
    <2> SUFFICES ASSUME r.ring # <<>> PROVE
          /\ r.ring[1].id \in Nat /\ r.ring[Len(r.ring)].id \in Nat
          /\ r.ring[1].id <= r.ring[Len(r.ring)].id /\ r.ring[Len(r.ring)].id <= n
      OBVIOUS
    <2>1. Head(r.ring) \in Frames(r.ring)
      BY <1>1, TailFrames
    <2>2. /\ r.ring[1] \in Frames(r.ring) /\ r.ring[Len(r.ring)] \in Frames(r.ring)
      BY <1>1, <2>1, Bounds DEF Ordered
    <2>3. r.ring[1].id <= r.ring[Len(r.ring)].id
      BY <1>1, <2>2, Bounds DEF Ordered
    <2> QED BY <1>2, <2>2, <2>3 DEF Ordered
  <1>4. id <= n
    BY <1>3 DEF Ordered
  <1>5. \A f \in Frames(r.ring) \cup Frames(r.ch) : f.id <= n
    BY DEF Ordered
  <1>6. ASSUME NEW f \in Frames(wire) \cup Frames(out) \cup Frames(r.ch), f # Resync
        PROVE  r.ring # <<>> /\ f.id <= r.ring[Len(r.ring)].id
    <2>1. Has(r.ring, f)
      BY <1>6 DEF Ordered
    <2>2. CASE f \in Frames(r.ring)
      BY <1>1, <2>1, <2>2, Bounds DEF Ordered, Has
    <2>3. CASE f.id < r.ring[1].id
      BY <1>2, <1>3, <2>1, <2>3 DEF Has
    <2> QED BY <2>1, <2>2, <2>3 DEF Has
  <1>7. Resync.id = 0
    BY DEF Resync
  <1>8. \A f \in Frames(wire) \cup Frames(out) : f.id <= n
    <2> SUFFICES ASSUME NEW f \in Frames(wire) \cup Frames(out) PROVE f.id <= n
      OBVIOUS
    <2>1. CASE f = Resync
      BY <1>7, <2>1
    <2>2. CASE f # Resync
      BY <1>2, <1>3, <1>6, <2>2
    <2> QED BY <2>1, <2>2
  <1>9. \A f \in Frames(wire) \cup Frames(out) \cup Frames(r.ch) \cup Frames(r.ring) : f.id <= n
    BY <1>5, <1>8
  <1>10. \A f \in Frames(wire) \cup Frames(out) \cup Frames(r.ch) :
            f = Resync \/ (r.ring # <<>> /\ f.id <= r.ring[Len(r.ring)].id)
    BY <1>6
  <1> QED BY <1>4, <1>9, <1>10

\* A ring does not cover what a page with an id has missed when it is past the id.
LEMMA CoveredIs ==
    ASSUME NEW r \in Hubs, NEW wire \in Seq(Frame), NEW out \in Seq(Frame), NEW id \in Nat,
           NEW n \in Nat, Ordered(r, wire, out, id, n)
    PROVE  Covered(r, id) <=> id = 0 \/ r.ring[1].id <= id
  BY DEF Covered, Ordered

LEMMA EnqueueKeeps ==
    ASSUME NEW r \in Hubs, NEW wire \in Seq(Frame), NEW out \in Seq(Frame), NEW id \in Nat,
           NEW n \in Nat, NEW m \in Nat, NEW ev \in Frame, n < ev.id, ev.id <= m,
           Ordered(r, wire, out, id, n), Len(r.ch) <= ChannelCap
    PROVE  /\ Enqueue(r, ev) \in Hubs /\ Len(Enqueue(r, ev).ch) <= ChannelCap
           /\ Ordered(Enqueue(r, ev), wire, out, id, m)
           /\ ~Covered(r, id) => ~Covered(Enqueue(r, ev), id)
           /\ Enqueue(r, ev).attached = r.attached
           /\ \A f \in Frames(Enqueue(r, ev).ch) : f.id # 0
  <1> DEFINE x == Enqueue(r, ev)
             g == r.ring
             h == NewRing(g, ev)
             c == NewCh(r.ch, ev)
  <1>1. /\ x \in Hubs /\ x.ring = h /\ x.ch = c /\ x.attached = r.attached
        /\ g \in Seq(Frame) /\ r.ch \in Seq(Frame)
    BY EnqueueIs
  <1>2. \A f \in Frames(wire) \cup Frames(out) \cup Frames(r.ch) \cup Frames(g) : f.id <= n /\ f.id \in Nat
    BY <1>1, OrderedBounds, FrameTypes
  <1>e. ev.id \in Nat
    BY DEF Frame
  <1>3. \A f \in Frames(g) \cup Frames(r.ch) : f.id < ev.id
    BY <1>2, <1>e
  <1>4. /\ h \in Seq(Frame) /\ h # <<>> /\ Sorted(h)
        /\ Frames(h) \subseteq Frames(g) \cup {ev} /\ ev \in Frames(h)
        /\ \A f \in Frames(g) : f \in Frames(h) \/ f.id < h[1].id
        /\ g # <<>> => g[1].id <= h[1].id
        /\ \A f \in Frames(g) \cup {ev} : f.id <= h[Len(h)].id
    BY <1>1, <1>3, NewRingIs DEF Ordered
  <1>5. /\ c \in Seq(Frame) /\ Len(c) <= ChannelCap /\ Sorted(c)
        /\ Frames(c) \subseteq Frames(r.ch) \cup {ev}
    BY <1>1, <1>3, NewChIs DEF Ordered
  <1>6. /\ Sorted(g) /\ (\A f \in Frames(g) \cup Frames(r.ch) : f.id \in 1..n)
        /\ (\A f \in Frames(wire) \cup Frames(out) \cup Frames(r.ch) : f = Resync \/ Has(g, f))
        /\ (id # 0 => g # <<>> /\ id <= g[Len(g)].id)
    BY DEF Ordered
  <1> HIDE DEF x, g, h, c
  <1>7. h[1].id \in Nat /\ h[Len(h)].id \in Nat
    <2>1. h[1] \in Frames(h) /\ h[Len(h)] \in Frames(h)
      BY <1>4, Bounds
    <2> QED BY <1>4, <2>1, FrameTypes
  <1>8. g # <<>> => g[1].id \in Nat /\ g[Len(g)].id \in Nat /\ g[Len(g)] \in Frames(g)
    <2> SUFFICES ASSUME g # <<>> PROVE g[1].id \in Nat /\ g[Len(g)].id \in Nat /\ g[Len(g)] \in Frames(g)
      OBVIOUS
    <2>1. Head(g) \in Frames(g)
      BY <1>1, TailFrames
    <2>2. g[1] \in Frames(g) /\ g[Len(g)] \in Frames(g)
      BY <1>1, <1>6, <2>1, Bounds
    <2> QED BY <1>1, <2>2, FrameTypes
  <1>9. \A f : Has(g, f) /\ f.id \in Nat => Has(h, f)
    BY <1>4, <1>7, <1>8 DEF Has
  <1>10. Has(h, ev)
    BY <1>4 DEF Has
  <1>11. \A f \in Frames(wire) \cup Frames(out) \cup Frames(c) : f = Resync \/ Has(h, f)
    BY <1>2, <1>5, <1>6, <1>9, <1>10
  <1>12. \A f \in Frames(h) \cup Frames(c) : f.id \in 1..m
    <2>1. \A f \in Frames(g) \cup Frames(r.ch) \cup {ev} : f.id \in 1..m
      BY <1>6, <1>e
    <2> QED BY <1>4, <1>5, <2>1
  <1>13. id # 0 => h # <<>> /\ id <= h[Len(h)].id
    BY <1>4, <1>6, <1>7, <1>8
  <1>14. Ordered(x, wire, out, id, m)
    BY <1>1, <1>4, <1>5, <1>11, <1>12, <1>13 DEF Ordered
  <1>15. ~Covered(r, id) => ~Covered(x, id)
    <2>1. Covered(r, id) <=> id = 0 \/ g[1].id <= id
      BY CoveredIs DEF g
    <2>2. Covered(x, id) <=> id = 0 \/ h[1].id <= id
      BY <1>1, <1>14, CoveredIs
    <2> QED BY <1>4, <1>6, <1>7, <1>8, <2>1, <2>2
  <1> QED BY <1>1, <1>5, <1>12, <1>14, <1>15 DEF x

LEMMA KeysAre ==
    ASSUME NEW q PROVE KeysOf(q) = {f.key : f \in Frames(q)}
  BY DEF KeysOf, Frames

\* An event reaches the page it is delivered to, and takes at most the
\* oldest of a full channel.
LEMMA EnqueueReaches ==
    ASSUME NEW r \in Hubs, NEW wire \in Seq(Frame), NEW out \in Seq(Frame), NEW id \in Nat,
           NEW n \in Nat, NEW ev \in Frame, n < ev.id,
           Ordered(r, wire, out, id, n), Len(r.ch) <= ChannelCap,
           NEW c \in {"posting", "answered", "connecting", "open"},
           c \in {"posting", "answered"} => id = 0, c = "open" => r.attached
    PROVE  /\ Reaches(Enqueue(r, ev), wire, out, id, c, ev.key)
           /\ \A k : Reaches(r, wire, out, id, c, k) =>
                 \/ Reaches(Enqueue(r, ev), wire, out, id, c, k)
                 \/ /\ Len(r.ch) = ChannelCap /\ (r.attached \/ id = 0)
                    /\ k = Head(r.ch).key
  <1> DEFINE x == Enqueue(r, ev)
  <1>1. /\ x \in Hubs /\ x.ring = NewRing(r.ring, ev) /\ x.ch = NewCh(r.ch, ev)
        /\ r.ring \in Seq(Frame) /\ r.ch \in Seq(Frame)
    BY EnqueueIs
  <1>e. ev.id \in Nat
    BY DEF Frame
  <1>2. /\ \A f \in Frames(wire) \cup Frames(out) \cup Frames(r.ch) \cup Frames(r.ring) : f.id < ev.id
        /\ id < ev.id
    <2>1. /\ \A f \in Frames(wire) \cup Frames(out) \cup Frames(r.ch) \cup Frames(r.ring) : f.id <= n /\ f.id \in Nat
          /\ id <= n
      BY <1>1, OrderedBounds, FrameTypes
    <2> QED BY <1>e, <2>1
  <1>3. /\ ev \in Frames(x.ring)
        /\ \A f \in Frames(r.ring) : f \in Frames(x.ring) \/ f.id < x.ring[1].id
        /\ x.ring[1].id \in Nat /\ x.ring \in Seq(Frame)
    <2>1. /\ ev \in Frames(x.ring) /\ x.ring \in Seq(Frame) /\ Sorted(x.ring)
          /\ \A f \in Frames(r.ring) : f \in Frames(x.ring) \/ f.id < x.ring[1].id
      BY <1>1, <1>2, NewRingIs DEF Ordered
    <2>2. x.ring[1] \in Frames(x.ring)
      BY <2>1, Bounds
    <2> QED BY <2>1, <2>2, FrameTypes
  <1>4. /\ First(x.ch, ev)
        /\ \A e : First(r.ch, e) => First(x.ch, e) \/ (Len(r.ch) = ChannelCap /\ e = Head(r.ch))
        /\ \A f \in Frames(r.ch) : f \in Frames(x.ch) \/ (Len(r.ch) = ChannelCap /\ f = Head(r.ch))
    BY <1>1, <1>2, NewChIs DEF Ordered
  <1>5. ev \in Frames(x.ch)
    BY <1>4, FirstIsFrame
  <1>6. ~Covered(r, id) => ~Covered(x, id)
    BY <1>e, EnqueueKeeps
  <1>7. Covered(x, id) => id = 0 \/ x.ring[1].id <= id
    BY DEF Covered
  <1>8. Under(wire, ev) /\ Under(out, ev)
    BY <1>2, UnderIs
  <1>9. Reaches(x, wire, out, id, c, ev.key)
    <2>1. CASE c \in {"posting", "answered"} \/ (c = "connecting" /\ id = 0)
      <3>1. ev.key \in KeysOf(x.ch)
        BY <1>5, KeysAre
      <3> QED BY <2>1, <3>1 DEF Reaches
    <2>2. CASE c = "connecting" /\ id # 0
      BY <1>2, <1>3, <2>2 DEF Reaches
    <2>3. CASE c = "open"
      <3>1. Fresh(x, wire, out, id, ev.key)
        BY <1>2, <1>4, <1>8 DEF Fresh
      <3> QED BY <2>3, <3>1 DEF Reaches
    <2> QED BY <2>1, <2>2, <2>3
  <1>10. ASSUME NEW k, Reaches(r, wire, out, id, c, k)
         PROVE  \/ Reaches(x, wire, out, id, c, k)
                \/ Len(r.ch) = ChannelCap /\ (r.attached \/ id = 0) /\ k = Head(r.ch).key
    <2>1. CASE c \in {"posting", "answered"} \/ (c = "connecting" /\ id = 0)
      <3>1. id = 0
        BY <2>1
      <3>2. PICK f \in Frames(r.ch) : k = f.key
        BY <1>10, <2>1, KeysAre DEF Reaches
      <3>3. f \in Frames(x.ch) \/ (Len(r.ch) = ChannelCap /\ f = Head(r.ch))
        BY <1>4
      <3>4. f \in Frames(x.ch) => k \in KeysOf(x.ch)
        BY <3>2, KeysAre
      <3> QED BY <2>1, <3>1, <3>2, <3>3, <3>4 DEF Reaches
    <2>2. CASE c = "connecting" /\ id # 0
      <3>1. ~Covered(r, id) \/ \E f \in Frames(r.ring) : f.id > id /\ f.key = k
        BY <1>10, <2>2 DEF Reaches
      <3>2. CASE ~Covered(r, id)
        BY <1>6, <2>2, <3>2 DEF Reaches
      <3>3. CASE \E f \in Frames(r.ring) : f.id > id /\ f.key = k
        <4>1. PICK f \in Frames(r.ring) : f.id > id /\ f.key = k
          BY <3>3
        <4>2. CASE f \in Frames(x.ring)
          BY <2>2, <4>1, <4>2 DEF Reaches
        <4>3. CASE f.id < x.ring[1].id
          <5>1. f.id \in Nat
            BY <1>1, FrameTypes
          <5>2. ~Covered(x, id)
            BY <1>3, <1>7, <2>2, <4>1, <4>3, <5>1
          <5> QED BY <2>2, <5>2 DEF Reaches
        <4> QED BY <1>3, <4>2, <4>3
      <3> QED BY <3>1, <3>2, <3>3
    <2>3. CASE c = "open"
      <3>1. CASE Resync \in Frames(wire) \cup Frames(out)
        BY <2>3, <3>1 DEF Reaches
      <3>2. CASE Fresh(r, wire, out, id, k)
        <4>1. PICK e \in Frame : /\ e.key = k /\ e.id > id
                     /\ \/ First(wire, e)
                        \/ Under(wire, e) /\ First(out, e)
                        \/ Under(wire, e) /\ Under(out, e) /\ First(r.ch, e)
          BY <3>2 DEF Fresh
        <4>2. CASE First(wire, e) \/ (Under(wire, e) /\ First(out, e))
          <5>1. Fresh(x, wire, out, id, k)
            BY <4>1, <4>2 DEF Fresh
          <5> QED BY <2>3, <5>1 DEF Reaches
        <4>3. CASE Under(wire, e) /\ Under(out, e) /\ First(r.ch, e)
          <5>1. CASE First(x.ch, e)
            <6>1. Fresh(x, wire, out, id, k)
              BY <4>1, <4>3, <5>1 DEF Fresh
            <6> QED BY <2>3, <6>1 DEF Reaches
          <5>2. CASE Len(r.ch) = ChannelCap /\ e = Head(r.ch)
            BY <2>3, <4>1, <5>2
          <5> QED BY <1>4, <4>3, <5>1, <5>2
        <4> QED BY <4>1, <4>2, <4>3
      <3> QED BY <1>10, <2>3, <3>1, <3>2 DEF Reaches
    <2> QED BY <2>1, <2>2, <2>3
  <1> QED BY <1>9, <1>10 DEF x

\* Frames only move on from the ring's view, or are lost.
LEMMA OrderedMoves ==
    ASSUME NEW r, NEW wire, NEW out, NEW id, NEW n \in Nat, Ordered(r, wire, out, id, n),
           NEW x, NEW wire2, NEW out2, NEW m \in Nat, n <= m,
           x.ring = r.ring, Sorted(x.ch), Frames(x.ch) \subseteq Frames(r.ch),
           Frames(wire2) \cup Frames(out2) \subseteq
              Frames(wire) \cup Frames(out) \cup Frames(r.ch) \cup Frames(r.ring) \cup {Resync}
    PROVE  Ordered(x, wire2, out2, id, m)
  <1>1. \A f \in Frames(x.ring) \cup Frames(x.ch) : f.id \in 1..m
    BY DEF Ordered
  <1>2. ASSUME NEW f \in Frames(wire2) \cup Frames(out2) \cup Frames(x.ch)
        PROVE  f = Resync \/ Has(x.ring, f)
    <2>1. CASE f \in Frames(r.ring)
      <3>1. r.ring # <<>>
        BY <2>1, EmptySeq DEF Frames
      <3> QED BY <2>1, <3>1 DEF Has
    <2>2. CASE f \notin Frames(r.ring)
      BY <2>2 DEF Ordered
    <2> QED BY <2>1, <2>2
  <1> QED BY <1>1, <1>2 DEF Ordered

LEMMA NoFrames == Frames(<<>>) = {} /\ Frames(<<Resync>>) = {Resync} /\ <<>> \in Seq(Frame) /\ <<Resync>> \in Seq(Frame)
  <1>1. Resync \in Frame
    BY DEF Resync, Frame
  <1>2. Len(<<>>) = 0 /\ <<>> \in Seq(Frame)
    BY EmptySeq
  <1>3. Len(<<Resync>>) = 1 /\ <<Resync>>[1] = Resync /\ <<Resync>> \in Seq(Frame)
    BY <1>1
  <1>4. Frames(<<>>) = {}
    BY <1>2 DEF Frames
  <1>5. Frames(<<Resync>>) = {Resync}
    BY <1>3 DEF Frames
  <1> QED BY <1>2, <1>3, <1>4, <1>5

\* replayEventStream writes what the stream begins with.
LEMMA ReplayMoves ==
    ASSUME NEW r \in Hubs, NEW wire \in Seq(Frame), NEW out \in Seq(Frame), NEW id \in Nat,
           out # <<>>, Resyncs(r, wire, out, id)
    PROVE  /\ Resyncs(r, Append(wire, Head(out)), Tail(out), id)
           /\ \A k : Reaches(r, wire, out, id, "open", k) =>
                     Reaches(r, Append(wire, Head(out)), Tail(out), id, "open", k)
  <1> DEFINE h == Head(out)
             w == Append(wire, h)
             t == Tail(out)
  <1>1. /\ h \in Frame /\ h \in Frames(out) /\ t \in Seq(Frame) /\ Frames(t) \subseteq Frames(out)
        /\ \A f \in Frames(out) : f = h \/ f \in Frames(t)
    BY TailFrames
  <1>2. w \in Seq(Frame) /\ Frames(w) = Frames(wire) \cup {h}
    BY <1>1, AppendFrames
  <1>3. /\ wire # <<>> => Resync \notin Frames(Tail(wire))
        /\ Resync \in Frames(out) => out = <<Resync>> /\ wire = <<>>
        /\ Resync \in Frames(wire) \cup Frames(out) => ~Covered(r, id)
    BY DEF Resyncs
  <1>4. Resync \notin Frames(t)
    <2> SUFFICES ASSUME Resync \in Frames(t) PROVE FALSE
      OBVIOUS
    <2>1. out = <<Resync>>
      BY <1>1, <1>3
    <2>2. t = <<>>
      BY <2>1
    <2> QED BY <2>2, NoFrames
  <1>5. Resync \notin Frames(Tail(w))
    <2>1. CASE wire = <<>>
      <3>1. w = <<h>>
        BY <2>1
      <3>2. Tail(w) = <<>>
        BY <3>1
      <3> QED BY <3>2, NoFrames
    <2>2. CASE wire # <<>>
      <3>1. Tail(w) = Append(Tail(wire), h)
        BY <1>1, <2>2, HeadTailAppend
      <3>2. Tail(wire) \in Seq(Frame)
        BY <2>2, TailFrames
      <3>3. Frames(Append(Tail(wire), h)) = Frames(Tail(wire)) \cup {h}
        <4> DEFINE v == Tail(wire)
        <4> HIDE DEF v, h
        <4>1. v \in Seq(Frame) /\ h \in Frame
          BY <1>1, <3>2 DEF v
        <4>2. Frames(Append(v, h)) = Frames(v) \cup {h}
          BY <4>1, AppendFrames
        <4> QED BY <4>2 DEF v
      <3>4. h # Resync
        <4> HIDE DEF h
        <4> QED BY <1>1, <1>3, <2>2
      <3>5. Frames(Tail(w)) = Frames(Tail(wire)) \cup {h}
        BY <3>1, <3>3, Zenon
      <3> HIDE DEF h, w, t
      <3>6. Resync \notin Frames(Tail(wire))
        BY <1>3, <2>2
      <3> QED BY <3>4, <3>5, <3>6
    <2> QED BY <2>1, <2>2
  <1>6. Resyncs(r, w, t, id)
    <2> HIDE DEF h, w, t
    <2> QED BY <1>1, <1>2, <1>3, <1>4, <1>5 DEF Resyncs
  <1>7. ASSUME NEW k, Reaches(r, wire, out, id, "open", k) PROVE Reaches(r, w, t, id, "open", k)
    <2>1. CASE Resync \in Frames(wire) \cup Frames(out)
      <3>1. Resync \in Frames(w) \cup Frames(t)
        <4> HIDE DEF h, w, t
        <4> QED BY <1>1, <1>2, <2>1
      <3> HIDE DEF w, t
      <3> QED BY <3>1 DEF Reaches
    <2>2. CASE Fresh(r, wire, out, id, k)
      <3>1. PICK e \in Frame : /\ e.key = k /\ e.id > id
                     /\ \/ First(wire, e)
                        \/ Under(wire, e) /\ First(out, e)
                        \/ Under(wire, e) /\ Under(out, e) /\ First(r.ch, e)
        BY <2>2 DEF Fresh
      <3>2. \/ First(w, e)
            \/ Under(w, e) /\ First(t, e)
            \/ Under(w, e) /\ Under(t, e) /\ First(r.ch, e)
        <4>1. CASE First(wire, e)
          BY <1>1, <4>1, FirstAppend
        <4>2. CASE Under(wire, e) /\ First(out, e)
          <5>1. CASE h = e
            BY <1>1, <4>2, <5>1, FirstAppend
          <5>2. CASE h # e
            <6>1. h.id < e.id /\ First(t, e)
              BY <4>2, <5>2, FirstTail
            <6>2. Under(w, e)
              <7> HIDE DEF w, h
              <7> QED BY <1>2, <4>2, <6>1, UnderIs
            <6> QED BY <6>1, <6>2
          <5> QED BY <5>1, <5>2
        <4>3. CASE Under(wire, e) /\ Under(out, e) /\ First(r.ch, e)
          <5>1. Under(w, e) /\ Under(t, e)
            <6> HIDE DEF w, h, t
            <6> QED BY <1>1, <1>2, <4>3, UnderIs
          <5> QED BY <4>3, <5>1
        <4> QED BY <3>1, <4>1, <4>2, <4>3
      <3> HIDE DEF w, t, h
      <3>3. Fresh(r, w, t, id, k)
        BY <3>1, <3>2 DEF Fresh
      <3> QED BY <3>3 DEF Reaches
    <2> QED BY <1>7, <2>1, <2>2 DEF Reaches
  <1> QED BY <1>6, <1>7

\* streamLoop writes the oldest event of the channel.
LEMMA LiveMoves ==
    ASSUME NEW r \in Hubs, NEW wire \in Seq(Frame), NEW id \in Nat, NEW n \in Nat,
           r.ch # <<>>, Ordered(r, wire, <<>>, id, n), Resyncs(r, wire, <<>>, id),
           NEW x \in Hubs, x.ring = r.ring, x.ch = Tail(r.ch)
    PROVE  /\ Resyncs(x, Append(wire, Head(r.ch)), <<>>, id)
           /\ \A k : Reaches(r, wire, <<>>, id, "open", k) =>
                     Reaches(x, Append(wire, Head(r.ch)), <<>>, id, "open", k)
  <1> DEFINE h == Head(r.ch)
             w == Append(wire, h)
  <1>0. r.ch \in Seq(Frame)
    BY HubFields
  <1>1. /\ h \in Frame /\ h \in Frames(r.ch)
        /\ \A f \in Frames(r.ch) : f = h \/ f \in Frames(x.ch)
    BY <1>0, TailFrames
  <1>2. w \in Seq(Frame) /\ Frames(w) = Frames(wire) \cup {h}
    BY <1>1, AppendFrames
  <1>3. h # Resync
    <2>1. h.id \in 1..n
      BY <1>1 DEF Ordered
    <2> QED BY <2>1 DEF Resync
  <1>4. /\ wire # <<>> => Resync \notin Frames(Tail(wire))
        /\ Resync \in Frames(wire) => ~Covered(r, id)
    BY DEF Resyncs
  <1>c. Covered(x, id) <=> Covered(r, id)
    BY DEF Covered
  <1>5. Resync \notin Frames(Tail(w))
    <2>1. CASE wire = <<>>
      <3>1. w = <<h>>
        BY <2>1
      <3>2. Tail(w) = <<>>
        BY <3>1
      <3> QED BY <3>2, NoFrames
    <2>2. CASE wire # <<>>
      <3>1. Tail(w) = Append(Tail(wire), h)
        BY <1>1, <2>2, HeadTailAppend
      <3>2. Tail(wire) \in Seq(Frame)
        BY <2>2, TailFrames
      <3>3. Frames(Append(Tail(wire), h)) = Frames(Tail(wire)) \cup {h}
        <4> DEFINE v == Tail(wire)
        <4> HIDE DEF v, h
        <4>1. v \in Seq(Frame) /\ h \in Frame
          BY <1>1, <3>2 DEF v
        <4>2. Frames(Append(v, h)) = Frames(v) \cup {h}
          BY <4>1, AppendFrames
        <4> QED BY <4>2 DEF v
      <3>4. Frames(Tail(w)) = Frames(Tail(wire)) \cup {h}
        BY <3>1, <3>3, Zenon
      <3> HIDE DEF h, w
      <3>6. Resync \notin Frames(Tail(wire))
        BY <1>4, <2>2
      <3> QED BY <1>3, <3>4, <3>6
    <2> QED BY <2>1, <2>2
  <1>6. Resyncs(x, w, <<>>, id)
    <2> HIDE DEF h, w
    <2> QED BY <1>2, <1>3, <1>4, <1>c, <1>5, NoFrames DEF Resyncs
  <1>7. ASSUME NEW k, Reaches(r, wire, <<>>, id, "open", k) PROVE Reaches(x, w, <<>>, id, "open", k)
    <2> HIDE DEF w
    <2>1. CASE Resync \in Frames(wire) \cup Frames(<<>>)
      <3>1. Resync \in Frames(w)
        BY <1>2, <2>1, NoFrames
      <3> QED BY <3>1 DEF Reaches
    <2>2. CASE Fresh(r, wire, <<>>, id, k)
      <3>1. PICK e \in Frame : /\ e.key = k /\ e.id > id
                     /\ \/ First(wire, e)
                        \/ Under(wire, e) /\ First(<<>>, e)
                        \/ Under(wire, e) /\ Under(<<>>, e) /\ First(r.ch, e)
        BY <2>2 DEF Fresh
      <3>2. ~First(<<>>, e) /\ Under(<<>>, e)
        BY FirstIsFrame, UnderIs, NoFrames
      <3>3. First(w, e) \/ (Under(w, e) /\ First(x.ch, e))
        <4>1. CASE First(wire, e)
          BY <1>1, <4>1, FirstAppend DEF w
        <4>2. CASE Under(wire, e) /\ First(r.ch, e)
          <5>1. CASE h = e
            BY <1>1, <4>2, <5>1, FirstAppend DEF w
          <5>2. CASE h # e
            <6>1. h.id < e.id /\ First(x.ch, e)
              BY <1>0, <4>2, <5>2, FirstTail
            <6>2. Under(w, e)
              <7> HIDE DEF h
              <7> QED BY <1>2, <4>2, <6>1, UnderIs
            <6> QED BY <6>1, <6>2
          <5> QED BY <5>1, <5>2
        <4> QED BY <3>1, <3>2, <4>1, <4>2
      <3>4. Fresh(x, w, <<>>, id, k)
        <4> HIDE DEF h
        <4> QED BY <3>1, <3>2, <3>3 DEF Fresh
      <3> QED BY <3>4 DEF Reaches
    <2> QED BY <1>7, <2>1, <2>2 DEF Reaches
  <1> QED BY <1>6, <1>7

\* A frame arrives: what it does not fetch is still on its way, past its id.
LEMMA ReceiveMoves ==
    ASSUME NEW r \in Hubs, NEW wire \in Seq(Frame), NEW out \in Seq(Frame), NEW id \in Nat,
           NEW n \in Nat, Ordered(r, wire, out, id, n), Resyncs(r, wire, out, id), wire # <<>>,
           NEW to2, to2 = IF Head(wire) = Resync THEN id ELSE Head(wire).id
    PROVE  /\ to2 \in Nat /\ Ordered(r, Tail(wire), out, to2, n) /\ Resyncs(r, Tail(wire), out, to2)
           /\ Head(wire) # Resync => \A k : Reaches(r, wire, out, id, "open", k) /\ k # Head(wire).key
                                               => Reaches(r, Tail(wire), out, to2, "open", k)
  <1> DEFINE h == Head(wire)
             t == Tail(wire)
  <1>1. /\ h \in Frame /\ h \in Frames(wire) /\ t \in Seq(Frame) /\ Frames(t) \subseteq Frames(wire)
        /\ \A f \in Frames(wire) : f = h \/ f \in Frames(t)
    BY TailFrames
  <1>2. h.id \in Nat
    BY <1>1 DEF Frame
  <1>3. h # Resync => r.ring # <<>> /\ h.id <= r.ring[Len(r.ring)].id
    BY <1>1, OrderedBounds
  <1>4. to2 \in Nat /\ (to2 # 0 => r.ring # <<>> /\ to2 <= r.ring[Len(r.ring)].id)
    BY <1>2, <1>3 DEF Ordered
  <1>5. Ordered(r, t, out, to2, n)
    <2> HIDE DEF t
    <2> QED BY <1>1, <1>4 DEF Ordered
  <1>6. Resync \notin Frames(t) /\ Resync \notin Frames(out)
    BY DEF Resyncs
  <1>7. Resyncs(r, t, out, to2)
    <2>1. t # <<>> => Frames(Tail(t)) \subseteq Frames(t)
      BY <1>1, TailFrames
    <2> HIDE DEF t
    <2> QED BY <1>6, <2>1 DEF Resyncs
  <1>8. ASSUME h # Resync, NEW k, Reaches(r, wire, out, id, "open", k), k # h.key
        PROVE  Reaches(r, t, out, to2, "open", k)
    <2> HIDE DEF h, t
    <2>1. to2 = h.id
      BY <1>8 DEF h
    <2>2. Fresh(r, wire, out, id, k)
      <3>1. Resync \notin Frames(wire) \cup Frames(out)
        BY <1>1, <1>6, <1>8
      <3> QED BY <1>8, <3>1 DEF Reaches
    <2>3. PICK e \in Frame : /\ e.key = k /\ e.id > id
                     /\ \/ First(wire, e)
                        \/ Under(wire, e) /\ First(out, e)
                        \/ Under(wire, e) /\ Under(out, e) /\ First(r.ch, e)
      BY <2>2 DEF Fresh
    <2>4. h.id < e.id /\ \/ First(t, e)
                         \/ Under(t, e) /\ First(out, e)
                         \/ Under(t, e) /\ Under(out, e) /\ First(r.ch, e)
      <3>1. CASE First(wire, e)
        <4>1. h # e
          BY <1>8, <2>3
        <4>2. h.id < e.id /\ First(t, e)
          BY <3>1, <4>1, FirstTail DEF h, t
        <4> QED BY <4>2
      <3>2. CASE Under(wire, e)
        <4>1. h.id < e.id /\ Under(t, e)
          BY <1>1, <3>2, UnderIs
        <4> QED BY <2>3, <3>1, <4>1
      <3> QED BY <2>3, <3>1, <3>2
    <2>5. e.id > to2
      <3>1. e.id \in Nat
        BY DEF Frame
      <3> QED BY <1>2, <2>1, <2>4, <3>1
    <2>6. Fresh(r, t, out, to2, k)
      BY <2>3, <2>4, <2>5 DEF Fresh
    <2> QED BY <2>6 DEF Reaches
  <1> QED BY <1>4, <1>5, <1>7, <1>8

\* A broken connection: the ring has what was on its way, or is past it.
LEMMA BreakKeeps ==
    ASSUME NEW r \in Hubs, NEW wire \in Seq(Frame), NEW out \in Seq(Frame), NEW id \in Nat,
           NEW n \in Nat, Ordered(r, wire, out, id, n), Resyncs(r, wire, out, id),
           out # <<>> => id # 0, NEW k, Reaches(r, wire, out, id, "open", k)
    PROVE  Reaches(r, <<>>, out, id, "connecting", k) \/ (id = 0 /\ k \in KeysOf(wire))
  <1>0. r.ring \in Seq(Frame) /\ r.ch \in Seq(Frame)
    BY HubFields
  <1>1. CASE Resync \in Frames(wire) \cup Frames(out)
    <2>1. ~Covered(r, id)
      BY <1>1 DEF Resyncs
    <2>2. id # 0
      BY <2>1 DEF Covered
    <2> QED BY <2>1, <2>2 DEF Reaches
  <1>2. CASE Fresh(r, wire, out, id, k)
    <2>1. PICK e \in Frame : /\ e.key = k /\ e.id > id
                     /\ \/ First(wire, e)
                        \/ Under(wire, e) /\ First(out, e)
                        \/ Under(wire, e) /\ Under(out, e) /\ First(r.ch, e)
      BY <1>2 DEF Fresh
    <2>2. e \in Frames(wire) \cup Frames(out) \cup Frames(r.ch)
      BY <2>1, FirstIsFrame
    <2>3. CASE id = 0
      <3>1. e \in Frames(wire) \/ e \in Frames(r.ch)
        BY <2>2, <2>3, NoFrames
      <3>2. k \in KeysOf(wire) \/ k \in KeysOf(r.ch)
        BY <2>1, <3>1, KeysAre
      <3> QED BY <2>3, <3>2 DEF Reaches
    <2>4. CASE id # 0
      <3>1. e # Resync /\ e.id \in Nat
        BY <2>1 DEF Frame, Resync
      <3>2. Has(r.ring, e)
        BY <2>2, <3>1 DEF Ordered
      <3>3. CASE e \in Frames(r.ring)
        BY <2>1, <2>4, <3>3 DEF Reaches
      <3>4. CASE e.id < r.ring[1].id
        <4>1. r.ring[1].id \in Nat
          <5>1. Head(r.ring) \in Frame /\ Head(r.ring) = r.ring[1]
            BY <1>0, <3>2, TailFrames DEF Has
          <5> QED BY <5>1 DEF Frame
        <4>2. ~(r.ring[1].id <= id)
          BY <2>1, <3>1, <3>4, <4>1
        <4>3. ~Covered(r, id)
          BY <2>4, <4>2 DEF Covered
        <4> QED BY <2>4, <4>3 DEF Reaches
      <3> QED BY <3>2, <3>3, <3>4 DEF Has
    <2> QED BY <2>3, <2>4
  <1> QED BY <1>1, <1>2 DEF Reaches

\* What a new stream begins with, and how it carries on from the ring of r.
Start(r, id) == IF Covered(r, id) THEN ReplaySince(r, id) ELSE <<Resync>>
Begins(r, x, out, out2, id, n) ==
    /\ out2 \in Seq(Frame) /\ (out2 # <<>> => id # 0)
    /\ \A f \in Frames(out2) : f = Resync \/ f.id # 0
    /\ Ordered(x, <<>>, out2, id, n) /\ Resyncs(x, <<>>, out2, id)
    /\ \A k : Reaches(r, <<>>, out, id, "connecting", k) => Reaches(x, <<>>, out2, id, "open", k)

\* A stream begins with everything the page has missed, or with a resync.
LEMMA AttachKeepsKeys ==
    ASSUME NEW r \in Hubs, NEW out \in Seq(Frame), NEW id \in Nat,
           NEW n \in Nat, Ordered(r, <<>>, out, id, n),
           NEW x \in Hubs, x.ring = r.ring, x.ch = r.ch,
           NEW out2, out2 = Start(r, id)
    PROVE  Begins(r, x, out, out2, id, n)
  <1> USE DEF Start
  <1>0. r.ring \in Seq(Frame) /\ r.ch \in Seq(Frame) /\ Resync.id = 0
    BY HubFields DEF Resync
  <1>1. id # 0 => /\ ReplaySince(r, id) \in Seq(Frame) /\ Sorted(ReplaySince(r, id))
                  /\ Frames(ReplaySince(r, id)) = {f \in Frames(r.ring) : f.id > id}
    BY ReplayIs DEF Ordered
  <1>2. id = 0 => out2 = <<>>
    BY DEF Covered, ReplaySince
  <1>3. out2 \in Seq(Frame) /\ (out2 # <<>> => id # 0)
    BY <1>1, <1>2, NoFrames
  <1>c. Covered(x, id) <=> Covered(r, id)
    BY DEF Covered
  <1>4. \A f \in Frames(out2) : /\ f = Resync \/ (f \in Frames(r.ring) /\ f.id # 0)
                                /\ f = Resync => out2 = <<Resync>> /\ ~Covered(r, id)
    <2>1. CASE id = 0
      BY <1>2, <2>1, NoFrames
    <2>2. CASE id # 0 /\ Covered(r, id)
      <3>1. \A f \in Frames(r.ring) : f.id > id => f.id # 0
        BY <1>0, <2>2, FrameTypes
      <3> QED BY <1>0, <1>1, <2>2, <3>1
    <2>3. CASE ~Covered(r, id)
      BY <2>3, NoFrames
    <2> QED BY <2>1, <2>2, <2>3
  <1>5. Ordered(x, <<>>, out2, id, n)
    <2>1. Frames(<<>>) \cup Frames(out2) \subseteq
              Frames(<<>>) \cup Frames(out) \cup Frames(r.ch) \cup Frames(r.ring) \cup {Resync}
      BY <1>4, NoFrames
    <2>2. Sorted(x.ch) /\ Frames(x.ch) \subseteq Frames(r.ch) /\ n <= n
      BY DEF Ordered
    <2> QED BY <2>1, <2>2, OrderedMoves
  <1>6. Resyncs(x, <<>>, out2, id)
    BY <1>4, <1>c, NoFrames DEF Resyncs
  <1>7. ASSUME NEW k, Reaches(r, <<>>, out, id, "connecting", k)
        PROVE  Reaches(x, <<>>, out2, id, "open", k)
    <2>0. \A e : Under(<<>>, e)
      BY NoFrames, UnderIs
    <2>1. CASE id = 0
      <3>1. PICK f \in Frames(r.ch) : k = f.key
        BY <1>7, <2>1, KeysAre DEF Reaches
      <3>2. First(x.ch, f) /\ f \in Frame /\ f.id > id
        <4>1. f \in Frame /\ f.id \in 1..n
          BY <1>0, FrameTypes DEF Ordered
        <4>2. First(r.ch, f)
          BY <1>0, SortedFirst DEF Ordered
        <4> QED BY <2>1, <4>1, <4>2
      <3>3. Fresh(x, <<>>, out2, id, k)
        BY <1>2, <2>0, <2>1, <3>1, <3>2 DEF Fresh
      <3> QED BY <3>3 DEF Reaches
    <2>2. CASE id # 0 /\ ~Covered(r, id)
      <3>1. Resync \in Frames(out2)
        BY <2>2, NoFrames
      <3> QED BY <3>1 DEF Reaches
    <2>3. CASE id # 0 /\ Covered(r, id)
      <3>1. PICK f \in Frames(r.ring) : f.id > id /\ f.key = k
        BY <1>7, <2>3 DEF Reaches
      <3>2. First(out2, f) /\ f \in Frame
        BY <1>0, <1>1, <2>3, <3>1, SortedFirst, FrameTypes
      <3>3. Fresh(x, <<>>, out2, id, k)
        BY <2>0, <3>1, <3>2 DEF Fresh
      <3> QED BY <3>3 DEF Reaches
    <2> QED BY <2>1, <2>2, <2>3
  <1>8. \A f \in Frames(out2) : f = Resync \/ f.id # 0
    BY <1>4
  <1> HIDE DEF Covered, Start
  <1> QED BY <1>3, <1>5, <1>6, <1>7, <1>8 DEF Begins

-----------------------------------------------------------------------------
(* What a step does to the pages it is not about.                          *)

\* The step leaves what the hub, the stream and the page hold of page t.
Same(t) ==
    /\ sub'[t] = sub[t] /\ net'[t] = net[t] /\ handler'[t] = handler[t]
    /\ client'[t] = client[t] /\ last'[t] = last[t] /\ stale'[t] = stale[t]
    /\ t \in hubSubs' => t \in hubSubs
    /\ t \in posts' => t \in posts

\* What page t waits for is still under way, or named.
Waits(t) ==
    /\ \A k \in Pending(t) \cap stale[t] : k \in Pending(t)' \/ Gapped(t, k)'
    /\ \A k : Gapped(t, k) => Gapped(t, k)'

LEMMA OrderedGrows ==
    ASSUME NEW r, NEW wire, NEW out, NEW id, NEW n \in Nat, NEW m \in Nat, n <= m,
           Ordered(r, wire, out, id, n)
    PROVE  Ordered(r, wire, out, id, m)
  <1>1. \A i \in 1..n : i \in 1..m
    OBVIOUS
  <1> QED BY <1>1 DEF Ordered

LEMMA SameKeeps ==
    ASSUME FInv, NEW t \in Subs, Same(t), hubSeq' \in Nat, hubSeq <= hubSeq'
    PROVE  Streams(t)' /\ InHub(t)'
  <1>1. Streams(t) /\ InHub(t) /\ hubSeq \in Nat
    BY DEF FInv, StreamTypes
  <1>2. Streams(t)'
    BY <1>1 DEF Streams, Same
  <1>3. ASSUME t \in hubSubs'
        PROVE  Ordered(sub'[t], net'[t], handler'[t].out, last'[t], hubSeq')
    BY <1>1, <1>3, OrderedGrows DEF InHub, Same
  <1>4. InHub(t)'
    BY <1>1, <1>3 DEF InHub, Same
  <1> QED BY <1>2, <1>4

LEMMA SameBehind ==
    ASSUME FInv, NEW t \in Subs, Same(t), Waits(t)
    PROVE  Behind(t)'
  <1>1. Behind(t)
    BY DEF FInv
  <1> SUFFICES ASSUME Served(t)', NEW k \in stale'[t]
               PROVE  \/ k \in Pending(t)' \/ Gapped(t, k)'
                      \/ Reaches(sub[t], net[t], handler[t].out, last[t], client[t], k)
    BY DEF Behind, Same
  <1>2. Served(t) /\ k \in stale[t]
    BY DEF Served, Same
  <1>3. \/ k \in Pending(t) \/ Gapped(t, k)
        \/ Reaches(sub[t], net[t], handler[t].out, last[t], client[t], k)
    BY <1>1, <1>2 DEF Behind
  <1> QED BY <1>2, <1>3 DEF Waits

\* The poller and its table stand still.
LEMMA PollerStill ==
    ASSUME UNCHANGED <<tableVars, pollVars>>, NEW t PROVE Pending(t)' = Pending(t)
  <1>1. UNCHANGED <<log, pruned, pc, cursor, row, upto, snap, todo>>
    BY DEF tableVars, pollVars
  <1>2. Read' = Read /\ Len(log)' = Len(log)
    BY <1>1 DEF Read
  <1>3. \A a, b : RowKeys(a, b)' = RowKeys(a, b)
    BY <1>1 DEF RowKeys
  <1>4. RowKeys((IF Read < pruned THEN pruned ELSE Read) + 1, Len(log))'
           = RowKeys((IF Read < pruned THEN pruned ELSE Read) + 1, Len(log))
    BY <1>1, <1>2 DEF RowKeys
  <1>5. RowKeys(row, upto)' = RowKeys(row, upto) /\ RowKeys(row + 1, upto)' = RowKeys(row + 1, upto)
    BY <1>1 DEF RowKeys
  <1> QED BY <1>1, <1>4, <1>5 DEF Pending

\* Nothing that a page waits for moves, and pages are only forgotten.
LEMMA QuietStreams ==
    ASSUME FInv, IInv', hubSubs' \subseteq hubSubs, registry' \subseteq registry,
           UNCHANGED <<tableVars, pollVars, posts, sub, hubSeq, streamVars, pageVars>>
    PROVE  FInv'
  <1>1. StreamTypes'
    <2>1. IsFiniteSet(hubSubs')
      BY FS_Subset DEF FInv, StreamTypes
    <2> QED BY <2>1 DEF FInv, StreamTypes, streamVars, pageVars
  <1>2. Polling'
    BY DEF FInv, Polling, tableVars, pollVars, pageVars
  <1>3. ASSUME NEW t \in Subs PROVE Streams(t)' /\ InHub(t)' /\ Behind(t)'
    <2>1. Same(t)
      BY DEF Same, streamVars, pageVars
    <2>2. Waits(t)
      BY PollerStill DEF Waits, Gapped, pageVars
    <2>3. hubSeq' \in Nat /\ hubSeq <= hubSeq'
      BY DEF FInv, StreamTypes
    <2> QED BY <2>1, <2>2, <2>3, SameKeeps, SameBehind
  <1> QED BY <1>1, <1>2, <1>3 DEF FInv

-----------------------------------------------------------------------------
(* Steps about one page.                                                   *)

\* The step moves nothing of the other pages.
Only(s) ==
    /\ UNCHANGED <<tableVars, pollVars, hubSeq>>
    /\ hubSubs' \subseteq hubSubs \cup {s} /\ posts' \subseteq posts \cup {s}
    /\ registry' \subseteq registry \cup {s}
    /\ \E x : sub' = [sub EXCEPT ![s] = x]
    /\ \E x : net' = [net EXCEPT ![s] = x]
    /\ \E x : last' = [last EXCEPT ![s] = x]
    /\ \E x : stale' = [stale EXCEPT ![s] = x]
    /\ \A t \in Subs \ {s} : handler'[t] = handler[t] /\ client'[t] = client[t]
    /\ \A g \in gap : g[1] # s => g \in gap'

\* The types of what is kept for page s.
Fits(s) ==
    /\ sub[s] \in Hubs /\ Len(sub[s].ch) <= ChannelCap
    /\ net[s] \in Seq(Frame) /\ handler[s].out \in Seq(Frame)
    /\ last[s] \in Nat /\ stale[s] \subseteq Keys

LEMMA PageFacts ==
    ASSUME FInv, NEW s \in Subs
    PROVE  /\ Fits(s) /\ Streams(s) /\ InHub(s) /\ Behind(s) /\ hubSeq \in Nat
           /\ sub[s].ch \in Seq(Frame) /\ sub[s].ring \in Seq(Frame)
           /\ handler[s] = [on |-> handler[s].on, out |-> handler[s].out]
           /\ client[s] \in {"new", "posting", "answered", "connecting", "open", "closed",
                             "failed", "gone"}
           /\ s \in registry \cup snap => client[s] \notin {"new", "posting"}
  <1>1. Fits(s) /\ Streams(s) /\ InHub(s) /\ Behind(s) /\ hubSeq \in Nat
    <2> HIDE DEF Hubs
    <2> QED BY DEF FInv, StreamTypes, Fits
  <1>2. sub[s].ch \in Seq(Frame) /\ sub[s].ring \in Seq(Frame)
    BY <1>1, HubFields DEF Fits
  <1>3. handler[s] = [on |-> handler[s].on, out |-> handler[s].out]
    BY DEF FInv, IInv, Tables
  <1>4. client[s] \in {"new", "posting", "answered", "connecting", "open", "closed",
                       "failed", "gone"}
    BY DEF FInv, IInv, Tables
  <1> QED BY <1>1, <1>2, <1>3, <1>4 DEF FInv, Polling

LEMMA OnlyKeeps ==
    ASSUME FInv, IInv', NEW s \in Subs, Only(s), Fits(s)', Streams(s)', InHub(s)', Behind(s)',
           s \in registry' \cup snap => client'[s] \notin {"new", "posting"}
    PROVE  FInv'
  <1>1. \A t \in Subs \ {s} : /\ sub'[t] = sub[t] /\ net'[t] = net[t] /\ last'[t] = last[t]
                              /\ stale'[t] = stale[t]
    BY DEF Only, FInv, StreamTypes
  <1>2. StreamTypes'
    <2> HIDE DEF Hubs
    <2>1. sub' \in [Subs -> Hubs] /\ net' \in [Subs -> Seq(Frame)]
      <3>1. PICK x, y : sub' = [sub EXCEPT ![s] = x] /\ net' = [net EXCEPT ![s] = y]
        BY DEF Only
      <3>2. x \in Hubs /\ y \in Seq(Frame)
        BY <3>1 DEF Fits, FInv, StreamTypes
      <3> QED BY <3>1, <3>2 DEF FInv, StreamTypes
    <2>2. last' \in [Subs -> Nat] /\ stale' \in [Subs -> SUBSET Keys]
      <3>1. PICK x, y : last' = [last EXCEPT ![s] = x] /\ stale' = [stale EXCEPT ![s] = y]
        BY DEF Only
      <3>2. x \in Nat /\ y \in SUBSET Keys
        BY <3>1 DEF Fits, FInv, StreamTypes
      <3> QED BY <3>1, <3>2 DEF FInv, StreamTypes
    <2>3. hubSeq' \in Nat
      BY DEF Only, FInv, StreamTypes
    <2>4. \A t \in Subs : handler'[t].out \in Seq(Frame) /\ Len(sub'[t].ch) <= ChannelCap
      BY <1>1 DEF Only, Fits, FInv, StreamTypes
    <2>5. IsFiniteSet(hubSubs')
      <3>1. IsFiniteSet(hubSubs \cup {s})
        BY FS_AddElement DEF FInv, StreamTypes
      <3> QED BY <3>1, FS_Subset DEF Only
    <2> QED BY <2>1, <2>2, <2>3, <2>4, <2>5 DEF StreamTypes
  <1>3. Polling'
    <2>1. UNCHANGED <<log, pruned, cursor, row, upto, pc, to, snap, todo>>
      BY DEF Only, tableVars, pollVars
    <2>2. \A t \in registry' \cup snap' : client'[t] \notin {"new", "posting"}
      <3> SUFFICES ASSUME NEW t \in registry' \cup snap' PROVE client'[t] \notin {"new", "posting"}
        OBVIOUS
      <3>1. CASE t = s
        BY <3>1, <2>1
      <3>2. CASE t # s
        <4>1. t \in registry \cup snap
          BY <3>2, <2>1 DEF Only
        <4>2. DOMAIN client = Subs
          BY DEF FInv, IInv, Tables
        <4>3. t \in registry \cup snap /\ client[t] \notin {"new", "posting"}
          BY <4>1 DEF FInv, Polling
        <4>4. t \in Subs
          BY <4>1 DEF FInv, Polling, IInv, Tables
        <4> QED BY <4>3, <4>4, <3>2 DEF Only
      <3> QED BY <3>1, <3>2
    <2> QED BY <2>1, <2>2 DEF FInv, Polling
  <1>4. ASSUME NEW t \in Subs, t # s PROVE Streams(t)' /\ InHub(t)' /\ Behind(t)'
    <2>1. Same(t)
      BY <1>1, <1>4 DEF Same, Only
    <2>2. Waits(t)
      BY <1>4, PollerStill DEF Waits, Gapped, Only
    <2>3. hubSeq' \in Nat /\ hubSeq <= hubSeq'
      BY DEF FInv, StreamTypes, Only
    <2> QED BY <2>1, <2>2, <2>3, SameKeeps, SameBehind
  <1> QED BY <1>2, <1>3, <1>4 DEF FInv

\* A key that is on its way to page s still is, or is lost for a cause.
Onward(s, k) ==
    /\ Gapped(s, k) => Gapped(s, k)'
    /\ Reaches(sub[s], net[s], handler[s].out, last[s], client[s], k) =>
          \/ Gapped(s, k)'
          \/ Reaches(sub'[s], net'[s], handler'[s].out, last'[s], client'[s], k)

LEMMA BehindMoves ==
    ASSUME FInv, NEW s \in Subs, UNCHANGED <<tableVars, pollVars>>, Served(s)' => Served(s),
           stale'[s] \subseteq stale[s],
           Served(s)' => \A k \in stale'[s] : Onward(s, k)
    PROVE  Behind(s)'
  <1>1. Behind(s)
    BY PageFacts
  <1>2. Pending(s)' = Pending(s)
    BY PollerStill
  <1> QED BY <1>1, <1>2 DEF Behind, Onward

\* Steps that change the state of the page only, or end what it waits for.
LEMMA ClientStreams ==
    ASSUME FInv, IInv', NEW s \in Subs, Opens(s) \/ Refused(s) \/ StreamEnds(s)
    PROVE  FInv'
  <1>0. /\ Fits(s) /\ Streams(s) /\ InHub(s) /\ Behind(s)
        /\ s \in registry \cup snap => client[s] \notin {"new", "posting"}
    BY PageFacts
  <1>1. /\ UNCHANGED <<tableVars, pollVars, regVars, hubVars, streamVars, last, stale, gap>>
        /\ client' = [client EXCEPT ![s] = client'[s]]
        /\ \/ client[s] = "answered" /\ client'[s] = "connecting"
           \/ client[s] = "connecting" /\ client'[s] = "closed"
           \/ client[s] = "open" /\ client'[s] = "connecting" /\ net[s] = <<>> /\ s \notin hubSubs
    <2>1. \A c : client' = [client EXCEPT ![s] = c] => client'[s] = c
      BY DEF FInv, IInv, Tables
    <2>2. StreamEnds(s) => s \notin hubSubs
      BY <1>0 DEF StreamEnds, InHub
    <2>3. CASE Opens(s)
      BY <2>1, <2>3 DEF Opens
    <2>4. CASE Refused(s)
      BY <2>1, <2>4 DEF Refused
    <2>5. CASE StreamEnds(s)
      BY <2>1, <2>2, <2>5 DEF StreamEnds
    <2> QED BY <2>3, <2>4, <2>5
  <1>2. UNCHANGED <<sub, net, handler, hubSubs, hubSeq, last, stale, gap, posts, registry, snap>>
    BY <1>1 DEF regVars, hubVars, streamVars, pollVars
  <1>3. Only(s)
    <2>1. \A t \in Subs \ {s} : client'[t] = client[t]
      BY <1>1 DEF FInv, IInv, Tables
    <2> QED BY <1>1, <1>2, <2>1 DEF Only, FInv, StreamTypes
  <1>4. Fits(s)' /\ Streams(s)' /\ InHub(s)'
    BY <1>0, <1>1, <1>2 DEF Fits, Streams, InHub
  <1>5. Behind(s)'
    <2>1. Served(s)' => Served(s) /\ client[s] = "answered" /\ client'[s] = "connecting"
      BY <1>1, <1>2 DEF Served
    <2>2. ASSUME Served(s)', NEW k PROVE Onward(s, k)
      <3>1. last[s] = 0
        BY <1>0, <2>1, <2>2 DEF Streams
      <3> QED BY <1>2, <2>1, <2>2, <3>1 DEF Reaches, Gapped, Onward
    <2> QED BY <1>1, <1>2, <2>1, <2>2, BehindMoves
  <1>6. s \in registry' \cup snap => client'[s] \notin {"new", "posting"}
    BY <1>0, <1>1, <1>2
  <1> QED BY <1>3, <1>4, <1>5, <1>6, OnlyKeeps

LEMMA MountStreams ==
    ASSUME FInv, IInv', NEW s \in Subs, Mount(s) PROVE FInv'
  <1>0. /\ Fits(s) /\ Streams(s) /\ InHub(s)
        /\ s \in registry \cup snap => client[s] \notin {"new", "posting"}
    BY PageFacts
  <1>1. /\ client[s] = "new" /\ client' = [client EXCEPT ![s] = "posting"] /\ client'[s] = "posting"
        /\ posts' = posts \cup {s}
        /\ UNCHANGED <<tableVars, pollVars, sub, net, handler, hubSubs, hubSeq, last, stale, gap,
                       registry, snap>>
    BY DEF Mount, FInv, IInv, Tables, pollVars, hubVars, streamVars
  <1>2. Only(s)
    BY <1>1 DEF Only, FInv, StreamTypes
  <1>3. Fits(s)' /\ Streams(s)' /\ InHub(s)'
    BY <1>0, <1>1 DEF Fits, Streams, InHub
  <1>4. Behind(s)'
    <2>1. stale'[s] = {}
      BY <1>0, <1>1 DEF Streams
    <2> QED BY <2>1 DEF Behind
  <1>5. s \in registry' \cup snap => client'[s] \notin {"new", "posting"}
    BY <1>0, <1>1
  <1> QED BY <1>2, <1>3, <1>4, <1>5, OnlyKeeps

\* A create registers a subscription that has no event yet.
LEMMA CreateAddStreams ==
    ASSUME FInv, IInv', NEW s \in Subs, CreateAdd(s) PROVE FInv'
  <1>0. /\ Fits(s) /\ Streams(s) /\ InHub(s) /\ Behind(s) /\ hubSeq \in Nat
        /\ s \in registry \cup snap => client[s] \notin {"new", "posting"}
    BY PageFacts
  <1>1. /\ s \in posts /\ posts' = posts \ {s} /\ hubSubs' = hubSubs \cup {s}
        /\ UNCHANGED <<tableVars, pollVars, sub, net, handler, hubSeq, client, last, stale, gap,
                       registry, snap>>
    BY DEF CreateAdd, pollVars, streamVars, pageVars
  <1>2. client[s] \in {"posting", "gone"} /\ ~handler[s].on
    BY <1>1 DEF FInv, IInv, Posting, NotYet, Untouched
  <1>3. Only(s)
    BY <1>1 DEF Only, FInv, StreamTypes
  <1>4. Fits(s)' /\ Streams(s)'
    BY <1>0, <1>1 DEF Fits, Streams
  <1>5. InHub(s)'
    <2>1. /\ sub[s].ch = <<>> /\ sub[s].ring = <<>> /\ net[s] = <<>> /\ handler[s].out = <<>>
          /\ last[s] = 0
      BY <1>0, <1>1, <1>2 DEF Streams
    <2>2. Ordered(sub[s], <<>>, <<>>, 0, hubSeq)
      <3>1. Len(<<>>) = 0 /\ Frames(<<>>) = {}
        BY NoFrames, EmptySeq
      <3>2. 1..0 = {}
        OBVIOUS
      <3> QED BY <2>1, <3>1, <3>2 DEF Ordered, Sorted
    <2> QED BY <1>1, <1>2, <2>1, <2>2 DEF InHub
  <1>6. Behind(s)'
    <2>1. Served(s)' => Served(s)
      BY <1>1, <1>2 DEF Served
    <2>2. UNCHANGED <<tableVars, pollVars>>
      BY <1>1
    <2>3. ASSUME NEW k PROVE Onward(s, k)
      BY <1>1 DEF Gapped, Onward
    <2> QED BY <1>1, <2>1, <2>2, <2>3, BehindMoves
  <1>7. s \in registry' \cup snap => client'[s] \notin {"new", "posting"}
    BY <1>0, <1>1
  <1> QED BY <1>3, <1>4, <1>5, <1>6, <1>7, OnlyKeeps

LEMMA CreateAnswers ==
    ASSUME FInv, IInv', NEW s \in Subs, CreateRefused(s) \/ CreatePublish(s) PROVE FInv'
  <1>0. /\ Fits(s) /\ Streams(s) /\ InHub(s) /\ Behind(s) /\ hubSeq \in Nat
        /\ s \in registry \cup snap => client[s] \notin {"new", "posting"}
    BY PageFacts
  <1>1. /\ client' = [client EXCEPT ![s] = client'[s]]
        /\ \/ client[s] = "posting" /\ client'[s] = "failed" /\ registry' = registry
           \/ client[s] = "posting" /\ client'[s] = "answered" /\ s \notin posts /\ s \in hubSubs
           \/ client[s] = "gone" /\ client'[s] = "gone"
        /\ posts' \subseteq posts /\ registry' \subseteq registry \cup {s}
        /\ UNCHANGED <<tableVars, pollVars, sub, net, handler, hubSubs, hubSeq, last, stale, gap, snap>>
    <2>1. DOMAIN client = Subs
      BY DEF FInv, IInv, Tables
    <2>2. CASE CreateRefused(s)
      <3>1. client[s] \in {"posting", "gone"}
        BY <2>2 DEF FInv, IInv, Posting, CreateRefused
      <3> QED BY <2>1, <2>2, <3>1 DEF CreateRefused, Answer, pollVars, hubVars, streamVars
    <2>3. CASE CreatePublish(s)
      <3>1. client[s] \in {"posting", "gone"} /\ s \notin posts /\ s \in hubSubs
        BY <2>3 DEF FInv, IInv, Creating, NotYet, CreatePublish
      <3> QED BY <2>1, <2>3, <3>1 DEF CreatePublish, Answer, pollVars, hubVars, streamVars
    <2> QED BY <2>2, <2>3
  <1>2. Only(s)
    <2>1. \A t \in Subs \ {s} : client'[t] = client[t]
      BY <1>1 DEF FInv, IInv, Tables
    <2> QED BY <1>1, <2>1 DEF Only, FInv, StreamTypes
  <1>3. Fits(s)' /\ InHub(s)'
    BY <1>0, <1>1 DEF Fits, InHub
  <1>4. Streams(s)'
    BY <1>0, <1>1 DEF Streams
  <1>5. Behind(s)'
    <2>1. Served(s)' => Served(s) /\ client[s] = "posting" /\ client'[s] = "answered"
      BY <1>1 DEF Served
    <2>2. UNCHANGED <<tableVars, pollVars>>
      BY <1>1
    <2>3. ASSUME Served(s)', NEW k PROVE Onward(s, k)
      BY <1>1, <2>1, <2>3 DEF Reaches, Gapped, Onward
    <2> QED BY <1>1, <2>1, <2>2, <2>3, BehindMoves
  <1>6. s \in registry' \cup snap => client'[s] \notin {"new", "posting"}
    BY <1>0, <1>1
  <1> QED BY <1>2, <1>3, <1>4, <1>5, <1>6, OnlyKeeps

LEMMA HubWith ==
    ASSUME NEW r \in Hubs, NEW b \in BOOLEAN, NEW g \in Nat
    PROVE  /\ [r EXCEPT !.attached = b] \in Hubs
           /\ [r EXCEPT !.attached = b].ring = r.ring /\ [r EXCEPT !.attached = b].ch = r.ch
           /\ [r EXCEPT !.attached = b].attached = b
           /\ [r EXCEPT !.attached = b, !.gen = g] \in Hubs
           /\ [r EXCEPT !.attached = b, !.gen = g].ring = r.ring
           /\ [r EXCEPT !.attached = b, !.gen = g].ch = r.ch
           /\ r.ch # <<>> => /\ [r EXCEPT !.ch = Tail(@)] \in Hubs
                             /\ [r EXCEPT !.ch = Tail(@)].ring = r.ring
                             /\ [r EXCEPT !.ch = Tail(@)].ch = Tail(r.ch)
                             /\ [r EXCEPT !.ch = Tail(@)].attached = r.attached
                             /\ Len(Tail(r.ch)) <= Len(r.ch)
  <1> DEFINE F == Seq(Frame)
             t == Tail(r.ch)
  <1>1. r \in [ch : F, ring : F, attached : BOOLEAN, gen : Nat]
    BY DEF Hubs
  <1>2. r.ch # <<>> => t \in F /\ Len(t) <= Len(r.ch)
    BY HubFields, TailFrames
  <1> HIDE DEF F, t
  <1>3. /\ [r EXCEPT !.attached = b] \in [ch : F, ring : F, attached : BOOLEAN, gen : Nat]
        /\ [r EXCEPT !.attached = b].ring = r.ring /\ [r EXCEPT !.attached = b].ch = r.ch
        /\ [r EXCEPT !.attached = b].attached = b
    BY <1>1, Zenon
  <1>4. /\ [r EXCEPT !.attached = b, !.gen = g] \in [ch : F, ring : F, attached : BOOLEAN, gen : Nat]
        /\ [r EXCEPT !.attached = b, !.gen = g].ring = r.ring
        /\ [r EXCEPT !.attached = b, !.gen = g].ch = r.ch
    BY <1>1, Zenon
  <1>5. t \in F => /\ [r EXCEPT !.ch = t] \in [ch : F, ring : F, attached : BOOLEAN, gen : Nat]
                   /\ [r EXCEPT !.ch = t].ring = r.ring
                   /\ [r EXCEPT !.ch = t].ch = t
                   /\ [r EXCEPT !.ch = t].attached = r.attached
    BY <1>1, Zenon
  <1>6. [r EXCEPT !.ch = Tail(@)] = [r EXCEPT !.ch = t]
    BY DEF t
  <1> QED BY <1>2, <1>3, <1>4, <1>5, <1>6 DEF Hubs, F, t

\* The stream of a new connection begins where the client left off.
LEMMA AttachStreams ==
    ASSUME FInv, IInv', NEW s \in Subs, Attach(s) PROVE FInv'
  <1>0. /\ Fits(s) /\ Streams(s) /\ InHub(s) /\ Behind(s) /\ hubSeq \in Nat
        /\ s \in registry \cup snap => client[s] \notin {"new", "posting"}
    BY PageFacts
  <1> DEFINE x == [sub[s] EXCEPT !.attached = TRUE]
             o == Start(sub[s], last[s])
  <1>1. /\ client[s] = "connecting" /\ client' = [client EXCEPT ![s] = "open"] /\ s \in hubSubs
        /\ sub' = [sub EXCEPT ![s] = x]
        /\ handler' = [handler EXCEPT ![s] = [on |-> TRUE, out |-> o]]
        /\ UNCHANGED <<tableVars, pollVars, net, hubSubs, hubSeq, last, stale, gap, posts, registry,
                       snap>>
    BY DEF Attach, Start, pollVars, regVars
  <1>2. /\ x \in Hubs /\ x.ring = sub[s].ring /\ x.ch = sub[s].ch /\ x.attached = TRUE
    BY <1>0, HubWith DEF Fits
  <1>3. /\ o \in Seq(Frame) /\ (o # <<>> => last[s] # 0)
        /\ \A f \in Frames(o) : f = Resync \/ f.id # 0
        /\ Ordered(x, <<>>, o, last[s], hubSeq) /\ Resyncs(x, <<>>, o, last[s])
        /\ \A k : Reaches(sub[s], <<>>, handler[s].out, last[s], "connecting", k) =>
                  Reaches(x, <<>>, o, last[s], "open", k)
    <2>1. net[s] = <<>>
      BY <1>0, <1>1 DEF Streams
    <2>2. Ordered(sub[s], <<>>, handler[s].out, last[s], hubSeq)
      BY <1>0, <1>1, <2>1 DEF InHub
    <2>3. o = Start(sub[s], last[s])
      OBVIOUS
    <2> DEFINE r == sub[s]
               p == handler[s].out
               id == last[s]
    <2>4. /\ r \in Hubs /\ p \in Seq(Frame) /\ id \in Nat /\ hubSeq \in Nat
          /\ x \in Hubs /\ x.ring = r.ring /\ x.ch = r.ch
          /\ Ordered(r, <<>>, p, id, hubSeq)
          /\ o = Start(r, id)
      BY <1>0, <1>2, <2>2, <2>3 DEF Fits
    <2> HIDE DEF x, o, r, p, id
    <2>5. Begins(r, x, p, o, id, hubSeq)
      BY <2>4, AttachKeepsKeys
    <2> QED BY <2>5 DEF Begins, r, p, id
  <1> HIDE DEF x, o
  <1>4. /\ sub'[s] = x /\ handler'[s].on = TRUE /\ handler'[s].out = o /\ client'[s] = "open"
        /\ net'[s] = <<>>
        /\ \A t \in Subs \ {s} : handler'[t] = handler[t] /\ client'[t] = client[t]
    <2>1. net[s] = <<>>
      BY <1>0, <1>1 DEF Streams
    <2> QED BY <1>1, <2>1 DEF FInv, StreamTypes, IInv, Tables
  <1>5. Only(s)
    BY <1>1, <1>4 DEF Only, FInv, StreamTypes
  <1>6. Fits(s)'
    <2> HIDE DEF Hubs
    <2> QED BY <1>0, <1>1, <1>2, <1>3, <1>4 DEF Fits
  <1>7. Streams(s)'
    BY <1>0, <1>1, <1>2, <1>3, <1>4, NoFrames DEF Streams
  <1>8. InHub(s)'
    BY <1>1, <1>2, <1>3, <1>4 DEF InHub
  <1>9. Behind(s)'
    <2>1. Served(s)
      BY <1>1 DEF Served
    <2>2. ASSUME NEW k PROVE Onward(s, k)
      <3>1. net[s] = <<>>
        BY <1>0, <1>1 DEF Streams
      <3> QED BY <1>1, <1>3, <1>4, <3>1 DEF Gapped, Onward
    <2> QED BY <1>1, <2>1, <2>2, BehindMoves
  <1>10. s \in registry' \cup snap => client'[s] \notin {"new", "posting"}
    BY <1>4
  <1> QED BY <1>5, <1>6, <1>7, <1>8, <1>9, <1>10, OnlyKeeps

LEMMA LostIs ==
    ASSUME NEW s, NEW ks, NEW cause, NEW k \in ks \cap stale[s], Lost(s, ks, cause) \subseteq gap'
    PROVE  \E g \in gap' : g[1] = s /\ g[2] = k
  <1>1. <<s, k, cause>> \in gap'
    BY DEF Lost
  <1>2. <<s, k, cause>>[1] = s /\ <<s, k, cause>>[2] = k
    OBVIOUS
  <1> QED BY <1>1, <1>2

LEMMA HandlerEndStreams ==
    ASSUME FInv, IInv', NEW s \in Subs, HandlerEnd(s) PROVE FInv'
  <1>0. /\ Fits(s) /\ Streams(s) /\ InHub(s) /\ Behind(s) /\ hubSeq \in Nat
        /\ s \in registry \cup snap => client[s] \notin {"new", "posting"}
        /\ sub[s].gen \in Nat
    BY PageFacts, HubFields DEF Fits
  <1> DEFINE x == sub'[s]
  <1>1. /\ handler' = [handler EXCEPT ![s] = [on |-> FALSE, out |-> <<>>]]
        /\ client[s] # "open" \/ s \notin hubSubs
        /\ UNCHANGED <<tableVars, pollVars, net, hubSubs, hubSeq, client, last, stale, gap, posts,
                       registry, snap>>
    BY DEF HandlerEnd, pollVars, regVars, pageVars
  <1>2. /\ x \in Hubs /\ x.ring = sub[s].ring /\ x.ch = sub[s].ch
        /\ sub' = [sub EXCEPT ![s] = x]
    <2> DEFINE y == [sub[s] EXCEPT !.attached = FALSE, !.gen = sub[s].gen + 1]
    <2>1. y \in Hubs /\ y.ring = sub[s].ring /\ y.ch = sub[s].ch
      <3>1. sub[s].gen + 1 \in Nat /\ FALSE \in BOOLEAN
        BY <1>0
      <3> QED BY <1>0, <3>1, HubWith, Zenon DEF Fits
    <2>2. sub' = [sub EXCEPT ![s] = y] \/ sub' = sub
      BY DEF HandlerEnd
    <2> HIDE DEF y, Hubs
    <2> QED BY <1>0, <2>1, <2>2 DEF FInv, StreamTypes, Fits
  <1> HIDE DEF x
  <1>3. /\ sub'[s] = x /\ handler'[s].out = <<>>
        /\ \A t \in Subs \ {s} : handler'[t] = handler[t] /\ client'[t] = client[t]
    BY <1>1 DEF x, FInv, StreamTypes, IInv, Tables
  <1>4. Only(s)
    <2>1. /\ net' = [net EXCEPT ![s] = net[s]] /\ last' = [last EXCEPT ![s] = last[s]]
          /\ stale' = [stale EXCEPT ![s] = stale[s]]
      BY <1>1 DEF FInv, StreamTypes
    <2> QED BY <1>1, <1>2, <1>3, <2>1 DEF Only
  <1>5. Fits(s)'
    <2> HIDE DEF Hubs
    <2> QED BY <1>0, <1>1, <1>2, <1>3, NoFrames DEF Fits
  <1>6. Streams(s)'
    BY <1>0, <1>1, <1>2, <1>3, NoFrames DEF Streams
  <1>7. InHub(s)'
    <2>1. ASSUME s \in hubSubs PROVE Ordered(x, net[s], <<>>, last[s], hubSeq)
      <3>1. Ordered(sub[s], net[s], handler[s].out, last[s], hubSeq) /\ hubSeq <= hubSeq
        BY <1>0, <2>1 DEF InHub
      <3>2. /\ Sorted(x.ch) /\ Frames(x.ch) \subseteq Frames(sub[s].ch)
            /\ Frames(net[s]) \cup Frames(<<>>) \subseteq Frames(net[s]) \cup Frames(handler[s].out)
                   \cup Frames(sub[s].ch) \cup Frames(sub[s].ring) \cup {Resync}
        BY <1>2, <3>1, NoFrames DEF Ordered
      <3> QED BY <1>0, <1>2, <3>1, <3>2, OrderedMoves
    <2> QED BY <1>1, <1>3, <2>1 DEF InHub
  <1>8. Behind(s)'
    <2>1. Served(s)' => Served(s) /\ client[s] # "open"
      BY <1>1 DEF Served
    <2>2. ASSUME Served(s)', NEW k PROVE Onward(s, k)
      BY <1>1, <1>2, <1>3, <2>1, <2>2 DEF Gapped, Onward, Reaches, Covered
    <2> QED BY <1>1, <2>1, <2>2, BehindMoves
  <1>9. s \in registry' \cup snap => client'[s] \notin {"new", "posting"}
    BY <1>0, <1>1
  <1> QED BY <1>4, <1>5, <1>6, <1>7, <1>8, <1>9, OnlyKeeps

\* A page whose connection breaks reconnects with the id it has.
LEMMA BreakStreams ==
    ASSUME FInv, IInv', NEW s \in Subs, Break(s) PROVE FInv'
  <1>0. /\ Fits(s) /\ Streams(s) /\ InHub(s) /\ Behind(s) /\ hubSeq \in Nat
        /\ s \in registry \cup snap => client[s] \notin {"new", "posting"}
    BY PageFacts
  <1>1. /\ client[s] = "open" /\ client' = [client EXCEPT ![s] = "connecting"]
        /\ net' = [net EXCEPT ![s] = <<>>]
        /\ gap' = gap \cup (IF last[s] = 0 THEN Lost(s, KeysOf(net[s]), "unacked") ELSE {})
        /\ UNCHANGED <<tableVars, pollVars, sub, handler, hubSubs, hubSeq, last, stale, posts,
                       registry, snap>>
    BY DEF Break, pollVars, regVars, hubVars
  <1>2. /\ client'[s] = "connecting" /\ net'[s] = <<>>
        /\ \A t \in Subs \ {s} : client'[t] = client[t]
    BY <1>1 DEF FInv, StreamTypes, IInv, Tables
  <1>3. Only(s)
    BY <1>1, <1>2 DEF Only, FInv, StreamTypes
  <1>4. Fits(s)'
    BY <1>0, <1>1, <1>2, NoFrames DEF Fits
  <1>5. Streams(s)'
    BY <1>0, <1>1, <1>2, NoFrames DEF Streams
  <1>6. InHub(s)'
    <2>1. ASSUME s \in hubSubs PROVE Ordered(sub[s], <<>>, handler[s].out, last[s], hubSeq)
      <3>1. Ordered(sub[s], net[s], handler[s].out, last[s], hubSeq) /\ hubSeq <= hubSeq
        BY <1>0, <2>1 DEF InHub
      <3>2. /\ Sorted(sub[s].ch)
            /\ Frames(<<>>) \cup Frames(handler[s].out) \subseteq Frames(net[s]) \cup Frames(handler[s].out)
                   \cup Frames(sub[s].ch) \cup Frames(sub[s].ring) \cup {Resync}
        BY <3>1, NoFrames DEF Ordered
      <3> QED BY <1>0, <3>1, <3>2, OrderedMoves
    <2> QED BY <1>1, <1>2, <2>1 DEF InHub
  <1>7. Behind(s)'
    <2>1. Served(s)' => Served(s) /\ s \in hubSubs
      BY <1>1, <1>2 DEF Served
    <2>2. ASSUME Served(s)', NEW k \in stale[s] PROVE Onward(s, k)
      <3>1. /\ Ordered(sub[s], net[s], handler[s].out, last[s], hubSeq)
            /\ Resyncs(sub[s], net[s], handler[s].out, last[s])
            /\ handler[s].out # <<>> => last[s] # 0
        BY <1>0, <1>1, <2>1, <2>2 DEF InHub, Streams
      <3>2. ASSUME Reaches(sub[s], net[s], handler[s].out, last[s], "open", k)
            PROVE  \/ Reaches(sub[s], <<>>, handler[s].out, last[s], "connecting", k)
                   \/ last[s] = 0 /\ k \in KeysOf(net[s])
        BY <1>0, <3>1, <3>2, BreakKeeps DEF Fits
      <3>3. last[s] = 0 /\ k \in KeysOf(net[s]) => Gapped(s, k)'
        BY <1>1, LostIs DEF Gapped
      <3> QED BY <1>1, <1>2, <3>2, <3>3 DEF Gapped, Onward
    <2> QED BY <1>1, <2>1, <2>2, BehindMoves
  <1>8. s \in registry' \cup snap => client'[s] \notin {"new", "posting"}
    BY <1>2
  <1> QED BY <1>3, <1>4, <1>5, <1>6, <1>7, <1>8, OnlyKeeps

\* A page that is gone is behind with nothing.
LEMMA ForgottenStreams ==
    ASSUME FInv, IInv', NEW s \in Subs, Abort(s) \/ Leave(s) PROVE FInv'
  <1>0. /\ Fits(s) /\ Streams(s) /\ InHub(s) /\ Behind(s) /\ hubSeq \in Nat
        /\ s \in registry \cup snap => client[s] \notin {"new", "posting"}
    BY PageFacts
  <1>1. /\ client' = [client EXCEPT ![s] = "gone"] /\ stale' = [stale EXCEPT ![s] = {}]
        /\ net' = [net EXCEPT ![s] = <<>>] /\ gap' = {g \in gap : g[1] # s}
        /\ posts' \subseteq posts
        /\ UNCHANGED <<tableVars, pollVars, sub, handler, hubSubs, hubSeq, last, registry, snap>>
    <2>1. CASE Abort(s)
      BY <2>1 DEF Abort, Forgotten, pollVars, regVars, hubVars
    <2>2. CASE Leave(s)
      BY <2>2 DEF Leave, Forgotten, pollVars, regVars, hubVars
    <2> QED BY <2>1, <2>2
  <1>2. /\ client'[s] = "gone" /\ net'[s] = <<>> /\ stale'[s] = {}
        /\ \A t \in Subs \ {s} : client'[t] = client[t]
    BY <1>1 DEF FInv, StreamTypes, IInv, Tables
  <1>3. Only(s)
    BY <1>1, <1>2 DEF Only, FInv, StreamTypes
  <1>4. Fits(s)'
    BY <1>0, <1>1, <1>2, NoFrames DEF Fits
  <1>5. Streams(s)'
    BY <1>0, <1>1, <1>2, NoFrames DEF Streams
  <1>6. InHub(s)'
    <2>1. ASSUME s \in hubSubs PROVE Ordered(sub[s], <<>>, handler[s].out, last[s], hubSeq)
      <3>1. Ordered(sub[s], net[s], handler[s].out, last[s], hubSeq) /\ hubSeq <= hubSeq
        BY <1>0, <2>1 DEF InHub
      <3>2. /\ Sorted(sub[s].ch)
            /\ Frames(<<>>) \cup Frames(handler[s].out) \subseteq Frames(net[s]) \cup Frames(handler[s].out)
                   \cup Frames(sub[s].ch) \cup Frames(sub[s].ring) \cup {Resync}
        BY <3>1, NoFrames DEF Ordered
      <3> QED BY <1>0, <3>1, <3>2, OrderedMoves
    <2> QED BY <1>1, <1>2, <2>1 DEF InHub
  <1>7. Behind(s)'
    BY <1>2 DEF Behind, Served
  <1>8. s \in registry' \cup snap => client'[s] \notin {"new", "posting"}
    BY <1>2
  <1> QED BY <1>3, <1>4, <1>5, <1>6, <1>7, <1>8, OnlyKeeps

\* The frame that is written is on the wire, or lost with the connection.
LEMMA WriteIs ==
    ASSUME FInv, NEW s \in Subs, NEW f \in Frame, Write(s, f)
    PROVE  /\ client[s] = "open" => /\ net' = [net EXCEPT ![s] = Append(net[s], f)]
                                    /\ net'[s] = Append(net[s], f) /\ gap' = gap
                                    /\ net'[s] \in Seq(Frame)
                                    /\ Frames(net'[s]) = Frames(net[s]) \cup {f}
           /\ client[s] # "open" => /\ net' = net /\ gap \subseteq gap'
                                    /\ last[s] = 0 => Lost(s, {f.key}, "unacked") \subseteq gap'
  <1>1. net \in [Subs -> Seq(Frame)] /\ net[s] \in Seq(Frame)
    BY DEF FInv, StreamTypes
  <1>2. CASE client[s] = "open"
    <2>1. net' = [net EXCEPT ![s] = Append(net[s], f)] /\ gap' = gap
      BY <1>2 DEF Write
    <2>2. net'[s] = Append(net[s], f)
      BY <1>1, <2>1
    <2>3. Append(net[s], f) \in Seq(Frame) /\ Frames(Append(net[s], f)) = Frames(net[s]) \cup {f}
      BY <1>1, AppendFrames
    <2> QED BY <1>2, <2>1, <2>2, <2>3
  <1>3. CASE client[s] # "open"
    BY <1>3 DEF Write
  <1> QED BY <1>2, <1>3

LEMMA WriteReplayStreams ==
    ASSUME FInv, IInv', NEW s \in Subs, WriteReplay(s) PROVE FInv'
  <1>0. /\ Fits(s) /\ Streams(s) /\ InHub(s) /\ Behind(s) /\ hubSeq \in Nat
        /\ s \in registry \cup snap => client[s] \notin {"new", "posting"}
        /\ handler[s] = [on |-> handler[s].on, out |-> handler[s].out]
    BY PageFacts
  <1> DEFINE out == handler[s].out
             f == Head(out)
             rest == Tail(out)
             h == [handler[s] EXCEPT !.out = rest]
  <1>1. /\ handler[s].on /\ out # <<>> /\ Write(s, f)
        /\ handler' = [handler EXCEPT ![s] = h]
        /\ UNCHANGED <<tableVars, pollVars, sub, client, hubSubs, hubSeq, last, stale, posts, registry,
                       snap>>
    BY DEF WriteReplay, pollVars, regVars, hubVars
  <1>2. out \in Seq(Frame) /\ f \in Frame /\ f \in Frames(out) /\ rest \in Seq(Frame)
        /\ Frames(rest) \subseteq Frames(out)
    BY <1>0, <1>1, TailFrames DEF Fits
  <1>3. handler'[s].out = rest /\ handler'[s].on
        /\ \A t \in Subs \ {s} : handler'[t] = handler[t]
    <2> HIDE DEF rest
    <2>1. h.out = rest /\ h.on = handler[s].on
      BY <1>0
    <2> HIDE DEF h
    <2> QED BY <1>1, <2>1 DEF FInv, IInv, Tables
  <1> HIDE DEF out, f, rest, h
  <1>4. /\ client[s] = "open" => /\ net' = [net EXCEPT ![s] = Append(net[s], f)]
                                 /\ net'[s] = Append(net[s], f) /\ gap' = gap
                                 /\ net'[s] \in Seq(Frame)
                                 /\ Frames(net'[s]) = Frames(net[s]) \cup {f}
        /\ client[s] # "open" => net' = net /\ gap \subseteq gap'
    BY <1>1, <1>2, WriteIs
  <1>5. Only(s)
    <2>1. /\ last' = [last EXCEPT ![s] = last[s]] /\ sub' = [sub EXCEPT ![s] = sub[s]]
          /\ stale' = [stale EXCEPT ![s] = stale[s]] /\ net = [net EXCEPT ![s] = net[s]]
      BY <1>1 DEF FInv, StreamTypes
    <2>2. \E x : net' = [net EXCEPT ![s] = x]
      BY <1>4, <2>1
    <2>3. gap \subseteq gap'
      BY <1>4
    <2> QED BY <1>1, <1>3, <2>1, <2>2, <2>3 DEF Only
  <1>6. Fits(s)'
    BY <1>0, <1>1, <1>2, <1>3, <1>4 DEF Fits
  <1>7. Frames(net'[s]) \subseteq Frames(net[s]) \cup Frames(out)
    BY <1>2, <1>4
  <1>8. Streams(s)'
    <2>1. \A g \in Frames(net'[s]) \cup Frames(rest) : g = Resync \/ g.id # 0
      BY <1>0, <1>2, <1>7 DEF Streams, out
    <2>2. last[s] # 0
      BY <1>0, <1>1 DEF Streams, out
    <2>3. client'[s] # "open" => net'[s] = <<>>
      BY <1>0, <1>1, <1>4 DEF Streams
    <2> QED BY <1>0, <1>1, <1>3, <2>1, <2>2, <2>3 DEF Streams
  <1>9. InHub(s)'
    <2>1. ASSUME s \in hubSubs PROVE Ordered(sub[s], net'[s], rest, last[s], hubSeq)
      <3>1. Ordered(sub[s], net[s], out, last[s], hubSeq) /\ hubSeq <= hubSeq
        BY <1>0, <2>1 DEF InHub, out
      <3>2. /\ Sorted(sub[s].ch)
            /\ Frames(net'[s]) \cup Frames(rest) \subseteq Frames(net[s]) \cup Frames(out)
                   \cup Frames(sub[s].ch) \cup Frames(sub[s].ring) \cup {Resync}
        BY <3>1, <1>2, <1>7 DEF Ordered
      <3> QED BY <1>0, <3>1, <3>2, OrderedMoves
    <2>2. ASSUME s \in hubSubs, client[s] = "open"
          PROVE  sub[s].attached /\ Resyncs(sub[s], net'[s], rest, last[s])
      <3>1. Resyncs(sub[s], net[s], out, last[s]) /\ sub[s].attached
        BY <1>0, <2>2 DEF InHub, out
      <3>2. Resyncs(sub[s], Append(net[s], f), rest, last[s])
        BY <1>0, <1>1, <1>2, <3>1, ReplayMoves DEF Fits, f, rest
      <3> QED BY <1>4, <2>2, <3>1, <3>2
    <2> QED BY <1>1, <1>3, <2>1, <2>2 DEF InHub
  <1>10. Behind(s)'
    <2>1. Served(s)' => Served(s)
      BY <1>1 DEF Served
    <2>2. ASSUME Served(s)', NEW k PROVE Onward(s, k)
      <3>1. Gapped(s, k) => Gapped(s, k)'
        BY <1>4 DEF Gapped
      <3>2. CASE client[s] = "open"
        <4>1. Resyncs(sub[s], net[s], out, last[s])
          BY <1>0, <1>1, <2>1, <2>2, <3>2 DEF InHub, out, Served
        <4>2. Reaches(sub[s], net[s], out, last[s], "open", k) =>
              Reaches(sub[s], Append(net[s], f), rest, last[s], "open", k)
          BY <1>0, <1>1, <1>2, <4>1, ReplayMoves DEF Fits, f, rest
        <4> QED BY <1>1, <1>3, <1>4, <3>1, <3>2, <4>2 DEF Onward, out
      <3>3. CASE client[s] # "open"
        <4>1. Reaches(sub[s], net[s], out, last[s], client[s], k) =>
              Reaches(sub[s], net[s], rest, last[s], client[s], k)
          BY <3>3 DEF Reaches
        <4> QED BY <1>1, <1>3, <1>4, <3>1, <3>3, <4>1 DEF Onward, out
      <3> QED BY <3>2, <3>3
    <2> QED BY <1>1, <2>1, <2>2, BehindMoves
  <1>11. s \in registry' \cup snap => client'[s] \notin {"new", "posting"}
    BY <1>0, <1>1
  <1> QED BY <1>5, <1>6, <1>8, <1>9, <1>10, <1>11, OnlyKeeps

LEMMA WriteLiveStreams ==
    ASSUME FInv, IInv', NEW s \in Subs, WriteLive(s) PROVE FInv'
  <1>0. /\ Fits(s) /\ Streams(s) /\ InHub(s) /\ Behind(s) /\ hubSeq \in Nat
        /\ s \in registry \cup snap => client[s] \notin {"new", "posting"}
        /\ sub[s].ch \in Seq(Frame)
    BY PageFacts
  <1> DEFINE r == sub[s]
             f == Head(r.ch)
             x == [r EXCEPT !.ch = Tail(@)]
  <1>1. /\ handler[s].on /\ handler[s].out = <<>> /\ r.ch # <<>> /\ Write(s, f)
        /\ sub' = [sub EXCEPT ![s] = x]
        /\ UNCHANGED <<tableVars, pollVars, handler, client, hubSubs, hubSeq, last, stale, posts,
                       registry, snap>>
    BY DEF WriteLive, pollVars, regVars
  <1>2. /\ x \in Hubs /\ x.ring = r.ring /\ x.ch = Tail(r.ch) /\ x.attached = r.attached
        /\ Len(x.ch) <= Len(r.ch)
    BY <1>0, <1>1, HubWith DEF Fits
  <1>3. /\ f \in Frame /\ f \in Frames(r.ch) /\ Frames(x.ch) \subseteq Frames(r.ch)
        /\ \A g \in Frames(r.ch) : g = f \/ g \in Frames(x.ch)
    BY <1>0, <1>1, <1>2, TailFrames
  <1> HIDE DEF f, x
  <1>4. /\ client[s] = "open" => /\ net' = [net EXCEPT ![s] = Append(net[s], f)]
                                 /\ net'[s] = Append(net[s], f) /\ gap' = gap
                                 /\ net'[s] \in Seq(Frame)
                                 /\ Frames(net'[s]) = Frames(net[s]) \cup {f}
        /\ client[s] # "open" => /\ net' = net /\ gap \subseteq gap'
                                 /\ last[s] = 0 => Lost(s, {f.key}, "unacked") \subseteq gap'
    BY <1>1, <1>3, WriteIs
  <1>5. sub'[s] = x
    BY <1>1 DEF FInv, StreamTypes
  <1>6. Only(s)
    <2>1. /\ last' = [last EXCEPT ![s] = last[s]] /\ net = [net EXCEPT ![s] = net[s]]
          /\ stale' = [stale EXCEPT ![s] = stale[s]]
      BY <1>1 DEF FInv, StreamTypes
    <2>2. \E y : net' = [net EXCEPT ![s] = y]
      BY <1>4, <2>1
    <2>3. gap \subseteq gap'
      BY <1>4
    <2> QED BY <1>1, <2>1, <2>2, <2>3 DEF Only
  <1>7. Fits(s)'
    <2>1. Len(x.ch) <= ChannelCap
      <3>1. Len(x.ch) \in Nat /\ Len(r.ch) \in Nat
        BY <1>0, <1>2, HubFields, LenProperties
      <3> QED BY <1>0, <1>2, <3>1, FeedAssumption DEF Fits
    <2> HIDE DEF Hubs
    <2> QED BY <1>0, <1>1, <1>2, <1>4, <1>5, <2>1 DEF Fits
  <1>8. Frames(net'[s]) \subseteq Frames(net[s]) \cup Frames(r.ch)
    BY <1>3, <1>4
  <1>9. Streams(s)'
    <2>1. \A g \in Frames(net'[s]) : g = Resync \/ g.id # 0
      BY <1>0, <1>8 DEF Streams
    <2>2. \A g \in Frames(x.ch) : g.id # 0
      BY <1>0, <1>3 DEF Streams
    <2>3. client'[s] # "open" => net'[s] = <<>>
      BY <1>0, <1>1, <1>4 DEF Streams
    <2>4. client[s] # "new" /\ s \notin posts
      BY <1>0, <1>1 DEF Streams
    <2> QED BY <1>0, <1>1, <1>5, <2>1, <2>2, <2>3, <2>4, NoFrames DEF Streams
  <1>10. ASSUME s \in hubSubs
         PROVE  Ordered(r, net[s], <<>>, last[s], hubSeq) /\ Ordered(x, net'[s], <<>>, last[s], hubSeq)
    <2>1. Ordered(r, net[s], <<>>, last[s], hubSeq) /\ hubSeq <= hubSeq
      BY <1>0, <1>1, <1>10 DEF InHub
    <2>2. /\ Sorted(x.ch)
          /\ Frames(net'[s]) \cup Frames(<<>>) \subseteq Frames(net[s]) \cup Frames(<<>>)
                 \cup Frames(r.ch) \cup Frames(r.ring) \cup {Resync}
      BY <1>0, <1>1, <1>2, <2>1, <1>8, NoFrames, SortedTail DEF Ordered
    <2> QED BY <1>0, <1>2, <1>3, <2>1, <2>2, OrderedMoves
  <1>11. ASSUME s \in hubSubs, client[s] = "open"
         PROVE  /\ r.attached /\ Resyncs(x, net'[s], <<>>, last[s])
                /\ \A k : Reaches(r, net[s], <<>>, last[s], "open", k) =>
                          Reaches(x, net'[s], <<>>, last[s], "open", k)
    <2>1. Resyncs(r, net[s], <<>>, last[s]) /\ r.attached
      BY <1>0, <1>1, <1>11 DEF InHub
    <2> DEFINE w == Append(net[s], f)
    <2>2. /\ Resyncs(x, w, <<>>, last[s])
          /\ \A k : Reaches(r, net[s], <<>>, last[s], "open", k) => Reaches(x, w, <<>>, last[s], "open", k)
      BY <1>0, <1>1, <1>2, <1>10, <1>11, <2>1, LiveMoves DEF Fits, f
    <2>3. net'[s] = w
      BY <1>4, <1>11
    <2> HIDE DEF w
    <2> QED BY <2>1, <2>2, <2>3
  <1>12. InHub(s)'
    BY <1>1, <1>2, <1>5, <1>10, <1>11 DEF InHub
  <1>13. Behind(s)'
    <2>1. Served(s)' => Served(s)
      BY <1>1 DEF Served
    <2>2. ASSUME Served(s)', NEW k \in stale[s] PROVE Onward(s, k)
      <3>1. Gapped(s, k) => Gapped(s, k)'
        BY <1>4 DEF Gapped
      <3>2. CASE client[s] = "open"
        <4>1. s \in hubSubs
          BY <2>1, <2>2, <3>2 DEF Served
        <4> QED BY <1>1, <1>5, <1>11, <3>1, <3>2, <4>1 DEF Onward
      <3>3. CASE client[s] # "open"
        <4> SUFFICES ASSUME Reaches(r, net[s], <<>>, last[s], client[s], k)
                     PROVE  Gapped(s, k)' \/ Reaches(x, net[s], <<>>, last[s], client[s], k)
          BY <1>1, <1>4, <1>5, <3>1, <3>3 DEF Onward
        <4>1. CASE k \in KeysOf(r.ch) /\ last[s] = 0
          <5>1. PICK g \in Frames(r.ch) : k = g.key
            BY <4>1, KeysAre
          <5>2. CASE g = f
            <6>1. Lost(s, {f.key}, "unacked") \subseteq gap' /\ k \in {f.key} \cap stale[s]
              BY <1>4, <3>3, <4>1, <5>1, <5>2
            <6> QED BY <6>1, LostIs DEF Gapped
          <5>3. CASE g \in Frames(x.ch)
            <6>1. k \in KeysOf(x.ch)
              BY <5>1, <5>3, KeysAre
            <6> QED BY <3>3, <4>1, <6>1 DEF Reaches
          <5> QED BY <1>3, <5>2, <5>3
        <4>2. CASE last[s] # 0
          <5>1. client[s] \notin {"posting", "answered"}
            BY <1>0, <4>2 DEF Streams
          <5> QED BY <1>2, <3>3, <4>2, <5>1 DEF Reaches, Covered
        <4>3. last[s] = 0 => k \in KeysOf(r.ch)
          BY <3>3 DEF Reaches
        <4> QED BY <4>1, <4>2, <4>3
      <3> QED BY <3>2, <3>3
    <2>3. UNCHANGED <<tableVars, pollVars, stale>>
      BY <1>1
    <2> QED BY <2>1, <2>2, <2>3, BehindMoves
  <1>14. s \in registry' \cup snap => client'[s] \notin {"new", "posting"}
    BY <1>0, <1>1
  <1> QED BY <1>6, <1>7, <1>9, <1>12, <1>13, <1>14, OnlyKeeps

\* A frame that arrives ends the lag of its key; a resync ends all of it.
LEMMA ReceiveStreams ==
    ASSUME FInv, IInv', NEW s \in Subs, Receive(s) PROVE FInv'
  <1>0. /\ Fits(s) /\ Streams(s) /\ InHub(s) /\ Behind(s) /\ hubSeq \in Nat
        /\ s \in registry \cup snap => client[s] \notin {"new", "posting"}
    BY PageFacts
  <1> DEFINE wire == net[s]
             f == Head(wire)
             t == Tail(wire)
             id == IF f = Resync THEN last[s] ELSE f.id
             fetched == IF f = Resync THEN Keys ELSE {f.key}
  <1>1. /\ client[s] = "open" /\ wire # <<>>
        /\ net' = [net EXCEPT ![s] = t]
        /\ last' = [last EXCEPT ![s] = id]
        /\ stale' = [stale EXCEPT ![s] = stale[s] \ fetched]
        /\ gap' = {g \in gap : ~(g[1] = s /\ g[2] \in fetched)}
        /\ UNCHANGED <<tableVars, pollVars, sub, client, handler, hubSubs, hubSeq, posts, registry, snap>>
    BY DEF Receive, pollVars, regVars, hubVars
  <1>2. /\ t \in Seq(Frame) /\ Frames(t) \subseteq Frames(wire) /\ f \in Frame /\ f \in Frames(wire)
    BY <1>0, <1>1, TailFrames DEF Fits
  <1>3. id \in Nat /\ (f # Resync => id # 0) /\ (f = Resync => id = last[s])
    BY <1>0, <1>2 DEF Fits, Frame, Streams
  <1>4. /\ net'[s] = t /\ last'[s] = id /\ stale'[s] = stale[s] \ fetched
    BY <1>1 DEF FInv, StreamTypes
  <1>5. Only(s)
    <2>1. sub' = [sub EXCEPT ![s] = sub[s]]
      BY <1>1 DEF FInv, StreamTypes
    <2>2. \A g \in gap : g[1] # s => g \in gap'
      BY <1>1
    <2> HIDE DEF t, id, fetched
    <2> QED BY <1>1, <2>1, <2>2 DEF Only
  <1> DEFINE o == handler[s].out
             r == sub[s]
  <1>6. ASSUME s \in hubSubs
        PROVE  /\ Ordered(r, wire, o, last[s], hubSeq) /\ Resyncs(r, wire, o, last[s])
               /\ r.attached /\ handler[s].on
               /\ Ordered(r, t, o, id, hubSeq) /\ Resyncs(r, t, o, id)
               /\ f # Resync => \A k : Reaches(r, wire, o, last[s], "open", k) /\ k # f.key
                                          => Reaches(r, t, o, id, "open", k)
    <2>1. /\ Ordered(r, wire, o, last[s], hubSeq) /\ Resyncs(r, wire, o, last[s])
          /\ r.attached /\ handler[s].on
      BY <1>0, <1>1, <1>6 DEF InHub
    <2>2. /\ r \in Hubs /\ wire \in Seq(Frame) /\ o \in Seq(Frame) /\ last[s] \in Nat
          /\ id = IF f = Resync THEN last[s] ELSE f.id
      BY <1>0 DEF Fits
    <2>3. PICK m : m = id
      OBVIOUS
    <2> HIDE DEF r, o
    <2> QED BY <1>0, <1>1, <2>1, <2>2, <2>3, ReceiveMoves
  <1> HIDE DEF f, t, id
  <1>7. Fits(s)'
    BY <1>0, <1>1, <1>2, <1>3, <1>4 DEF Fits
  <1>8. Streams(s)'
    BY <1>0, <1>1, <1>2, <1>3, <1>4 DEF Streams, FInv, IInv, Posting
  <1>9. InHub(s)'
    BY <1>1, <1>4, <1>6 DEF InHub
  <1>10. Behind(s)'
    <2>1. Served(s)' => Served(s) /\ s \in hubSubs
      BY <1>1 DEF Served
    <2>2. ASSUME Served(s)', NEW k \in stale'[s] PROVE Onward(s, k)
      <3>1. f # Resync /\ k # f.key /\ fetched = {f.key}
        <4>1. k \in stale[s] \ fetched /\ k \in Keys
          BY <1>0, <1>4, <2>2 DEF Fits
        <4> QED BY <4>1
      <3>2. Gapped(s, k) => Gapped(s, k)'
        BY <1>1, <3>1 DEF Gapped
      <3> HIDE DEF r, o, fetched
      <3>3. Reaches(r, wire, o, last[s], "open", k) => Reaches(r, t, o, id, "open", k)
        BY <1>6, <2>1, <2>2, <3>1
      <3> QED BY <1>1, <1>4, <3>2, <3>3 DEF Onward, r, o
    <2>3. stale'[s] \subseteq stale[s]
      BY <1>4
    <2>4. UNCHANGED <<tableVars, pollVars>>
      BY <1>1
    <2> QED BY <2>1, <2>2, <2>3, <2>4, BehindMoves
  <1>11. s \in registry' \cup snap => client'[s] \notin {"new", "posting"}
    BY <1>0, <1>1
  <1> QED BY <1>5, <1>7, <1>8, <1>9, <1>10, <1>11, OnlyKeeps

-----------------------------------------------------------------------------
(* The poller.                                                             *)

\* Row r can still reach page s.
Ahead(s, r) ==
    \/ Read < r /\ pruned < r
    \/ pc = "snap" /\ row <= r /\ r <= upto
    \/ pc \in {"fan", "deliver"} /\ \/ s \in todo /\ r = row
                                    \/ s \in snap /\ row < r /\ r <= upto

LEMMA PendingIs ==
    Polling => \A s, k : k \in Pending(s) <=> \E r \in 1..Len(log) : Ahead(s, r) /\ log[r] = k
  <1> SUFFICES ASSUME Polling, NEW s, NEW k
               PROVE  k \in Pending(s) <=> \E r \in 1..Len(log) : Ahead(s, r) /\ log[r] = k
    OBVIOUS
  <1> DEFINE N == Len(log)
             a == (IF Read < pruned THEN pruned ELSE Read) + 1
  <1>1. /\ N \in Nat /\ pruned \in 0..N /\ cursor \in 0..N /\ row \in 0..N /\ upto \in 0..N
        /\ Read \in 0..N /\ (pc \in {"snap", "fan", "deliver"} => row # 0)
    BY LenProperties DEF Polling, Read
  <1>2. k \in Pending(s) <=>
           \/ k \in RowKeys(a, N)
           \/ pc = "snap" /\ k \in RowKeys(row, upto)
           \/ pc \in {"fan", "deliver"} /\ ((s \in todo /\ k = log[row]) \/ (s \in snap /\ k \in RowKeys(row + 1, upto)))
    <2> DEFINE A == RowKeys(a, N)
               B == RowKeys(row, upto)
               C == RowKeys(row + 1, upto)
               d == log[row]
    <2>1. Pending(s) = A \cup (IF pc = "snap" THEN B ELSE {})
              \cup (IF pc \in {"fan", "deliver"}
                    THEN (IF s \in todo THEN {d} ELSE {}) \cup (IF s \in snap THEN C ELSE {}) ELSE {})
      BY DEF Pending
    <2> HIDE DEF A, B, C, d, N, a
    <2>2. k \in Pending(s) <=>
           \/ k \in A
           \/ pc = "snap" /\ k \in B
           \/ pc \in {"fan", "deliver"} /\ ((s \in todo /\ k = d) \/ (s \in snap /\ k \in C))
      BY <2>1
    <2> QED BY <2>2 DEF A, B, C, d
  <1> HIDE DEF N
  <1>3. k \in RowKeys(a, N) <=> \E r \in 1..N : (Read < r /\ pruned < r) /\ log[r] = k
    <2>1. \A r : r \in a..N <=> r \in 1..N /\ Read < r /\ pruned < r
      BY <1>1
    <2> HIDE DEF a
    <2> QED BY <2>1 DEF RowKeys
  <1>4. pc = "snap" => (k \in RowKeys(row, upto) <=> \E r \in 1..N : (row <= r /\ r <= upto) /\ log[r] = k)
    <2>1. pc = "snap" => \A r : r \in row..upto <=> r \in 1..N /\ row <= r /\ r <= upto
      BY <1>1
    <2> QED BY <2>1 DEF RowKeys
  <1>5. k \in RowKeys(row + 1, upto) <=> \E r \in 1..N : (row < r /\ r <= upto) /\ log[r] = k
    <2>1. \A r : r \in row + 1..upto <=> r \in 1..N /\ row < r /\ r <= upto
      BY <1>1
    <2> QED BY <2>1 DEF RowKeys
  <1>6. pc \in {"fan", "deliver"} => (k = log[row] <=> \E r \in 1..N : r = row /\ log[r] = k)
    BY <1>1
  <1> HIDE DEF a
  <1> DEFINE G(r) == Read < r /\ pruned < r
             H(r) == row <= r /\ r <= upto
             I(r) == row < r /\ r <= upto
  <1>7. \A r : Ahead(s, r) <=>
           \/ G(r)
           \/ pc = "snap" /\ H(r)
           \/ pc \in {"fan", "deliver"} /\ ((s \in todo /\ r = row) \/ (s \in snap /\ I(r)))
    BY DEF Ahead
  <1>8. (\E r \in 1..N : Ahead(s, r) /\ log[r] = k) <=>
           \/ \E r \in 1..N : G(r) /\ log[r] = k
           \/ pc = "snap" /\ \E r \in 1..N : H(r) /\ log[r] = k
           \/ /\ pc \in {"fan", "deliver"}
              /\ \/ s \in todo /\ \E r \in 1..N : r = row /\ log[r] = k
                 \/ s \in snap /\ \E r \in 1..N : I(r) /\ log[r] = k
    <2> HIDE DEF G, H, I
    <2> QED BY <1>7
  <1> QED BY <1>2, <1>3, <1>4, <1>5, <1>6, <1>8 DEF N

LEMMA PendingIsNext ==
    Polling' => \A s, k : k \in Pending(s)' <=> \E r \in 1..Len(log') : Ahead(s, r)' /\ log'[r] = k
  <1>1. (Polling => \A s, k : k \in Pending(s) <=> \E r \in 1..Len(log) : Ahead(s, r) /\ log[r] = k)'
    BY PendingIs, PTL
  <1> QED BY <1>1

\* The loops go on: only the row of the page that is done with is behind them.
LEMMA NextPairAhead ==
    ASSUME Polling, pc \in {"fan", "deliver"}, NEW t, NextPair(todo \ {t}, snap),
           UNCHANGED <<log, pruned, upto, snap>>,
           NEW s, NEW r \in 1..Len(log), Ahead(s, r), s # t \/ r # row
    PROVE  Ahead(s, r)'
  <1>1. /\ Len(log) \in Nat /\ row \in Nat /\ upto \in Nat /\ r \in Nat /\ todo \subseteq snap
    BY LenProperties DEF Polling
  <1>2. Read = upto /\ Read' = upto
    BY DEF Read, NextPair
  <1>3. CASE upto < r /\ pruned < r
    BY <1>2, <1>3 DEF Ahead
  <1>4. CASE s \in todo /\ r = row
    BY <1>4 DEF Ahead, NextPair
  <1>5. CASE s \in snap /\ row < r /\ r <= upto
    <2>1. CASE todo \ {t} # {}
      BY <1>5, <2>1 DEF Ahead, NextPair
    <2>2. CASE todo \ {t} = {}
      <3>1. pc' = "fan" /\ todo' = snap /\ row' = row + 1
        BY <1>1, <1>5, <2>2 DEF NextPair
      <3> QED BY <1>1, <1>5, <3>1 DEF Ahead
    <2> QED BY <2>1, <2>2
  <1> QED BY <1>2, <1>3, <1>4, <1>5 DEF Ahead

\* The poller moves, and nothing of the pages but the causes of their losses.
LEMMA PollerMoves ==
    ASSUME FInv, IInv', Polling', gap \subseteq gap', UNCHANGED <<log, pruned>>,
           UNCHANGED <<posts, sub, hubSeq, hubSubs, streamVars, client, last, stale>>,
           \A s \in Subs : \A r \in 1..Len(log) :
              Ahead(s, r) /\ log[r] \in stale[s] => Ahead(s, r)' \/ Gapped(s, log[r])'
    PROVE  FInv'
  <1>1. StreamTypes'
    BY DEF FInv, StreamTypes, streamVars
  <1>2. ASSUME NEW t \in Subs PROVE Streams(t)' /\ InHub(t)' /\ Behind(t)'
    <2>1. Same(t)
      BY DEF Same, streamVars
    <2>2. Waits(t)
      <3>1. ASSUME NEW k \in Pending(t) \cap stale[t] PROVE k \in Pending(t)' \/ Gapped(t, k)'
        <4>1. PICK r \in 1..Len(log) : Ahead(t, r) /\ log[r] = k
          BY PendingIs DEF FInv
        <4>2. CASE Ahead(t, r)'
          BY <4>1, <4>2, PendingIsNext
        <4> QED BY <4>1, <4>2
      <3>2. \A k : Gapped(t, k) => Gapped(t, k)'
        BY DEF Gapped
      <3> QED BY <3>1, <3>2 DEF Waits
    <2>3. hubSeq' \in Nat /\ hubSeq <= hubSeq'
      BY DEF FInv, StreamTypes
    <2> QED BY <2>1, <2>2, <2>3, SameKeeps, SameBehind
  <1> QED BY <1>1, <1>2 DEF FInv

\* What the numbers of the poller are, from the table and its place in it.
LEMMA PollerFacts ==
    ASSUME FInv
    PROVE  /\ Polling /\ Len(log) \in Nat /\ pruned \in 0..Len(log)
           /\ cursor \in 0..Len(log) /\ row \in 0..Len(log) /\ upto \in 0..Len(log)
           /\ \A r \in 1..Len(log) : log[r] \in Keys
           /\ \A s \in Subs : stale[s] \subseteq Filter[s]
  <1>1. Polling /\ log \in Seq(Keys) /\ Len(log) \in Nat
    BY LenProperties DEF FInv, Polling
  <1>2. \A r \in 1..Len(log) : log[r] \in Keys
    BY <1>1, ElementOfSeq
  <1>3. \A s \in Subs : stale[s] \subseteq Filter[s]
    BY DEF FInv, Streams
  <1> QED BY <1>1, <1>2, <1>3 DEF Polling

LEMMA PollInitStreams ==
    ASSUME FInv, IInv', PollInit PROVE FInv'
  <1>0. /\ Polling /\ Len(log) \in Nat /\ pruned \in 0..Len(log) /\ cursor \in 0..Len(log)
        /\ \A r \in 1..Len(log) : log[r] \in Keys
    BY PollerFacts
  <1>1. /\ pc = "boot" /\ pc' = "idle" /\ cursor' \in {0, Len(log)}
        /\ UNCHANGED <<log, pruned, row, upto, snap, todo, to, registry, client>>
        /\ UNCHANGED <<posts, sub, hubSeq, hubSubs, streamVars, last, stale>>
        /\ gap' = gap \cup UNION {Lost(s, RowKeys(1, cursor'), "late") : s \in Subs}
    BY DEF PollInit, tableVars, regVars, hubVars
  <1>2. Polling'
    BY <1>0, <1>1 DEF Polling
  <1>3. ASSUME NEW s \in Subs, NEW r \in 1..Len(log), Ahead(s, r), log[r] \in stale[s]
        PROVE  Ahead(s, r)' \/ Gapped(s, log[r])'
    <2>1. pruned < r
      BY <1>1, <1>3 DEF Ahead
    <2>2. Read' = cursor'
      BY <1>1 DEF Read
    <2>3. CASE cursor' < r
      BY <1>1, <2>1, <2>2, <2>3 DEF Ahead
    <2>4. CASE r <= cursor'
      <3>1. log[r] \in RowKeys(1, cursor')
        BY <1>0, <1>1, <2>4 DEF RowKeys
      <3>2. Lost(s, RowKeys(1, cursor'), "late") \subseteq gap'
        BY <1>1
      <3>3. log[r] \in RowKeys(1, cursor') \cap stale[s]
        BY <1>3, <3>1
      <3>4. \E g \in gap' : g[1] = s /\ g[2] = log[r]
        BY <3>2, <3>3, LostIs
      <3> QED BY <1>1, <3>4 DEF Gapped
    <2> QED BY <1>0, <1>1, <2>3, <2>4
  <1> QED BY <1>1, <1>2, <1>3, PollerMoves

LEMMA PollReadStreams ==
    ASSUME FInv, IInv', PollRead PROVE FInv'
  <1>0. /\ Polling /\ Len(log) \in Nat /\ pruned \in 0..Len(log) /\ cursor \in 0..Len(log)
    BY PollerFacts
  <1>1. /\ pc = "idle" /\ pc' = "snap" /\ row' = (IF cursor < pruned THEN pruned ELSE cursor) + 1
        /\ row' <= Len(log) /\ upto' = Len(log)
        /\ UNCHANGED <<log, pruned, cursor, snap, todo, to, registry, client>>
        /\ UNCHANGED <<posts, sub, hubSeq, hubSubs, streamVars, last, stale, gap>>
    BY DEF PollRead, tableVars, regVars, hubVars, pageVars
  <1>2. Polling'
    BY <1>0, <1>1 DEF Polling
  <1>3. ASSUME NEW s \in Subs, NEW r \in 1..Len(log), Ahead(s, r)
        PROVE  Ahead(s, r)'
    <2>1. pruned < r /\ cursor < r
      BY <1>1, <1>3 DEF Ahead, Read
    <2>2. row' <= r /\ r <= upto'
      BY <1>0, <1>1, <2>1
    <2> QED BY <1>1, <2>2 DEF Ahead
  <1> QED BY <1>1, <1>2, <1>3, PollerMoves

\* A page that is published too late is not told of the rows of this poll.
LEMMA PollSnapshotStreams ==
    ASSUME FInv, IInv', PollSnapshot PROVE FInv'
  <1>0. /\ Polling /\ Len(log) \in Nat /\ row \in 0..Len(log) /\ upto \in 0..Len(log)
        /\ registry \subseteq Subs
    BY PollerFacts DEF FInv, IInv, Tables
  <1>1. /\ pc = "snap" /\ snap' = registry /\ NextPair(registry, registry)
        /\ gap' = gap \cup UNION {Lost(s, RowKeys(row, upto), "late") : s \in Subs \ registry}
        /\ UNCHANGED <<log, pruned, upto, to, registry, client>>
        /\ UNCHANGED <<posts, sub, hubSeq, hubSubs, streamVars, last, stale>>
    BY DEF PollSnapshot, tableVars, regVars, hubVars
  <1>2. Polling'
    <2>1. /\ pc' \in {"fan", "idle"} /\ cursor' \in 0..Len(log) /\ row' \in 0..Len(log) /\ row' # 0
          /\ todo' \subseteq registry
      BY <1>0, <1>1 DEF NextPair, Polling
    <2> QED BY <1>0, <1>1, <2>1 DEF Polling
  <1>3. ASSUME NEW s \in Subs, NEW r \in 1..Len(log), Ahead(s, r), log[r] \in stale[s]
        PROVE  Ahead(s, r)' \/ Gapped(s, log[r])'
    <2>1. Read = upto /\ Read' = upto
      BY <1>1 DEF Read, NextPair
    <2>2. CASE Read < r /\ pruned < r
      BY <1>1, <2>1, <2>2 DEF Ahead
    <2>3. CASE row <= r /\ r <= upto /\ s \notin registry
      <3>1. log[r] \in RowKeys(row, upto)
        BY <1>0, <2>3 DEF RowKeys
      <3>2. Lost(s, RowKeys(row, upto), "late") \subseteq gap'
        BY <1>1, <2>3
      <3>3. log[r] \in RowKeys(row, upto) \cap stale[s]
        BY <1>3, <3>1
      <3>4. \E g \in gap' : g[1] = s /\ g[2] = log[r]
        BY <3>2, <3>3, LostIs
      <3> QED BY <1>1, <3>4 DEF Gapped
    <2>4. CASE row <= r /\ r <= upto /\ s \in registry
      <3>1. pc' = "fan" /\ todo' = registry /\ row' = row
        BY <1>1, <2>4 DEF NextPair
      <3> QED BY <1>0, <1>1, <2>4, <3>1 DEF Ahead
    <2> QED BY <1>1, <1>3, <2>2, <2>3, <2>4 DEF Ahead
  <1> QED BY <1>1, <1>2, <1>3, PollerMoves

LEMMA NextPairPolling ==
    ASSUME Polling, pc \in {"fan", "deliver"}, NEW t, NextPair(todo \ {t}, snap),
           UNCHANGED <<log, pruned, upto, snap, registry, client>>
    PROVE  Polling'
  <1>1. /\ Len(log) \in Nat
    BY LenProperties DEF Polling
  <1>2. /\ pc' \in {"fan", "idle"} /\ cursor' \in 0..Len(log) /\ row' \in 0..Len(log) /\ row' # 0
        /\ todo' \subseteq snap
    BY <1>1 DEF NextPair, Polling
  <1> QED BY <1>2 DEF Polling

\* A row that is not delivered to page t is lost to it for a cause.
LEMMA FanSkips ==
    ASSUME FInv, IInv', NEW t \in Subs, pc = "fan", t \in todo, NextPair(todo \ {t}, snap), NEW cause,
           gap' = gap \cup Lost(t, {log[row]} \cap Filter[t], cause),
           UNCHANGED <<tableVars, upto, snap, regVars, hubVars, streamVars, client, last, stale>>
    PROVE  FInv'
  <1>0. Polling /\ \A s \in Subs : stale[s] \subseteq Filter[s]
    BY PollerFacts
  <1>1. /\ UNCHANGED <<log, pruned, upto, snap, registry, client>>
        /\ UNCHANGED <<posts, sub, hubSeq, hubSubs, streamVars, last, stale>>
    BY DEF tableVars, regVars, hubVars
  <1>2. Polling'
    BY <1>0, <1>1, NextPairPolling
  <1>3. ASSUME NEW s \in Subs, NEW r \in 1..Len(log), Ahead(s, r), log[r] \in stale[s]
        PROVE  Ahead(s, r)' \/ Gapped(s, log[r])'
    <2>1. CASE s = t /\ r = row
      <3> DEFINE ks == {log[row]} \cap Filter[t]
      <3>0. PICK k : k = log[r]
        OBVIOUS
      <3>1. k \in ks \cap stale[t] /\ Lost(t, ks, cause) \subseteq gap'
        BY <1>0, <1>3, <2>1, <3>0
      <3> HIDE DEF ks
      <3>2. \E g \in gap' : g[1] = t /\ g[2] = k
        <4>1. <<t, k, cause>> \in gap'
          BY <3>1 DEF Lost
        <4>2. <<t, k, cause>>[1] = t /\ <<t, k, cause>>[2] = k
          OBVIOUS
        <4> QED BY <4>1, <4>2
      <3>3. \E g \in gap' : g[1] = t /\ g[2] = log[r]
        BY <3>0, <3>2
      <3> QED BY <1>1, <2>1, <3>3 DEF Gapped
    <2>2. CASE s # t \/ r # row
      BY <1>0, <1>1, <1>3, <2>2, NextPairAhead
    <2> QED BY <2>1, <2>2
  <1> QED BY <1>1, <1>2, <1>3, PollerMoves

LEMMA FanMatchStreams ==
    ASSUME FInv, IInv', NEW t \in Subs, FanMatch(t) \/ FanError(t) PROVE FInv'
  <1>1. CASE FanError(t)
    BY <1>1, FanSkips DEF FanError
  <1>2. CASE FanMatch(t) /\ NextPair(todo \ {t}, snap)
             /\ gap' = gap \cup Lost(t, {log[row]} \cap Filter[t], "coalesced")
    BY <1>2, FanSkips DEF FanMatch
  <1>3. CASE /\ FanMatch(t)
             /\ pc' = "deliver" /\ to' = t /\ UNCHANGED <<row, cursor, todo, gap>>
    <2>0. Polling
      BY PollerFacts
    <2>1. /\ pc = "fan" /\ t \in todo /\ UNCHANGED <<log, pruned, upto, snap, registry, client>>
          /\ UNCHANGED <<posts, sub, hubSeq, hubSubs, streamVars, last, stale>>
      BY <1>3 DEF FanMatch, tableVars, regVars, hubVars
    <2>2. Polling'
      BY <1>3, <2>0, <2>1 DEF Polling
    <2>3. \A s \in Subs : \A r \in 1..Len(log) : Ahead(s, r) => Ahead(s, r)'
      BY <1>3, <2>1 DEF Ahead, Read
    <2> QED BY <1>3, <2>1, <2>2, <2>3, PollerMoves
  <1> QED BY <1>1, <1>2, <1>3 DEF FanMatch

-----------------------------------------------------------------------------
(* Rows are committed.                                                     *)

LEMMA OnceEach ==
    ASSUME NEW S, IsFiniteSet(S), NEW K, S \subseteq K, NEW p \in SetToSeqs(S)
    PROVE  p \in Seq(K)
  <1>1. Cardinality(S) \in Nat
    BY FS_CardinalityType
  <1>2. p \in [1..Cardinality(S) -> S]
    BY DEF SetToSeqs
  <1> QED BY <1>1, <1>2

LEMMA EmittedKeys ==
    ASSUME NEW ks \in SUBSET Sessions, NEW rollup, NEW status \in SUBSET SourceKeys,
           NEW rows \in Emitted(ks, rollup, status)
    PROVE  rows \in Seq(Keys)
  <1>1. IsFiniteSet(ks) /\ IsFiniteSet(status) /\ ks \subseteq Keys /\ status \subseteq Keys
    BY FS_Subset, FeedAssumption DEF Keys
  <1> DEFINE m == IF ks # {} \/ rollup THEN <<Stats>> ELSE <<>>
  <1>2. PICK p \in SetToSeqs(ks), q \in SetToSeqs(status) : rows = p \o m \o q
    BY DEF Emitted
  <1>3. p \in Seq(Keys) /\ q \in Seq(Keys)
    BY <1>1, OnceEach
  <1>4. m \in Seq(Keys)
    <2>1. Stats \in Keys
      BY DEF Keys
    <2> QED BY <2>1
  <1> HIDE DEF m
  <1>5. p \o m \in Seq(Keys)
    BY <1>3, <1>4, ConcatProperties
  <1>6. (p \o m) \o q \in Seq(Keys)
    BY <1>3, <1>5, ConcatProperties
  <1> QED BY <1>2, <1>6

LEMMA CommitStreams ==
    ASSUME FInv, IInv', Commit PROVE FInv'
  <1>0. /\ Polling /\ Len(log) \in Nat /\ pruned \in 0..Len(log) /\ log \in Seq(Keys)
        /\ cursor \in 0..Len(log) /\ row \in 0..Len(log) /\ upto \in 0..Len(log)
        /\ \A r \in 1..Len(log) : log[r] \in Keys
        /\ Read \in 0..Len(log)
    BY PollerFacts DEF Polling, Read
  <1>1. PICK ks \in SUBSET Sessions, rollup \in BOOLEAN, status \in SUBSET SourceKeys :
          \E rows \in Emitted(ks, rollup, status) :
             /\ rows # <<>> /\ Len(log) + Len(rows) <= MaxSeq
             /\ log' = log \o rows
             /\ stale' = [s \in Subs |->
                   IF Mounted(s) THEN stale[s] \cup (Range(rows) \cap Filter[s]) ELSE {}]
    BY Zenon DEF Commit
  <1>2. PICK rows \in Seq(Keys) :
             /\ log' = log \o rows
             /\ stale' = [s \in Subs |->
                   IF Mounted(s) THEN stale[s] \cup (Range(rows) \cap Filter[s]) ELSE {}]
    BY <1>1, EmittedKeys
  <1>3. PICK p \in pruned..Len(log) :
             /\ pruned' = p
             /\ gap' = gap \cup UNION {Lost(s, RowKeys(Read + 1, p), "pruned") : s \in Subs}
    BY DEF Commit
  <1>4. /\ UNCHANGED <<pollVars, pc, cursor, row, upto, snap, todo, to, registry, client, posts>>
        /\ UNCHANGED <<sub, hubSeq, hubSubs, streamVars, net, handler, last>>
    BY DEF Commit, pollVars, regVars, hubVars, streamVars
  <1>5. /\ log' \in Seq(Keys) /\ Len(log') = Len(log) + Len(rows) /\ Len(rows) \in Nat
        /\ \A r \in 1..Len(log) : log'[r] = log[r]
        /\ \A i \in 1..Len(rows) : Len(log) + i \in 1..Len(log') /\ log'[Len(log) + i] = rows[i]
    <2>1. /\ log \o rows \in Seq(Keys) /\ Len(log \o rows) = Len(log) + Len(rows)
          /\ \A i \in 1..Len(log) + Len(rows) :
                (log \o rows)[i] = IF i <= Len(log) THEN log[i] ELSE rows[i - Len(log)]
      BY <1>0, ConcatProperties
    <2>2. Len(rows) \in Nat
      BY LenProperties
    <2>3. ASSUME NEW i \in 1..Len(rows)
          PROVE  Len(log) + i \in 1..Len(log) + Len(rows) /\ ~(Len(log) + i <= Len(log))
                 /\ (Len(log) + i) - Len(log) = i
      BY <1>0, <2>2
    <2>4. \A r \in 1..Len(log) : r \in 1..Len(log) + Len(rows) /\ r <= Len(log)
      BY <1>0, <2>2
    <2> DEFINE L == log \o rows
               n == Len(log)
               m == Len(rows)
    <2> HIDE DEF L, n, m
    <2>5. \A i \in 1..m : L[n + i] = rows[i]
      BY <2>1, <2>3 DEF L, n, m
    <2>6. \A r \in 1..n : L[r] = log[r]
      BY <2>1, <2>4 DEF L, n, m
    <2> QED BY <1>2, <2>1, <2>2, <2>3, <2>5, <2>6 DEF L, n, m
  <1>6. Range(rows) = {rows[i] : i \in 1..Len(rows)}
    BY DEF Range
  <1> HIDE DEF Range
  <1>7. /\ stale' \in [Subs -> SUBSET Keys]
        /\ \A s \in Subs : /\ stale'[s] \subseteq Filter[s]
                           /\ \A k \in stale'[s] : Mounted(s) /\ (k \in stale[s] \/ k \in Range(rows))
    <2>1. \A s \in Subs : Filter[s] \subseteq Keys /\ stale[s] \subseteq Filter[s]
      BY PollerFacts, FeedAssumption
    <2>2. \A s \in Subs : stale'[s] = IF Mounted(s) THEN stale[s] \cup (Range(rows) \cap Filter[s]) ELSE {}
      BY <1>2
    <2>3. \A s \in Subs : stale'[s] \subseteq Filter[s]
      BY <2>1, <2>2
    <2>4. stale' \in [Subs -> SUBSET Keys]
      <3>1. \A s \in Subs : stale'[s] \in SUBSET Keys
        BY <2>1, <2>3
      <3> DEFINE e(s) == IF Mounted(s) THEN stale[s] \cup (Range(rows) \cap Filter[s]) ELSE {}
      <3>2. stale' = [s \in Subs |-> e(s)]
        BY <1>2
      <3> HIDE DEF e
      <3> QED BY <3>1, <3>2
    <2> QED BY <2>2, <2>3, <2>4
  <1>8. Polling'
    <2>1. pruned' \in 0..Len(log') /\ cursor' \in 0..Len(log') /\ row' \in 0..Len(log') /\ upto' \in 0..Len(log')
      BY <1>0, <1>3, <1>4, <1>5
    <2> QED BY <1>0, <1>4, <1>5, <2>1 DEF Polling
  <1>9. StreamTypes'
    BY <1>4, <1>7 DEF FInv, StreamTypes
  <1>10. Read' = Read
    BY <1>4 DEF Read
  <1>11. ASSUME NEW s \in Subs PROVE Streams(s)' /\ InHub(s)'
    <2>1. Streams(s) /\ InHub(s)
      BY DEF FInv
    <2>2. Streams(s)'
      <3>1. client[s] = "new" => stale'[s] = {}
        BY <1>7 DEF Mounted
      <3>2. stale'[s] \subseteq Filter[s]
        BY <1>7
      <3> QED BY <1>4, <2>1, <3>1, <3>2 DEF Streams
    <2> QED BY <1>4, <2>1, <2>2 DEF InHub
  <1>12. ASSUME NEW s \in Subs, NEW k \in stale'[s], Served(s) PROVE
             \/ k \in Pending(s)' \/ Gapped(s, k)'
             \/ Reaches(sub[s], net[s], handler[s].out, last[s], client[s], k)
    <2>1. CASE k \in Range(rows)
      <3>1. PICK i \in 1..Len(rows) : rows[i] = k
        BY <1>6, <2>1
      <3>2. PICK r \in 1..Len(log') : r = Len(log) + i /\ log'[r] = k
        BY <1>5, <3>1
      <3>3. Read' < r /\ pruned' < r
        BY <1>0, <1>3, <1>5, <1>10, <3>2
      <3>4. Ahead(s, r)'
        BY <3>3 DEF Ahead
      <3> QED BY <1>8, <3>2, <3>4, PendingIsNext
    <2>2. CASE k \in stale[s]
      <3>0. Behind(s)
        BY DEF FInv
      <3>1. CASE Gapped(s, k)
        BY <1>3, <3>1 DEF Gapped
      <3>2. CASE k \in Pending(s)
        <4>1. PICK r \in 1..Len(log) : Ahead(s, r) /\ log[r] = k
          BY <1>0, <3>2, PendingIs
        <4>2. r \in 1..Len(log') /\ log'[r] = k
          BY <1>0, <1>5, <4>1
        <4>3. CASE Ahead(s, r)'
          BY <1>8, <4>2, <4>3, PendingIsNext
        <4>4. CASE ~Ahead(s, r)'
          <5>1. Read < r /\ r <= p
            BY <1>0, <1>3, <1>4, <1>10, <4>1, <4>4 DEF Ahead
          <5>2. k \in RowKeys(Read + 1, p)
            BY <1>0, <4>1, <5>1 DEF RowKeys
          <5>3. Lost(s, RowKeys(Read + 1, p), "pruned") \subseteq gap'
            BY <1>3
          <5> DEFINE K == RowKeys(Read + 1, p)
          <5>4. k \in K \cap stale[s] /\ Lost(s, K, "pruned") \subseteq gap'
            BY <2>2, <5>2, <5>3
          <5> HIDE DEF K
          <5>5. \E g \in gap' : g[1] = s /\ g[2] = k
            BY <5>4, LostIs
          <5> QED BY <5>5 DEF Gapped
        <4> QED BY <4>3, <4>4
      <3> QED BY <1>12, <2>2, <3>0, <3>1, <3>2 DEF Behind
    <2> QED BY <1>7, <2>1, <2>2
  <1>13. ASSUME NEW s \in Subs PROVE Behind(s)'
    BY <1>4, <1>12 DEF Behind, Served
  <1> QED BY <1>8, <1>9, <1>11, <1>13 DEF FInv

-----------------------------------------------------------------------------
(* Events enter the hub.                                                   *)

LEMMA EnqueueStreams ==
    ASSUME FInv, NEW s \in Subs, s \in hubSubs, NEW ev \in Frame,
           hubSeq' \in Nat, hubSeq < ev.id, ev.id <= hubSeq', sub'[s] = Enqueue(sub[s], ev),
           UNCHANGED <<net, handler, client, last, stale, posts, hubSubs>>,
           gap \subseteq gap', Dropped(s) \subseteq gap',
           \A k \in Pending(s) \cap stale[s] : k \in Pending(s)' \/ k = ev.key
    PROVE  Fits(s)' /\ Streams(s)' /\ InHub(s)' /\ Behind(s)'
  <1>0. /\ Fits(s) /\ Streams(s) /\ InHub(s) /\ Behind(s) /\ hubSeq \in Nat
    BY PageFacts
  <1> DEFINE r == sub[s]
             x == sub'[s]
  <1>1. /\ r \in Hubs /\ Len(r.ch) <= ChannelCap /\ net[s] \in Seq(Frame)
        /\ handler[s].out \in Seq(Frame) /\ last[s] \in Nat
    BY <1>0 DEF Fits
  <1>2. Ordered(r, net[s], handler[s].out, last[s], hubSeq)
    BY <1>0 DEF InHub
  <1>3. /\ x \in Hubs /\ Len(x.ch) <= ChannelCap
        /\ Ordered(x, net[s], handler[s].out, last[s], hubSeq')
        /\ ~Covered(r, last[s]) => ~Covered(x, last[s])
        /\ x.attached = r.attached
        /\ \A f \in Frames(x.ch) : f.id # 0
    <2>1. PICK q, wire, out, id, n, m : /\ q = r /\ wire = net[s] /\ out = handler[s].out
                                        /\ id = last[s] /\ n = hubSeq /\ m = hubSeq'
      OBVIOUS
    <2>2. /\ q \in Hubs /\ wire \in Seq(Frame) /\ out \in Seq(Frame) /\ id \in Nat /\ n \in Nat
          /\ m \in Nat /\ n < ev.id /\ ev.id <= m /\ Ordered(q, wire, out, id, n)
          /\ Len(q.ch) <= ChannelCap
      BY <1>0, <1>1, <1>2, <2>1
    <2>3. /\ Enqueue(q, ev) \in Hubs /\ Len(Enqueue(q, ev).ch) <= ChannelCap
          /\ Ordered(Enqueue(q, ev), wire, out, id, m)
          /\ ~Covered(q, id) => ~Covered(Enqueue(q, ev), id)
          /\ Enqueue(q, ev).attached = q.attached
          /\ \A f \in Frames(Enqueue(q, ev).ch) : f.id # 0
      BY <2>2, EnqueueKeeps
    <2>4. x = Enqueue(q, ev)
      BY <2>1
    <2> HIDE DEF x
    <2> QED BY <2>1, <2>3, <2>4
  <1>4. client[s] # "new" /\ s \notin posts
    BY DEF FInv, IInv, NotYet
  <1> HIDE DEF x, r
  <1>5. Fits(s)'
    BY <1>0, <1>1, <1>3 DEF Fits, x
  <1>6. Streams(s)'
    BY <1>0, <1>3, <1>4 DEF Streams, x
  <1>7. InHub(s)'
    <2>1. client[s] = "open" => /\ x.attached /\ handler[s].on
                                /\ Resyncs(x, net[s], handler[s].out, last[s])
      BY <1>0, <1>3 DEF InHub, Resyncs, r
    <2> QED BY <1>3, <2>1 DEF InHub, x
  <1>8. ASSUME Served(s), NEW k \in stale[s]
        PROVE  \/ k \in Pending(s)' \/ Gapped(s, k)'
               \/ Reaches(x, net[s], handler[s].out, last[s], client[s], k)
    <2>1. client[s] \in {"posting", "answered", "connecting", "open"}
      BY <1>8 DEF Served
    <2>2. /\ client[s] \in {"posting", "answered"} => last[s] = 0
          /\ client[s] = "open" => r.attached
      BY <1>0 DEF Streams, InHub, r
    <2>3. PICK q, wire, out, id, n, c : /\ q = r /\ wire = net[s] /\ out = handler[s].out
                                        /\ id = last[s] /\ n = hubSeq /\ c = client[s]
      OBVIOUS
    <2>4. /\ Reaches(x, wire, out, id, c, ev.key)
          /\ \A j : Reaches(q, wire, out, id, c, j) =>
                \/ Reaches(x, wire, out, id, c, j)
                \/ Len(q.ch) = ChannelCap /\ (q.attached \/ id = 0) /\ j = Head(q.ch).key
      <3>1. /\ q \in Hubs /\ wire \in Seq(Frame) /\ out \in Seq(Frame) /\ id \in Nat /\ n \in Nat
            /\ n < ev.id /\ Ordered(q, wire, out, id, n) /\ Len(q.ch) <= ChannelCap
            /\ c \in {"posting", "answered", "connecting", "open"}
            /\ c \in {"posting", "answered"} => id = 0
            /\ c = "open" => q.attached
        BY <1>0, <1>1, <1>2, <2>1, <2>2, <2>3
      <3>2. Enqueue(q, ev) = x
        BY <2>3 DEF r, x
      <3> QED BY <3>1, <3>2, EnqueueReaches
    <2>5. CASE k \in Pending(s)
      BY <1>8, <2>3, <2>4, <2>5
    <2>6. CASE Gapped(s, k)
      BY <2>6 DEF Gapped
    <2>7. CASE Reaches(r, net[s], handler[s].out, last[s], client[s], k)
      <3>1. CASE Len(r.ch) = ChannelCap /\ (r.attached \/ last[s] = 0) /\ k = Head(r.ch).key
        <4> DEFINE K == {Head(r.ch).key}
        <4>1. Dropped(s) = Lost(s, K, "dropped")
          BY <3>1 DEF Dropped, r
        <4>2. k \in K \cap stale[s] /\ Lost(s, K, "dropped") \subseteq gap'
          BY <1>8, <3>1, <4>1
        <4> HIDE DEF K
        <4>3. \E g \in gap' : g[1] = s /\ g[2] = k
          BY <4>2, LostIs
        <4> QED BY <4>3 DEF Gapped
      <3> QED BY <2>3, <2>4, <2>7, <3>1
    <2> QED BY <1>0, <1>8, <2>5, <2>6, <2>7 DEF Behind, r
  <1>9. Behind(s)'
    <2>1. Served(s)' => Served(s)
      BY DEF Served
    <2>2. stale'[s] = stale[s] /\ client'[s] = client[s] /\ net'[s] = net[s] /\ last'[s] = last[s]
          /\ handler'[s] = handler[s]
      OBVIOUS
    <2> QED BY <1>8, <2>1, <2>2 DEF Behind, x
  <1> QED BY <1>5, <1>6, <1>7, <1>9

\* hub.Deliver for one page.
LEMMA FanDeliverStreams ==
    ASSUME FInv, IInv', FanDeliver PROVE FInv'
  <1>0. /\ Polling /\ hubSeq \in Nat /\ row \in 1..Len(log) /\ \A r \in 1..Len(log) : log[r] \in Keys
    <2>1. /\ Polling /\ Len(log) \in Nat /\ row \in 0..Len(log)
          /\ \A r \in 1..Len(log) : log[r] \in Keys
      BY PollerFacts
    <2>2. row # 0
      BY <2>1 DEF Polling, FanDeliver
    <2> QED BY <2>1, <2>2 DEF FInv, StreamTypes
  <1>1. /\ pc = "deliver" /\ NextPair(todo \ {to}, snap)
        /\ UNCHANGED <<log, pruned, upto, snap, registry, client, posts, hubSubs, net, handler, last, stale>>
    BY DEF FanDeliver, tableVars, regVars, streamVars
  <1>2. PICK t \in Subs : t = to /\ t \in snap /\ client[t] \notin {"new", "posting"}
    BY <1>0, <1>1 DEF Polling
  <1>3. Polling'
    BY <1>0, <1>1, NextPairPolling
  <1>4. ASSUME NEW s \in Subs, NEW k \in Pending(s) PROVE k \in Pending(s)' \/ (s = t /\ k = log[row])
    <2>1. PICK r \in 1..Len(log) : Ahead(s, r) /\ log[r] = k
      BY <1>0, <1>4, PendingIs
    <2>2. CASE s # to \/ r # row
      <3>1. Ahead(s, r)'
        BY <1>0, <1>1, <2>1, <2>2, NextPairAhead
      <3> QED BY <1>1, <1>3, <2>1, <3>1, PendingIsNext
    <2> QED BY <1>2, <2>1, <2>2
  <1>5. \A s \in Subs \ {t} : \A k : /\ k \in Pending(s) => k \in Pending(s)'
    BY <1>4
  <1>6. CASE t \in hubSubs
    <2> DEFINE ev == [id |-> hubSeq + 1, key |-> log[row]]
    <2>1. /\ hubSeq' = hubSeq + 1 /\ sub' = [sub EXCEPT ![t] = Enqueue(sub[t], ev)]
          /\ gap' = gap \cup Dropped(t)
      BY <1>2, <1>6 DEF FanDeliver
    <2>2. ev \in Frame /\ ev.id = hubSeq + 1 /\ ev.key = log[row]
      BY <1>0 DEF Frame
    <2>3. PICK e \in Frame : e = ev
      BY <2>2
    <2> HIDE DEF ev
    <2>4. sub'[t] = Enqueue(sub[t], e) /\ \A s \in Subs \ {t} : sub'[s] = sub[s]
      BY <2>1, <2>3 DEF FInv, StreamTypes
    <2>5. Fits(t)' /\ Streams(t)' /\ InHub(t)' /\ Behind(t)'
      <3>1. /\ t \in hubSubs /\ hubSeq < e.id /\ e.id <= hubSeq'
            /\ hubSeq' \in Nat /\ Dropped(t) \subseteq gap' /\ gap \subseteq gap'
        BY <1>0, <1>6, <2>1, <2>2, <2>3
      <3>2. \A k \in Pending(t) \cap stale[t] : k \in Pending(t)' \/ k = e.key
        BY <1>4, <2>2, <2>3
      <3>3. UNCHANGED <<net, handler, client, last, stale, posts, hubSubs>>
        BY <1>1
      <3> QED BY <2>4, <3>1, <3>2, <3>3, EnqueueStreams
    <2>6. ASSUME NEW s \in Subs, s # t PROVE Streams(s)' /\ InHub(s)' /\ Behind(s)'
      <3>1. Same(s)
        BY <1>1, <2>4, <2>6 DEF Same
      <3>2. Waits(s)
        BY <1>5, <2>1, <2>6 DEF Waits, Gapped
      <3>3. hubSeq' \in Nat /\ hubSeq <= hubSeq'
        BY <1>0, <2>1
      <3> QED BY <3>1, <3>2, <3>3, SameKeeps, SameBehind
    <2>7. StreamTypes'
      <3>1. sub' \in [Subs -> Hubs]
        <4>1. Enqueue(sub[t], e) \in Hubs
          BY <2>4, <2>5 DEF Fits
        <4> HIDE DEF Hubs
        <4> QED BY <2>1, <2>3, <4>1 DEF FInv, StreamTypes
      <3>2. \A s \in Subs : handler'[s].out \in Seq(Frame) /\ Len(sub'[s].ch) <= ChannelCap
        BY <1>1, <2>4, <2>5 DEF Fits, FInv, StreamTypes
      <3>3. hubSeq' \in Nat
        BY <1>0, <2>1
      <3> HIDE DEF Hubs
      <3> QED BY <1>1, <3>1, <3>2, <3>3 DEF FInv, StreamTypes
    <2> QED BY <1>3, <2>5, <2>6, <2>7 DEF FInv
  <1>7. CASE t \notin hubSubs
    <2>1. UNCHANGED <<hubSeq, sub, gap>>
      BY <1>2, <1>7 DEF FanDeliver
    <2>2. StreamTypes'
      BY <1>1, <2>1 DEF FInv, StreamTypes
    <2>3. ASSUME NEW s \in Subs PROVE Streams(s)' /\ InHub(s)'
      BY <1>1, <2>1 DEF FInv, Streams, InHub
    <2>4. ASSUME NEW s \in Subs PROVE Behind(s)'
      <3>1. CASE s = t
        <4>1. ~Served(s)'
          BY <1>1, <1>2, <1>7, <3>1 DEF Served
        <4> QED BY <4>1 DEF Behind
      <3>2. CASE s # t
        <4>1. Same(s)
          BY <1>1, <2>1 DEF Same
        <4>2. Waits(s)
          BY <1>5, <2>1, <3>2 DEF Waits, Gapped
        <4> QED BY <4>1, <4>2, SameBehind
      <3> QED BY <3>1, <3>2
    <2> QED BY <1>3, <2>2, <2>3, <2>4 DEF FInv
  <1> QED BY <1>6, <1>7

\* Every subscription has its place in the order the hub goes through them.
LEMMA PlaceInOrder ==
    ASSUME NEW S, IsFiniteSet(S)
    PROVE  /\ Len(SetToSeq(S)) \in Nat
           /\ \A s \in S : (CHOOSE i \in 1..Len(SetToSeq(S)) : SetToSeq(S)[i] = s) \in 1..Len(SetToSeq(S))
  <1> DEFINE n == Cardinality(S)
             ids == SetToSeq(S)
  <1>1. n \in Nat /\ ExistsBijection(1..n, S)
    BY FS_CardinalityType
  <1>2. \E f \in [1..n -> S] : IsInjective(f)
    BY <1>1 DEF ExistsBijection, Bijection, Injection, IsInjective
  <1>3. ids \in [1..n -> S] /\ IsInjective(ids)
    BY <1>2 DEF SetToSeq
  <1> HIDE DEF ids, n
  <1>4. Len(ids) = n
    BY <1>1, <1>3
  <1>5. ids \in Injection(1..n, S)
    BY <1>3 DEF Injection, IsInjective
  <1>6. IsFiniteSet(1..n) /\ Cardinality(1..n) = Cardinality(S)
    BY <1>1, FS_Interval DEF n
  <1>7. ids \in Surjection(1..n, S)
    BY <1>5, <1>6, FS_Injection
  <1>8. \A s \in S : \E i \in 1..n : ids[i] = s
    BY <1>7 DEF Surjection
  <1>9. \A s \in S : (CHOOSE i \in 1..n : ids[i] = s) \in 1..n
    BY <1>8
  <1> QED BY <1>1, <1>4, <1>9 DEF ids

LEMMA BroadcastStreams ==
    ASSUME FInv, IInv', Broadcast PROVE FInv'
  <1>0. hubSeq \in Nat /\ hubSubs \subseteq Subs /\ IsFiniteSet(hubSubs) /\ sub \in [Subs -> Hubs]
    BY DEF FInv, StreamTypes, IInv, Tables
  <1> DEFINE ids == SetToSeq(hubSubs)
             place(s) == CHOOSE i \in 1..Len(ids) : ids[i] = s
             ev(s) == [id |-> hubSeq + place(s), key |-> Disconnect]
  <1>1. /\ hubSeq' = hubSeq + Len(ids)
        /\ sub' = [s \in Subs |-> IF s \notin hubSubs THEN sub[s] ELSE Enqueue(sub[s], ev(s))]
        /\ gap' = gap \cup UNION {Dropped(s) : s \in hubSubs}
        /\ UNCHANGED <<tableVars, pollVars, posts, hubSubs, net, handler, client, last, stale, registry>>
    BY DEF Broadcast, regVars, streamVars
  <1>2. Len(ids) \in Nat /\ \A s \in hubSubs : place(s) \in 1..Len(ids)
    BY <1>0, PlaceInOrder
  <1> HIDE DEF ids, place
  <1>3. \A s \in hubSubs : ev(s) \in Frame /\ hubSeq < ev(s).id /\ ev(s).id <= hubSeq'
    BY <1>0, <1>1, <1>2 DEF Frame
  <1> HIDE DEF ev
  <1>4. hubSeq' \in Nat /\ hubSeq <= hubSeq'
    BY <1>0, <1>1, <1>2
  <1>5. ASSUME NEW s \in Subs, s \in hubSubs
        PROVE  Fits(s)' /\ Streams(s)' /\ InHub(s)' /\ Behind(s)'
    <2>1. PICK e \in Frame : e = ev(s)
      BY <1>3, <1>5
    <2>2. /\ hubSeq < e.id /\ e.id <= hubSeq' /\ sub'[s] = Enqueue(sub[s], e)
          /\ Dropped(s) \subseteq gap' /\ gap \subseteq gap'
      BY <1>1, <1>3, <1>5, <2>1
    <2>3. \A k \in Pending(s) \cap stale[s] : k \in Pending(s)' \/ k = e.key
      BY <1>1, PollerStill
    <2>4. UNCHANGED <<net, handler, client, last, stale, posts, hubSubs>>
      BY <1>1
    <2> QED BY <1>4, <1>5, <2>2, <2>3, <2>4, EnqueueStreams
  <1>6. ASSUME NEW s \in Subs, s \notin hubSubs
        PROVE  Streams(s)' /\ InHub(s)' /\ Behind(s)'
    <2>1. Same(s)
      BY <1>1, <1>6 DEF Same
    <2>2. Waits(s)
      BY <1>1, PollerStill DEF Waits, Gapped
    <2> QED BY <1>4, <2>1, <2>2, SameKeeps, SameBehind
  <1>7. StreamTypes'
    <2>1. \A s \in Subs : sub'[s] \in Hubs /\ Len(sub'[s].ch) <= ChannelCap
      <3> SUFFICES ASSUME NEW s \in Subs PROVE sub'[s] \in Hubs /\ Len(sub'[s].ch) <= ChannelCap
        OBVIOUS
      <3>1. CASE s \in hubSubs
        BY <1>5, <3>1 DEF Fits
      <3>2. CASE s \notin hubSubs
        <4>1. sub'[s] = sub[s]
          BY <1>1, <3>2
        <4> HIDE DEF Hubs
        <4> QED BY <1>0, <4>1 DEF FInv, StreamTypes
      <3> QED BY <3>1, <3>2
    <2>2. sub' \in [Subs -> Hubs]
      <3> DEFINE x(s) == IF s \notin hubSubs THEN sub[s] ELSE Enqueue(sub[s], ev(s))
      <3>1. sub' = [s \in Subs |-> x(s)]
        BY <1>1
      <3> HIDE DEF x, Hubs
      <3> QED BY <2>1, <3>1
    <2> HIDE DEF Hubs
    <2> QED BY <1>1, <1>4, <2>1, <2>2 DEF FInv, StreamTypes
  <1>8. Polling'
    BY <1>1 DEF FInv, Polling, tableVars, pollVars
  <1> QED BY <1>5, <1>6, <1>7, <1>8 DEF FInv

-----------------------------------------------------------------------------
(* The process ends, and the beginning.                                    *)

LEMMA NewSubIs == NewSub \in Hubs /\ NewSub.ch = <<>> /\ NewSub.ring = <<>> /\ Len(NewSub.ch) <= ChannelCap
  <1> DEFINE F == Seq(Frame)
  <1>1. <<>> \in F /\ Len(<<>>) = 0
    BY EmptySeq
  <1>2. NewSub.ch = <<>> /\ NewSub.ring = <<>>
    BY DEF NewSub
  <1>3. NewSub \in [ch : F, ring : F, attached : BOOLEAN, gen : Nat]
    <2> HIDE DEF F
    <2>1. FALSE \in BOOLEAN /\ 0 \in Nat
      OBVIOUS
    <2> QED BY <1>1, <2>1, Zenon DEF NewSub
  <1> QED BY <1>1, <1>2, <1>3, FeedAssumption DEF Hubs

LEMMA ExitStreams ==
    ASSUME FInv, IInv', Exit PROVE FInv'
  <1>1. /\ pc' = "boot" /\ cursor' = 0 /\ row' = 0 /\ upto' = 0 /\ snap' = {} /\ todo' = {}
        /\ sub' = [s \in Subs |-> NewSub] /\ hubSeq' = 0 /\ posts' = {}
        /\ handler' = [s \in Subs |-> [on |-> FALSE, out |-> <<>>]]
        /\ client' = [s \in Subs |-> IF client[s] = "posting" THEN "failed" ELSE client[s]]
        /\ UNCHANGED <<log, pruned, registry, hubSubs, net, last, stale, gap>>
    BY DEF Exit, tableVars
  <1>2. hubSubs = {} /\ registry = {}
    BY DEF FInv, IInv, Stages, Exit
  <1>3. Polling'
    <2>1. Len(log) \in Nat
      BY PollerFacts
    <2> QED BY <1>1, <1>2, <2>1 DEF FInv, Polling
  <1>4. \A s \in Subs : /\ sub'[s] = NewSub /\ handler'[s].out = <<>>
                        /\ client'[s] = (IF client[s] = "posting" THEN "failed" ELSE client[s])
    BY <1>1
  <1>5. StreamTypes'
    <2>1. sub' \in [Subs -> Hubs]
      <3> HIDE DEF NewSub, Hubs
      <3> QED BY <1>1, NewSubIs
    <2>2. \A s \in Subs : handler'[s].out \in Seq(Frame) /\ Len(sub'[s].ch) <= ChannelCap
      BY <1>4, NewSubIs, NoFrames
    <2> HIDE DEF Hubs
    <2> QED BY <1>1, <2>1, <2>2 DEF FInv, StreamTypes
  <1>6. ASSUME NEW s \in Subs PROVE Streams(s)' /\ InHub(s)' /\ Behind(s)'
    <2>1. Streams(s)
      BY DEF FInv
    <2>2. Streams(s)'
      BY <1>1, <1>4, <2>1, NewSubIs, NoFrames DEF Streams
    <2>3. InHub(s)'
      BY <1>1, <1>2 DEF InHub
    <2>4. Behind(s)'
      BY <1>1, <1>2, <1>4 DEF Behind, Served
    <2> QED BY <2>2, <2>3, <2>4
  <1> QED BY <1>3, <1>5, <1>6 DEF FInv

LEMMA FeedInit ==
    ASSUME Init PROVE FInv
  <1>1. IInv
    BY InitHolds
  <1>2. Polling
    BY DEF Init, Polling
  <1>3. StreamTypes
    <2>1. sub \in [Subs -> Hubs]
      <3> HIDE DEF NewSub, Hubs
      <3> QED BY NewSubIs DEF Init
    <2>2. \A s \in Subs : handler[s].out \in Seq(Frame) /\ Len(sub[s].ch) <= ChannelCap
      BY NewSubIs, NoFrames DEF Init
    <2>3. net \in [Subs -> Seq(Frame)] /\ last \in [Subs -> Nat] /\ stale \in [Subs -> SUBSET Keys]
      BY NoFrames DEF Init
    <2>4. IsFiniteSet(hubSubs) /\ hubSeq \in Nat
      BY FS_EmptySet DEF Init
    <2> HIDE DEF Hubs
    <2> QED BY <2>1, <2>2, <2>3, <2>4 DEF StreamTypes
  <1>4. ASSUME NEW s \in Subs PROVE Streams(s) /\ InHub(s) /\ Behind(s)
    <2>1. /\ sub[s] = NewSub /\ net[s] = <<>> /\ handler[s] = [on |-> FALSE, out |-> <<>>]
          /\ client[s] = "new" /\ last[s] = 0 /\ stale[s] = {} /\ hubSubs = {}
      BY DEF Init
    <2> QED BY <2>1, NewSubIs, NoFrames DEF Streams, InHub, Behind
  <1> QED BY <1>1, <1>2, <1>3, <1>4 DEF FInv

LEMMA FInvIsInductive ==
    FInv /\ [Next]_vars => FInv'
  <1> SUFFICES ASSUME FInv, [Next]_vars PROVE FInv'
    OBVIOUS
  <1>0. IInv'
    BY IInvIsInductive DEF FInv
  <1>1. CASE Commit
    BY <1>0, <1>1, CommitStreams
  <1>2. CASE Poller
    <2>1. ASSUME NEW s \in Subs, FanMatch(s) \/ FanError(s) PROVE FInv'
      BY <1>0, <2>1, FanMatchStreams
    <2> QED BY <1>0, <1>2, <2>1, PollInitStreams, PollReadStreams, PollSnapshotStreams,
               FanDeliverStreams DEF Poller
  <1>3. CASE Shutdown \/ StopPoller \/ Restart
    <2>1. CASE RaiseFlag \/ StopPoller \/ Restart
      <3>1. UNCHANGED <<tableVars, pollVars, hubSubs, registry, posts, sub, hubSeq, streamVars, pageVars>>
        BY <2>1 DEF RaiseFlag, StopPoller, Restart, regVars, hubVars
      <3> QED BY <1>0, <3>1, QuietStreams
    <2>2. CASE HubShutdown
      BY <1>0, <2>2, QuietStreams DEF HubShutdown, regVars
    <2>3. CASE RegistryClear
      BY <1>0, <2>3, QuietStreams DEF RegistryClear, hubVars
    <2> QED BY <1>0, <1>3, <2>1, <2>2, <2>3, BroadcastStreams, ExitStreams DEF Shutdown
  <1>4. ASSUME NEW s \in Subs, Server(s) PROVE FInv'
    BY <1>0, <1>4, CreateAddStreams, CreateAnswers DEF Server
  <1>5. ASSUME NEW s \in Subs,
               Deletes(s) \/ TimerFires(s) \/ Callback(s) \/ Hook(s) \/ WindowEnds(s)
        PROVE  FInv'
    <2>1. CASE Deletes(s)
      BY <1>0, <2>1, QuietStreams DEF Deletes, DeleteEntry, DeleteHub, RemoveLocked, hubVars
    <2>2. CASE TimerFires(s)
      BY <1>0, <2>2, QuietStreams DEF TimerFires, regVars
    <2>3. CASE Callback(s)
      BY <1>0, <2>3, QuietStreams DEF Callback, Expire, RemoveLocked, regVars
    <2>4. CASE Hook(s)
      BY <1>0, <2>4, QuietStreams DEF Hook, HookForget, HookCoalesce, regVars
    <2>5. CASE WindowEnds(s)
      BY <1>0, <2>5, QuietStreams DEF WindowEnds, regVars, hubVars
    <2> QED BY <1>5, <2>1, <2>2, <2>3, <2>4, <2>5
  <1>6. ASSUME NEW s \in Subs, Handler(s) PROVE FInv'
    BY <1>0, <1>6, WriteReplayStreams, WriteLiveStreams, HandlerEndStreams DEF Handler
  <1>7. ASSUME NEW s \in Subs, Browser(s) PROVE FInv'
    BY <1>0, <1>7, ClientStreams, AttachStreams, ReceiveStreams DEF Browser
  <1>8. ASSUME NEW s \in Subs, User(s) PROVE FInv'
    BY <1>0, <1>8, MountStreams, ForgottenStreams, BreakStreams DEF User
  <1>9. CASE UNCHANGED vars
    BY <1>0, <1>9, QuietStreams DEF vars, regVars, hubVars
  <1> QED BY <1>1, <1>2, <1>3, <1>4, <1>5, <1>6, <1>7, <1>8, <1>9 DEF Next

\* What a page can still reach is what StaleCovered calls under way.
LEMMA ReachesIsComing ==
    ASSUME FInv, NEW s \in Subs, s \in hubSubs \/ client[s] = "posting",
           NEW k \in Keys, Reaches(sub[s], net[s], handler[s].out, last[s], client[s], k)
    PROVE  k \in Coming(s)
  <1>0. Fits(s) /\ Streams(s) /\ InHub(s) /\ Behind(s) /\ hubSeq \in Nat
    BY PageFacts
  <1>1. CASE k \in KeysOf(sub[s].ch)
    BY <1>1 DEF Coming
  <1>2. CASE client[s] = "connecting" /\ last[s] # 0 /\ ~Covered(sub[s], last[s])
    BY <1>2 DEF Coming
  <1>3. CASE /\ client[s] = "connecting" /\ last[s] # 0 /\ Covered(sub[s], last[s])
             /\ \E f \in Frames(sub[s].ring) : f.id > last[s] /\ f.key = k
    <2>1. Sorted(sub[s].ring) /\ sub[s] \in Hubs /\ last[s] \in Nat \ {0}
      BY <1>0, <1>3 DEF InHub, Ordered, Fits
    <2>2. Frames(ReplaySince(sub[s], last[s])) = {f \in Frames(sub[s].ring) : f.id > last[s]}
      BY <2>1, ReplayIs
    <2>3. k \in KeysOf(ReplaySince(sub[s], last[s]))
      BY <1>3, <2>2, KeysAre
    <2> QED BY <1>3, <2>3 DEF Coming
  <1>4. CASE client[s] = "open"
    <2>1. handler[s].on
      BY <1>0, <1>4 DEF InHub
    <2>2. \A q \in Seq(Frame) : Range(q) = Frames(q)
      BY DEF Range, Frames
    <2>3. Range(net[s]) = Frames(net[s]) /\ Range(handler[s].out) = Frames(handler[s].out)
      BY <1>0, <2>2 DEF Fits
    <2>4. CASE Resync \in Frames(net[s]) \cup Frames(handler[s].out)
      BY <1>4, <2>1, <2>3, <2>4 DEF Coming
    <2>5. CASE Fresh(sub[s], net[s], handler[s].out, last[s], k)
      <3>1. k \in KeysOf(net[s]) \/ k \in KeysOf(handler[s].out) \/ k \in KeysOf(sub[s].ch)
        BY <2>5, FirstIsFrame, KeysAre DEF Fresh
      <3> QED BY <1>4, <2>1, <3>1 DEF Coming
    <2> QED BY <1>4, <2>4, <2>5 DEF Reaches
  <1> QED BY <1>1, <1>2, <1>3, <1>4 DEF Reaches

\* As long as a page subscribes, streams or reconnects, every key it is behind
\* with has a row or a frame on its way to it, or is one of the named losses,
\* or the hub has dropped the subscription, which closes its EventSource
\* (subscription.go enqueue and replaySince, sse_stream.go, poller.go, sse.ts).
THEOREM NoPageSilentlyBehind ==
    Spec => []StaleCovered
  <1>1. FInv => StaleCovered
    <2> SUFFICES ASSUME FInv, NEW s \in Subs,
                        client[s] \in {"posting", "answered", "connecting", "open"},
                        client[s] = "posting" \/ s \in hubSubs, NEW k \in stale[s]
                 PROVE  k \in Pending(s) \cup Coming(s) \/ \E g \in gap : g[1] = s /\ g[2] = k
      BY DEF StaleCovered
    <2>1. Served(s) /\ Behind(s) /\ k \in Keys
      BY PageFacts DEF Served, Fits
    <2>2. CASE Reaches(sub[s], net[s], handler[s].out, last[s], client[s], k)
      BY <2>1, <2>2, ReachesIsComing
    <2> QED BY <2>1, <2>2 DEF Behind, Gapped
  <1> QED BY <1>1, FeedInit, FInvIsInductive, PTL DEF Spec
==============================================================================
