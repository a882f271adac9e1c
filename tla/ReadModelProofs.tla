--------------------------- MODULE ReadModelProofs ---------------------------
(***************************************************************************)
(* Proofs about the repair of a source's read models, and about the search *)
(* index, the read model a repair and a rebuild both write.                *)
(*                                                                         *)
(* SourceSupervisor, for any number of batches, failures and restarts: the *)
(* types, RepairNeverForgotten and StaleIsHandled follow from              *)
(* SupervisorInv, which says who is left to repair (Cover) while a mark is *)
(* pending and while a debt is owed.                                       *)
(*                                                                         *)
(* SearchIndex: SearchSettles and RebuildDoesNotRaceOps hold for every     *)
(* number of rows, page size, order of ids, grouping of rows into sessions *)
(* and buckets, and without a bound on failures and crashes (MaxBreaks and *)
(* MaxCrashes are any naturals).  Neither is inductive: what holds at rest *)
(* was built, page by page, by a pass that live batches overtook.          *)
(* IndexInv says where a row that is not yet Good is waiting: in the page  *)
(* that is loaded, behind the cursor's page, in a later session, or in a   *)
(* stage that has not begun (StageCovered, StagesDone); and that a loaded  *)
(* page is never ahead of its rows (PageSound).  A rebuild is only trusted *)
(* while nothing is owed, for a batch that its flag suspended leaves a     *)
(* debt and no index row.                                                  *)
(***************************************************************************)
EXTENDS SourceSupervisor, SearchIndex, CountingLemmas, SequenceTheorems

-----------------------------------------------------------------------------
(* The supervisor.                                                          *)

\* Somebody is left to repair the read models.
Cover ==
    \/ sup = "start" \/ deferral \/ wake \/ repairQ = 1
    \/ pending /\ rep \in {"check", "marked", "locked"}
    \/ pending /\ rep \in {"off", "exit"} /\ sup # "tail"

\* Nothing excuses a missing repair.
Answerable == ~stop /\ ~dropped /\ ~unmarked /\ ~Ended

\* The repair goroutine keeps its request until it clears it; it never holds
\* the lock beside the rebuild; when it exits with a request pending, the
\* request was lost or the daemon stops.
RepairDiscipline ==
    /\ rep \in {"marked", "locked", "ready", "clear"} => pending
    /\ rep = "locked" => rebuild # "active"
    /\ rep = "exit" /\ pending => stop \/ dropped

\* The deferral of the startup scan precedes the first tail.
DeferralDiscipline ==
    deferral => startup /\ sup \in {"scan", "drain", "ended"} /\ rep = "off"

StartDiscipline == sup = "start" => startup /\ ~deferral /\ rep = "off"

\* A mark of the debt that no running repair has taken over still has its
\* request, except between a repair's end and its record, when the rebuild
\* whose batches set the mark is over.
MarkCovered ==
    rms = "repair_pending" /\ Answerable =>
        /\ Cover \/ (rep = "ready" /\ rebuild = "done" /\ ~owed)
        /\ rep = "marked" => rebuild \in {"active", "done"}
        /\ rep = "locked" => rebuild = "done"
        /\ rep = "ready" => wake \/ repairQ = 1 \/ rebuild = "done"

DebtCovered == owed /\ Answerable => Cover

SupervisorInv == /\ TypeOK /\ RepairDiscipline /\ DeferralDiscipline /\ StartDiscipline
        /\ MarkCovered /\ DebtCovered /\ StaleIsHandled

\* The first state satisfies the inductive invariant.
LEMMA SupervisorInitially == Init => SupervisorInv
  <1> SUFFICES ASSUME Init PROVE SupervisorInv
    OBVIOUS
  <1>1. {startup, deferral, scanDone, scanActive, pending, late, wake, stop, owed, dropped, unmarked}
            \subseteq BOOLEAN
    BY Zenon DEF Init
  <1>2. TypeOK
    BY <1>1 DEF Init, TypeOK, Running
  <1> QED
    BY <1>2 DEF Init, SupervisorInv, RepairDiscipline, DeferralDiscipline, StartDiscipline, MarkCovered,
                DebtCovered, StaleIsHandled, Cover, Answerable

\* Every step keeps it.
LEMMA SupervisorKeeps == SupervisorInv /\ [Next]_vars => SupervisorInv'
  <1> SUFFICES ASSUME SupervisorInv, [Next]_vars PROVE SupervisorInv'
    OBVIOUS
  <1> USE DEF SupervisorInv, TypeOK, RepairDiscipline, DeferralDiscipline, StartDiscipline, MarkCovered, DebtCovered,
              StaleIsHandled, Cover, Answerable, Running, Ended, Registered
  <1>1. CASE StartSource
    BY <1>1 DEF StartSource, repairing, tailing, world, debt, NoFault, Record
  <1>2. CASE ScanReturns
    <2>1. deferral' \in BOOLEAN /\ pending' \in BOOLEAN
      BY <1>2, Zenon DEF ScanReturns, ClearDeferral
    <2> QED BY <2>1, <1>2 DEF ScanReturns, tailing, world, debt, NoFault, ClearDeferral
  <1>3. CASE RunTail
    <2>1. late' \in BOOLEAN /\ startup' \in BOOLEAN /\ dropped' \in BOOLEAN
      BY <1>3, Zenon DEF RunTail, MaybeStartRepair
    <2> QED BY <2>1, <1>3 DEF RunTail, tailing, world, bounds, Record, MaybeStartRepair
  <1>4. CASE TailDone
    BY <1>4 DEF TailDone, repairing, world, debt, bounds, Record, RecordStopped
  <1>5. CASE RepairRequested
    <2>1. dropped' \in BOOLEAN /\ pending' \in BOOLEAN
      BY <1>5, Zenon DEF RepairRequested, MaybeStartRepair
    <2>2. CASE rep \in {"ready", "clear", "exit"}
      BY <2>1, <2>2, <1>5 DEF RepairRequested, supervision, tailing, world, bounds
    <2>3. CASE rep \notin {"ready", "clear", "exit"}
      BY <2>1, <2>3, <1>5 DEF RepairRequested, supervision, tailing, world, bounds, MaybeStartRepair
    <2> QED BY <2>2, <2>3
  <1>6. CASE RestartRequested
    BY <1>6 DEF RestartRequested, repairing, tailing, world, debt, bounds
  <1>7. CASE StopRequested
    BY <1>7 DEF StopRequested, repairing, tailing, world, debt, bounds
  <1>8. CASE CancelReturns
    BY <1>8 DEF CancelReturns, repairing, world, debt, bounds, RecordStopped
  <1>9. CASE CancelTimesOut
    BY <1>9 DEF CancelTimesOut, repairing, tailing, world, debt, bounds
  <1>10. CASE RestartTail
    BY <1>10 DEF RestartTail, repairing, tailing, world, debt, bounds, Record
  <1>11. CASE BackoffEnds
    BY <1>11 DEF BackoffEnds, repairing, tailing, world, debt, Fault, NoFault
  <1>12. CASE GiveUp
    BY <1>12 DEF GiveUp, repairing, tailing, world, debt, bounds, RecordStopped
  <1>13. CASE Return
    BY <1>13 DEF Return, repairing, tailing, world, debt, bounds
  <1>14. CASE RepairCheck
    BY <1>14 DEF RepairCheck, supervision, repairing, tailing, world, debt, bounds
  <1>15. CASE RepairBegins
    BY <1>15 DEF RepairBegins, supervision, tailing, world, debt, bounds
  <1>16. CASE RepairSucceeds
    <2>1. owed' \in BOOLEAN
      BY <1>16, Zenon DEF RepairSucceeds
    <2> QED BY <2>1, <1>16 DEF RepairSucceeds, supervision, tailing, world, bounds
  <1>17. CASE RepairRecordsReady
    BY <1>17 DEF RepairRecordsReady, supervision, tailing, world, debt, bounds
  <1>18. CASE RepairClears
    <2>1. pending' \in BOOLEAN
      BY <1>18, Zenon DEF RepairClears
    <2> QED BY <2>1, <1>18 DEF RepairClears, supervision, tailing, world, debt, bounds
  <1>19. CASE RepairExits
    BY <1>19 DEF RepairExits, supervision, tailing, world, debt, bounds
  <1>20. CASE CheckTailStaleness
    BY <1>20 DEF CheckTailStaleness, supervision, repairing, tailing, world, debt, bounds
  <1>21. CASE MarkTailStale
    BY <1>21 DEF MarkTailStale, supervision, repairing, tailing, world, debt, bounds
  <1>22. CASE EnqueueTailRestart
    BY <1>22 DEF EnqueueTailRestart, repairing, world, debt, bounds
  <1>23. CASE RepairFails
    BY <1>23 DEF RepairFails, supervision, tailing, world, debt, Fault, NoFault
  <1>24. CASE StartFails
    BY <1>24 DEF StartFails, repairing, tailing, world, debt, Fault
  <1>25. CASE ScanFails
    <2>1. deferral' \in BOOLEAN /\ pending' \in BOOLEAN
      BY <1>25, Zenon DEF ScanFails, ClearDeferral
    <2> QED BY <2>1, <1>25 DEF ScanFails, tailing, world, debt, Fault, Record, ClearDeferral
  <1>26. CASE ScanFailsFatally
    BY <1>26 DEF ScanFailsFatally, repairing, tailing, world, debt, Fault, Record
  <1>27. CASE TailHangs
    BY <1>27 DEF TailHangs, supervision, repairing, world, debt, Fault
  <1>28. CASE TailResumes
    BY <1>28 DEF TailResumes, supervision, repairing, world, debt, bounds
  <1>29. CASE TailFails
    BY <1>29 DEF TailFails, supervision, repairing, world, debt, Fault
  <1>30. CASE TailObeys
    BY <1>30 DEF TailObeys, supervision, repairing, world, debt, bounds
  <1>31. CASE Heartbeat
    <2>1. late' \in BOOLEAN
      BY <1>31, Zenon DEF Heartbeat
    <2> QED BY <2>1, <1>31 DEF Heartbeat, supervision, repairing, world, debt, bounds
  <1>32. CASE HeartbeatAges
    BY <1>32 DEF HeartbeatAges, supervision, repairing, tailing, world, debt, bounds
  <1>33. CASE PersistHeartbeat
    BY <1>33 DEF PersistHeartbeat, supervision, repairing, tailing, world, debt, bounds
  <1>34. CASE Batch
    <2>1. wake' \in BOOLEAN
      BY <1>34, Zenon DEF Batch
    <2>2. rms # "repair_pending" => wake'
      BY <1>34, Zenon DEF Batch
    <2>3. wake => wake'
      BY <1>34, Zenon DEF Batch
    <2>4. owed' \in BOOLEAN
      BY <1>34, Zenon DEF Batch
    <2>5. TypeOK'
      BY <2>1, <2>4, <1>34 DEF Batch, supervision, repairing, tailing
    <2>6. Answerable' => Cover'
      BY <2>2, <2>3, <1>34 DEF Batch, supervision, repairing, tailing
    <2>7. Answerable' =>
            /\ rep = "marked" => rebuild \in {"active", "done"}
            /\ rep = "locked" => rebuild = "done"
            /\ rep = "ready" => wake' \/ repairQ = 1 \/ rebuild = "done"
      BY <2>2, <2>3, <1>34 DEF Batch, supervision, repairing, tailing
    <2> QED BY <2>5, <2>6, <2>7, <1>34 DEF Batch, supervision, repairing, tailing
  <1>35. CASE RequestRepair
    <2>1. wake' \in BOOLEAN
      BY <1>35, Zenon DEF RequestRepair
    <2> QED BY <2>1, <1>35 DEF RequestRepair, supervision, repairing, tailing, debt, bounds
  <1>36. CASE ScanGateOpens
    <2>1. scanActive' \in BOOLEAN
      BY <1>36, Zenon DEF ScanGateOpens
    <2> QED BY <2>1, <1>36 DEF ScanGateOpens, supervision, repairing, tailing, debt, bounds
  <1>37. CASE RebuildBegins
    BY <1>37 DEF RebuildBegins, supervision, repairing, tailing, debt, bounds
  <1>38. CASE RebuildSucceeds
    BY <1>38 DEF RebuildSucceeds, supervision, repairing, tailing, debt, bounds
  <1>39. CASE RebuildFails
    <2>1. unmarked' \in BOOLEAN
      BY <1>39, Zenon DEF RebuildFails
    <2> QED BY <2>1, <1>39 DEF RebuildFails, supervision, repairing, tailing, Fault
  <1>40. CASE CancelAdapters
    BY <1>40 DEF CancelAdapters, supervision, repairing, tailing, debt, bounds
  <1>41. CASE Restart
    <2>1. deferral' \in BOOLEAN /\ scanDone' \in BOOLEAN /\ pending' \in BOOLEAN /\ late' \in BOOLEAN /\ wake' \in BOOLEAN /\ stop' \in BOOLEAN /\ dropped' \in BOOLEAN /\ unmarked' \in BOOLEAN
      BY <1>41, Zenon DEF Restart
    <2> QED BY <2>1, <1>41 DEF Restart, repairing
  <1>42. CASE UNCHANGED vars
    BY <1>42 DEF vars
  <1> QED BY <1>1, <1>2, <1>3, <1>4, <1>5, <1>6, <1>7, <1>8, <1>9, <1>10, <1>11, <1>12, <1>13, <1>14, <1>15, <1>16, <1>17, <1>18, <1>19, <1>20, <1>21, <1>22, <1>23, <1>24, <1>25, <1>26, <1>27, <1>28, <1>29, <1>30, <1>31, <1>32, <1>33, <1>34, <1>35, <1>36, <1>37, <1>38, <1>39, <1>40, <1>41, <1>42 DEF Next, SupervisorStep, RepairStep, WatchdogStep

-----------------------------------------------------------------------------
\* The inductive invariant holds in every reachable state.
LEMMA SupervisorInvHolds == Safety => []SupervisorInv
  BY SupervisorInitially, SupervisorKeeps, PTL DEF Safety

\* Lifecycle and read-model states, channels and flags keep their types, and
\* the repair goroutine runs only while its supervisor does.
THEOREM SupervisorTypes == Safety => []TypeOK
  <1>1. SupervisorInv => TypeOK
    BY DEF SupervisorInv
  <1> QED BY SupervisorInvHolds, <1>1, PTL

\* However scans, batches, repairs, the rebuild, stops and restarts
\* interleave, missing rows of a live source always have somebody who will
\* repair them, but for the two recorded ways of losing the request.
THEOREM RepairIsNeverForgotten == Safety => []RepairNeverForgotten
  <1>1. SupervisorInv => RepairNeverForgotten
    BY DEF SupervisorInv, DebtCovered, Answerable, Cover, RepairNeverForgotten
  <1> QED BY SupervisorInvHolds, <1>1, PTL

\* A source shown as tail_stale is about to get a new tail.
THEOREM StaleTailsAreHandled == Safety => []StaleIsHandled
  <1>1. SupervisorInv => StaleIsHandled
    BY DEF SupervisorInv
  <1> QED BY SupervisorInvHolds, <1>1, PTL

-----------------------------------------------------------------------------
(* Pages.                                                                   *)

\* A set whose keys are naturals has a member with the least key.
LEMMA SmallestIs ==
    ASSUME NEW S, S # {}, NEW key, \A x \in S : key[x] \in Nat
    PROVE  Smallest(S, key) \in S /\ \A y \in S : key[Smallest(S, key)] <= key[y]
  <1> DEFINE K == {key[x] : x \in S}
  <1>1. \E k \in K : \A j \in K : k <= j
    <2>1. K \subseteq Nat /\ K # {}
      OBVIOUS
    <2> HIDE DEF K
    <2> QED BY <2>1, LeastNatural
  <1>2. \E x \in S : \A y \in S : key[x] <= key[y]
    BY <1>1
  <1> QED BY <1>2, Zenon DEF Smallest

\* The recursive definition of PagesUpTo has a solution, so PagesUpTo obeys it.
PageStep(p, key) ==
    IF p.left = {} THEN p
    ELSE LET x == Smallest(p.left, key)
         IN  [left |-> p.left \ {x}, got |-> Append(p.got, x)]

LEMMA PagesUpToDef ==
    ASSUME NEW S, NEW key, PageSize \in Nat
    PROVE  /\ PagesUpTo(S, key)[0] = [left |-> S, got |-> <<>>]
           /\ \A n \in 1 .. PageSize : PagesUpTo(S, key)[n] = PageStep(PagesUpTo(S, key)[n - 1], key)
  <1> DEFINE Val(f, k) == IF k = 0 THEN [left |-> S, got |-> <<>>] ELSE PageStep(f[k - 1], key)
             Is(f, n) == \A k \in 0 .. n : f[k] = Val(f, k)
             T == {n \in Nat : \E f : Is(f, n)}
  <1>1. 0 \in T
    <2>1. Is([k \in 0 .. 0 |-> [left |-> S, got |-> <<>>]], 0)
      OBVIOUS
    <2> QED BY <2>1
  <1>2. ASSUME NEW n \in Nat, n \in T PROVE n + 1 \in T
    <2>1. PICK f : Is(f, n)
      BY <1>2
    <2> DEFINE g == [k \in 0 .. n + 1 |-> IF k <= n THEN f[k] ELSE Val(f, k)]
    <2>2. \A k \in 0 .. n + 1 : Val(g, k) = Val(f, k)
      OBVIOUS
    <2>3. Is(g, n + 1)
      <3> HIDE DEF Val
      <3> QED BY <2>1, <2>2
    <2> HIDE DEF Is, g
    <2> QED BY <2>3
  <1>3. PICK f : Is(f, PageSize)
    <2> HIDE DEF Is
    <2>1. Nat \subseteq T
      <3> HIDE DEF T
      <3> QED BY <1>1, <1>2, SetInduction
    <2> QED BY <2>1
  <1> DEFINE h == [k \in 0 .. PageSize |-> f[k]]
             Table(g) == g = [k \in 0 .. PageSize |-> Val(g, k)]
  <1>4. Table(h)
    <2>1. \A k \in 0 .. PageSize : Val(h, k) = Val(f, k)
      OBVIOUS
    <2> HIDE DEF Val
    <2> QED BY <1>3, <2>1
  <1>5. PagesUpTo(S, key) = CHOOSE g : Table(g)
    BY DEF PagesUpTo, PageStep
  <1>6. Table(PagesUpTo(S, key))
    <2> HIDE DEF Table, h
    <2> QED BY <1>4, <1>5
  <1>7. \A k \in 0 .. PageSize : PagesUpTo(S, key)[k] = Val(PagesUpTo(S, key), k)
    <2> HIDE DEF Val
    <2> QED BY <1>6, Zenon
  <1>8. 0 \in 0 .. PageSize /\ \A k \in 1 .. PageSize : k \in 0 .. PageSize /\ k # 0
    OBVIOUS
  <1> QED BY <1>7, <1>8, Zenon

\* What a page holds after n rows: rows of S, the smallest first, and no row
\* is skipped.
Paged(S, key, p, n) ==
    /\ p.left \subseteq S /\ p.got \in Seq(S)
    /\ \A x \in S : x \in p.left \/ \E i \in 1 .. Len(p.got) : p.got[i] = x
    /\ p.left = {} \/ Len(p.got) = n
    /\ \A i \in 1 .. Len(p.got) :
          /\ \A x \in p.left : key[p.got[i]] < key[x]
          /\ key[p.got[i]] <= key[p.got[Len(p.got)]]

\* One more row.
LEMMA PagedStep ==
    ASSUME NEW S, NEW key, \A x \in S : key[x] \in Nat,
           \A x, y \in S : key[x] = key[y] => x = y,
           NEW p, NEW n \in Nat, Paged(S, key, p, n)
    PROVE  Paged(S, key, PageStep(p, key), n + 1)
  <1>1. CASE p.left = {}
    BY <1>1 DEF Paged, PageStep
  <1>2. CASE p.left # {}
    <2> DEFINE x == Smallest(p.left, key)
               left == p.left
               got == p.got
               new == Append(got, x)
    <2>1. x \in left /\ \A y \in left : key[x] <= key[y]
      <3>1. \A y \in left : key[y] \in Nat
        BY DEF Paged
      <3> QED BY <1>2, <3>1, SmallestIs
    <2>2. PageStep(p, key) = [left |-> left \ {x}, got |-> new]
      BY <1>2 DEF PageStep
    <2>3. /\ left \subseteq S /\ got \in Seq(S) /\ Len(got) = n
          /\ \A y \in S : y \in left \/ \E i \in 1 .. Len(got) : got[i] = y
          /\ \A i \in 1 .. Len(got) : \A y \in left : key[got[i]] < key[y]
      BY <1>2 DEF Paged
    <2> HIDE DEF x, left, got
    <2>4. /\ new \in Seq(S) /\ Len(new) = n + 1 /\ new[n + 1] = x
          /\ \A i \in 1 .. n : new[i] = got[i]
      BY <2>1, <2>3
    <2> HIDE DEF new
    <2>5. \A y \in S : y \in left \ {x} \/ \E i \in 1 .. Len(new) : new[i] = y
      <3> SUFFICES ASSUME NEW y \in S, y \notin left \ {x} PROVE \E i \in 1 .. Len(new) : new[i] = y
        OBVIOUS
      <3>1. CASE y = x
        BY <2>4, <3>1
      <3>2. CASE y \notin left
        <4>1. PICK i \in 1 .. Len(got) : got[i] = y
          BY <2>3, <3>2
        <4>2. i \in 1 .. Len(new) /\ new[i] = y
          BY <2>3, <2>4, <4>1
        <4> QED BY <4>2
      <3> QED BY <3>1, <3>2
    <2>6. \A i \in 1 .. Len(new) : key[new[i]] <= key[x]
      <3> SUFFICES ASSUME NEW i \in 1 .. Len(new) PROVE key[new[i]] <= key[x]
        OBVIOUS
      <3>1. key[x] \in Nat
        BY <2>1, <2>3
      <3>2. CASE i = n + 1
        BY <2>4, <3>1, <3>2
      <3>3. CASE i \in 1 .. n
        <4>1. key[got[i]] < key[x] /\ got[i] \in S
          BY <2>1, <2>3, <3>3
        <4>2. key[got[i]] \in Nat
          BY <4>1
        <4> QED BY <2>4, <3>1, <3>3, <4>1, <4>2
      <3> QED BY <2>4, <3>2, <3>3
    <2>7. \A i \in 1 .. Len(new) : \A y \in left \ {x} : key[new[i]] < key[y]
      <3> SUFFICES ASSUME NEW i \in 1 .. Len(new), NEW y \in left \ {x} PROVE key[new[i]] < key[y]
        OBVIOUS
      <3>1. key[new[i]] <= key[x] /\ key[x] <= key[y]
        BY <2>1, <2>6
      <3>2. key[x] # key[y] /\ key[x] \in Nat /\ key[y] \in Nat
        BY <2>1, <2>3
      <3>3. new[i] \in S
        BY <2>4
      <3>4. key[new[i]] \in Nat
        BY <3>3
      <3> QED BY <3>1, <3>2, <3>4
    <2> DEFINE q == PageStep(p, key)
    <2>8. q.left = left \ {x} /\ q.got = new
      BY <2>2
    <2> HIDE DEF q
    <2>9. Paged(S, key, q, n + 1)
      BY <2>3, <2>4, <2>5, <2>6, <2>7, <2>8 DEF Paged
    <2> QED BY <2>9 DEF q
  <1> QED BY <1>1, <1>2

\* FirstPage: members of S, the last one with the greatest key; a member that
\* is missing comes after it, and the page is full.
LEMMA FirstPageSound ==
    ASSUME NEW S, NEW key, \A x \in S : key[x] \in Nat,
           \A x, y \in S : key[x] = key[y] => x = y
    PROVE  LET p == FirstPage(S, key)
           IN  /\ p \in Seq(S)
               /\ \A i \in 1 .. Len(p) : key[p[i]] <= key[p[Len(p)]]
               /\ \A x \in S : \/ \E i \in 1 .. Len(p) : p[i] = x
                               \/ Len(p) = PageSize /\ key[p[Len(p)]] < key[x]
  <1>0. PageSize \in Nat \ {0}
    BY IndexAssumption
  <1> DEFINE f(n) == PagesUpTo(S, key)[n]
             T == {n \in 0 .. PageSize : Paged(S, key, f(n), n)}
  <1>1. 0 \in T
    <2>1. f(0) = [left |-> S, got |-> <<>>]
      BY <1>0, PagesUpToDef
    <2> HIDE DEF f
    <2>2. f(0).left = S /\ f(0).got = <<>>
      BY <2>1
    <2>3. <<>> \in Seq(S) /\ Len(<<>>) = 0
      OBVIOUS
    <2>4. f(0).left \subseteq S /\ f(0).got \in Seq(S) /\ Len(f(0).got) = 0
      BY <2>2, <2>3
    <2>5. \A x \in S : x \in f(0).left
      BY <2>2
    <2>6. 1 .. Len(f(0).got) = {}
      BY <2>4
    <2>7. Paged(S, key, f(0), 0)
      BY <2>4, <2>5, <2>6, Zenon DEF Paged
    <2> QED BY <1>0, <2>7
  <1>2. ASSUME NEW k \in 1 .. PageSize, k - 1 \in T PROVE k \in T
    <2>1. f(k) = PageStep(f(k - 1), key)
      BY <1>0, PagesUpToDef
    <2>2. Paged(S, key, f(k - 1), k - 1) /\ k - 1 \in Nat
      BY <1>0, <1>2
    <2> HIDE DEF f
    <2>3. Paged(S, key, f(k), (k - 1) + 1)
      BY <2>1, <2>2, PagedStep
    <2> QED BY <1>0, <2>3
  <1>3. Paged(S, key, f(PageSize), PageSize)
    <2> HIDE DEF T
    <2>1. 0 .. PageSize \subseteq T
      BY <1>0, <1>1, <1>2, UpToInduction
    <2>2. PageSize \in T
      BY <1>0, <2>1
    <2> QED BY <2>2 DEF T
  <1> DEFINE p == f(PageSize).got
  <1>4. FirstPage(S, key) = p
    BY DEF FirstPage
  <1>5. /\ p \in Seq(S)
        /\ \A i \in 1 .. Len(p) : key[p[i]] <= key[p[Len(p)]]
        /\ \A x \in S : \/ \E i \in 1 .. Len(p) : p[i] = x
                        \/ Len(p) = PageSize /\ key[p[Len(p)]] < key[x]
    <2> HIDE DEF f
    <2> DEFINE w == f(PageSize).left
    <2>1. /\ w \subseteq S /\ p \in Seq(S)
          /\ \A x \in S : x \in w \/ \E i \in 1 .. Len(p) : p[i] = x
          /\ w = {} \/ Len(p) = PageSize
          /\ \A i \in 1 .. Len(p) :
                /\ \A x \in w : key[p[i]] < key[x]
                /\ key[p[i]] <= key[p[Len(p)]]
      BY <1>3 DEF Paged
    <2> HIDE DEF p, w
    <2> QED BY <1>0, <2>1
  <1> QED BY <1>4, <1>5


-----------------------------------------------------------------------------
(* The inductive invariant.                                                 *)

\* A version for every row of every table.
Versions(f) == DOMAIN f = Tables /\ \A t \in Tables : f[t] \in [Ids(t) -> Nat]

\* What backfillMu's holder can be.
PassRecords ==
    [kind : {"none", "rebuild", "repair"},
     stage : {"none", "wipe", "ops", "logs", "rollups", "buckets"},
     after : Nat, sessions : Seq(Nat), last : BOOLEAN, cursor : Nat,
     page : Seq([id : Nat, text : Nat]), buckets : SUBSET Nat]

\* The types, and two facts about data: a stale bucket is the bucket of a row,
\* an overtaken index row is an op's.
IndexTypes ==
    /\ Versions(row) /\ Versions(index)
    /\ stale \subseteq {BucketOf[r] : r \in Present("ops")}
    /\ overtaken \subseteq Ids("ops")
    /\ pass \in PassRecords

\* The stages of each kind of pass, and which of its fields each one uses.
Stages == CASE pass.kind = "none" -> {"none"}
            [] pass.kind = "rebuild" -> {"wipe", "ops", "logs", "rollups"}
            [] pass.kind = "repair" -> {"ops", "logs", "rollups", "buckets"}
PassShape ==
    /\ pass.kind = "none" => pass = Idle
    /\ pass.stage \in Stages
    /\ pass.stage \notin Tables => pass.page = <<>> /\ pass.sessions = <<>>
    /\ pass.sessions = <<>> => ~pass.last
    /\ pass.kind = "rebuild" => pass.sessions = <<>>
    /\ pass.kind = "repair" /\ pass.sessions = <<>> => pass.page = <<>>
    /\ pass.stage = "logs" /\ (pass.page # <<>> \/ pass.sessions # <<>>) => indexLogs

\* The flags that suspend live batches, and the lock.
GatesHold ==
    /\ held => pass = Idle
    /\ active <=> pass.kind = "rebuild"
    /\ pass.kind = "repair" => owing

\* No index row is ahead of its row; a log has one version; logs are indexed
\* only if the source says so.
Bounded ==
    /\ \A t \in Tables : \A r \in Ids(t) : index[t][r] <= row[t][r]
    /\ \A r \in Ids("logs") : row["logs"][r] <= 1 /\ (~indexLogs => index["logs"][r] = 0)

\* Row r has an index row of its own text, or of an older one a repair wrote.
Good(t, r) == /\ index[t][r] > 0
              /\ index[t][r] = row[t][r] \/ (t = "ops" /\ r \in overtaken)
\* The tables the source indexes, and a table whose rows are all indexed.
Wanted(t) == t = "logs" => indexLogs
Indexed(t) == Wanted(t) => \A r \in Present(t) : Good(t, r)

\* A repair, or a rebuild no suspended batch has written behind.
Trusted == pass.kind = "repair" \/ (pass.kind = "rebuild" /\ ~owing)

\* Where a row is for the pass: by the order of its query, in the session it
\* is at and beyond the cursor (Mine), in a later session (Later), or after
\* the page that is loaded, which is then full (Onward).
Key(r) == IF pass.kind = "rebuild" THEN RebuildKey(pass.stage, r) ELSE r
OfSession(r, i) == i \in 1 .. Len(pass.sessions) /\ pass.sessions[i] = SessionOf[pass.stage][r]
Mine(r) == Key(r) > pass.cursor /\ (pass.kind = "repair" => OfSession(r, 1))
Later(r) == /\ pass.kind = "repair"
            /\ \/ ~pass.last /\ SessionOf[pass.stage][r] > pass.after
               \/ \E i \in 2 .. Len(pass.sessions) : OfSession(r, i)
Onward(r) == /\ Len(pass.page) >= PageSize
             /\ Key(r) > Key(pass.page[Len(pass.page)].id)

\* A loaded page holds rows that are there, with a text they have had; a
\* trusted rebuild's page holds their text of now.
PageSound ==
    pass.stage \in Tables =>
    \A i \in DOMAIN pass.page :
        /\ pass.page[i].id \in Present(pass.stage)
        /\ pass.page[i].text > 0 /\ pass.page[i].text <= row[pass.stage][pass.page[i].id]
        /\ pass.kind = "rebuild" /\ ~owing => pass.page[i].text = row[pass.stage][pass.page[i].id]

\* In a stage every row is indexed or still ahead of the pass.
StageCovered ==
    pass.stage \in Tables /\ Trusted /\ Wanted(pass.stage) =>
    \A r \in Present(pass.stage) :
        \/ Good(pass.stage, r)
        \/ Later(r)
        \/ Mine(r) /\ (pass.page = <<>> \/ r \in PageIds \/ Onward(r))

\* Ops beyond the rebuild's cursor have no index row yet, and its page lies
\* beyond the cursor, in order.
RebuildAhead ==
    pass.kind = "rebuild" /\ pass.stage = "ops" =>
        /\ \A r \in Ids("ops") : IdRank[r] > pass.cursor => index["ops"][r] = 0
        /\ \A i \in DOMAIN pass.page :
              /\ IdRank[pass.page[i].id] > pass.cursor
              /\ IdRank[pass.page[i].id] <= IdRank[pass.page[Len(pass.page)].id]

\* What the stages before this one have achieved.
StagesDone ==
    /\ Trusted /\ pass.stage \in {"logs", "rollups", "buckets"} => Indexed("ops")
    /\ Trusted /\ pass.stage \in {"rollups", "buckets"} => Indexed("logs")
    /\ pass.stage = "buckets" => stale \subseteq pass.buckets

\* What is left when the pass is gone.
RestSettled == AtRest => Indexed("ops") /\ Indexed("logs") /\ stale = {}

\* The inductive invariant.
IndexInv ==
    /\ IndexTypes /\ PassShape /\ GatesHold /\ Bounded
    /\ PageSound /\ StageCovered /\ RebuildAhead /\ StagesDone /\ RestSettled

-----------------------------------------------------------------------------
(* Facts about the steps of a pass.                                         *)

\* What the assumptions say of keys, sessions and buckets.
LEMMA Ranks ==
    /\ PageSize \in Nat \ {0}
    /\ \A t \in Tables : RowsOf[t] \in Nat /\ Ids(t) \subseteq Nat \ {0}
    /\ \A r \in Ids("ops") : IdRank[r] \in Nat \ {0} /\ BucketOf[r] \in Nat
    /\ \A t \in Tables : \A r \in Ids(t) : SessionOf[t][r] \in Nat \ {0}
    /\ \A t \in Tables : \A r \in Ids(t) : RebuildKey(t, r) \in Nat \ {0}
  <1>1. /\ PageSize \in Nat \ {0}
        /\ \A t \in Tables : RowsOf[t] \in Nat
        /\ \A r \in Ids("ops") : IdRank[r] \in Nat \ {0} /\ BucketOf[r] \in Nat
        /\ \A t \in Tables : \A r \in Ids(t) : SessionOf[t][r] \in Nat \ {0}
    BY IndexAssumption
  <1>2. \A t \in Tables : Ids(t) \subseteq Nat \ {0}
    BY <1>1 DEF Ids
  <1> QED BY <1>1, <1>2 DEF RebuildKey, Tables

\* A function on 1 .. n is a sequence of length n.
LEMMA TableSequence ==
    ASSUME NEW n \in Nat, NEW T, NEW f \in [1 .. n -> T]
    PROVE  f \in Seq(T) /\ Len(f) = n /\ DOMAIN f = 1 .. n
  OBVIOUS

\* What a page of table t is: rows of S with their text of the moment, the
\* last one with the greatest key; a row of S that is missing comes after it,
\* and the page is full.
PageOf(t, S, key, page) ==
    /\ page \in Seq([id : Nat, text : Nat]) /\ DOMAIN page = 1 .. Len(page)
    /\ \A i \in DOMAIN page :
          /\ page[i].id \in S /\ page[i].text = row[t][page[i].id] /\ page[i].text > 0
          /\ key[page[i].id] <= key[page[Len(page)].id]
    /\ \A r \in S : \/ \E i \in DOMAIN page : page[i].id = r
                    \/ Len(page) = PageSize /\ key[page[Len(page)].id] < key[r]
    /\ page = <<>> => S = {}

\* A loaded page is one of present rows.
LEMMA PageLoaded ==
    ASSUME Versions(row), NEW t \in Tables, NEW S \in SUBSET Present(t), NEW key,
           \A x \in S : key[x] \in Nat, \A x, y \in S : key[x] = key[y] => x = y,
           NEW page, page = Loaded(t, FirstPage(S, key))
    PROVE  PageOf(t, S, key, page)
  <1> DEFINE p == FirstPage(S, key)
  <1>1. /\ p \in Seq(S)
        /\ \A i \in 1 .. Len(p) : key[p[i]] <= key[p[Len(p)]]
        /\ \A x \in S : \/ \E i \in 1 .. Len(p) : p[i] = x
                        \/ Len(p) = PageSize /\ key[p[Len(p)]] < key[x]
    BY FirstPageSound
  <1>2. page = [i \in 1 .. Len(p) |-> [id |-> p[i], text |-> row[t][p[i]]]]
    BY DEF Loaded
  <1> HIDE DEF p
  <1>3. Len(p) \in Nat /\ \A i \in 1 .. Len(p) : p[i] \in S
    BY <1>1
  <1>4. \A x \in S : x \in Nat /\ row[t][x] \in Nat /\ row[t][x] > 0
    BY Ranks DEF Present, Versions
  <1>5. /\ DOMAIN page = 1 .. Len(p) /\ Len(page) = Len(p)
        /\ page \in Seq([id : Nat, text : Nat])
    <2>1. \A i \in 1 .. Len(p) : [id |-> p[i], text |-> row[t][p[i]]] \in [id : Nat, text : Nat]
      BY <1>3, <1>4
    <2>2. page \in [1 .. Len(p) -> [id : Nat, text : Nat]]
      BY <1>2, <2>1
    <2> QED BY <1>3, <2>2, TableSequence, Zenon
  <1>6. \A i \in 1 .. Len(p) : page[i].id = p[i] /\ page[i].text = row[t][p[i]]
    BY <1>2
  <1>7. \A i \in 1 .. Len(p) : Len(p) \in 1 .. Len(p) /\ key[page[Len(p)].id] = key[p[Len(p)]]
    BY <1>3, <1>6
  <1>8. \A i \in DOMAIN page :
                 /\ page[i].id \in S /\ page[i].text = row[t][page[i].id] /\ page[i].text > 0
                 /\ key[page[i].id] <= key[page[Len(page)].id]
    BY <1>1, <1>3, <1>4, <1>5, <1>6, <1>7
  <1>9. \A r \in S : \/ \E i \in DOMAIN page : page[i].id = r
                     \/ Len(page) = PageSize /\ key[page[Len(page)].id] < key[r]
    <2> SUFFICES ASSUME NEW r \in S, \A i \in DOMAIN page : page[i].id # r
                 PROVE  Len(page) = PageSize /\ key[page[Len(page)].id] < key[r]
      OBVIOUS
    <2>1. \A i \in 1 .. Len(p) : p[i] # r
      <3>1. DOMAIN page = 1 .. Len(p)
        BY <1>5
      <3> QED BY <1>6, <3>1
    <2>2. Len(p) = PageSize /\ key[p[Len(p)]] < key[r]
      BY <1>1, <2>1
    <2>3. Len(p) \in 1 .. Len(p)
      BY <2>2, Ranks
    <2> QED BY <1>5, <1>7, <2>2, <2>3
  <1>10. page = <<>> => S = {}
    <2> SUFFICES ASSUME page = <<>>, NEW r \in S PROVE FALSE
      OBVIOUS
    <2>1. Len(page) = 0 /\ DOMAIN page = {}
      BY <1>3, <1>5
    <2> QED BY <1>9, <2>1, Ranks
  <1> QED BY <1>5, <1>8, <1>9, <1>10 DEF PageOf

\* A pass at the beginning of a stage.
Fresh(k, st) == [Idle EXCEPT !.kind = k, !.stage = st]

\* Its fields.
LEMMA FreshFields ==
    ASSUME NEW k, NEW st
    PROVE  /\ Fresh(k, st).kind = k /\ Fresh(k, st).stage = st
           /\ Fresh(k, st).after = 0 /\ Fresh(k, st).sessions = <<>> /\ ~Fresh(k, st).last
           /\ Fresh(k, st).cursor = 0 /\ Fresh(k, st).page = <<>> /\ Fresh(k, st).buckets = {}
           /\ k \in {"none", "rebuild", "repair"}
              /\ st \in {"none", "wipe", "ops", "logs", "rollups", "buckets"}
              => Fresh(k, st) \in PassRecords
  <1>1. <<>> \in Seq(Nat) /\ <<>> \in Seq([id : Nat, text : Nat]) /\ FALSE \in BOOLEAN
    OBVIOUS
  <1> QED BY <1>1 DEF Fresh, Idle, PassRecords

\* The fields of no pass at all.
LEMMA IdleFields ==
    /\ Idle.kind = "none" /\ Idle.stage = "none" /\ Idle.sessions = <<>> /\ Idle.page = <<>>
    /\ ~Idle.last /\ Idle \in PassRecords
  <1>1. <<>> \in Seq(Nat) /\ <<>> \in Seq([id : Nat, text : Nat]) /\ FALSE \in BOOLEAN
    OBVIOUS
  <1> QED BY <1>1 DEF Idle, PassRecords

\* At its beginning every row is still ahead of the pass.
LEMMA FreshCovered ==
    ASSUME NEW k \in {"rebuild", "repair"},
           NEW st \in {"none", "wipe", "ops", "logs", "rollups", "buckets"}, pass' = Fresh(k, st)
    PROVE  pass' \in PassRecords /\ PageSound' /\ StageCovered'
  <1>0. k \in {"none", "rebuild", "repair"}
    OBVIOUS
  <1>1. /\ pass'.kind = k /\ pass'.stage = st /\ pass'.after = 0 /\ pass'.sessions = <<>>
        /\ ~pass'.last /\ pass'.cursor = 0 /\ pass'.page = <<>> /\ pass' \in PassRecords
    <2> DEFINE f == Fresh(k, st)
    <2>1. /\ f.kind = k /\ f.stage = st /\ f.after = 0 /\ f.sessions = <<>>
          /\ ~f.last /\ f.cursor = 0 /\ f.page = <<>>
      BY FreshFields
    <2>2. f \in PassRecords
      BY <1>0, FreshFields
    <2>3. pass' = f
      OBVIOUS
    <2> HIDE DEF f
    <2> QED BY <2>1, <2>2, <2>3
  <1>2. PageSound'
    <2>1. DOMAIN pass'.page = {}
      BY <1>1
    <2> QED BY <2>1 DEF PageSound
  <1>3. StageCovered'
    <2> SUFFICES ASSUME st \in Tables, NEW r \in Ids(st)
                 PROVE  Later(r)' \/ (Mine(r)' /\ pass'.page = <<>>)
      BY <1>1 DEF StageCovered, Present
    <2>1. CASE k = "repair"
      <3>1. SessionOf[st][r] > 0
        BY Ranks
      <3> QED BY <1>1, <2>1, <3>1 DEF Later
    <2>2. CASE k = "rebuild"
      <3>1. RebuildKey(st, r) > 0
        BY Ranks
      <3> QED BY <1>1, <2>2, <3>1 DEF Mine, Key, RebuildKey
    <2> QED BY <2>1, <2>2
  <1> QED BY <1>1, <1>2, <1>3

\* What every step of a pass leaves alone, and what it may write.
Untouched == UNCHANGED <<row, stale, indexLogs, gates, owing, unrecorded>>
Rewritten(t) ==
    /\ Versions(index)' /\ overtaken' \subseteq Ids("ops") /\ Bounded'
    /\ t = "logs" => index'["ops"] = index["ops"] /\ overtaken' = overtaken

\* The invariants that only look at the gates and at rows.
LEMMA PassStepFrame ==
    ASSUME IndexInv, Untouched, NEW t, Rewritten(t), pass' \in PassRecords, pass.kind # "none",
           pass'.kind = pass.kind
    PROVE  IndexTypes' /\ GatesHold' /\ Bounded' /\ RestSettled' /\ Trusted' = Trusted
  <1>1. IndexTypes'
    BY DEF IndexInv, IndexTypes, Untouched, Rewritten, Present, Versions
  <1>2. pass # Idle /\ pass' # Idle
    BY IdleFields
  <1>3. GatesHold'
    BY <1>2 DEF IndexInv, GatesHold, Untouched, gates
  <1>4. RestSettled'
    BY <1>2 DEF RestSettled, AtRest
  <1>5. Trusted' = Trusted
    BY DEF Trusted, Untouched
  <1> QED BY <1>1, <1>3, <1>4, <1>5 DEF Rewritten

\* A stage is over: everything it was to index is.
LEMMA StageOver ==
    ASSUME IndexInv, pass.kind \in {"rebuild", "repair"}, NEW t \in Tables, pass.stage = t,
           Untouched, Rewritten(t), pass' = NextStage,
           Trusted /\ Wanted(t) => \A r \in Present(t) : Good(t, r)'
    PROVE  IndexInv'
  <1> DEFINE k == pass.kind
             st == IF t = "ops" THEN "logs" ELSE "rollups"
  <1>1. pass' = Fresh(k, st)
    BY DEF NextStage, AfterOps, AfterLogs, Stage, Fresh
  <1>2. st \in {"logs", "rollups"} /\ (st = "logs" <=> t = "ops") /\ (st = "rollups" <=> t = "logs")
    BY DEF Tables
  <1>3. pass' \in PassRecords /\ PageSound' /\ StageCovered'
    <2>1. st \in {"none", "wipe", "ops", "logs", "rollups", "buckets"}
      BY <1>2
    <2> HIDE DEF k, st
    <2>2. k \in {"rebuild", "repair"}
      BY DEF k
    <2> QED BY <1>1, <2>1, <2>2, FreshCovered
  <1>4. /\ pass'.kind = k /\ pass'.stage = st /\ pass'.sessions = <<>> /\ ~pass'.last /\ pass'.page = <<>>
    <2> HIDE DEF k, st
    <2> QED BY <1>1, FreshFields
  <1>5. IndexTypes' /\ GatesHold' /\ Bounded' /\ RestSettled' /\ Trusted' = Trusted
    <2>1. pass.kind # "none" /\ pass'.kind = pass.kind
      BY <1>4
    <2> QED BY <1>3, <2>1, PassStepFrame
  <1> HIDE DEF st
  <1>6. PassShape'
    BY <1>2, <1>4 DEF PassShape, Stages
  <1>7. RebuildAhead'
    BY <1>2, <1>4 DEF RebuildAhead
  <1>8. StagesDone'
    <2> SUFFICES ASSUME Trusted
                 PROVE  Indexed("ops")' /\ (st = "rollups" => Indexed("logs")')
      BY <1>2, <1>4, <1>5 DEF StagesDone
    <2>0. \A u : Present(u)' = Present(u) /\ Wanted(u)' = Wanted(u)
      BY DEF Untouched, Present, Wanted
    <2>1. CASE t = "ops"
      <3>1. \A r \in Present("ops") : Good("ops", r)'
        BY <2>1 DEF Wanted
      <3> QED BY <1>2, <2>0, <2>1, <3>1 DEF Indexed
    <2>2. CASE t = "logs"
      <3>1. Indexed("ops")
        BY <2>2 DEF IndexInv, StagesDone
      <3>2. \A r : Good("ops", r)' = Good("ops", r)
        BY <2>2 DEF Good, Rewritten, Untouched
      <3>3. Indexed("ops")'
        BY <2>0, <3>1, <3>2 DEF Indexed
      <3>4. Indexed("logs")'
        BY <2>0, <2>2 DEF Indexed
      <3> QED BY <3>3, <3>4
    <2> QED BY <2>1, <2>2 DEF Tables
  <1> QED BY <1>3, <1>5, <1>6, <1>7, <1>8 DEF IndexInv

\* Within a stage: the stages before it stay done.
LEMMA SameStage ==
    ASSUME IndexInv, NEW t \in Tables, pass.stage = t, Untouched, Rewritten(t),
           pass' \in PassRecords, pass'.kind = pass.kind, pass'.stage = t
    PROVE  StagesDone' /\ (\A u : Present(u)' = Present(u) /\ Wanted(u)' = Wanted(u))
  <1>0. \A u : Present(u)' = Present(u) /\ Wanted(u)' = Wanted(u)
    BY DEF Untouched, Present, Wanted
  <1>1. Trusted' = Trusted
    BY DEF Trusted, Untouched
  <1>2. Trusted /\ t = "logs" => Indexed("ops")'
    <2> SUFFICES ASSUME Trusted, t = "logs" PROVE Indexed("ops")'
      OBVIOUS
    <2>1. Indexed("ops")
      BY DEF IndexInv, StagesDone
    <2>2. \A r : Good("ops", r)' = Good("ops", r)
      BY DEF Good, Rewritten, Untouched
    <2> QED BY <1>0, <2>1, <2>2 DEF Indexed
  <1>3. StagesDone'
    BY <1>1, <1>2 DEF StagesDone, Tables
  <1> QED BY <1>0, <1>3

\* A session of a repair is over: what it lacks belongs to later sessions.
LEMMA SessionOver ==
    ASSUME IndexInv, pass.kind = "repair", NEW t \in Tables, pass.stage = t, pass.sessions # <<>>,
           Untouched, Rewritten(t), pass' = SessionDone,
           Wanted(t) => \A r \in Present(t) : Good(t, r)' \/ Later(r)
    PROVE  IndexInv'
  <1> DEFINE ss == pass.sessions
             rest == Tail(pass.sessions)
  <1>0. /\ ss \in Seq(Nat) /\ Len(ss) \in Nat \ {0} /\ rest \in Seq(Nat) /\ Len(rest) = Len(ss) - 1
        /\ \A i \in 1 .. Len(rest) : rest[i] = ss[i + 1]
        /\ (rest = <<>> <=> Len(ss) = 1)
    <2>1. ss \in Seq(Nat)
      BY DEF IndexInv, IndexTypes, PassRecords
    <2>2. Len(ss) \in Nat \ {0}
      BY <2>1, EmptySeq
    <2>3. rest \in Seq(Nat) /\ Len(rest) = Len(ss) - 1 /\ \A i \in 1 .. Len(rest) : rest[i] = ss[i + 1]
      BY <2>1, HeadTailProperties
    <2> HIDE DEF rest, ss
    <2>4. rest = <<>> <=> Len(rest) = 0
      BY <2>3, EmptySeq
    <2>5. Len(rest) = 0 <=> Len(ss) = 1
      BY <2>2, <2>3
    <2>6. (rest = <<>>) <=> (Len(ss) = 1)
      BY <2>4, <2>5, Zenon
    <2> QED BY <2>1, <2>2, <2>3, <2>6, Zenon
  <1>1. CASE rest = <<>> /\ pass.last
    <2>1. pass' = NextStage
      BY <1>1 DEF SessionDone
    <2>2. \A r : ~Later(r)
      <3>1. 2 .. Len(ss) = {}
        <4> HIDE DEF rest, ss
        <4>1. Len(ss) = 1
          BY <1>0, <1>1
        <4> QED BY <4>1
      <3> QED BY <1>1, <3>1 DEF Later
    <2>3. Trusted /\ Wanted(t) => \A r \in Present(t) : Good(t, r)'
      BY <2>2
    <2> QED BY <2>1, <2>3, StageOver
  <1>2. CASE ~(rest = <<>> /\ pass.last)
    <2>1. pass' = [pass EXCEPT !.sessions = rest, !.cursor = 0, !.page = <<>>]
      BY <1>2 DEF SessionDone
    <2>2. /\ pass' \in PassRecords /\ pass'.kind = "repair" /\ pass'.stage = t /\ pass'.after = pass.after
          /\ pass'.sessions = rest /\ pass'.last = pass.last /\ pass'.cursor = 0 /\ pass'.page = <<>>
      <3>1. pass \in PassRecords
        BY DEF IndexInv, IndexTypes
      <3>2. <<>> \in Seq([id : Nat, text : Nat])
        OBVIOUS
      <3>3. rest \in Seq(Nat) /\ 0 \in Nat
        <4> HIDE DEF rest, ss
        <4> QED BY <1>0
      <3> HIDE DEF rest
      <3> QED BY <2>1, <3>1, <3>2, <3>3 DEF PassRecords
    <2>3. IndexTypes' /\ GatesHold' /\ Bounded' /\ RestSettled' /\ Trusted' = Trusted
      BY <2>2, PassStepFrame
    <2>4. StagesDone' /\ (\A u : Present(u)' = Present(u) /\ Wanted(u)' = Wanted(u))
      BY <2>2, SameStage
    <2>5. PassShape'
      <3>1. t = "logs" => indexLogs' /\ indexLogs
        BY DEF IndexInv, PassShape, Untouched
      <3>2. rest = <<>> => ~pass.last
        BY <1>2
      <3> HIDE DEF rest
      <3> QED BY <2>2, <3>1, <3>2 DEF PassShape, Stages, Tables
    <2>6. PageSound' /\ RebuildAhead'
      BY <2>2 DEF PageSound, RebuildAhead
    <2>7. StageCovered'
      <3> SUFFICES ASSUME Wanted(t), NEW r \in Present(t), Later(r)
                   PROVE  Later(r)' \/ Mine(r)'
        BY <2>2, <2>4 DEF StageCovered
      <3>1. CASE ~pass.last /\ SessionOf[t][r] > pass.after
        BY <2>2, <3>1 DEF Later
      <3>2. CASE \E i \in 2 .. Len(ss) : OfSession(r, i)
        <4>1. PICK i \in 2 .. Len(ss) : ss[i] = SessionOf[t][r]
          BY <3>2 DEF OfSession
        <4>2. i - 1 \in 1 .. Len(rest) /\ rest[i - 1] = SessionOf[t][r]
          <5> HIDE DEF rest, ss
          <5>1. i - 1 \in 1 .. Len(rest) /\ (i - 1) + 1 = i
            BY <1>0, <4>1
          <5>2. rest[i - 1] = ss[(i - 1) + 1]
            BY <1>0, <5>1
          <5> QED BY <4>1, <5>1, <5>2
        <4>3. CASE i = 2
          <5>1. OfSession(r, 1)'
            <6> HIDE DEF rest
            <6> QED BY <2>2, <4>2, <4>3 DEF OfSession
          <5>2. r > 0
            BY Ranks DEF Present
          <5> QED BY <2>2, <5>1, <5>2 DEF Mine, Key
        <4>4. CASE i # 2
          <5>1. i - 1 \in 2 .. Len(rest) /\ OfSession(r, i - 1)'
            <6> HIDE DEF rest
            <6> QED BY <1>0, <2>2, <4>2, <4>4 DEF OfSession
          <5> HIDE DEF rest
          <5> QED BY <2>2, <5>1 DEF Later
        <4> QED BY <4>3, <4>4
      <3> QED BY <3>1, <3>2 DEF Later
    <2> QED BY <2>3, <2>4, <2>5, <2>6, <2>7 DEF IndexInv
  <1> QED BY <1>1, <1>2

-----------------------------------------------------------------------------
(* The steps of a pass.                                                     *)

\* A step that only reads.
Reading == UNCHANGED <<store, indexLogs, gates, owing, ghosts, breaks, crashes>>

\* It leaves the index, and which rows are Good, as they are.
LEMMA ReadingWritesNothing ==
    ASSUME IndexInv, Reading, NEW t
    PROVE  Untouched /\ Rewritten(t) /\ (\A u, r : Good(u, r)' = Good(u, r))
  <1>1. /\ row' = row /\ index' = index /\ overtaken' = overtaken /\ indexLogs' = indexLogs
        /\ UNCHANGED <<stale, gates, owing, unrecorded>>
    BY DEF Reading, store, ghosts
  <1>2. Rewritten(t)
    BY <1>1 DEF IndexInv, IndexTypes, Rewritten, Versions, Bounded
  <1> QED BY <1>1, <1>2 DEF Untouched, Good

\* The lock is given back.
LEMMA PassGone ==
    ASSUME pass' = Idle, ~active', IndexTypes', Bounded', RestSettled'
    PROVE  IndexInv'
  <1>1. /\ pass'.kind = "none" /\ pass'.stage = "none" /\ pass'.sessions = <<>> /\ pass'.page = <<>>
        /\ ~pass'.last
    <2> DEFINE f == Idle
    <2>1. f.kind = "none" /\ f.stage = "none" /\ f.sessions = <<>> /\ f.page = <<>> /\ ~f.last
      BY IdleFields
    <2>2. pass' = f
      OBVIOUS
    <2> HIDE DEF f
    <2> QED BY <2>1, <2>2
  <1>2. PassShape'
    BY <1>1 DEF PassShape, Stages, Tables
  <1>3. GatesHold'
    BY <1>1 DEF GatesHold
  <1>4. PageSound' /\ StageCovered' /\ RebuildAhead' /\ StagesDone'
    BY <1>1 DEF PageSound, StageCovered, RebuildAhead, StagesDone, Tables
  <1> QED BY <1>2, <1>3, <1>4 DEF IndexInv

\* The rows of a page that is there.
LEMMA PageRows ==
    ASSUME IndexInv, pass.page # <<>>
    PROVE  /\ pass.stage \in Tables /\ pass.kind \in {"rebuild", "repair"}
           /\ pass.page \in Seq([id : Nat, text : Nat]) /\ Len(pass.page) \in Nat
           /\ DOMAIN pass.page = 1 .. Len(pass.page) /\ Len(pass.page) \in DOMAIN pass.page
           /\ \A i \in DOMAIN pass.page :
                 /\ pass.page[i].id \in Present(pass.stage) /\ pass.page[i].id \in Ids(pass.stage)
                 /\ pass.page[i].text \in Nat
  <1>1. pass.page \in Seq([id : Nat, text : Nat]) /\ pass.kind \in {"none", "rebuild", "repair"}
    BY DEF IndexInv, IndexTypes, PassRecords
  <1>2. pass.stage \in Tables /\ pass.kind \in {"rebuild", "repair"}
    <2>1. pass.stage \in Tables
      BY DEF IndexInv, PassShape
    <2>2. pass.kind # "none"
      BY <2>1 DEF IndexInv, PassShape, Stages, Tables
    <2> QED BY <1>1, <2>1, <2>2
  <1>3. Len(pass.page) \in Nat \ {0}
    BY <1>1, EmptySeq
  <1>4. DOMAIN pass.page = 1 .. Len(pass.page) /\ Len(pass.page) \in DOMAIN pass.page
    BY <1>1, <1>3
  <1>5. \A i \in DOMAIN pass.page : pass.page[i] \in [id : Nat, text : Nat]
    BY <1>1, <1>4, ElementOfSeq, Zenon
  <1>6. \A i \in DOMAIN pass.page : pass.page[i].id \in Present(pass.stage)
    BY <1>2 DEF IndexInv, PageSound
  <1> QED BY <1>1, <1>2, <1>3, <1>4, <1>5, <1>6 DEF Present

\* The page a rebuild writes next: the rows it wants beyond its cursor.
LEMMA RebuildLoadsKeeps ==
    ASSUME IndexInv, RebuildLoads, NEW t, pass.stage = t
    PROVE  IndexInv'
  <1> DEFINE wanted == IF t = "ops" \/ indexLogs THEN Present(t) ELSE {}
  <1>a. PICK S : S = {r \in wanted : RebuildKey(t, r) > pass.cursor}
    OBVIOUS
  <1>b. PICK key : key = [r \in Ids(t) |-> RebuildKey(t, r)]
    OBVIOUS
  <1>c. PICK page : page = RebuildPage(t)
    OBVIOUS
  <1>1. /\ pass.kind = "rebuild" /\ t \in Tables /\ pass.page = <<>> /\ Reading
        /\ pass' = IF page = <<>> THEN NextStage ELSE [pass EXCEPT !.page = page]
    BY <1>c DEF RebuildLoads, Reading
  <1>2. Untouched /\ Rewritten(t) /\ (\A u, r : Good(u, r)' = Good(u, r))
    BY <1>1, ReadingWritesNothing
  <1>3. S \in SUBSET Present(t) /\ page = Loaded(t, FirstPage(S, key))
    BY <1>a, <1>b, <1>c DEF RebuildPage
  <1>4. /\ \A x \in Ids(t) : key[x] = RebuildKey(t, x) /\ key[x] \in Nat
        /\ \A x, y \in Ids(t) : key[x] = key[y] => x = y
    BY <1>1, <1>b, Ranks, IndexAssumption DEF RebuildKey, Tables
  <1>5. Present(t) \subseteq Ids(t)
    BY DEF Present
  <1>6. \A r \in S : RebuildKey(t, r) > pass.cursor
    BY <1>a
  <1>7. \A r \in Present(t) : Wanted(t) /\ Mine(r) => r \in S
    BY <1>1, <1>a DEF Wanted, Mine, Key, Tables
  <1>8. t = "logs" /\ S # {} => indexLogs
    BY <1>a
  <1>9. Versions(row) /\ (\A x \in S : x \in Ids(t))
    BY <1>3, <1>5 DEF IndexInv, IndexTypes
  <1>10. PageOf(t, S, key, page)
    <2>1. (\A x \in S : key[x] \in Nat) /\ (\A x, y \in S : key[x] = key[y] => x = y)
      BY <1>4, <1>9
    <2>2. t \in Tables /\ Versions(row)
      BY <1>1, <1>9
    <2>3. S \in SUBSET Present(t) /\ page = Loaded(t, FirstPage(S, key))
      BY <1>3, Zenon
    <2> QED BY <2>1, <2>2, <2>3, PageLoaded
  <1>11. ~(\E r : Later(r))
    BY <1>1 DEF Later
  <1>12. CASE page = <<>>
    <2>1. \A r \in Present(t) : Trusted /\ Wanted(t) => Good(t, r)
      <3>1. \A r \in Present(t) : ~(Wanted(t) /\ Mine(r))
        BY <1>7, <1>10, <1>12 DEF PageOf
      <3> QED BY <1>1, <1>11, <3>1 DEF IndexInv, StageCovered
    <2>2. Trusted /\ Wanted(t) => \A r \in Present(t) : Good(t, r)'
      BY <1>2, <2>1
    <2> QED BY <1>1, <1>2, <1>12, <2>2, StageOver
  <1>13. CASE page # <<>>
    <2>1. pass' = [pass EXCEPT !.page = page]
      BY <1>1, <1>13
    <2>2. pass \in PassRecords
      BY DEF IndexInv, IndexTypes
    <2>3. /\ pass' \in PassRecords /\ pass'.kind = "rebuild" /\ pass'.stage = t
          /\ pass'.sessions = pass.sessions /\ pass'.last = pass.last /\ pass'.cursor = pass.cursor
          /\ pass'.page = page
      <3>1. page \in Seq([id : Nat, text : Nat])
        BY <1>10 DEF PageOf
      <3> QED BY <1>1, <2>1, <2>2, <3>1 DEF PassRecords
    <2>4. IndexTypes' /\ GatesHold' /\ Bounded' /\ RestSettled' /\ Trusted' = Trusted
      BY <1>1, <1>2, <2>3, PassStepFrame
    <2>5. StagesDone' /\ (\A u : Present(u)' = Present(u) /\ Wanted(u)' = Wanted(u))
      BY <1>1, <1>2, <2>3, SameStage
    <2>6. Len(page) \in Nat \ {0} /\ 1 \in DOMAIN page /\ Len(page) \in DOMAIN page /\ S # {}
      <3>1. Len(page) \in Nat \ {0}
        BY <1>10, <1>13, EmptySeq DEF PageOf
      <3>2. 1 \in DOMAIN page /\ Len(page) \in DOMAIN page
        BY <1>10, <3>1 DEF PageOf
      <3> QED BY <1>10, <3>1, <3>2 DEF PageOf
    <2>7. PassShape'
      <3>1. t = "logs" => indexLogs'
        BY <1>2, <1>8, <2>6 DEF Untouched
      <3>2. pass.sessions = <<>> /\ ~pass.last
        BY <1>1 DEF IndexInv, PassShape
      <3> QED BY <1>1, <2>3, <3>1, <3>2 DEF PassShape, Stages, Tables
    <2>8. PageSound'
      <3>1. row' = row
        BY <1>2 DEF Untouched
      <3>2. \A i \in DOMAIN page : page[i].id \in Present(t) /\ page[i].text > 0
                                   /\ page[i].text = row[t][page[i].id] /\ page[i].text <= row[t][page[i].id]
        <4>1. \A i \in DOMAIN page : page[i].id \in S /\ page[i].text = row[t][page[i].id] /\ page[i].text > 0
          BY <1>10 DEF PageOf
        <4>2. \A r \in S : r \in Present(t) /\ row[t][r] \in Nat
          BY <1>1, <1>3, <1>9 DEF Versions
        <4> QED BY <4>1, <4>2
      <3> QED BY <2>3, <2>5, <3>1, <3>2 DEF PageSound
    <2>9. RebuildAhead'
      <3> SUFFICES ASSUME t = "ops"
                   PROVE  /\ \A r \in Ids("ops") : IdRank[r] > pass.cursor => index'["ops"][r] = 0
                          /\ \A i \in DOMAIN page :
                                /\ IdRank[page[i].id] > pass.cursor
                                /\ IdRank[page[i].id] <= IdRank[page[Len(page)].id]
        BY <2>3 DEF RebuildAhead
      <3>1. index' = index
        BY <1>1 DEF Reading, store
      <3>2. \A r \in Ids("ops") : IdRank[r] > pass.cursor => index["ops"][r] = 0
        BY <1>1 DEF IndexInv, RebuildAhead
      <3>3. \A r \in S : r \in Ids(t) /\ key[r] = IdRank[r] /\ IdRank[r] > pass.cursor
        BY <1>4, <1>6, <1>9 DEF RebuildKey
      <3>4. \A i \in DOMAIN page : page[i].id \in S /\ key[page[i].id] <= key[page[Len(page)].id]
        BY <1>10 DEF PageOf
      <3> QED BY <2>6, <3>1, <3>2, <3>3, <3>4
    <2>10. StageCovered'
      <3> SUFFICES ASSUME Trusted, Wanted(t), NEW r \in Present(t), ~Good(t, r)
                   PROVE  Mine(r)' /\ (r \in PageIds' \/ Onward(r)')
        BY <1>2, <2>3, <2>4, <2>5 DEF StageCovered
      <3>1. Mine(r)
        BY <1>1, <1>11 DEF IndexInv, StageCovered
      <3>2. r \in S
        BY <1>7, <3>1
      <3>3. Mine(r)'
        BY <1>1, <2>3, <3>1 DEF Mine, Key, RebuildKey
      <3>4. CASE \E i \in DOMAIN page : page[i].id = r
        BY <2>3, <3>3, <3>4 DEF PageIds
      <3>5. CASE Len(page) = PageSize /\ key[page[Len(page)].id] < key[r]
        <4>1. page[Len(page)].id \in Ids(t) /\ r \in Ids(t)
          BY <1>9, <1>10, <2>6, <3>2 DEF PageOf
        <4>2. RebuildKey(t, page[Len(page)].id) < RebuildKey(t, r)
          BY <1>4, <3>5, <4>1
        <4>3. Len(page) >= PageSize /\ RebuildKey(t, r) \in Nat /\ RebuildKey(t, page[Len(page)].id) \in Nat
          BY <1>4, <2>6, <3>5, <4>1
        <4>4. Onward(r)'
          BY <2>3, <4>2, <4>3 DEF Onward, Key
        <4> QED BY <3>3, <4>4
      <3> QED BY <1>10, <3>2, <3>3, <3>4, <3>5 DEF PageOf
    <2> QED BY <2>4, <2>5, <2>7, <2>8, <2>9, <2>10 DEF IndexInv
  <1> QED BY <1>12, <1>13

\* A repair loads the next rows of the session it is at.
LEMMA RepairLoadsKeeps ==
    ASSUME IndexInv, RepairLoads, NEW t, pass.stage = t
    PROVE  IndexInv'
  <1>a. PICK S : S = {r \in Present(t) : SessionOf[t][r] = Head(pass.sessions) /\ r > pass.cursor}
    OBVIOUS
  <1>b. PICK key : key = [x \in Ids(t) |-> x]
    OBVIOUS
  <1>c. PICK page : page = RepairPage(t)
    OBVIOUS
  <1>1. /\ pass.kind = "repair" /\ t \in Tables /\ pass.page = <<>> /\ pass.sessions # <<>> /\ Reading
        /\ pass' = IF page = <<>> THEN SessionDone ELSE [pass EXCEPT !.page = page]
    BY <1>c DEF RepairLoads, Repairing, Reading
  <1>2. Untouched /\ Rewritten(t) /\ (\A u, r : Good(u, r)' = Good(u, r))
    BY <1>1, ReadingWritesNothing
  <1>3. S \in SUBSET Present(t) /\ page = Loaded(t, FirstPage(S, key))
    BY <1>a, <1>b, <1>c DEF RepairPage, OwnOrder
  <1>4. /\ \A x \in Ids(t) : key[x] = x /\ x \in Nat
        /\ Present(t) \subseteq Ids(t)
    BY <1>1, <1>b, Ranks DEF Present
  <1>5. \A r \in Present(t) : Mine(r) => r \in S
    <2>1. pass.sessions \in Seq(Nat)
      BY DEF IndexInv, IndexTypes, PassRecords
    <2>2. Head(pass.sessions) = pass.sessions[1]
      BY <1>1, <2>1
    <2> QED BY <1>1, <1>a, <2>2 DEF Mine, Key, OfSession
  <1>6. Versions(row) /\ (\A x \in S : x \in Ids(t))
    BY <1>3, <1>4 DEF IndexInv, IndexTypes
  <1>7. PageOf(t, S, key, page)
    <2>1. (\A x \in S : key[x] \in Nat) /\ (\A x, y \in S : key[x] = key[y] => x = y)
      BY <1>4, <1>6
    <2>2. t \in Tables /\ Versions(row) /\ S \in SUBSET Present(t)
      BY <1>1, <1>3, <1>6
    <2>3. page = Loaded(t, FirstPage(S, key))
      BY <1>3, Zenon
    <2> QED BY <2>1, <2>2, <2>3, PageLoaded
  <1>8. t = "logs" => indexLogs
    BY <1>1 DEF IndexInv, PassShape
  <1>9. Trusted /\ Wanted(t)
    BY <1>1, <1>8 DEF Trusted, Wanted
  <1>10. \A r \in Present(t) : Good(t, r) \/ Later(r) \/ Mine(r)
    BY <1>1, <1>9 DEF IndexInv, StageCovered
  <1>11. CASE page = <<>>
    <2>1. \A r \in Present(t) : Good(t, r)' \/ Later(r)
      BY <1>2, <1>5, <1>7, <1>10, <1>11 DEF PageOf
    <2> QED BY <1>1, <1>2, <1>11, <2>1, SessionOver
  <1>12. CASE page # <<>>
    <2>1. pass' = [pass EXCEPT !.page = page]
      BY <1>1, <1>12
    <2>2. pass \in PassRecords
      BY DEF IndexInv, IndexTypes
    <2>3. /\ pass' \in PassRecords /\ pass'.kind = "repair" /\ pass'.stage = t /\ pass'.after = pass.after
          /\ pass'.sessions = pass.sessions /\ pass'.last = pass.last /\ pass'.cursor = pass.cursor
          /\ pass'.page = page
      <3>1. page \in Seq([id : Nat, text : Nat])
        BY <1>7 DEF PageOf
      <3> QED BY <1>1, <2>1, <2>2, <3>1 DEF PassRecords
    <2>4. IndexTypes' /\ GatesHold' /\ Bounded' /\ RestSettled' /\ Trusted' = Trusted
      BY <1>1, <1>2, <2>3, PassStepFrame
    <2>5. StagesDone' /\ (\A u : Present(u)' = Present(u) /\ Wanted(u)' = Wanted(u))
      BY <1>1, <1>2, <2>3, SameStage
    <2>6. Len(page) \in Nat \ {0} /\ Len(page) \in DOMAIN page
      <3>1. Len(page) \in Nat \ {0}
        BY <1>7, <1>12, EmptySeq DEF PageOf
      <3> QED BY <1>7, <3>1 DEF PageOf
    <2>7. PassShape'
      <3>1. t = "logs" => indexLogs'
        BY <1>2, <1>8 DEF Untouched
      <3> QED BY <1>1, <2>3, <3>1 DEF PassShape, Stages, Tables
    <2>8. PageSound' /\ RebuildAhead'
      <3>1. row' = row
        BY <1>2 DEF Untouched
      <3>2. \A i \in DOMAIN page : page[i].id \in Present(t) /\ page[i].text > 0
                                   /\ page[i].text <= row[t][page[i].id]
        <4>1. \A i \in DOMAIN page : page[i].id \in S /\ page[i].text = row[t][page[i].id] /\ page[i].text > 0
          BY <1>7 DEF PageOf
        <4>2. \A r \in S : r \in Present(t) /\ row[t][r] \in Nat
          BY <1>1, <1>3, <1>6 DEF Versions
        <4> QED BY <4>1, <4>2
      <3> QED BY <2>3, <2>5, <3>1, <3>2 DEF PageSound, RebuildAhead
    <2>9. StageCovered'
      <3> SUFFICES ASSUME NEW r \in Present(t), ~Good(t, r), ~Later(r)
                   PROVE  Mine(r)' /\ (r \in PageIds' \/ Onward(r)')
        <4>1. \A r : Later(r)' = Later(r)
          BY <1>1, <2>3 DEF Later, OfSession
        <4> QED BY <1>2, <2>3, <2>5, <4>1 DEF StageCovered
      <3>1. Mine(r) /\ r \in S
        BY <1>5, <1>10
      <3>2. Mine(r)'
        BY <1>1, <2>3, <3>1 DEF Mine, Key, OfSession
      <3>3. CASE \E i \in DOMAIN page : page[i].id = r
        BY <2>3, <3>2, <3>3 DEF PageIds
      <3>4. CASE Len(page) = PageSize /\ key[page[Len(page)].id] < key[r]
        <4>1. page[Len(page)].id \in Ids(t) /\ r \in Ids(t)
          BY <1>6, <1>7, <2>6, <3>1 DEF PageOf
        <4>2. page[Len(page)].id < r /\ r \in Nat /\ page[Len(page)].id \in Nat /\ Len(page) >= PageSize
          BY <1>4, <2>6, <3>4, <4>1
        <4>3. Onward(r)'
          BY <2>3, <4>2 DEF Onward, Key
        <4> QED BY <3>2, <4>3
      <3> QED BY <1>7, <3>1, <3>3, <3>4 DEF PageOf
    <2> QED BY <2>4, <2>5, <2>7, <2>8, <2>9 DEF IndexInv
  <1> QED BY <1>11, <1>12

\* Writing a page: its rows get the text it was loaded with, no other row is
\* touched, and no index row gets ahead of its row.
LEMMA PageWritten ==
    ASSUME IndexInv, NEW t, pass.stage = t, pass.page # <<>>, UNCHANGED <<row, indexLogs>>,
           index' = InsertPage(t, pass.page)
    PROVE  /\ Versions(index)' /\ Bounded'
           /\ t = "logs" => index'["ops"] = index["ops"]
           /\ \A r \in Ids(t) : r \notin PageIds => index'[t][r] = index[t][r]
           /\ \A r \in PageIds : \E i \in DOMAIN pass.page :
                 pass.page[i].id = r /\ index'[t][r] = pass.page[i].text
  <1>1. /\ t \in Tables /\ DOMAIN pass.page = 1 .. Len(pass.page)
        /\ \A i \in DOMAIN pass.page :
              /\ pass.page[i].id \in Present(t) /\ pass.page[i].id \in Ids(t) /\ pass.page[i].text \in Nat
              /\ pass.page[i].text <= row[t][pass.page[i].id]
    BY PageRows DEF IndexInv, PageSound
  <1> DEFINE Has(r) == \E i \in DOMAIN pass.page : pass.page[i].id = r
             At(r) == CHOOSE i \in DOMAIN pass.page : pass.page[i].id = r
             f == [r \in Ids(t) |-> IF Has(r) THEN pass.page[At(r)].text ELSE index[t][r]]
  <1>2. Versions(row) /\ Versions(index) /\ Bounded
    BY DEF IndexInv, IndexTypes
  <1>3. index' = [index EXCEPT ![t] = f]
    BY DEF InsertPage
  <1>4. \A r : Has(r) => At(r) \in DOMAIN pass.page /\ pass.page[At(r)].id = r
    <2> TAKE r
    <2>1. Has(r) => \E i \in DOMAIN pass.page : pass.page[i].id = r
      OBVIOUS
    <2> QED BY <2>1, Zenon
  <1>5. \A r : r \in PageIds <=> Has(r)
    BY DEF PageIds
  <1> HIDE DEF Has, At
  <1>6. \A r \in Ids(t) : /\ f[r] = IF Has(r) THEN pass.page[At(r)].text ELSE index[t][r]
                          /\ f[r] \in Nat /\ f[r] <= row[t][r]
    <2>1. \A r \in Ids(t) : f[r] = IF Has(r) THEN pass.page[At(r)].text ELSE index[t][r]
      OBVIOUS
    <2> HIDE DEF f
    <2>2. \A r \in Ids(t) : Has(r) => f[r] \in Nat /\ f[r] <= row[t][r]
      BY <1>1, <1>4, <2>1
    <2>3. \A r \in Ids(t) : ~Has(r) => f[r] \in Nat /\ f[r] <= row[t][r]
      BY <1>1, <1>2, <2>1 DEF Versions, Bounded
    <2> QED BY <2>1, <2>2, <2>3
  <1>7. f \in [Ids(t) -> Nat]
    <2>1. \A r \in Ids(t) : (IF Has(r) THEN pass.page[At(r)].text ELSE index[t][r]) \in Nat
      BY <1>6
    <2> QED BY <2>1
  <1> HIDE DEF f
  <1>8. index'[t] = f /\ DOMAIN index' = Tables /\ \A u \in Tables : u # t => index'[u] = index[u]
    BY <1>1, <1>2, <1>3 DEF Versions
  <1>9. Versions(index)'
    BY <1>2, <1>7, <1>8 DEF Versions
  <1>10. t = "logs" => indexLogs
    BY DEF IndexInv, PassShape
  <1>11. Bounded'
    <2>1. \A u \in Tables : \A r \in Ids(u) : index'[u][r] <= row[u][r]
      BY <1>2, <1>6, <1>8 DEF Bounded
    <2>2. \A r \in Ids("logs") : ~indexLogs => index'["logs"][r] = 0
      BY <1>2, <1>8, <1>10 DEF Bounded, Tables
    <2> QED BY <1>2, <2>1, <2>2 DEF Bounded
  <1>12. t = "logs" => index'["ops"] = index["ops"]
    BY <1>8 DEF Tables
  <1>13. \A r \in Ids(t) : r \notin PageIds => index'[t][r] = index[t][r]
    BY <1>5, <1>6, <1>8
  <1>14. \A r \in PageIds : \E i \in DOMAIN pass.page : pass.page[i].id = r /\ index'[t][r] = pass.page[i].text
    <2> SUFFICES ASSUME NEW r \in PageIds
                 PROVE  At(r) \in DOMAIN pass.page /\ pass.page[At(r)].id = r /\ index'[t][r] = pass.page[At(r)].text
      OBVIOUS
    <2>1. Has(r) /\ At(r) \in DOMAIN pass.page /\ pass.page[At(r)].id = r
      BY <1>4, <1>5
    <2>2. r \in Ids(t)
      BY <1>1, <2>1
    <2> QED BY <1>6, <1>8, <2>1, <2>2
  <1> QED BY <1>9, <1>11, <1>12, <1>13, <1>14

\* A rebuild writes its page: with nothing owing since, its texts are current.
LEMMA RebuildWritesKeeps ==
    ASSUME IndexInv, RebuildWrites, NEW t, pass.stage = t
    PROVE  IndexInv'
  <1>a. PICK key \in Nat : key = RebuildKey(t, pass.page[Len(pass.page)].id)
    BY PageRows, Ranks DEF RebuildWrites
  <1>1. /\ pass.kind = "rebuild" /\ pass.page # <<>> /\ index' = InsertPage(t, pass.page)
        /\ pass' = IF Short(pass.page) THEN NextStage
                   ELSE [pass EXCEPT !.page = <<>>, !.cursor = key]
        /\ UNCHANGED <<row, indexLogs, overtaken>> /\ Untouched
    BY <1>a DEF RebuildWrites, ghosts, Untouched
  <1>2. /\ t \in Tables /\ Len(pass.page) \in Nat /\ Len(pass.page) \in DOMAIN pass.page
        /\ \A i \in DOMAIN pass.page : pass.page[i].id \in Present(t) /\ pass.page[i].id \in Ids(t)
    BY <1>1, PageRows
  <1>3. /\ Versions(index)' /\ Bounded'
        /\ t = "logs" => index'["ops"] = index["ops"]
        /\ \A r \in Ids(t) : r \notin PageIds => index'[t][r] = index[t][r]
        /\ \A r \in PageIds : \E i \in DOMAIN pass.page :
              pass.page[i].id = r /\ index'[t][r] = pass.page[i].text
    BY <1>1, PageWritten
  <1>4. Rewritten(t)
    BY <1>1, <1>3 DEF Rewritten, IndexInv, IndexTypes
  <1>5. ASSUME Trusted, NEW r \in Present(t), Good(t, r) \/ r \in PageIds PROVE Good(t, r)'
    <2>1. CASE r \in PageIds
      <3>1. PICK i \in DOMAIN pass.page : pass.page[i].id = r /\ index'[t][r] = pass.page[i].text
        BY <1>3, <2>1
      <3>2. ~owing
        BY <1>1, <1>5 DEF Trusted
      <3>3. pass.page[i].text > 0 /\ pass.page[i].text = row[t][r]
        BY <1>1, <1>2, <3>1, <3>2 DEF IndexInv, PageSound
      <3> QED BY <1>1, <3>1, <3>3 DEF Good
    <2>2. CASE r \notin PageIds
      <3>1. index'[t][r] = index[t][r]
        BY <1>3, <2>2 DEF Present
      <3> QED BY <1>1, <1>5, <2>2, <3>1 DEF Good
    <2> QED BY <2>1, <2>2
  <1>6. ASSUME Trusted, Wanted(t), NEW r \in Present(t), ~Good(t, r)'
        PROVE  Mine(r) /\ Onward(r)
    <2>1. ~Later(r)
      BY <1>1 DEF Later
    <2> QED BY <1>1, <1>2, <1>5, <1>6, <2>1 DEF IndexInv, StageCovered
  <1>7. CASE Short(pass.page)
    <2>1. ~(\E r : Onward(r))
      BY <1>2, <1>7, Ranks DEF Short, Onward
    <2>2. Trusted /\ Wanted(t) => \A r \in Present(t) : Good(t, r)'
      BY <1>6, <2>1
    <2> QED BY <1>1, <1>2, <1>4, <1>7, <2>2, StageOver
  <1>8. CASE ~Short(pass.page)
    <2>1. pass' = [pass EXCEPT !.page = <<>>, !.cursor = key]
      BY <1>1, <1>8
    <2>2. /\ pass' \in PassRecords /\ pass'.kind = "rebuild" /\ pass'.stage = t
          /\ pass'.sessions = pass.sessions /\ pass'.last = pass.last /\ pass'.cursor = key
          /\ pass'.page = <<>>
      <3>1. pass \in PassRecords /\ <<>> \in Seq([id : Nat, text : Nat])
        BY DEF IndexInv, IndexTypes
      <3> QED BY <1>1, <1>a, <2>1, <3>1 DEF PassRecords
    <2>3. IndexTypes' /\ GatesHold' /\ RestSettled' /\ Trusted' = Trusted
      BY <1>1, <1>4, <2>2, PassStepFrame
    <2>4. StagesDone' /\ (\A u : Present(u)' = Present(u) /\ Wanted(u)' = Wanted(u))
      BY <1>1, <1>2, <1>4, <2>2, SameStage
    <2>5. PassShape'
      <3>1. pass.sessions = <<>> /\ ~pass.last
        BY <1>1 DEF IndexInv, PassShape
      <3> QED BY <1>2, <2>2, <3>1 DEF PassShape, Stages, Tables
    <2>6. DOMAIN pass'.page = {}
      BY <2>2
    <2>7. PageSound'
      BY <2>6 DEF PageSound
    <2>8. RebuildAhead'
      <3> SUFFICES ASSUME t = "ops", NEW r \in Ids("ops"), IdRank[r] > key
                   PROVE  index'["ops"][r] = 0
        BY <2>2, <2>6 DEF RebuildAhead
      <3>1. /\ \A i \in DOMAIN pass.page :
                  /\ IdRank[pass.page[i].id] > pass.cursor
                  /\ IdRank[pass.page[i].id] <= IdRank[pass.page[Len(pass.page)].id]
            /\ IdRank[r] > pass.cursor => index["ops"][r] = 0
        BY <1>1 DEF IndexInv, RebuildAhead
      <3>2. key = IdRank[pass.page[Len(pass.page)].id]
        BY <1>a DEF RebuildKey
      <3>3. \A i \in DOMAIN pass.page : IdRank[pass.page[i].id] \in Nat
        BY <1>2, Ranks
      <3>4. pass.cursor \in Nat /\ IdRank[r] \in Nat
        BY Ranks DEF IndexInv, IndexTypes, PassRecords
      <3>5. r \notin PageIds
        BY <3>1, <3>2, <3>3, <3>4, <1>a DEF PageIds
      <3>6. IdRank[r] > pass.cursor
        BY <1>2, <1>a, <3>1, <3>2, <3>4
      <3> QED BY <1>3, <3>1, <3>5, <3>6
    <2>9. StageCovered'
      <3> SUFFICES ASSUME Trusted, Wanted(t), NEW r \in Present(t), ~Good(t, r)'
                   PROVE  Mine(r)'
        BY <2>2, <2>3, <2>4 DEF StageCovered
      <3>1. Onward(r)
        BY <1>6
      <3>2. RebuildKey(t, r) > key
        BY <1>1, <1>a, <3>1 DEF Onward, Key
      <3> QED BY <2>2, <3>2 DEF Mine, Key
    <2> QED BY <1>3, <2>3, <2>4, <2>5, <2>7, <2>8, <2>9 DEF IndexInv
  <1> QED BY <1>7, <1>8

\* A repair writes its page: a row whose text has changed since is overtaken.
LEMMA RepairWritesKeeps ==
    ASSUME IndexInv, RepairWrites, NEW t, pass.stage = t
    PROVE  IndexInv'
  <1>a. PICK key \in Nat : key = pass.page[Len(pass.page)].id
    BY PageRows, Ranks DEF RepairWrites
  <1>1. /\ pass.kind = "repair" /\ pass.page # <<>> /\ index' = InsertPage(t, pass.page)
        /\ overtaken' = IF t = "ops" THEN (overtaken \ PageIds) \union Outdated ELSE overtaken
        /\ pass' = IF Short(pass.page) THEN SessionDone
                   ELSE [pass EXCEPT !.page = <<>>, !.cursor = key]
        /\ UNCHANGED <<row, indexLogs>> /\ Untouched
    BY <1>a DEF RepairWrites, Repairing, Untouched
  <1>2. /\ t \in Tables /\ Len(pass.page) \in Nat /\ Len(pass.page) \in DOMAIN pass.page
        /\ \A i \in DOMAIN pass.page : pass.page[i].id \in Present(t) /\ pass.page[i].id \in Ids(t)
    BY <1>1, PageRows
  <1>3. /\ Versions(index)' /\ Bounded'
        /\ t = "logs" => index'["ops"] = index["ops"]
        /\ \A r \in Ids(t) : r \notin PageIds => index'[t][r] = index[t][r]
        /\ \A r \in PageIds : \E i \in DOMAIN pass.page :
              pass.page[i].id = r /\ index'[t][r] = pass.page[i].text
    BY <1>1, PageWritten
  <1>4. Rewritten(t)
    <2>1. overtaken \subseteq Ids("ops")
      BY DEF IndexInv, IndexTypes
    <2>2. t = "ops" => Outdated \subseteq Ids("ops")
      BY <1>2 DEF Outdated
    <2>3. t = "logs" => overtaken' = overtaken
      BY <1>1
    <2>4. overtaken' \subseteq Ids("ops")
      BY <1>1, <2>1, <2>2
    <2> QED BY <1>3, <2>3, <2>4 DEF Rewritten
  <1>5. t = "logs" => indexLogs
    BY <1>1 DEF IndexInv, PassShape
  <1>6. Trusted /\ Wanted(t)
    BY <1>1, <1>5 DEF Trusted, Wanted
  <1>7. ASSUME NEW r \in Present(t), Good(t, r) \/ r \in PageIds PROVE Good(t, r)'
    <2>1. CASE r \in PageIds
      <3>1. PICK i \in DOMAIN pass.page : pass.page[i].id = r /\ index'[t][r] = pass.page[i].text
        BY <1>3, <2>1
      <3>2. pass.page[i].text > 0 /\ pass.page[i].text <= row[t][r]
        BY <1>2, <3>1 DEF IndexInv, PageSound
      <3>3. CASE t = "ops"
        <4>1. pass.page[i].text # row[t][r] => r \in Outdated
          BY <3>1 DEF Outdated
        <4> QED BY <1>1, <3>1, <3>2, <3>3, <4>1 DEF Good
      <3>4. CASE t = "logs"
        <4>1. row[t][r] \in Nat /\ row[t][r] <= 1 /\ pass.page[i].text \in Nat
          BY <1>1, <1>2, <3>4, PageRows DEF IndexInv, IndexTypes, Versions, Bounded, Present
        <4>2. pass.page[i].text = row[t][r]
          BY <3>2, <4>1
        <4> QED BY <1>1, <3>1, <3>2, <4>2 DEF Good
      <3> QED BY <1>2, <3>3, <3>4 DEF Tables
    <2>2. CASE r \notin PageIds
      <3>1. index'[t][r] = index[t][r] /\ Good(t, r)
        BY <1>3, <1>7, <2>2 DEF Present
      <3>2. t = "ops" /\ r \in overtaken => r \in overtaken'
        BY <1>1, <2>2
      <3> QED BY <1>1, <3>1, <3>2 DEF Good
    <2> QED BY <2>1, <2>2
  <1>8. ASSUME NEW r \in Present(t), ~Good(t, r)'
        PROVE  Later(r) \/ (Mine(r) /\ Onward(r))
    BY <1>1, <1>2, <1>6, <1>7, <1>8 DEF IndexInv, StageCovered
  <1>9. pass.sessions # <<>>
    BY <1>1 DEF IndexInv, PassShape
  <1>10. CASE Short(pass.page)
    <2>1. ~(\E r : Onward(r))
      BY <1>2, <1>10, Ranks DEF Short, Onward
    <2>2. Wanted(t) => \A r \in Present(t) : Good(t, r)' \/ Later(r)
      BY <1>8, <2>1
    <2> QED BY <1>1, <1>2, <1>4, <1>9, <1>10, <2>2, SessionOver
  <1>11. CASE ~Short(pass.page)
    <2>1. pass' = [pass EXCEPT !.page = <<>>, !.cursor = key]
      BY <1>1, <1>11
    <2>2. /\ pass' \in PassRecords /\ pass'.kind = "repair" /\ pass'.stage = t /\ pass'.after = pass.after
          /\ pass'.sessions = pass.sessions /\ pass'.last = pass.last /\ pass'.cursor = key
          /\ pass'.page = <<>>
      <3>1. pass \in PassRecords /\ <<>> \in Seq([id : Nat, text : Nat])
        BY DEF IndexInv, IndexTypes
      <3> QED BY <1>1, <1>a, <2>1, <3>1 DEF PassRecords
    <2>3. IndexTypes' /\ GatesHold' /\ RestSettled' /\ Trusted' = Trusted
      BY <1>1, <1>4, <2>2, PassStepFrame
    <2>4. StagesDone' /\ (\A u : Present(u)' = Present(u) /\ Wanted(u)' = Wanted(u))
      BY <1>1, <1>2, <1>4, <2>2, SameStage
    <2>5. PassShape'
      <3>1. t = "logs" => indexLogs'
        BY <1>1, <1>5
      <3> QED BY <1>2, <1>9, <2>2, <3>1 DEF PassShape, Stages, Tables
    <2>6. PageSound' /\ RebuildAhead'
      <3>1. DOMAIN pass'.page = {}
        BY <2>2
      <3> QED BY <2>2, <3>1 DEF PageSound, RebuildAhead
    <2>7. StageCovered'
      <3> SUFFICES ASSUME NEW r \in Present(t), ~Good(t, r)', ~Later(r)
                   PROVE  Mine(r)'
        <4>1. \A r : Later(r)' = Later(r)
          BY <1>1, <2>2 DEF Later, OfSession
        <4> QED BY <2>2, <2>4, <4>1 DEF StageCovered
      <3>1. Mine(r) /\ Onward(r)
        BY <1>8
      <3>2. r > key
        BY <1>1, <1>a, <3>1 DEF Onward, Key
      <3> QED BY <1>1, <2>2, <3>1, <3>2 DEF Mine, Key, OfSession
    <2> QED BY <1>3, <2>3, <2>4, <2>5, <2>6, <2>7 DEF IndexInv
  <1> QED BY <1>10, <1>11

\* The next sessions of a repair: every row it still lacks is of one of them
\* or of a later one.
LEMMA SessionPageIs ==
    ASSUME Versions(row), NEW page, page = SessionPage
    PROVE  /\ page \in Seq(Nat)
           /\ page # <<>> => page[Len(page)] \in Nat
           /\ \A t \in Tables : \A r \in Present(t) :
                 SessionOf[t][r] > pass.after =>
                    \/ \E i \in 1 .. Len(page) : page[i] = SessionOf[t][r]
                    \/ Len(page) = PageSize /\ page[Len(page)] < SessionOf[t][r]
  <1> DEFINE seen == UNION {{SessionOf[t][r] : r \in Present(t)} : t \in Tables}
  <1>1. seen \subseteq Nat
    BY Ranks DEF Present
  <1>2. \A t \in Tables : \A r \in Present(t) : SessionOf[t][r] \in seen
    OBVIOUS
  <1>3. PICK S : S = {s \in seen : s > pass.after}
    OBVIOUS
  <1>4. PICK key : key = [x \in seen |-> x]
    OBVIOUS
  <1>5. page = FirstPage(S, key)
    BY <1>3, <1>4 DEF SessionPage, OwnOrder
  <1> HIDE DEF seen
  <1>6. S \subseteq Nat /\ \A x \in S : key[x] = x /\ key[x] \in Nat
    BY <1>1, <1>3, <1>4
  <1>7. \A x, y \in S : key[x] = key[y] => x = y
    BY <1>6
  <1>8. /\ page \in Seq(S)
        /\ \A x \in S : \/ \E i \in 1 .. Len(page) : page[i] = x
                        \/ Len(page) = PageSize /\ key[page[Len(page)]] < key[x]
    <2> DEFINE p == FirstPage(S, key)
    <2>1. /\ p \in Seq(S)
          /\ \A x \in S : \/ \E i \in 1 .. Len(p) : p[i] = x
                          \/ Len(p) = PageSize /\ key[p[Len(p)]] < key[x]
      BY <1>6, <1>7, FirstPageSound
    <2>2. page = p
      BY <1>5
    <2> HIDE DEF p
    <2> QED BY <2>1, <2>2
  <1>9. Len(page) \in Nat /\ \A i \in 1 .. Len(page) : page[i] \in S
    BY <1>8
  <1>10. page \in Seq(Nat)
    <2>1. page \in [1 .. Len(page) -> Nat]
      <3>1. page = [i \in 1 .. Len(page) |-> page[i]]
        BY <1>8
      <3>2. \A i \in 1 .. Len(page) : page[i] \in Nat
        BY <1>6, <1>9
      <3> QED BY <3>1, <3>2
    <2> QED BY <1>9, <2>1, TableSequence, Zenon
  <1>11. page # <<>> => Len(page) \in 1 .. Len(page)
    BY <1>8, EmptySeq
  <1>12. ASSUME NEW t \in Tables, NEW r \in Present(t), SessionOf[t][r] > pass.after,
                ~(\E i \in 1 .. Len(page) : page[i] = SessionOf[t][r])
         PROVE  Len(page) = PageSize /\ page[Len(page)] < SessionOf[t][r]
    <2>1. SessionOf[t][r] \in S
      BY <1>2, <1>3, <1>12
    <2>2. Len(page) = PageSize /\ key[page[Len(page)]] < key[SessionOf[t][r]]
      BY <1>8, <1>12, <2>1
    <2>3. page[Len(page)] \in S
      BY <1>9, <2>2, Ranks
    <2> QED BY <1>6, <2>1, <2>2, <2>3
  <1> QED BY <1>6, <1>9, <1>10, <1>11, <1>12

\* A repair loads its next page of sessions.
LEMMA RepairLoadsSessionsKeeps ==
    ASSUME IndexInv, RepairLoadsSessions, NEW t, pass.stage = t
    PROVE  IndexInv'
  <1>a. PICK page : page = SessionPage
    OBVIOUS
  <1>1. /\ pass.kind = "repair" /\ t \in Tables /\ pass.sessions = <<>> /\ Reading
        /\ pass' = IF page = <<>> THEN NextStage
                   ELSE [pass EXCEPT !.sessions = page, !.after = page[Len(page)], !.last = Short(page),
                                     !.cursor = 0]
        /\ t = "ops" \/ indexLogs
    BY <1>a DEF RepairLoadsSessions, Repairing, Reading
  <1>2. Untouched /\ Rewritten(t) /\ (\A u, r : Good(u, r)' = Good(u, r))
    BY <1>1, ReadingWritesNothing
  <1>3. /\ page \in Seq(Nat)
        /\ page # <<>> => page[Len(page)] \in Nat
        /\ \A r \in Present(t) : SessionOf[t][r] > pass.after =>
                    \/ \E i \in 1 .. Len(page) : page[i] = SessionOf[t][r]
                    \/ Len(page) = PageSize /\ page[Len(page)] < SessionOf[t][r]
    BY <1>1, <1>a, SessionPageIs DEF IndexInv, IndexTypes
  <1>4. pass.page = <<>>
    BY <1>1 DEF IndexInv, PassShape
  <1>5. Trusted /\ Wanted(t)
    BY <1>1 DEF Trusted, Wanted, Tables
  <1>6. \A r \in Present(t) : Good(t, r) \/ SessionOf[t][r] > pass.after
    <2>1. 1 .. Len(pass.sessions) = {} /\ 2 .. Len(pass.sessions) = {}
      BY <1>1
    <2> QED BY <1>1, <1>5, <2>1 DEF IndexInv, StageCovered, Later, Mine, OfSession
  <1>7. CASE page = <<>>
    <2>1. \A r \in Present(t) : Good(t, r)'
      <3>1. Len(page) = 0 /\ 1 .. Len(page) = {} /\ PageSize # 0
        BY <1>7, Ranks
      <3> QED BY <1>2, <1>3, <1>6, <3>1
    <2> QED BY <1>1, <1>2, <1>7, <2>1, StageOver
  <1>8. CASE page # <<>>
    <2>1. PICK last \in Nat : last = page[Len(page)]
      BY <1>3, <1>8
    <2>s. Short(page) \in BOOLEAN
      BY DEF Short
    <2>2. PICK short \in BOOLEAN : short = Short(page)
      BY <2>s, Zenon
    <2>3. pass' = [pass EXCEPT !.sessions = page, !.after = last, !.last = short, !.cursor = 0]
      BY <1>1, <1>8, <2>1, <2>2
    <2>4. /\ pass' \in PassRecords /\ pass'.kind = "repair" /\ pass'.stage = t /\ pass'.after = last
          /\ pass'.sessions = page /\ pass'.last = short /\ pass'.cursor = 0 /\ pass'.page = <<>>
      <3>1. pass \in PassRecords
        BY DEF IndexInv, IndexTypes
      <3>2. pass' = [kind |-> pass.kind, stage |-> pass.stage, after |-> last, sessions |-> page,
                     last |-> short, cursor |-> 0, page |-> pass.page, buckets |-> pass.buckets]
        BY <2>3, <3>1, Zenon DEF PassRecords
      <3>3. pass' \in PassRecords
        BY <1>3, <2>1, <2>2, <3>1, <3>2 DEF PassRecords
      <3>4. pass'.last = short
        BY <3>2, Zenon
      <3>5. /\ pass'.kind = "repair" /\ pass'.stage = t /\ pass'.after = last
            /\ pass'.sessions = page /\ pass'.cursor = 0 /\ pass'.page = <<>>
        <4>1. /\ pass'.kind = pass.kind /\ pass'.stage = pass.stage /\ pass'.after = last
              /\ pass'.sessions = page /\ pass'.cursor = 0 /\ pass'.page = pass.page
          BY <3>2, Zenon
        <4> QED BY <1>1, <1>4, <4>1
      <3> QED BY <3>3, <3>4, <3>5, Zenon
    <2>5. IndexTypes' /\ GatesHold' /\ Bounded' /\ RestSettled' /\ Trusted' = Trusted
      BY <1>1, <1>2, <2>4, PassStepFrame
    <2>6. StagesDone' /\ (\A u : Present(u)' = Present(u) /\ Wanted(u)' = Wanted(u))
      BY <1>1, <1>2, <2>4, SameStage
    <2>7. PassShape'
      <3>1. t = "logs" => indexLogs'
        BY <1>1, <1>2 DEF Untouched
      <3> QED BY <1>1, <1>8, <2>4, <3>1 DEF PassShape, Stages, Tables
    <2>8. PageSound' /\ RebuildAhead'
      <3>1. DOMAIN pass'.page = {}
        BY <2>4
      <3> QED BY <2>4, <3>1 DEF PageSound, RebuildAhead
    <2>9. StageCovered'
      <3> SUFFICES ASSUME NEW r \in Present(t), ~Good(t, r)
                   PROVE  Later(r)' \/ Mine(r)'
        BY <1>2, <2>4, <2>6 DEF StageCovered
      <3>1. SessionOf[t][r] > pass.after
        BY <1>6
      <3>2. r > 0 /\ r \in Nat
        BY <1>1, Ranks DEF Present
      <3>3. CASE \E i \in 1 .. Len(page) : page[i] = SessionOf[t][r]
        <4>1. PICK i \in 1 .. Len(page) : page[i] = SessionOf[t][r]
          BY <3>3
        <4>2. CASE i = 1
          BY <2>4, <3>2, <4>1, <4>2 DEF Mine, Key, OfSession
        <4>3. CASE i # 1
          <5>1. i \in 2 .. Len(page)
            BY <1>3, <4>1, <4>3
          <5> QED BY <2>4, <4>1, <5>1 DEF Later, OfSession
        <4> QED BY <4>2, <4>3
      <3>4. CASE Len(page) = PageSize /\ page[Len(page)] < SessionOf[t][r]
        <4>1. ~short
          <5>1. ~Short(page)
            BY <3>4, Ranks DEF Short
          <5> QED BY <2>2, <5>1, Zenon
        <4>2. SessionOf[t][r] > last
          BY <2>1, <3>4
        <4> QED BY <2>4, <4>1, <4>2 DEF Later
      <3> QED BY <1>3, <3>1, <3>3, <3>4
    <2> QED BY <2>5, <2>6, <2>7, <2>8, <2>9 DEF IndexInv
  <1> QED BY <1>7, <1>8

\* A source that does not index logs has nothing to repair there.
LEMMA RepairSkipsLogsKeeps ==
    ASSUME IndexInv, RepairSkipsLogs
    PROVE  IndexInv'
  <1>1. /\ pass.kind = "repair" /\ pass.stage = "logs" /\ Reading /\ pass' = NextStage /\ ~indexLogs
    BY DEF RepairSkipsLogs, Repairing, Reading, NextStage
  <1>2. Untouched /\ Rewritten("logs")
    BY <1>1, ReadingWritesNothing
  <1>3. ~Wanted("logs") /\ "logs" \in Tables
    BY <1>1 DEF Wanted, Tables
  <1> QED BY <1>1, <1>2, <1>3, StageOver

\* Taking the lock, for a rebuild or a repair.
LEMMA LocksKeep ==
    ASSUME IndexInv, RebuildLocks \/ RepairLocks
    PROVE  IndexInv'
  <1>0. pass.kind = "none" /\ ~held' /\ UNCHANGED <<row, index, stale, overtaken, indexLogs>>
    BY IdleFields DEF RebuildLocks, RepairLocks, store, gates, ghosts
  <1>1. PICK k, st : /\ pass' = Fresh(k, st) /\ k \in {"rebuild", "repair"} /\ st \in {"wipe", "ops"}
                     /\ (k = "rebuild" => st = "wipe" /\ active') /\ (k = "repair" => st = "ops" /\ owing' /\ active' = active)
    <2>1. CASE RebuildLocks
      <3>1. pass' = Fresh("rebuild", "wipe") /\ active'
        BY <2>1 DEF RebuildLocks, Fresh
      <3>2. "rebuild" # "repair"
        OBVIOUS
      <3> QED BY <3>1, <3>2, Zenon
    <2>2. CASE RepairLocks
      <3>1. pass' = Fresh("repair", "ops") /\ owing' /\ active' = active
        BY <2>2 DEF RepairLocks, Fresh, gates
      <3> QED BY <3>1
    <2> QED BY <2>1, <2>2
  <1>2. pass' \in PassRecords /\ PageSound' /\ StageCovered'
    BY <1>1, FreshCovered
  <1>3. /\ pass'.kind = k /\ pass'.stage = st /\ pass'.sessions = <<>> /\ ~pass'.last /\ pass'.cursor = 0
        /\ pass'.page = <<>>
    BY <1>1, FreshFields
  <1>4. IndexTypes' /\ Bounded'
    BY <1>0, <1>2 DEF IndexInv, IndexTypes, Versions, Present, Bounded
  <1>5. PassShape' /\ GatesHold'
    <2>1. ~active
      BY <1>0 DEF IndexInv, GatesHold
    <2>2. GatesHold'
      BY <1>0, <1>1, <1>3, <2>1 DEF GatesHold
    <2>3. PassShape'
      BY <1>1, <1>3 DEF PassShape, Stages, Tables
    <2> QED BY <2>2, <2>3
  <1>6. RebuildAhead' /\ StagesDone' /\ RestSettled'
    BY <1>1, <1>3, IdleFields DEF RebuildAhead, StagesDone, RestSettled, AtRest
  <1> QED BY <1>2, <1>4, <1>5, <1>6 DEF IndexInv

\* The wipe: nothing is indexed.
LEMMA TruncateKeeps ==
    ASSUME IndexInv, TruncateFTS
    PROVE  IndexInv'
  <1>1. /\ pass' = Fresh("rebuild", "ops") /\ overtaken' = {} /\ UNCHANGED <<row, stale, indexLogs>>
        /\ index' = [t \in Tables |-> [r \in Ids(t) |-> 0]] /\ pass.kind = "rebuild"
        /\ UNCHANGED <<held, active, owing>> 
    BY DEF TruncateFTS, Stage, Fresh, gates
  <1>2. pass' \in PassRecords /\ PageSound' /\ StageCovered'
    BY <1>1, FreshCovered
  <1>3. /\ pass'.kind = "rebuild" /\ pass'.stage = "ops" /\ pass'.sessions = <<>> /\ ~pass'.last
        /\ pass'.cursor = 0 /\ pass'.page = <<>>
    BY <1>1, FreshFields
  <1>4. \A t \in Tables : /\ index'[t] \in [Ids(t) -> Nat] /\ index'[t] = [r \in Ids(t) |-> 0]
                          /\ \A r \in Ids(t) : index'[t][r] = 0
    BY <1>1
  <1>5. Versions(row) /\ Bounded /\ GatesHold
    BY DEF IndexInv, IndexTypes
  <1>6. IndexTypes'
    BY <1>1, <1>2, <1>4 DEF IndexInv, IndexTypes, Versions, Present
  <1>7. Bounded'
    <2>1. \A t \in Tables : \A r \in Ids(t) : row[t][r] \in Nat
      BY <1>5 DEF Versions
    <2> QED BY <1>1, <1>4, <1>5, <2>1 DEF Bounded, Tables
  <1>8. PassShape' /\ StagesDone'
    BY <1>3 DEF PassShape, Stages, Tables, StagesDone
  <1>9. GatesHold'
    <2>1. ~held
      BY <1>1, <1>5, IdleFields DEF GatesHold
    <2> QED BY <1>1, <1>3, <1>5, <2>1 DEF GatesHold
  <1>10. RebuildAhead'
    <2>1. DOMAIN pass'.page = {}
      BY <1>3
    <2> QED BY <1>4, <2>1 DEF RebuildAhead, Tables
  <1>11. RestSettled'
    BY <1>3, IdleFields DEF RestSettled, AtRest
  <1> QED BY <1>2, <1>6, <1>7, <1>8, <1>9, <1>10, <1>11 DEF IndexInv

\* The rebuild is through: with nothing owing since, everything is indexed.
LEMMA RebuildEndsKeeps ==
    ASSUME IndexInv, RebuildEnds
    PROVE  IndexInv'
  <1>1. /\ pass' = Idle /\ ~active' /\ stale' = {} /\ UNCHANGED <<row, index, overtaken, indexLogs, owing>>
        /\ pass.kind = "rebuild" /\ pass.stage = "rollups"
    BY DEF RebuildEnds, ghosts
  <1>2. IndexTypes' /\ Bounded'
    <2>1. pass' \in PassRecords
      BY <1>1, IdleFields
    <2> QED BY <1>1, <2>1 DEF IndexInv, IndexTypes, Versions, Present, Bounded
  <1>3. RestSettled'
    <2> SUFFICES ASSUME ~owing PROVE Indexed("ops")' /\ Indexed("logs")'
      BY <1>1 DEF RestSettled, AtRest
    <2>1. Indexed("ops") /\ Indexed("logs")
      BY <1>1 DEF IndexInv, StagesDone, Trusted
    <2> QED BY <1>1, <2>1 DEF Indexed, Wanted, Good, Present
  <1> QED BY <1>1, <1>2, <1>3, PassGone

\* A rebuild that fails leaves a debt, or has failed to record it.
LEMMA RebuildFailsKeeps ==
    ASSUME IndexInv, RebuildCollides \/ RebuildBreaks
    PROVE  IndexInv'
  <1>1. /\ pass' = Idle /\ ~active' /\ (owing' \/ unrecorded') /\ UNCHANGED <<row, index, indexLogs, overtaken>>
        /\ stale' \subseteq {BucketOf[r] : r \in Present("ops")}
    BY DEF RebuildCollides, RebuildBreaks, FailRebuild, store, IndexInv, IndexTypes
  <1>2. IndexTypes' /\ Bounded'
    <2>1. pass' \in PassRecords
      BY <1>1, IdleFields
    <2> QED BY <1>1, <2>1 DEF IndexInv, IndexTypes, Versions, Present, Bounded
  <1>3. RestSettled'
    BY <1>1 DEF RestSettled, AtRest
  <1> QED BY <1>1, <1>2, <1>3, PassGone

\* The repair turns from rows to buckets: every stale bucket is of a row.
LEMMA RepairListsBucketsKeeps ==
    ASSUME IndexInv, RepairListsBuckets
    PROVE  IndexInv'
  <1>1. /\ pass.kind = "repair" /\ pass.stage = "rollups" /\ Reading
        /\ pass' = [pass EXCEPT !.stage = "buckets", !.buckets = {BucketOf[r] : r \in Present("ops")}]
    BY DEF RepairListsBuckets, Reading
  <1>2. Untouched /\ Rewritten("none") /\ (\A u, r : Good(u, r)' = Good(u, r))
    BY <1>1, ReadingWritesNothing
  <1>3. PICK B : B = {BucketOf[r] : r \in Present("ops")}
    OBVIOUS
  <1>4. B \subseteq Nat
    BY <1>3, Ranks DEF Present
  <1>5. pass \in PassRecords /\ pass.page = <<>> /\ pass.sessions = <<>> /\ ~pass.last
    BY <1>1 DEF IndexInv, IndexTypes, PassShape, Tables
  <1>6. /\ pass' \in PassRecords /\ pass'.kind = "repair" /\ pass'.stage = "buckets" /\ pass'.page = <<>>
        /\ pass'.sessions = <<>> /\ pass'.last = pass.last /\ pass'.buckets = B
    BY <1>1, <1>3, <1>4, <1>5 DEF PassRecords
  <1>7. IndexTypes' /\ GatesHold' /\ Bounded' /\ RestSettled' /\ Trusted' = Trusted
    BY <1>1, <1>2, <1>6, PassStepFrame
  <1>8. PassShape'
    BY <1>5, <1>6 DEF PassShape, Stages, Tables
  <1>9. PageSound' /\ StageCovered' /\ RebuildAhead'
    BY <1>6 DEF PageSound, StageCovered, RebuildAhead, Tables
  <1>10. StagesDone'
    <2>1. Indexed("ops") /\ Indexed("logs") /\ stale \subseteq B
      BY <1>1, <1>3 DEF IndexInv, StagesDone, Trusted, IndexTypes
    <2>2. stale' = stale /\ \A u : Present(u)' = Present(u) /\ Wanted(u)' = Wanted(u)
      BY <1>2 DEF Untouched, Present, Wanted
    <2>3. Indexed("ops")' /\ Indexed("logs")'
      BY <1>2, <2>1, <2>2 DEF Indexed
    <2> QED BY <1>6, <2>1, <2>2, <2>3 DEF StagesDone
  <1> QED BY <1>7, <1>8, <1>9, <1>10 DEF IndexInv

\* One bucket is recomputed from the rows of the moment.
LEMMA RepairBucketKeeps ==
    ASSUME IndexInv, RepairBucket
    PROVE  IndexInv'
  <1>1. PICK b : /\ stale' = stale \ {b} /\ pass' = [pass EXCEPT !.buckets = @ \ {b}]
                 /\ pass.stage = "buckets"
                 /\ UNCHANGED <<row, index, indexLogs, gates, owing, ghosts>>
    BY DEF RepairBucket
  <1>2. pass \in PassRecords /\ pass.kind = "repair"
    BY <1>1 DEF IndexInv, IndexTypes, PassRecords, PassShape, Stages
  <1>3. /\ pass' \in PassRecords /\ pass'.kind = "repair" /\ pass'.stage = "buckets" /\ pass'.page = pass.page
        /\ pass'.sessions = pass.sessions /\ pass'.last = pass.last /\ pass'.buckets = pass.buckets \ {b}
    BY <1>1, <1>2 DEF PassRecords
  <1>4. IndexTypes' /\ Bounded'
    BY <1>1, <1>3 DEF IndexInv, IndexTypes, Versions, Present, Bounded, ghosts
  <1>5. GatesHold' /\ RestSettled'
    BY <1>1, <1>2, <1>3, IdleFields DEF IndexInv, GatesHold, RestSettled, AtRest, gates
  <1>6. PassShape'
    BY <1>1, <1>2, <1>3 DEF IndexInv, PassShape, Stages, Tables
  <1>7. PageSound' /\ StageCovered' /\ RebuildAhead'
    BY <1>3 DEF PageSound, StageCovered, RebuildAhead, Tables
  <1>8. StagesDone'
    <2>1. Indexed("ops") /\ Indexed("logs") /\ stale \subseteq pass.buckets
      BY <1>1, <1>2 DEF IndexInv, StagesDone, Trusted
    <2>2. Indexed("ops")' /\ Indexed("logs")'
      BY <1>1, <2>1 DEF Indexed, Good, Wanted, Present, ghosts
    <2> QED BY <1>1, <1>3, <2>1, <2>2 DEF StagesDone
  <1> QED BY <1>4, <1>5, <1>6, <1>7, <1>8 DEF IndexInv

\* The debt is paid only when no bucket is left.
LEMMA RepairEndsKeeps ==
    ASSUME IndexInv, RepairEnds
    PROVE  IndexInv'
  <1>1. /\ pass' = Idle /\ pass.stage = "buckets" /\ pass.buckets = {}
        /\ UNCHANGED <<row, index, stale, overtaken, indexLogs, active>>
    BY DEF RepairEnds, store, gates, ghosts
  <1>2. pass.kind = "repair"
    BY <1>1 DEF IndexInv, IndexTypes, PassRecords, PassShape, Stages
  <1>3. IndexTypes' /\ Bounded'
    <2>1. pass' \in PassRecords
      BY <1>1, IdleFields
    <2> QED BY <1>1, <2>1 DEF IndexInv, IndexTypes, Versions, Present, Bounded
  <1>4. RestSettled'
    <2>1. Indexed("ops") /\ Indexed("logs") /\ stale = {}
      BY <1>1, <1>2 DEF IndexInv, StagesDone, Trusted
    <2>2. Indexed("ops")' /\ Indexed("logs")'
      BY <1>1, <2>1 DEF Indexed, Good, Wanted, Present
    <2> QED BY <1>1, <2>1, <2>2 DEF RestSettled
  <1>5. ~active'
    BY <1>1, <1>2 DEF IndexInv, GatesHold
  <1> QED BY <1>1, <1>3, <1>4, <1>5, PassGone

\* A repair that breaks keeps its debt; a crash defers the source again.
LEMMA RepairStopsKeeps ==
    ASSUME IndexInv, RepairBreaks \/ DaemonCrashes
    PROVE  IndexInv'
  <1>1. pass' = Idle /\ UNCHANGED <<row, index, stale, overtaken, indexLogs>>
    BY DEF RepairBreaks, DaemonCrashes, store, ghosts
  <1>2. ~active' /\ (owing' \/ held')
    BY DEF RepairBreaks, DaemonCrashes, gates, IndexInv, GatesHold
  <1>3. IndexTypes' /\ Bounded'
    <2>1. pass' \in PassRecords
      BY <1>1, IdleFields
    <2> QED BY <1>1, <2>1 DEF IndexInv, IndexTypes, Versions, Present, Bounded
  <1>4. RestSettled'
    BY <1>2 DEF RestSettled, AtRest
  <1> QED BY <1>1, <1>2, <1>3, <1>4, PassGone

\* The end of the scan owes the source a repair.
LEMMA ScanEndsKeeps ==
    ASSUME IndexInv, ScanEnds
    PROVE  IndexInv'
  <1>1. pass = Idle /\ pass' = pass /\ owing' /\ ~held' /\ active' = active
        /\ UNCHANGED <<row, index, stale, overtaken, indexLogs>>
    BY DEF ScanEnds, IndexInv, GatesHold, store, ghosts
  <1>2. IndexTypes' /\ Bounded'
    BY <1>1 DEF IndexInv, IndexTypes, Versions, Present, Bounded
  <1>3. RestSettled'
    BY <1>1 DEF RestSettled, AtRest
  <1>4. ~active' /\ pass' = Idle
    BY <1>1, IdleFields DEF IndexInv, GatesHold
  <1> QED BY <1>2, <1>3, <1>4, PassGone

-----------------------------------------------------------------------------
(* Live batches.                                                            *)

\* Row r of table t gets version n; no other row changes.
Committed(t, r, n) ==
    /\ Versions(row)' /\ row'[t][r] = n
    /\ \A u \in Tables : \A q \in Ids(u) : <<u, q>> # <<t, r>> => row'[u][q] = row[u][q]
    /\ \A u \in Tables : \A q \in Ids(u) : row[u][q] \in Nat /\ row'[u][q] \in Nat /\ row[u][q] <= row'[u][q]
    /\ \A u \in Tables : Present(u) \subseteq Present(u)' /\ (u # t => Present(u)' = Present(u))
    /\ Present(t)' = Present(t) \union {r}

\* Incrementing a version does that.
LEMMA RowCommitted ==
    ASSUME IndexInv, NEW t \in Tables, NEW r \in Ids(t), NEW n \in Nat, n > row[t][r],
           row' = [row EXCEPT ![t][r] = n]
    PROVE  Committed(t, r, n)
  <1>1. Versions(row)
    BY DEF IndexInv, IndexTypes
  <1>2. row' = [row EXCEPT ![t] = [row[t] EXCEPT ![r] = n]]
    OBVIOUS
  <1>3. /\ DOMAIN row' = Tables /\ row'[t] = [row[t] EXCEPT ![r] = n]
        /\ \A u \in Tables : u # t => row'[u] = row[u]
    BY <1>1, <1>2 DEF Versions
  <1>4. /\ row'[t] \in [Ids(t) -> Nat] /\ row'[t][r] = n
        /\ \A q \in Ids(t) : q # r => row'[t][q] = row[t][q]
    BY <1>1, <1>3 DEF Versions
  <1>5. Versions(row)'
    BY <1>1, <1>3, <1>4 DEF Versions
  <1>6. \A u \in Tables : \A q \in Ids(u) : <<u, q>> # <<t, r>> => row'[u][q] = row[u][q]
    BY <1>3, <1>4
  <1>7. \A u \in Tables : \A q \in Ids(u) : row[u][q] \in Nat /\ row'[u][q] \in Nat /\ row[u][q] <= row'[u][q]
    <2>1. \A u \in Tables : \A q \in Ids(u) : row[u][q] \in Nat /\ row'[u][q] \in Nat
      BY <1>1, <1>5 DEF Versions
    <2> QED BY <1>4, <1>6, <2>1
  <1>8. \A u \in Tables : Present(u) \subseteq Present(u)' /\ (u # t => Present(u)' = Present(u))
    BY <1>3, <1>7 DEF Present
  <1>9. Present(t)' = Present(t) \union {r}
    BY <1>4, <1>7 DEF Present
  <1> QED BY <1>4, <1>5, <1>6, <1>7, <1>8, <1>9 DEF Committed

\* What the pass knows does not depend on rows.
LEMMA PassStays ==
    ASSUME pass' = pass
    PROVE  /\ \A r : Later(r)' = Later(r) /\ Mine(r)' = Mine(r) /\ Onward(r)' = Onward(r)
           /\ PageIds' = PageIds
  BY DEF Later, Mine, Onward, PageIds, Key, OfSession

\* The page of a pass, older than the rows or as old.
LEMMA PageStaysSound ==
    ASSUME IndexInv, pass' = pass,
           \A u \in Tables : Present(u) \subseteq Present(u)'
              /\ \A q \in Ids(u) : row[u][q] \in Nat /\ row'[u][q] \in Nat /\ row[u][q] <= row'[u][q],
           pass.kind = "rebuild" /\ ~owing' =>
              ~owing /\ \A q \in Present(pass.stage) : row'[pass.stage][q] = row[pass.stage][q]
    PROVE  PageSound'
  <1> SUFFICES ASSUME pass.stage \in Tables, NEW i \in DOMAIN pass.page
               PROVE  LET x == pass.page[i]
                      IN  /\ x.id \in Present(pass.stage)' /\ x.text > 0 /\ x.text <= row'[pass.stage][x.id]
                          /\ pass.kind = "rebuild" /\ ~owing' => x.text = row'[pass.stage][x.id]
    BY DEF PageSound
  <1>1. /\ pass.page[i].id \in Present(pass.stage)
        /\ pass.page[i].text > 0 /\ pass.page[i].text <= row[pass.stage][pass.page[i].id]
        /\ pass.kind = "rebuild" /\ ~owing => pass.page[i].text = row[pass.stage][pass.page[i].id]
    BY DEF IndexInv, PageSound
  <1>2. pass.page[i].text \in Nat /\ pass.page[i].id \in Ids(pass.stage)
    <2>1. pass.page # <<>>
      OBVIOUS
    <2> QED BY <2>1, PageRows
  <1> QED BY <1>1, <1>2

\* An op is written while the read models are suspended: its index row and its
\* bucket are owed.
LEMMA SuspendedOpKeeps ==
    ASSUME IndexInv, NEW r \in Ids("ops"), CommitOp(r), Suspended
    PROVE  IndexInv'
  <1>1. /\ row' = [row EXCEPT !["ops"][r] = row["ops"][r] + 1] /\ owing' /\ stale' = stale \union {BucketOf[r]}
        /\ UNCHANGED <<index, overtaken, indexLogs, held, active, pass>>
    BY DEF CommitOp, gates
  <1>2. "ops" \in Tables /\ "logs" \in Tables /\ Versions(row) /\ Bounded
    BY DEF Tables, IndexInv, IndexTypes
  <1>3. PICK n \in Nat : n = row["ops"][r] + 1 /\ n > row["ops"][r]
    BY <1>2 DEF Versions
  <1>4. row' = [row EXCEPT !["ops"][r] = n]
    BY <1>1, <1>3
  <1>5. /\ Versions(row)' /\ row'["ops"][r] = n
        /\ \A u \in Tables : \A q \in Ids(u) : <<u, q>> # <<"ops", r>> => row'[u][q] = row[u][q]
        /\ \A u \in Tables : \A q \in Ids(u) : row[u][q] \in Nat /\ row'[u][q] \in Nat /\ row[u][q] <= row'[u][q]
        /\ \A u \in Tables : Present(u) \subseteq Present(u)' /\ (u # "ops" => Present(u)' = Present(u))
        /\ Present("ops")' = Present("ops") \union {r}
    <2>1. Committed("ops", r, n)
      BY <1>2, <1>3, <1>4, RowCommitted
    <2> QED BY <2>1 DEF Committed
  <1>6. IndexTypes'
    <2>1. stale' \subseteq {BucketOf[q] : q \in Present("ops")'}
      BY <1>1, <1>5 DEF IndexInv, IndexTypes
    <2> QED BY <1>1, <1>5, <2>1 DEF IndexInv, IndexTypes, Versions
  <1>7. Bounded'
    <2>1. \A u \in Tables : \A q \in Ids(u) : index[u][q] \in Nat
      BY DEF IndexInv, IndexTypes, Versions
    <2>2. \A u \in Tables : \A q \in Ids(u) : index'[u][q] <= row'[u][q]
      BY <1>1, <1>2, <1>5, <2>1 DEF Bounded
    <2>3. \A q \in Ids("logs") : row'["logs"][q] = row["logs"][q]
      BY <1>2, <1>5
    <2> QED BY <1>1, <1>2, <2>2, <2>3 DEF Bounded
  <1>8. PassShape' /\ GatesHold'
    BY <1>1 DEF IndexInv, PassShape, Stages, GatesHold
  <1>9. PageSound'
    BY <1>1, <1>5, PageStaysSound
  <1>10. pass.kind # "repair"
    BY IdleFields DEF Suspended, IndexInv, GatesHold
  <1>11. ~Trusted'
    BY <1>1, <1>10 DEF Trusted
  <1>12. pass.stage # "buckets"
    BY <1>10 DEF IndexInv, IndexTypes, PassRecords, PassShape, Stages
  <1>13. StageCovered' /\ StagesDone'
    BY <1>1, <1>11, <1>12 DEF StageCovered, StagesDone
  <1>14. RebuildAhead'
    BY <1>1 DEF IndexInv, RebuildAhead
  <1>15. RestSettled'
    BY <1>1 DEF RestSettled, AtRest
  <1> QED BY <1>6, <1>7, <1>8, <1>9, <1>13, <1>14, <1>15 DEF IndexInv

\* An op is written with its index row and its bucket.
LEMMA IndexedOpKeeps ==
    ASSUME IndexInv, NEW r \in Ids("ops"), CommitOp(r), ~Suspended
    PROVE  IndexInv'
  <1>1. /\ row' = [row EXCEPT !["ops"][r] = row["ops"][r] + 1] /\ index' = [index EXCEPT !["ops"][r] = row'["ops"][r]]
        /\ overtaken' = overtaken \ {r}
        /\ UNCHANGED <<owing, unrecorded, stale, indexLogs, held, active, pass>>
    BY DEF CommitOp, gates
  <1>2. "ops" \in Tables /\ "logs" \in Tables /\ Versions(row) /\ Bounded /\ Versions(index)
    BY DEF Tables, IndexInv, IndexTypes
  <1>2a. row["ops"][r] \in Nat
    BY <1>2 DEF Versions
  <1>3. PICK n \in Nat : n = row["ops"][r] + 1 /\ n > row["ops"][r] /\ n > 0
    BY <1>2a
  <1>4. row' = [row EXCEPT !["ops"][r] = n]
    BY <1>1, <1>3
  <1>5. /\ Versions(row)' /\ row'["ops"][r] = n
        /\ \A u \in Tables : \A q \in Ids(u) : <<u, q>> # <<"ops", r>> => row'[u][q] = row[u][q]
        /\ \A u \in Tables : \A q \in Ids(u) : row[u][q] \in Nat /\ row'[u][q] \in Nat /\ row[u][q] <= row'[u][q]
        /\ \A u \in Tables : Present(u) \subseteq Present(u)' /\ (u # "ops" => Present(u)' = Present(u))
        /\ Present("ops")' = Present("ops") \union {r}
    <2>1. Committed("ops", r, n)
      BY <1>2, <1>3, <1>4, RowCommitted
    <2> QED BY <2>1 DEF Committed
  <1>6. /\ Versions(index)' /\ index'["ops"][r] = n
        /\ \A u \in Tables : \A q \in Ids(u) : <<u, q>> # <<"ops", r>> => index'[u][q] = index[u][q]
    <2>1. index' = [index EXCEPT !["ops"] = [index["ops"] EXCEPT ![r] = n]]
      BY <1>1, <1>5
    <2>2. /\ DOMAIN index' = Tables /\ index'["ops"] = [index["ops"] EXCEPT ![r] = n]
          /\ \A u \in Tables : u # "ops" => index'[u] = index[u]
      BY <1>2, <2>1 DEF Versions
    <2>3. /\ index'["ops"] \in [Ids("ops") -> Nat] /\ index'["ops"][r] = n
          /\ \A q \in Ids("ops") : q # r => index'["ops"][q] = index["ops"][q]
      BY <1>2, <2>2 DEF Versions
    <2>4. Versions(index)'
      BY <1>2, <2>2, <2>3 DEF Versions
    <2> QED BY <2>2, <2>3, <2>4
  <1>7. IndexTypes'
    <2>1. stale' \subseteq {BucketOf[q] : q \in Present("ops")'}
      BY <1>1, <1>5 DEF IndexInv, IndexTypes
    <2> QED BY <1>1, <1>5, <1>6, <2>1 DEF IndexInv, IndexTypes
  <1>8. Bounded'
    <2>1. \A u \in Tables : \A q \in Ids(u) : index'[u][q] <= row'[u][q]
      <3> TAKE u \in Tables
      <3> TAKE q \in Ids(u)
      <3>1. CASE <<u, q>> = <<"ops", r>>
        BY <1>3, <1>5, <1>6, <3>1
      <3>2. CASE <<u, q>> # <<"ops", r>>
        BY <1>2, <1>5, <1>6, <3>2 DEF Bounded
      <3> QED BY <3>1, <3>2
    <2>2. \A q \in Ids("logs") : row'["logs"][q] = row["logs"][q] /\ index'["logs"][q] = index["logs"][q]
      BY <1>2, <1>5, <1>6
    <2> QED BY <1>1, <1>2, <2>1, <2>2 DEF Bounded
  <1>9. PassShape' /\ GatesHold'
    BY <1>1 DEF IndexInv, PassShape, Stages, GatesHold
  <1>10. pass.kind # "rebuild"
    BY DEF Suspended, IndexInv, GatesHold
  <1>11. PageSound' /\ RebuildAhead'
    BY <1>1, <1>5, <1>10, PageStaysSound DEF RebuildAhead
  <1>12. Good("ops", r)'
    BY <1>3, <1>5, <1>6 DEF Good
  <1>13. \A u \in Tables : \A q \in Present(u)' : <<u, q>> # <<"ops", r>> =>
            q \in Present(u) /\ (Good(u, q) => Good(u, q)')
    <2> TAKE u \in Tables
    <2> TAKE q \in Present(u)'
    <2> HAVE <<u, q>> # <<"ops", r>>
    <2>1. q \in Ids(u) /\ q \in Present(u)
      BY <1>5 DEF Present
    <2>2. row'[u][q] = row[u][q] /\ index'[u][q] = index[u][q]
      BY <1>5, <1>6, <2>1
    <2>3. u = "ops" /\ q \in overtaken => q \in overtaken'
      BY <1>1
    <2> QED BY <2>1, <2>2, <2>3 DEF Good
  <1>14. Trusted' = Trusted /\ \A u : Wanted(u)' = Wanted(u)
    BY <1>1 DEF Trusted, Wanted
  <1>15. StageCovered'
    <2> SUFFICES ASSUME pass.stage \in Tables, Trusted, Wanted(pass.stage), NEW q \in Present(pass.stage)'
                 PROVE  \/ Good(pass.stage, q)'
                        \/ Later(q)
                        \/ Mine(q) /\ (pass.page = <<>> \/ q \in PageIds \/ Onward(q))
      BY <1>1, <1>14, PassStays DEF StageCovered
    <2>1. CASE <<pass.stage, q>> = <<"ops", r>>
      <3>1. pass'.stage = "ops"
        BY <1>1, <2>1
      <3> QED BY <1>12, <2>1, <3>1 DEF Good
    <2>2. CASE <<pass.stage, q>> # <<"ops", r>>
      <3>1. PICK u \in Tables : u = pass.stage
        OBVIOUS
      <3>2. q \in Present(u) /\ (Good(u, q) => Good(u, q)')
        BY <1>1, <1>13, <2>2, <3>1 DEF Present
      <3>3. pass'.stage = u
        BY <1>1, <3>1
      <3> QED BY <3>1, <3>2, <3>3 DEF IndexInv, StageCovered, Good
    <2> QED BY <2>1, <2>2
  <1>16. \A u \in Tables : Indexed(u) => Indexed(u)'
    BY <1>12, <1>13, <1>14 DEF Indexed
  <1>17. StagesDone'
    BY <1>1, <1>2, <1>14, <1>16 DEF IndexInv, StagesDone
  <1>18. RestSettled'
    BY <1>1, <1>2, <1>16 DEF IndexInv, RestSettled, AtRest
  <1> QED BY <1>7, <1>8, <1>9, <1>11, <1>15, <1>17, <1>18 DEF IndexInv

\* A new log is written, with its index row if the source indexes logs.
LEMMA LogKeeps ==
    ASSUME IndexInv, NEW r \in Ids("logs"), CommitLog(r)
    PROVE  IndexInv'
  <1>1. /\ row["logs"][r] = 0 /\ row' = [row EXCEPT !["logs"][r] = 1]
        /\ index' = IF indexLogs THEN [index EXCEPT !["logs"][r] = 1] ELSE index
        /\ (owing' <=> owing \/ Suspended)
        /\ UNCHANGED <<overtaken, unrecorded, stale, indexLogs, held, active, pass>>
    BY DEF CommitLog, gates, ghosts
  <1>2. "ops" \in Tables /\ "logs" \in Tables /\ Versions(row) /\ Bounded /\ Versions(index)
    BY DEF Tables, IndexInv, IndexTypes
  <1>3. /\ Versions(row)' /\ row'["logs"][r] = 1
        /\ \A u \in Tables : \A q \in Ids(u) : <<u, q>> # <<"logs", r>> => row'[u][q] = row[u][q]
        /\ \A u \in Tables : \A q \in Ids(u) : row[u][q] \in Nat /\ row'[u][q] \in Nat /\ row[u][q] <= row'[u][q]
        /\ \A u \in Tables : Present(u) \subseteq Present(u)' /\ (u # "logs" => Present(u)' = Present(u))
        /\ Present("logs")' = Present("logs") \union {r}
    <2>1. 1 \in Nat /\ 1 > row["logs"][r]
      BY <1>1
    <2>2. Committed("logs", r, 1)
      BY <1>1, <1>2, <2>1, RowCommitted
    <2> QED BY <2>2 DEF Committed
  <1>4. /\ Versions(index)' /\ index'["logs"][r] = (IF indexLogs THEN 1 ELSE 0)
        /\ \A u \in Tables : \A q \in Ids(u) : <<u, q>> # <<"logs", r>> => index'[u][q] = index[u][q]
    <2>1. CASE indexLogs
      <3>1. index' = [index EXCEPT !["logs"] = [index["logs"] EXCEPT ![r] = 1]]
        BY <1>1, <2>1
      <3>2. /\ DOMAIN index' = Tables /\ index'["logs"] = [index["logs"] EXCEPT ![r] = 1]
            /\ \A u \in Tables : u # "logs" => index'[u] = index[u]
        BY <1>2, <3>1 DEF Versions
      <3>3. /\ index'["logs"] \in [Ids("logs") -> Nat] /\ index'["logs"][r] = 1
            /\ \A q \in Ids("logs") : q # r => index'["logs"][q] = index["logs"][q]
        BY <1>2, <3>2 DEF Versions
      <3>4. Versions(index)'
        BY <1>2, <3>2, <3>3 DEF Versions
      <3> QED BY <2>1, <3>2, <3>3, <3>4
    <2>2. CASE ~indexLogs
      <3>1. index["logs"][r] = 0
        BY <1>2, <2>2 DEF Bounded
      <3> QED BY <1>1, <1>2, <2>2, <3>1 DEF Versions
    <2> QED BY <2>1, <2>2
  <1>5. IndexTypes'
    <2>1. stale' \subseteq {BucketOf[q] : q \in Present("ops")'}
      BY <1>1, <1>2, <1>3 DEF IndexInv, IndexTypes
    <2> QED BY <1>1, <1>3, <1>4, <2>1 DEF IndexInv, IndexTypes
  <1>6. Bounded'
    <2>1. \A u \in Tables : \A q \in Ids(u) : index'[u][q] <= row'[u][q]
      <3> TAKE u \in Tables
      <3> TAKE q \in Ids(u)
      <3>1. CASE <<u, q>> = <<"logs", r>>
        BY <1>3, <1>4, <3>1
      <3>2. CASE <<u, q>> # <<"logs", r>>
        BY <1>2, <1>3, <1>4, <3>2 DEF Bounded
      <3> QED BY <3>1, <3>2
    <2>2. \A q \in Ids("logs") : row'["logs"][q] <= 1 /\ (~indexLogs => index'["logs"][q] = 0)
      <3> TAKE q \in Ids("logs")
      <3>1. CASE q = r
        BY <1>3, <1>4, <3>1
      <3>2. CASE q # r
        BY <1>2, <1>3, <1>4, <3>2 DEF Bounded
      <3> QED BY <3>1, <3>2
    <2> QED BY <1>1, <2>1, <2>2 DEF Bounded
  <1>7. PassShape' /\ GatesHold'
    BY <1>1 DEF IndexInv, PassShape, Stages, GatesHold
  <1>8. r \notin Present("logs")
    BY <1>1 DEF Present
  <1>9. PageSound'
    <2>1. \A u \in Tables : \A q \in Present(u) : row'[u][q] = row[u][q]
      BY <1>3, <1>8 DEF Present
    <2>2. pass.kind = "rebuild" /\ ~owing' =>
              ~owing /\ (pass.page # <<>> => \A q \in Present(pass.stage) : row'[pass.stage][q] = row[pass.stage][q])
      BY <1>1, <2>1, PageRows
    <2>3. CASE pass.page = <<>>
      <3>1. DOMAIN pass'.page = {}
        BY <1>1, <2>3
      <3> QED BY <3>1 DEF PageSound
    <2>4. CASE pass.page # <<>>
      BY <1>1, <1>3, <2>2, <2>4, PageStaysSound
    <2> QED BY <2>3, <2>4
  <1>10. RebuildAhead'
    BY <1>1, <1>2, <1>4 DEF IndexInv, RebuildAhead
  <1>11. Wanted("logs") => Good("logs", r)'
    BY <1>1, <1>3, <1>4 DEF Good, Wanted
  <1>12. \A u \in Tables : \A q \in Present(u)' : <<u, q>> # <<"logs", r>> =>
            q \in Present(u) /\ (Good(u, q) => Good(u, q)')
    <2> TAKE u \in Tables
    <2> TAKE q \in Present(u)'
    <2> HAVE <<u, q>> # <<"logs", r>>
    <2>1. q \in Ids(u) /\ q \in Present(u)
      BY <1>3 DEF Present
    <2>2. row'[u][q] = row[u][q] /\ index'[u][q] = index[u][q]
      BY <1>3, <1>4, <2>1
    <2> QED BY <1>1, <2>1, <2>2 DEF Good
  <1>13. (Trusted' => Trusted) /\ \A u : Wanted(u)' = Wanted(u)
    BY <1>1 DEF Trusted, Wanted
  <1>14. StageCovered'
    <2> SUFFICES ASSUME pass.stage \in Tables, Trusted, Wanted(pass.stage), NEW q \in Present(pass.stage)'
                 PROVE  \/ Good(pass.stage, q)'
                        \/ Later(q)
                        \/ Mine(q) /\ (pass.page = <<>> \/ q \in PageIds \/ Onward(q))
      BY <1>1, <1>13, PassStays DEF StageCovered
    <2>1. CASE <<pass.stage, q>> = <<"logs", r>>
      <3>1. pass'.stage = "logs"
        BY <1>1, <2>1
      <3> QED BY <1>11, <2>1, <3>1 DEF Good
    <2>2. CASE <<pass.stage, q>> # <<"logs", r>>
      <3>1. PICK u \in Tables : u = pass.stage
        OBVIOUS
      <3>2. q \in Present(u) /\ (Good(u, q) => Good(u, q)')
        BY <1>1, <1>12, <2>2, <3>1 DEF Present
      <3>3. pass'.stage = u
        BY <1>1, <3>1
      <3> QED BY <3>1, <3>2, <3>3 DEF IndexInv, StageCovered, Good
    <2> QED BY <2>1, <2>2
  <1>15. \A u \in Tables : Indexed(u) => Indexed(u)'
    BY <1>11, <1>12, <1>13 DEF Indexed
  <1>16. StagesDone'
    BY <1>1, <1>2, <1>13, <1>15 DEF IndexInv, StagesDone
  <1>17. RestSettled'
    BY <1>1, <1>2, <1>15 DEF IndexInv, RestSettled, AtRest
  <1> QED BY <1>5, <1>6, <1>7, <1>9, <1>10, <1>14, <1>16, <1>17 DEF IndexInv

-----------------------------------------------------------------------------
(* The theorems.                                                            *)

\* The daemon starts with an empty store and a deferred source.
LEMMA IndexInvInitially ==
    ASSUME IndexInit
    PROVE  IndexInv
  <1>1. pass.kind = "none" /\ pass.stage = "none" /\ pass.sessions = <<>> /\ pass.page = <<>>
        /\ ~pass.last /\ pass \in PassRecords /\ pass = Idle
    <2> DEFINE f == Idle
    <2>1. f.kind = "none" /\ f.stage = "none" /\ f.sessions = <<>> /\ f.page = <<>> /\ ~f.last
          /\ f \in PassRecords
      BY IdleFields
    <2>2. pass = f
      BY DEF IndexInit
    <2> HIDE DEF f
    <2>3. pass.kind = "none" /\ pass.stage = "none" /\ pass.sessions = <<>> /\ pass.page = <<>>
        /\ ~pass.last /\ pass \in PassRecords
      BY <2>1, <2>2
    <2> QED BY <2>2, <2>3 DEF f
  <1>2. \A t \in Tables : /\ row[t] \in [Ids(t) -> Nat] /\ index[t] \in [Ids(t) -> Nat]
                          /\ \A r \in Ids(t) : row[t][r] = 0 /\ index[t][r] = 0
    BY DEF IndexInit
  <1>3. IndexTypes
    BY <1>1, <1>2 DEF IndexInit, IndexTypes, Versions
  <1>4. Bounded
    BY <1>2 DEF Bounded, Tables
  <1>5. PassShape /\ GatesHold
    BY <1>1 DEF IndexInit, PassShape, Stages, Tables, GatesHold
  <1>6. PageSound /\ StageCovered /\ RebuildAhead /\ StagesDone /\ RestSettled
    BY <1>1 DEF IndexInit, PageSound, StageCovered, RebuildAhead, StagesDone, RestSettled, AtRest, Tables
  <1> QED BY <1>3, <1>4, <1>5, <1>6 DEF IndexInv

\* Steps of the rest of the daemon.
LEMMA IndexInvStutters ==
    ASSUME IndexInv, UNCHANGED ivars
    PROVE  IndexInv'
  <1>1. /\ row' = row /\ index' = index /\ stale' = stale /\ indexLogs' = indexLogs /\ held' = held
        /\ active' = active /\ pass' = pass /\ owing' = owing /\ overtaken' = overtaken /\ unrecorded' = unrecorded
    BY DEF ivars
  <1>2. IndexTypes' /\ PassShape' /\ GatesHold' /\ Bounded'
    BY <1>1 DEF IndexInv, IndexTypes, Versions, Present, PassShape, Stages, GatesHold, Bounded
  <1>3. /\ \A u, r : Good(u, r)' = Good(u, r)
        /\ \A u : Present(u)' = Present(u) /\ Wanted(u)' = Wanted(u) /\ Indexed(u)' = Indexed(u)
        /\ Trusted' = Trusted
    BY <1>1 DEF Good, Present, Wanted, Indexed, Trusted
  <1>4. PageSound' /\ RebuildAhead' /\ StagesDone' /\ RestSettled'
    BY <1>1, <1>3 DEF IndexInv, PageSound, RebuildAhead, StagesDone, RestSettled, AtRest
  <1>5. StageCovered'
    BY <1>1, <1>3, PassStays DEF IndexInv, StageCovered
  <1> QED BY <1>2, <1>4, <1>5 DEF IndexInv

\* Every action, by its own lemma.
LEMMA IndexInvStep ==
    ASSUME IndexInv, IndexNext
    PROVE  IndexInv'
  <1>1. CASE \E r \in Ids("ops") : CommitOp(r)
    BY <1>1, SuspendedOpKeeps, IndexedOpKeeps
  <1>2. CASE \E r \in Ids("logs") : CommitLog(r)
    BY <1>2, LogKeeps
  <1>3. CASE ScanEnds
    BY <1>3, ScanEndsKeeps
  <1>4. CASE RebuildLocks \/ RepairLocks
    BY <1>4, LocksKeep
  <1>5. CASE TruncateFTS
    BY <1>5, TruncateKeeps
  <1>6. CASE RebuildLoads
    BY <1>6, RebuildLoadsKeeps
  <1>7. CASE RebuildWrites
    BY <1>7, RebuildWritesKeeps
  <1>8. CASE RebuildEnds
    BY <1>8, RebuildEndsKeeps
  <1>9. CASE RebuildCollides \/ RebuildBreaks
    BY <1>9, RebuildFailsKeeps
  <1>10. CASE RepairSkipsLogs
    BY <1>10, RepairSkipsLogsKeeps
  <1>11. CASE RepairLoadsSessions
    BY <1>11, RepairLoadsSessionsKeeps
  <1>12. CASE RepairLoads
    BY <1>12, RepairLoadsKeeps
  <1>13. CASE RepairWrites
    BY <1>13, RepairWritesKeeps
  <1>14. CASE RepairListsBuckets
    BY <1>14, RepairListsBucketsKeeps
  <1>15. CASE RepairBucket
    BY <1>15, RepairBucketKeeps
  <1>16. CASE RepairEnds
    BY <1>16, RepairEndsKeeps
  <1>17. CASE RepairBreaks \/ DaemonCrashes
    BY <1>17, RepairStopsKeeps
  <1> QED BY <1>1, <1>2, <1>3, <1>4, <1>5, <1>6, <1>7, <1>8, <1>9, <1>10, <1>11, <1>12, <1>13, <1>14,
             <1>15, <1>16, <1>17 DEF IndexNext

\* The inductive invariant holds.
LEMMA IndexInvHolds == IndexSpec => []IndexInv
  <1>1. IndexInit => IndexInv
    BY IndexInvInitially
  <1>2. IndexInv /\ [IndexNext]_ivars => IndexInv'
    BY IndexInvStep, IndexInvStutters
  <1> QED BY <1>1, <1>2, PTL DEF IndexSpec

\* At rest the source can be found by all of its rows (fts_backfill.go,
\* fts_refresh.go, read_model_repair.go): no live batch, rebuild, repair,
\* failure or crash in between leaves a row unindexed and forgotten.
THEOREM SearchSettlesAtRest == IndexSpec => []SearchSettles
  <1>1. IndexInv => SearchSettles
    <2> SUFFICES ASSUME IndexInv, AtRest
                 PROVE  /\ \A r \in Present("ops") \ overtaken : index["ops"][r] = row["ops"][r]
                        /\ \A r \in Present("ops") : index["ops"][r] > 0
                        /\ \A r \in Ids("logs") : index["logs"][r] = IF indexLogs THEN row["logs"][r] ELSE 0
                        /\ stale = {}
      BY DEF SearchSettles
    <2>1. Indexed("ops") /\ Indexed("logs") /\ stale = {}
      BY DEF IndexInv, RestSettled
    <2>2. \A r \in Present("ops") : index["ops"][r] > 0 /\ (index["ops"][r] = row["ops"][r] \/ r \in overtaken)
      BY <2>1 DEF Indexed, Wanted, Good
    <2>3. ASSUME NEW r \in Ids("logs")
          PROVE  index["logs"][r] = IF indexLogs THEN row["logs"][r] ELSE 0
      <3>1. /\ row["logs"][r] \in Nat /\ index["logs"][r] \in Nat /\ index["logs"][r] <= row["logs"][r]
            /\ ~indexLogs => index["logs"][r] = 0
        BY DEF IndexInv, IndexTypes, Versions, Bounded, Tables
      <3>2. indexLogs /\ row["logs"][r] > 0 => index["logs"][r] = row["logs"][r]
        BY <2>1 DEF Indexed, Wanted, Good, Present
      <3> QED BY <3>1, <3>2
    <2> QED BY <2>1, <2>2, <2>3
  <1> QED BY <1>1, IndexInvHolds, PTL

\* The rebuild never inserts an op twice, and what it has written is current
\* unless a debt says otherwise (readModelRebuildActive, fts_refresh.go).
THEOREM RebuildKeepsOps == IndexSpec => []RebuildDoesNotRaceOps
  <1>1. IndexInv => RebuildDoesNotRaceOps
    <2> SUFFICES ASSUME IndexInv, pass.kind = "rebuild"
                 PROVE  /\ pass.stage = "ops" => ~Collides
                        /\ pass.stage # "wipe" /\ ~owing =>
                              \A r \in Present("ops") \ overtaken : index["ops"][r] \in {0, row["ops"][r]}
      BY DEF RebuildDoesNotRaceOps
    <2>1. ASSUME pass.stage = "ops", NEW i \in DOMAIN pass.page
          PROVE  ~(index[pass.stage][pass.page[i].id] > 0)
      <3>1. pass.page[i].id \in Ids("ops") /\ IdRank[pass.page[i].id] > pass.cursor
        BY <2>1, PageRows DEF IndexInv, RebuildAhead, PageSound, Tables, Present
      <3> QED BY <2>1, <3>1 DEF IndexInv, RebuildAhead
    <2>2. ASSUME pass.stage # "wipe", ~owing, NEW r \in Present("ops") \ overtaken
          PROVE  index["ops"][r] \in {0, row["ops"][r]}
      <3>1. Trusted
        BY <2>2 DEF Trusted
      <3>2. CASE pass.stage = "ops"
        <4>1. Wanted("ops") /\ ~Later(r)
          BY DEF Wanted, Later
        <4>2. Good("ops", r) \/ Mine(r)
          BY <3>1, <3>2, <4>1 DEF IndexInv, StageCovered, Tables
        <4>3. CASE Good("ops", r)
          BY <2>2, <4>3 DEF Good
        <4>4. CASE Mine(r)
          <5>1. IdRank[r] > pass.cursor /\ r \in Ids("ops")
            BY <2>2, <3>2, <4>4 DEF Mine, Key, RebuildKey, Present
          <5> QED BY <3>2, <5>1 DEF IndexInv, RebuildAhead
        <4> QED BY <4>2, <4>3, <4>4
      <3>3. CASE pass.stage # "ops"
        <4>1. pass.stage \in {"logs", "rollups"}
          BY <2>2, <3>3 DEF IndexInv, PassShape, Stages
        <4>2. Indexed("ops")
          BY <3>1, <4>1 DEF IndexInv, StagesDone
        <4> QED BY <2>2, <4>2 DEF Indexed, Wanted, Good
      <3> QED BY <3>2, <3>3
    <2> QED BY <2>1, <2>2 DEF Collides
  <1> QED BY <1>1, IndexInvHolds, PTL

==============================================================================
