---------------------------- MODULE ResolverProofs ----------------------------
(***************************************************************************)
(* Proofs about Resolver, for every feed and every lineage: the gates of   *)
(* the loop hide nothing but the two recorded gaps, a clean stop leaves    *)
(* nothing linkable behind, links are stable, and links are announced.     *)
(***************************************************************************)
EXTENDS Resolver, CountingLemmas, FiniteSetTheorems

\* A row of sessions and a row of operations.
IsRow(x) ==
    x = [parent |-> x.parent, root |-> x.root, toParent |-> x.toParent,
         toRoot |-> x.toRoot, tool |-> x.tool, real |-> x.real, ts |-> x.ts]
IsOp(x) ==
    x = [session |-> x.session, child |-> x.child, toChild |-> x.toChild, tool |-> x.tool]
IsPass(x) == x = [at |-> x.at, gen |-> x.gen, wm |-> x.wm, sessions |-> x.sessions]

Tables(r, o) ==
    /\ DOMAIN r \subseteq Ids /\ IsFiniteSet(DOMAIN r)
    /\ r = [i \in DOMAIN r |-> r[i]]
    /\ \A i \in DOMAIN r : IsRow(r[i]) /\ r[i].ts \in Nat
    /\ o = [p \in DOMAIN o |-> o[p]]
    /\ \A p \in DOMAIN o : IsOp(o[p])

GateTypes ==
    /\ gen \in Nat /\ unbumped \in Nat
    /\ seenGen \in Int /\ seenSession \in Int /\ rootsGen \in Int
    /\ IsPass(pass) /\ pass.gen \in Int /\ pass.wm \in Int /\ pass.sessions \in BOOLEAN
    /\ late \in BOOLEAN /\ rootsLost \in BOOLEAN

\* A mark is never ahead of what it marks.
MarksBehind ==
    /\ seenGen <= gen /\ rootsGen <= gen /\ pass.gen <= gen
    /\ seenSession <= Watermark(rows) /\ pass.wm <= Watermark(rows)

\* What the generation mark, the watermark and the root mark stand for.
GenerationMark ==
    seenGen = gen /\ unbumped = 0 =>
        /\ OpsDue = {}
        /\ ~late => ParentsDue = {}
        /\ ~late /\ ~rootsLost => Misrooted(rows) = {}
SessionMark ==
    ~late /\ Watermark(rows) = seenSession =>
        ParentsDue = {} /\ (~rootsLost => Misrooted(rows) = {})
RootMark ==
    rootsGen = gen /\ unbumped = 0 /\ ~rootsLost =>
        ParentsDue = {} /\ Misrooted(rows) = {}

\* A pass that skips the sessions still has a valid reason when it commits.
SkipJustified ==
    pass.at = "run" /\ ~pass.sessions =>
        /\ pass.wm = -1
        /\ pass.gen = gen /\ unbumped = 0 => Watermark(rows) = seenSession

StopSettled ==
    /\ life = "final" => unbumped = 0
    /\ CleanStopLinked

IInv ==
    /\ Tables(rows, ops) /\ GateTypes /\ MarksBehind
    /\ GenerationMark /\ SessionMark /\ RootMark /\ SkipJustified /\ StopSettled

-----------------------------------------------------------------------------
(* Finite sets of naturals and the watermark.                               *)

\* Every finite set of naturals is bounded.
LEMMA FiniteIsBounded ==
    ASSUME NEW S, S \subseteq Nat, IsFiniteSet(S)
    PROVE  \E b \in Nat : \A x \in S : x <= b
  <1> DEFINE Bounded(T) == \E b \in Nat : \A x \in T : x <= b
             N == {n \in Nat : \A T \in SUBSET Nat :
                                  IsFiniteSet(T) /\ Cardinality(T) = n => Bounded(T)}
  <1>1. 0 \in N
    <2> SUFFICES ASSUME NEW T \in SUBSET Nat, IsFiniteSet(T), Cardinality(T) = 0
                 PROVE  Bounded(T)
      OBVIOUS
    <2>1. T = {}
      BY FS_EmptySet
    <2> QED BY <2>1
  <1>2. ASSUME NEW n \in Nat, n \in N PROVE n + 1 \in N
    <2>0. \A T \in SUBSET Nat : IsFiniteSet(T) /\ Cardinality(T) = n => Bounded(T)
      BY <1>2
    <2> SUFFICES ASSUME NEW T \in SUBSET Nat, IsFiniteSet(T), Cardinality(T) = n + 1
                 PROVE  Bounded(T)
      <3> HIDE DEF Bounded
      <3> QED OBVIOUS
    <2>1. T # {}
      BY FS_EmptySet
    <2>2. PICK x \in T : TRUE
      BY <2>1
    <2>3. IsFiniteSet(T \ {x}) /\ Cardinality(T \ {x}) = n
      <3>1. Cardinality(T \ {x}) = Cardinality(T) - 1 /\ IsFiniteSet(T \ {x})
        BY <2>2, FS_RemoveElement
      <3> QED BY <3>1
    <2>4. PICK b \in Nat : \A y \in T \ {x} : y <= b
      <3>1. T \ {x} \in SUBSET Nat
        OBVIOUS
      <3> QED BY <2>0, <2>3, <3>1
    <2>5. x \in Nat
      OBVIOUS
    <2>6. CASE x <= b
      BY <2>4, <2>6
    <2>7. CASE ~(x <= b)
      BY <2>4, <2>5, <2>7
    <2> QED BY <2>6, <2>7
  <1>3. Nat \subseteq N
    <2> HIDE DEF N
    <2> QED BY <1>1, <1>2, SetInduction
  <1>4. Cardinality(S) \in Nat
    BY FS_CardinalityType
  <1> QED BY <1>3, <1>4

\* ... and a non-empty one has a maximum.
LEMMA MaxOfFinite ==
    ASSUME NEW S, S \subseteq Nat, IsFiniteSet(S), S # {}
    PROVE  Max(S) \in S /\ \A x \in S : x <= Max(S)
  <1>1. PICK b \in Nat : \A x \in S : x <= b
    BY FiniteIsBounded
  <1>2. \E x \in S : \A y \in S : y <= x
    BY <1>1, GreatestNatural
  <1>4. \E x \in S : \A y \in S : x >= y
    BY <1>2
  <1>5. Max(S) \in S /\ \A y \in S : Max(S) >= y
    BY <1>4, Zenon DEF Max
  <1> QED BY <1>5

\* MAX(last_activity_ts) is a natural, an upper bound, and attained.
LEMMA WatermarkIsMax ==
    ASSUME NEW r, NEW o, Tables(r, o)
    PROVE  /\ Watermark(r) \in Nat
           /\ \A i \in DOMAIN r : r[i].ts <= Watermark(r)
           /\ Watermark(r) = 0 \/ \E i \in DOMAIN r : r[i].ts = Watermark(r)
  <1> DEFINE T == {r[i].ts : i \in DOMAIN r}
             S == {0} \cup T
  <1>1. IsFiniteSet(T)
    <2> DEFINE f == [i \in DOMAIN r |-> r[i].ts]
    <2>1. f \in Surjection(DOMAIN r, T)
      BY DEF Surjection
    <2>2. IsFiniteSet(DOMAIN r)
      BY DEF Tables
    <2> HIDE DEF f, T
    <2> QED BY <2>1, <2>2, FS_Surjection
  <1>2. IsFiniteSet(S)
    <2> HIDE DEF T
    <2> QED BY <1>1, FS_AddElement, FS_Union, FS_Singleton
  <1>3. S \subseteq Nat /\ S # {}
    BY DEF Tables
  <1>4. Max(S) \in S /\ \A x \in S : x <= Max(S)
    <2> HIDE DEF S
    <2> QED BY <1>2, <1>3, MaxOfFinite
  <1>5. Watermark(r) = Max(S)
    BY DEF Watermark
  <1> HIDE DEF Watermark
  <1> QED BY <1>3, <1>4, <1>5

\* Tables that agree on last_activity_ts have the same watermark.
LEMMA WatermarkSame ==
    ASSUME NEW r, NEW r2, DOMAIN r2 = DOMAIN r, \A i \in DOMAIN r : r2[i].ts = r[i].ts
    PROVE  Watermark(r2) = Watermark(r)
  <1>1. {r2[i].ts : i \in DOMAIN r2} = {r[i].ts : i \in DOMAIN r}
    OBVIOUS
  <1> QED BY <1>1, Zenon DEF Watermark

\* Raising or adding rows never lowers the watermark.
LEMMA WatermarkGrows ==
    ASSUME NEW r, NEW o, Tables(r, o), NEW r2, NEW o2, Tables(r2, o2),
           \A i \in DOMAIN r : i \in DOMAIN r2 /\ r[i].ts <= r2[i].ts
    PROVE  Watermark(r) <= Watermark(r2)
  <1>1. /\ Watermark(r) \in Nat /\ Watermark(r2) \in Nat
        /\ Watermark(r) = 0 \/ \E i \in DOMAIN r : r[i].ts = Watermark(r)
        /\ \A i \in DOMAIN r2 : r2[i].ts <= Watermark(r2)
    BY WatermarkIsMax
  <1>2. \A i \in DOMAIN r : r[i].ts \in Nat /\ r2[i].ts \in Nat
    BY DEF Tables
  <1> QED BY <1>1, <1>2

\* The greater of two timestamps.
LEMMA MaxOfTwo ==
    ASSUME NEW a \in Nat, NEW b \in Nat
    PROVE  Max({a, b}) \in Nat /\ a <= Max({a, b}) /\ b <= Max({a, b})
  <1>1. IsFiniteSet({a, b})
    <2>1. IsFiniteSet({a}) /\ IsFiniteSet({a} \cup {b})
      BY FS_Singleton, FS_AddElement
    <2>2. {a} \cup {b} = {a, b}
      OBVIOUS
    <2> QED BY <2>1, <2>2
  <1> DEFINE S == {a, b}
  <1>2. Max(S) \in S /\ \A x \in S : x <= Max(S)
    <2>1. S \subseteq Nat /\ S # {} /\ IsFiniteSet(S)
      BY <1>1
    <2> HIDE DEF S
    <2> QED BY <2>1, MaxOfFinite
  <1> QED BY <1>2

-----------------------------------------------------------------------------
(* What the passes over the tables compute.                                 *)

\* A lookup depends on which sessions have landed, and on nothing else.
LEMMA LookupByDomain ==
    ASSUME NEW r, NEW r2, DOMAIN r2 = DOMAIN r, NEW src, NEW nat
    PROVE  Lookup(r2, src, nat) = Lookup(r, src, nat)
  BY DEF Lookup

LEMMA PickMember ==
    ASSUME NEW S, S # {}, NEW d
    PROVE  Pick1(S, d) \in S
  BY DEF Pick1

\* r2 keeps the columns of r that the passes never write.
KeepsStash(r, r2) ==
    /\ DOMAIN r2 = DOMAIN r /\ r2 = [i \in DOMAIN r |-> r2[i]]
    /\ \A i \in DOMAIN r :
          /\ r2[i].toParent = r[i].toParent /\ r2[i].toRoot = r[i].toRoot
          /\ r2[i].tool = r[i].tool /\ r2[i].ts = r[i].ts
KeepsParents(r, r2) == \A i \in DOMAIN r : r2[i].parent = r[i].parent

LEMMA HitsByStash ==
    ASSUME NEW r, NEW r2, KeepsStash(r, r2), NEW i \in DOMAIN r
    PROVE  ParentHit(r2, i) = ParentHit(r, i) /\ RootHit(r2, i) = RootHit(r, i)
  <1>1. /\ DOMAIN r2 = DOMAIN r
        /\ r2[i].toParent = r[i].toParent /\ r2[i].toRoot = r[i].toRoot
    BY DEF KeepsStash
  <1>2. \A src, nat : Lookup(r2, src, nat) = Lookup(r, src, nat)
    BY <1>1, LookupByDomain
  <1>3. ParentHit(r2, i) = Lookup(r, Scope[i], r2[i].toParent)
    BY <1>2 DEF ParentHit
  <1>4. RootHit(r2, i) = Lookup(r, Scope[i], r2[i].toRoot)
    BY <1>2 DEF RootHit
  <1> QED BY <1>1, <1>3, <1>4 DEF ParentHit, RootHit

\* The parent pass links every orphan, and nothing else.
ParentsDone(r, o, r2) ==
    /\ Tables(r2, o) /\ KeepsStash(r, r2) /\ Orphans(r2) = {}
    /\ \A i \in DOMAIN r : r2[i].root = r[i].root
    /\ \A i \in Orphans(r) : r2[i].parent = Pick1(ParentHit(r, i), None)
    /\ \A i \in DOMAIN r \ Orphans(r) : r2[i] = r[i]
    /\ Orphans(r) = {} => r2 = r

LEMMA ParentPass ==
    ASSUME NEW r, NEW o, Tables(r, o)
    PROVE  ParentsDone(r, o, ParentsLinked(r))
  <1> DEFINE r2 == ParentsLinked(r)
  <1>1. DOMAIN r2 = DOMAIN r /\ r2 = [i \in DOMAIN r |-> r2[i]]
    BY DEF ParentsLinked
  <1>2. \A i \in DOMAIN r \ Orphans(r) : r2[i] = r[i]
    BY DEF ParentsLinked
  <1>3. ASSUME NEW i \in Orphans(r)
        PROVE  /\ IsRow(r2[i]) /\ r2[i].parent = Pick1(ParentHit(r, i), None)
               /\ r2[i].root = r[i].root /\ r2[i].toParent = r[i].toParent
               /\ r2[i].toRoot = r[i].toRoot /\ r2[i].tool = r[i].tool /\ r2[i].ts = r[i].ts
    <2>1. i \in DOMAIN r /\ IsRow(r[i])
      BY DEF Orphans, Tables
    <2>2. r2[i] = [r[i] EXCEPT !.parent = Pick1(ParentHit(r, i), None)]
      BY <2>1 DEF ParentsLinked
    <2> HIDE DEF r2
    <2> QED BY <2>1, <2>2 DEF IsRow
  <1>4. ASSUME NEW i \in Orphans(r) PROVE r2[i].parent # None
    <2>1. ParentHit(r, i) # {} /\ ParentHit(r, i) \subseteq Ids
      BY DEF Orphans, ParentHit, Lookup, Tables
    <2>2. Pick1(ParentHit(r, i), None) \in Ids
      BY <2>1, PickMember
    <2> QED BY <1>3, <2>2, FeedAssumption
  <1>5. KeepsStash(r, r2)
    <2> HIDE DEF r2
    <2> QED BY <1>1, <1>2, <1>3, Zenon DEF KeepsStash, Orphans
  <1>6. Tables(r2, o)
    <2>1. ASSUME NEW i \in DOMAIN r PROVE IsRow(r2[i]) /\ r2[i].ts \in Nat
      <3> HIDE DEF r2
      <3> QED BY <1>2, <1>3, <1>5 DEF Tables, KeepsStash
    <2> HIDE DEF r2
    <2> QED BY <1>1, <2>1, Zenon DEF Tables
  <1>7. Orphans(r2) = {}
    <2> SUFFICES ASSUME NEW i \in Orphans(r2) PROVE FALSE
      OBVIOUS
    <2>1. i \in DOMAIN r /\ r2[i].parent = None /\ ParentHit(r2, i) # {}
      BY <1>1 DEF Orphans
    <2>2. ParentHit(r2, i) = ParentHit(r, i)
      <3> HIDE DEF r2
      <3> QED BY <1>5, <2>1, HitsByStash
    <2> HIDE DEF r2
    <2>3. i \notin Orphans(r)
      BY <1>4, <2>1
    <2> QED BY <1>2, <2>1, <2>2, <2>3 DEF Orphans
  <1>8. Orphans(r) = {} => r2 = r
    <2> HIDE DEF r2
    <2>1. r = [i \in DOMAIN r |-> r[i]]
      BY DEF Tables
    <2> QED BY <1>1, <1>2, <2>1
  <1>9. \A i \in DOMAIN r : r2[i].root = r[i].root
    <2> HIDE DEF r2
    <2> QED BY <1>2, <1>3
  <1> HIDE DEF r2
  <1>q. ParentsDone(r, o, r2)
    BY <1>2, <1>3, <1>5, <1>6, <1>7, <1>8, <1>9 DEF ParentsDone
  <1> QED BY <1>q DEF r2

\* A pass over the roots replaces the root column of some rows.
Rerooted(r, S, root) ==
    [i \in DOMAIN r |-> IF i \in S THEN [r[i] EXCEPT !.root = root[i]] ELSE r[i]]

LEMMA RootColumn ==
    ASSUME NEW r, NEW o, Tables(r, o), NEW S, NEW root
    PROVE  /\ Tables(Rerooted(r, S, root), o) /\ KeepsStash(r, Rerooted(r, S, root))
           /\ KeepsParents(r, Rerooted(r, S, root))
           /\ \A i \in DOMAIN r :
                 Rerooted(r, S, root)[i].root = IF i \in S THEN root[i] ELSE r[i].root
  <1> DEFINE r2 == Rerooted(r, S, root)
  <1>1. DOMAIN r2 = DOMAIN r /\ r2 = [i \in DOMAIN r |-> r2[i]]
    BY DEF Rerooted
  <1>2. ASSUME NEW i \in DOMAIN r
        PROVE  /\ IsRow(r2[i]) /\ r2[i].parent = r[i].parent
               /\ r2[i].root = IF i \in S THEN root[i] ELSE r[i].root
               /\ r2[i].toParent = r[i].toParent /\ r2[i].toRoot = r[i].toRoot
               /\ r2[i].tool = r[i].tool /\ r2[i].ts = r[i].ts
    <2>1. IsRow(r[i])
      BY DEF Tables
    <2>2. r2[i] = IF i \in S THEN [r[i] EXCEPT !.root = root[i]] ELSE r[i]
      BY DEF Rerooted
    <2> HIDE DEF r2
    <2>3. CASE i \in S
      <3> DEFINE v == root[i]
      <3>1. r2[i] = [r[i] EXCEPT !.root = v]
        BY <2>2, <2>3
      <3> HIDE DEF v
      <3>2. /\ IsRow(r2[i]) /\ r2[i].parent = r[i].parent /\ r2[i].root = v
            /\ r2[i].toParent = r[i].toParent /\ r2[i].toRoot = r[i].toRoot
            /\ r2[i].tool = r[i].tool /\ r2[i].ts = r[i].ts
        BY <2>1, <3>1 DEF IsRow
      <3> QED BY <2>3, <3>2 DEF v
    <2>4. CASE i \notin S
      BY <2>1, <2>2, <2>4
    <2> QED BY <2>3, <2>4
  <1>3. \A i \in DOMAIN r : r[i].ts \in Nat
    BY DEF Tables
  <1> HIDE DEF r2
  <1>4. Tables(r2, o)
    <2>1. \A i \in DOMAIN r : IsRow(r2[i]) /\ r2[i].ts \in Nat
      BY <1>2, <1>3
    <2> QED BY <1>1, <2>1, Zenon DEF Tables
  <1>5. KeepsStash(r, r2) /\ KeepsParents(r, r2)
    BY <1>1, <1>2, Zenon DEF KeepsStash, KeepsParents
  <1>6. \A i \in DOMAIN r : r2[i].root = IF i \in S THEN root[i] ELSE r[i].root
    BY <1>2
  <1>q. /\ Tables(r2, o) /\ KeepsStash(r, r2) /\ KeepsParents(r, r2)
        /\ \A i \in DOMAIN r : r2[i].root = IF i \in S THEN root[i] ELSE r[i].root
    BY <1>4, <1>5, <1>6
  <1> QED BY <1>q DEF r2

\* Orphans, chains and the watermark do not depend on the root column.
LEMMA RootsIrrelevant ==
    ASSUME NEW r, NEW r2, KeepsStash(r, r2), KeepsParents(r, r2)
    PROVE  /\ Orphans(r2) = Orphans(r) /\ ParentOf(r2) = ParentOf(r)
           /\ \A i : Top(r2, i) = Top(r, i)
  <1>1. DOMAIN r2 = DOMAIN r
    BY DEF KeepsStash
  <1>2. ParentOf(r2) = ParentOf(r)
    BY <1>1 DEF ParentOf, KeepsParents
  <1>3. \A i : Top(r2, i) = Top(r, i)
    BY <1>2, Zenon DEF Top
  <1>4. \A i \in DOMAIN r : ParentHit(r2, i) = ParentHit(r, i)
    BY HitsByStash
  <1>5. Orphans(r2) = Orphans(r)
    BY <1>1, <1>4 DEF Orphans, KeepsParents
  <1> QED BY <1>2, <1>3, <1>5

\* Both root passes together.
RootsLinked(r) == ChainRoots(ExplicitRoots(r))

LEMMA RootPass ==
    ASSUME NEW r, NEW o, Tables(r, o)
    PROVE  /\ Tables(RootsLinked(r), o) /\ KeepsStash(r, RootsLinked(r))
           /\ KeepsParents(r, RootsLinked(r))
           /\ Orphans(RootsLinked(r)) = Orphans(r)
           /\ Misrooted(RootsLinked(r)) = {}
           /\ \A i \in DOMAIN r : RootsLinked(r)[i].root # r[i].root =>
                 \/ i \in SelfRooted(r) /\ RootsLinked(r)[i].root = Pick1(RootHit(r, i), None)
                 \/ /\ i \in Misrooted(ExplicitRoots(r))
                    /\ RootsLinked(r)[i].root = Top(ExplicitRoots(r), i)
  <1> DEFINE r1 == ExplicitRoots(r)
             r2 == ChainRoots(r1)
  <1>1. PICK f : f = [i \in DOMAIN r |-> Pick1(RootHit(r, i), None)]
    OBVIOUS
  <1>2. r1 = Rerooted(r, SelfRooted(r), f)
    BY <1>1 DEF ExplicitRoots, Rerooted, SelfRooted
  <1>3. /\ Tables(r1, o) /\ KeepsStash(r, r1) /\ KeepsParents(r, r1)
        /\ \A i \in DOMAIN r : r1[i].root = IF i \in SelfRooted(r) THEN f[i] ELSE r[i].root
    <2> HIDE DEF r1
    <2> QED BY <1>2, RootColumn
  <1> HIDE DEF r1
  <1>4. PICK g : g = [i \in DOMAIN r1 |-> Top(r1, i)]
    OBVIOUS
  <1>5. r2 = Rerooted(r1, Misrooted(r1), g)
    BY <1>4 DEF ChainRoots, Rerooted, Misrooted
  <1>6. /\ Tables(r2, o) /\ KeepsStash(r1, r2) /\ KeepsParents(r1, r2)
        /\ \A i \in DOMAIN r1 : r2[i].root = IF i \in Misrooted(r1) THEN g[i] ELSE r1[i].root
    <2> HIDE DEF r2
    <2> QED BY <1>3, <1>5, RootColumn
  <1> HIDE DEF r2
  <1>7. KeepsStash(r, r2) /\ KeepsParents(r, r2) /\ DOMAIN r1 = DOMAIN r /\ DOMAIN r2 = DOMAIN r
    BY <1>3, <1>6 DEF KeepsStash, KeepsParents
  <1>8. Orphans(r2) = Orphans(r) /\ ParentOf(r2) = ParentOf(r1) /\ \A i : Top(r2, i) = Top(r1, i)
    BY <1>6, <1>7, RootsIrrelevant
  <1>9. Misrooted(r2) = {}
    <2> SUFFICES ASSUME NEW i \in Misrooted(r2) PROVE FALSE
      OBVIOUS
    <2>1. i \in DOMAIN r1 /\ ParentOf(r1)[Top(r1, i)] = None /\ r2[i].root # Top(r1, i)
      BY <1>7, <1>8 DEF Misrooted
    <2>2. i \notin Misrooted(r1)
      BY <1>4, <1>6, <2>1
    <2> QED BY <1>6, <2>1, <2>2 DEF Misrooted
  <1>10. ASSUME NEW i \in DOMAIN r, r2[i].root # r[i].root
         PROVE  \/ i \in SelfRooted(r) /\ r2[i].root = Pick1(RootHit(r, i), None)
                \/ i \in Misrooted(r1) /\ r2[i].root = Top(r1, i)
    BY <1>1, <1>3, <1>4, <1>6, <1>7, <1>10
  <1>q. /\ Tables(r2, o) /\ KeepsStash(r, r2) /\ KeepsParents(r, r2)
        /\ Orphans(r2) = Orphans(r) /\ Misrooted(r2) = {}
        /\ \A i \in DOMAIN r : r2[i].root # r[i].root =>
              \/ i \in SelfRooted(r) /\ r2[i].root = Pick1(RootHit(r, i), None)
              \/ i \in Misrooted(r1) /\ r2[i].root = Top(r1, i)
    BY <1>6, <1>7, <1>8, <1>9, <1>10
  <1> QED BY <1>q DEF r1, r2, RootsLinked

-----------------------------------------------------------------------------
(* The passes over operations.                                              *)

\* A pass links the operations that have a hit: H is the hit of each.
HitsApplied(o, H) ==
    [p \in DOMAIN o |-> IF H[p] # {} THEN [o[p] EXCEPT !.child = Pick1(H[p], None)] ELSE o[p]]

LEMMA OpColumn ==
    ASSUME NEW r, NEW o, Tables(r, o), NEW H, \A p \in DOMAIN o : H[p] \subseteq DOMAIN r
    PROVE  /\ Tables(r, HitsApplied(o, H)) /\ DOMAIN HitsApplied(o, H) = DOMAIN o
           /\ \A p \in DOMAIN o :
                 /\ HitsApplied(o, H)[p].session = o[p].session
                 /\ HitsApplied(o, H)[p].toChild = o[p].toChild
                 /\ HitsApplied(o, H)[p].tool = o[p].tool
                 /\ H[p] = {} => HitsApplied(o, H)[p].child = o[p].child
                 /\ H[p] # {} => HitsApplied(o, H)[p].child # None
  <1> DEFINE o2 == HitsApplied(o, H)
  <1>1. DOMAIN o2 = DOMAIN o /\ o2 = [p \in DOMAIN o |-> o2[p]]
    BY DEF HitsApplied
  <1>2. ASSUME NEW p \in DOMAIN o
        PROVE  /\ IsOp(o2[p]) /\ o2[p].session = o[p].session /\ o2[p].toChild = o[p].toChild
               /\ o2[p].tool = o[p].tool /\ (H[p] = {} => o2[p].child = o[p].child)
               /\ (H[p] # {} => o2[p].child # None)
    <2>1. IsOp(o[p])
      BY DEF Tables
    <2>2. o2[p] = IF H[p] # {} THEN [o[p] EXCEPT !.child = Pick1(H[p], None)] ELSE o[p]
      BY DEF HitsApplied
    <2> HIDE DEF o2
    <2>3. CASE H[p] # {}
      <3>1. Pick1(H[p], None) \in Ids
        BY <2>3, PickMember DEF Tables
      <3>2. Pick1(H[p], None) # None
        BY <3>1, FeedAssumption
      <3>3. PICK v : v = Pick1(H[p], None)
        OBVIOUS
      <3>4. o2[p] = [o[p] EXCEPT !.child = v]
        BY <2>2, <2>3, <3>3
      <3>5. /\ IsOp(o2[p]) /\ o2[p].session = o[p].session /\ o2[p].toChild = o[p].toChild
            /\ o2[p].tool = o[p].tool /\ o2[p].child = v
        BY <2>1, <3>4 DEF IsOp
      <3> QED BY <2>3, <3>2, <3>3, <3>5
    <2>4. CASE H[p] = {}
      BY <2>1, <2>2, <2>4
    <2> QED BY <2>3, <2>4
  <1> HIDE DEF o2
  <1>3. Tables(r, o2)
    <2>1. \A p \in DOMAIN o : IsOp(o2[p])
      BY <1>2
    <2> QED BY <1>1, <2>1, Zenon DEF Tables
  <1>q. /\ Tables(r, o2) /\ DOMAIN o2 = DOMAIN o
        /\ \A p \in DOMAIN o :
              /\ o2[p].session = o[p].session /\ o2[p].toChild = o[p].toChild
              /\ o2[p].tool = o[p].tool /\ (H[p] = {} => o2[p].child = o[p].child)
              /\ (H[p] # {} => o2[p].child # None)
    BY <1>1, <1>2, <1>3
  <1> QED BY <1>q DEF o2

ChildHits(r, o) == [p \in DOMAIN o |-> ChildHit([rows |-> r, ops |-> o], p)]
ToolHits(r, o) == [p \in DOMAIN o |-> ToolHit([rows |-> r, ops |-> o], p)]
OpsLinkable(r, o) == {p \in DOMAIN o : ChildHits(r, o)[p] \cup ToolHits(r, o)[p] # {}}

\* The same hits, of an operation's row x.
NameHit(r, x) == IF x.child # None THEN {} ELSE Lookup(r, Scope[x.session], x.toChild)
UseHit(r, x) ==
    IF x.child # None \/ x.tool = None THEN {}
    ELSE {c \in DOMAIN r : /\ Scope[c] = Scope[x.session] /\ c # x.session
                           /\ r[c].tool = x.tool
                           /\ r[c].parent = x.session \/ r[c].toParent = NativeOf[x.session]}

\* The hits of an operation depend on its columns and on the sessions.
LEMMA HitColumns ==
    ASSUME NEW r, NEW o, NEW p \in DOMAIN o
    PROVE  ChildHits(r, o)[p] = NameHit(r, o[p]) /\ ToolHits(r, o)[p] = UseHit(r, o[p])
  <1> DEFINE t == [rows |-> r, ops |-> o]
  <1>1. ChildHits(r, o)[p] = ChildHit(t, p) /\ ToolHits(r, o)[p] = ToolHit(t, p)
    BY Zenon DEF ChildHits, ToolHits
  <1>2. t.rows = r /\ t.ops = o
    OBVIOUS
  <1> HIDE DEF t
  <1>3. ChildHit(t, p) = NameHit(r, o[p])
    BY <1>2 DEF ChildHit, NameHit
  <1>4. ToolHit(t, p) = UseHit(r, o[p])
    BY <1>2, Zenon DEF ToolHit, UseHit
  <1> QED BY <1>1, <1>3, <1>4

LEMMA HitsAreSessions ==
    ASSUME NEW r, NEW o, NEW p \in DOMAIN o
    PROVE  ChildHits(r, o)[p] \subseteq DOMAIN r /\ ToolHits(r, o)[p] \subseteq DOMAIN r
  <1>1. \A x : NameHit(r, x) \subseteq DOMAIN r
    BY DEF NameHit, Lookup
  <1>2. \A x : UseHit(r, x) \subseteq DOMAIN r
    BY DEF UseHit
  <1> QED BY <1>1, <1>2, HitColumns

\* A linked operation has no hit left.
LEMMA HitsNeedNoChild ==
    ASSUME NEW r, NEW o, NEW p \in DOMAIN o, o[p].child # None
    PROVE  ChildHits(r, o)[p] = {} /\ ToolHits(r, o)[p] = {}
  <1>1. NameHit(r, o[p]) = {} /\ UseHit(r, o[p]) = {}
    BY DEF NameHit, UseHit
  <1> QED BY <1>1, HitColumns

\* Operations that agree on their columns have the same hits.
LEMMA HitsByColumns ==
    ASSUME NEW r, NEW o, NEW o2, NEW p \in DOMAIN o, p \in DOMAIN o2,
           o2[p].session = o[p].session, o2[p].child = o[p].child,
           o2[p].toChild = o[p].toChild, o2[p].tool = o[p].tool
    PROVE  ChildHits(r, o2)[p] = ChildHits(r, o)[p] /\ ToolHits(r, o2)[p] = ToolHits(r, o)[p]
  <1>1. NameHit(r, o2[p]) = NameHit(r, o[p])
    BY DEF NameHit
  <1>2. UseHit(r, o2[p]) = UseHit(r, o[p])
    BY Zenon DEF UseHit
  <1> QED BY <1>1, <1>2, HitColumns

ByName(r, o) == HitsApplied(o, ChildHits(r, o))
OpsLinked(r, o) == HitsApplied(ByName(r, o), ToolHits(r, ByName(r, o)))

\* The two passes over operations leave nothing linkable, and re-point nothing.
LEMMA OpPass ==
    ASSUME NEW r, NEW o, Tables(r, o)
    PROVE  /\ Tables(r, OpsLinked(r, o)) /\ DOMAIN OpsLinked(r, o) = DOMAIN o
           /\ OpsLinkable(r, OpsLinked(r, o)) = {}
           /\ \A p \in DOMAIN o :
                 /\ OpsLinked(r, o)[p].session = o[p].session
                 /\ o[p].child # None => OpsLinked(r, o)[p].child = o[p].child
                 /\ OpsLinked(r, o)[p].child # o[p].child =>
                       \/ ChildHits(r, o)[p] # {}
                       \/ ToolHits(r, ByName(r, o))[p] # {}
  <1> DEFINE H1 == ChildHits(r, o)
             o1 == HitsApplied(o, H1)
             H2 == ToolHits(r, o1)
             o2 == HitsApplied(o1, H2)
  <1>1. \A p \in DOMAIN o : H1[p] \subseteq DOMAIN r
    BY HitsAreSessions
  <1>2. /\ Tables(r, o1) /\ DOMAIN o1 = DOMAIN o
        /\ \A p \in DOMAIN o :
              /\ o1[p].session = o[p].session /\ o1[p].toChild = o[p].toChild
              /\ o1[p].tool = o[p].tool
              /\ H1[p] = {} => o1[p].child = o[p].child
              /\ H1[p] # {} => o1[p].child # None
    <2> HIDE DEF H1
    <2> QED BY <1>1, OpColumn
  <1>3. \A p \in DOMAIN o1 : H2[p] \subseteq DOMAIN r
    <2> HIDE DEF o1
    <2> QED BY HitsAreSessions
  <1>4. /\ Tables(r, o2) /\ DOMAIN o2 = DOMAIN o1
        /\ \A p \in DOMAIN o1 :
              /\ o2[p].session = o1[p].session /\ o2[p].toChild = o1[p].toChild
              /\ o2[p].tool = o1[p].tool
              /\ H2[p] = {} => o2[p].child = o1[p].child
              /\ H2[p] # {} => o2[p].child # None
    <2> HIDE DEF o1, H2
    <2> QED BY <1>2, <1>3, OpColumn
  <1> HIDE DEF o1, o2
  <1>5. ASSUME NEW p \in DOMAIN o, o2[p].child = None
        PROVE  ChildHits(r, o2)[p] = {} /\ ToolHits(r, o2)[p] = {}
    <2>1. H2[p] = {} /\ o1[p].child = None
      <3> HIDE DEF H2
      <3> QED BY <1>2, <1>4, <1>5
    <2>2. H1[p] = {} /\ o[p].child = None
      <3> HIDE DEF H1, H2
      <3> QED BY <1>2, <2>1
    <2>3. ToolHits(r, o2)[p] = ToolHits(r, o1)[p]
      <3> HIDE DEF H1, H2
      <3> QED BY <1>2, <1>4, <1>5, <2>1, HitsByColumns
    <2>4. ChildHits(r, o2)[p] = ChildHits(r, o)[p]
      <3> HIDE DEF H1, H2
      <3> QED BY <1>2, <1>4, <1>5, <2>2, HitsByColumns
    <2> QED BY <2>1, <2>2, <2>3, <2>4
  <1>6. ASSUME NEW p \in DOMAIN o, o2[p].child # None
        PROVE  ChildHits(r, o2)[p] = {} /\ ToolHits(r, o2)[p] = {}
    <2>1. p \in DOMAIN o2
      <3> HIDE DEF H1, H2
      <3> QED BY <1>2, <1>4
    <2> QED BY <1>6, <2>1, HitsNeedNoChild
  <1>7. OpsLinkable(r, o2) = {}
    <2>1. DOMAIN o2 = DOMAIN o
      <3> HIDE DEF H1, H2
      <3> QED BY <1>2, <1>4
    <2>2. \A p \in DOMAIN o2 : ChildHits(r, o2)[p] = {} /\ ToolHits(r, o2)[p] = {}
      BY <2>1, <1>5, <1>6
    <2> HIDE DEF H1, H2
    <2> QED BY <2>2 DEF OpsLinkable
  <1>8. ASSUME NEW p \in DOMAIN o, o[p].child # None PROVE o2[p].child = o[p].child
    <2>1. H1[p] = {}
      BY <1>8, HitsNeedNoChild
    <2>2. o1[p].child = o[p].child /\ p \in DOMAIN o1
      <3> HIDE DEF H1, H2
      <3> QED BY <1>2, <2>1
    <2>3. H2[p] = {}
      BY <1>8, <2>2, HitsNeedNoChild
    <2> HIDE DEF H1, H2
    <2> QED BY <1>4, <2>2, <2>3
  <1>9. \A p \in DOMAIN o : o2[p].child # o[p].child => H1[p] # {} \/ H2[p] # {}
    <2> HIDE DEF H1, H2
    <2> QED BY <1>2, <1>4
  <1>10. DOMAIN o2 = DOMAIN o /\ \A p \in DOMAIN o : o2[p].session = o[p].session
    <2> HIDE DEF H1, H2
    <2> QED BY <1>2, <1>4
  <1>11. Tables(r, o2)
    BY <1>4
  <1> HIDE DEF H1, H2
  <1>q. /\ Tables(r, o2) /\ DOMAIN o2 = DOMAIN o /\ OpsLinkable(r, o2) = {}
        /\ \A p \in DOMAIN o :
              /\ o2[p].session = o[p].session
              /\ (o[p].child # None => o2[p].child = o[p].child)
              /\ (o2[p].child # o[p].child => H1[p] # {} \/ H2[p] # {})
    BY <1>7, <1>8, <1>9, <1>10, <1>11
  <1> QED BY <1>q, Zenon DEF o1, o2, H1, H2, OpsLinked, ByName

-----------------------------------------------------------------------------
(* The transaction of a pass.                                               *)

IsTransaction(t) == t = [rows |-> t.rows, ops |-> t.ops, affected |-> t.affected]

LEMMA ParentStep ==
    ASSUME NEW t, IsTransaction(t)
    PROVE  /\ IsTransaction(LinkParents(t))
           /\ LinkParents(t).rows = ParentsLinked(t.rows) /\ LinkParents(t).ops = t.ops
           /\ t.affected \subseteq LinkParents(t).affected
           /\ Orphans(t.rows) \subseteq LinkParents(t).affected
           /\ \A i \in Orphans(t.rows) :
                 Pick1(ParentHit(t.rows, i), None) \in LinkParents(t).affected
  <1> DEFINE up == {t.rows[i].root : i \in Orphans(t.rows)}
             hits == {Pick1(ParentHit(t.rows, i), None) : i \in Orphans(t.rows)}
             more == Orphans(t.rows) \cup up \cup hits
  <1>1. PICK a : a = t.affected \cup more
    OBVIOUS
  <1>2. LinkParents(t) = [t EXCEPT !.rows = ParentsLinked(t.rows), !.affected = a]
    <2>1. a = t.affected \cup Orphans(t.rows) \cup up \cup hits
      BY <1>1
    <2> QED BY <2>1, Zenon DEF LinkParents
  <1>3. \A i \in Orphans(t.rows) : Pick1(ParentHit(t.rows, i), None) \in a
    BY <1>1
  <1>4. t.affected \subseteq a /\ Orphans(t.rows) \subseteq a
    BY <1>1
  <1>5. /\ IsTransaction(LinkParents(t)) /\ LinkParents(t).rows = ParentsLinked(t.rows)
        /\ LinkParents(t).ops = t.ops /\ LinkParents(t).affected = a
    BY <1>2 DEF IsTransaction
  <1> QED BY <1>3, <1>4, <1>5

LEMMA ExplicitRootStep ==
    ASSUME NEW t, IsTransaction(t)
    PROVE  /\ IsTransaction(LinkExplicitRoots(t))
           /\ LinkExplicitRoots(t).rows = ExplicitRoots(t.rows) /\ LinkExplicitRoots(t).ops = t.ops
           /\ t.affected \subseteq LinkExplicitRoots(t).affected
           /\ SelfRooted(t.rows) \subseteq LinkExplicitRoots(t).affected
           /\ \A i \in SelfRooted(t.rows) :
                 Pick1(RootHit(t.rows, i), None) \in LinkExplicitRoots(t).affected
  <1> DEFINE hits == {Pick1(RootHit(t.rows, i), None) : i \in SelfRooted(t.rows)}
             more == SelfRooted(t.rows) \cup hits
  <1>1. PICK a : a = t.affected \cup more
    OBVIOUS
  <1>2. LinkExplicitRoots(t) = [t EXCEPT !.rows = ExplicitRoots(t.rows), !.affected = a]
    <2>1. a = t.affected \cup SelfRooted(t.rows) \cup hits
      BY <1>1
    <2> QED BY <2>1, Zenon DEF LinkExplicitRoots
  <1>3. \A i \in SelfRooted(t.rows) : Pick1(RootHit(t.rows, i), None) \in a
    BY <1>1
  <1>4. t.affected \subseteq a /\ SelfRooted(t.rows) \subseteq a
    BY <1>1
  <1>5. /\ IsTransaction(LinkExplicitRoots(t)) /\ LinkExplicitRoots(t).rows = ExplicitRoots(t.rows)
        /\ LinkExplicitRoots(t).ops = t.ops /\ LinkExplicitRoots(t).affected = a
    BY <1>2 DEF IsTransaction
  <1> QED BY <1>3, <1>4, <1>5

LEMMA ChainRootStep ==
    ASSUME NEW t, IsTransaction(t)
    PROVE  /\ IsTransaction(LinkTransitiveRoots(t))
           /\ LinkTransitiveRoots(t).rows = ChainRoots(t.rows) /\ LinkTransitiveRoots(t).ops = t.ops
           /\ t.affected \subseteq LinkTransitiveRoots(t).affected
           /\ \A i \in Misrooted(t.rows) : {i, Top(t.rows, i)} \subseteq LinkTransitiveRoots(t).affected
  <1> DEFINE wrong == Misrooted(t.rows)
             tops == {Top(t.rows, i) : i \in wrong}
             ups == {t.rows[i].parent : i \in wrong} \ {None}
  <1>1. PICK a : a = t.affected \cup wrong \cup tops \cup ups
    OBVIOUS
  <1>2. LinkTransitiveRoots(t) = [t EXCEPT !.rows = ChainRoots(t.rows), !.affected = a]
    BY <1>1, Zenon DEF LinkTransitiveRoots
  <1>3. \A i \in wrong : {i, Top(t.rows, i)} \subseteq a
    BY <1>1
  <1>4. t.affected \subseteq a
    BY <1>1
  <1>5. /\ IsTransaction(LinkTransitiveRoots(t)) /\ LinkTransitiveRoots(t).rows = ChainRoots(t.rows)
        /\ LinkTransitiveRoots(t).ops = t.ops /\ LinkTransitiveRoots(t).affected = a
    BY <1>2 DEF IsTransaction
  <1> QED BY <1>3, <1>4, <1>5

LEMMA OpStep ==
    ASSUME NEW t, IsTransaction(t)
    PROVE  /\ IsTransaction(LinkOpChildren(t)) /\ LinkOpChildren(t).rows = t.rows
           /\ LinkOpChildren(t).ops = HitsApplied(t.ops, ChildHits(t.rows, t.ops))
           /\ t.affected \subseteq LinkOpChildren(t).affected
           /\ \A p \in DOMAIN t.ops : ChildHits(t.rows, t.ops)[p] # {} =>
                 t.ops[p].session \in LinkOpChildren(t).affected
  <1> DEFINE linked == {p \in DOMAIN t.ops : ChildHit(t, p) # {}}
             o2 == [p \in DOMAIN t.ops |->
                      IF p \in linked THEN [t.ops[p] EXCEPT !.child = Pick1(ChildHit(t, p), None)]
                      ELSE t.ops[p]]
  <1>1. \A p \in DOMAIN t.ops : ChildHits(t.rows, t.ops)[p] = ChildHit(t, p)
    BY DEF ChildHits, ChildHit
  <1>2. PICK a : a = t.affected \cup {t.ops[p].session : p \in linked}
    OBVIOUS
  <1>3. LinkOpChildren(t) = [t EXCEPT !.ops = o2, !.affected = a]
    BY <1>2, Zenon DEF LinkOpChildren, LinkOps
  <1>4. o2 = HitsApplied(t.ops, ChildHits(t.rows, t.ops))
    <2>1. PICK H : H = ChildHits(t.rows, t.ops)
      OBVIOUS
    <2>2. \A p \in DOMAIN t.ops : H[p] = ChildHit(t, p)
      BY <1>1, <2>1
    <2>3. o2 = HitsApplied(t.ops, H)
      BY <2>2 DEF HitsApplied
    <2> QED BY <2>1, <2>3
  <1>5. \A p \in DOMAIN t.ops : ChildHits(t.rows, t.ops)[p] # {} => t.ops[p].session \in a
    BY <1>1, <1>2
  <1>6. t.affected \subseteq a
    BY <1>2
  <1>7. /\ IsTransaction(LinkOpChildren(t)) /\ LinkOpChildren(t).rows = t.rows
        /\ LinkOpChildren(t).ops = o2 /\ LinkOpChildren(t).affected = a
    <2> HIDE DEF o2
    <2> QED BY <1>3 DEF IsTransaction
  <1> QED BY <1>4, <1>5, <1>6, <1>7

LEMMA ToolUseStep ==
    ASSUME NEW t, IsTransaction(t)
    PROVE  /\ LinkOpChildrenByToolUse(t).rows = t.rows
           /\ LinkOpChildrenByToolUse(t).ops = HitsApplied(t.ops, ToolHits(t.rows, t.ops))
           /\ t.affected \subseteq LinkOpChildrenByToolUse(t).affected
           /\ \A p \in DOMAIN t.ops : ToolHits(t.rows, t.ops)[p] # {} =>
                 t.ops[p].session \in LinkOpChildrenByToolUse(t).affected
  <1> DEFINE linked == {p \in DOMAIN t.ops : ToolHit(t, p) # {}}
             o2 == [p \in DOMAIN t.ops |->
                      IF p \in linked THEN [t.ops[p] EXCEPT !.child = Pick1(ToolHit(t, p), None)]
                      ELSE t.ops[p]]
  <1>1. \A p \in DOMAIN t.ops : ToolHits(t.rows, t.ops)[p] = ToolHit(t, p)
    <2> SUFFICES ASSUME NEW p \in DOMAIN t.ops
                 PROVE  ToolHits(t.rows, t.ops)[p] = ToolHit(t, p)
      OBVIOUS
    <2>1. ToolHits(t.rows, t.ops)[p] = UseHit(t.rows, t.ops[p])
      BY HitColumns
    <2>2. ToolHit(t, p) = UseHit(t.rows, t.ops[p])
      BY Zenon DEF ToolHit, UseHit
    <2> QED BY <2>1, <2>2
  <1>2. PICK a : a = t.affected \cup {t.ops[p].session : p \in linked}
    OBVIOUS
  <1>3. LinkOpChildrenByToolUse(t) = [t EXCEPT !.ops = o2, !.affected = a]
    BY <1>2, Zenon DEF LinkOpChildrenByToolUse, LinkOps
  <1>4. o2 = HitsApplied(t.ops, ToolHits(t.rows, t.ops))
    <2>1. PICK H : H = ToolHits(t.rows, t.ops)
      OBVIOUS
    <2>2. \A p \in DOMAIN t.ops : H[p] = ToolHit(t, p)
      BY <1>1, <2>1
    <2>3. o2 = HitsApplied(t.ops, H)
      BY <2>2 DEF HitsApplied
    <2> QED BY <2>1, <2>3
  <1>5. \A p \in DOMAIN t.ops : ToolHits(t.rows, t.ops)[p] # {} => t.ops[p].session \in a
    BY <1>1, <1>2
  <1>6. t.affected \subseteq a
    BY <1>2
  <1>7. /\ LinkOpChildrenByToolUse(t).rows = t.rows
        /\ LinkOpChildrenByToolUse(t).ops = o2 /\ LinkOpChildrenByToolUse(t).affected = a
    <2> HIDE DEF o2
    <2> QED BY <1>3 DEF IsTransaction
  <1> QED BY <1>4, <1>5, <1>6, <1>7

\* What a pass makes of the tables r and o: with the session passes if s, with
\* the root pass if roots.
PassEffect(r, o, s, roots, t) ==
    /\ Tables(t.rows, t.ops) /\ KeepsStash(r, t.rows) /\ DOMAIN t.ops = DOMAIN o
    /\ OpsLinkable(t.rows, t.ops) = {}
    /\ s => Orphans(t.rows) = {}
    /\ roots => Misrooted(t.rows) = {}
    /\ ~roots /\ (~s \/ Orphans(r) = {}) => t.rows = r
    /\ \A i \in DOMAIN r :
          /\ r[i].parent # None => t.rows[i].parent = r[i].parent
          /\ t.rows[i].parent # r[i].parent => {i, t.rows[i].parent} \subseteq t.affected
          /\ t.rows[i].root # r[i].root => {i, t.rows[i].root} \subseteq t.affected
    /\ \A p \in DOMAIN o :
          /\ o[p].child # None => t.ops[p].child = o[p].child
          /\ t.ops[p].child # o[p].child => o[p].session \in t.affected

\* The session passes.
SessionsDone(r, o, s, t1) ==
    /\ IsTransaction(t1) /\ t1.ops = o
    /\ Tables(t1.rows, o) /\ KeepsStash(r, t1.rows)
    /\ s => Orphans(t1.rows) = {}
    /\ ~s \/ Orphans(r) = {} => t1.rows = r
    /\ \A i \in DOMAIN r :
          /\ r[i].parent # None => t1.rows[i].parent = r[i].parent
          /\ t1.rows[i].parent # r[i].parent => {i, t1.rows[i].parent} \subseteq t1.affected
          /\ t1.rows[i].root = r[i].root

LEMMA SessionsEffect ==
    ASSUME NEW r, NEW o, Tables(r, o), NEW s \in BOOLEAN, NEW t1,
           t1 = IF s THEN LinkParents([rows |-> r, ops |-> o, affected |-> {}])
                ELSE [rows |-> r, ops |-> o, affected |-> {}]
    PROVE  SessionsDone(r, o, s, t1)
  <1> DEFINE t0 == [rows |-> r, ops |-> o, affected |-> {}]
  <1>1. IsTransaction(t0) /\ t0.rows = r /\ t0.ops = o
    BY DEF IsTransaction
  <1>2. CASE s
    <2>1. t1 = LinkParents(t0)
      BY <1>2
    <2> HIDE DEF t0
    <2>2. /\ IsTransaction(t1) /\ t1.rows = ParentsLinked(r) /\ t1.ops = o
          /\ Orphans(r) \subseteq t1.affected
          /\ \A i \in Orphans(r) : Pick1(ParentHit(r, i), None) \in t1.affected
      BY <1>1, <2>1, ParentStep
    <2>3. /\ Tables(t1.rows, o) /\ KeepsStash(r, t1.rows) /\ Orphans(t1.rows) = {}
          /\ \A i \in DOMAIN r : t1.rows[i].root = r[i].root
          /\ \A i \in Orphans(r) : t1.rows[i].parent = Pick1(ParentHit(r, i), None)
          /\ \A i \in DOMAIN r \ Orphans(r) : t1.rows[i] = r[i]
          /\ Orphans(r) = {} => t1.rows = r
      <3>1. ParentsDone(r, o, t1.rows)
        BY <2>2, ParentPass
      <3> QED BY <3>1 DEF ParentsDone
    <2>4. \A i \in Orphans(r) : r[i].parent = None
      BY DEF Orphans
    <2> QED BY <1>2, <2>2, <2>3, <2>4 DEF SessionsDone
  <1>3. CASE ~s
    <2>1. t1 = t0
      BY <1>3
    <2>2. KeepsStash(r, r)
      BY DEF KeepsStash, Tables
    <2> HIDE DEF t0
    <2> QED BY <1>1, <1>3, <2>1, <2>2 DEF SessionsDone
  <1> QED BY <1>2, <1>3

\* ... the root pass after them ...
LEMMA RootsEffect ==
    ASSUME NEW t1, IsTransaction(t1), Tables(t1.rows, t1.ops), NEW roots \in BOOLEAN, NEW t2,
           t2 = IF roots THEN LinkRoots(t1) ELSE t1
    PROVE  /\ IsTransaction(t2) /\ t2.ops = t1.ops
           /\ Tables(t2.rows, t1.ops) /\ KeepsStash(t1.rows, t2.rows)
           /\ KeepsParents(t1.rows, t2.rows)
           /\ Orphans(t2.rows) = Orphans(t1.rows)
           /\ roots => Misrooted(t2.rows) = {}
           /\ ~roots => t2.rows = t1.rows
           /\ t1.affected \subseteq t2.affected
           /\ \A i \in DOMAIN t1.rows : t2.rows[i].root # t1.rows[i].root =>
                 {i, t2.rows[i].root} \subseteq t2.affected
  <1>1. CASE ~roots
    <2>1. KeepsStash(t1.rows, t1.rows) /\ KeepsParents(t1.rows, t1.rows)
      BY DEF KeepsStash, KeepsParents, Tables
    <2> QED BY <1>1, <2>1
  <1>2. CASE roots
    <2>1. PICK x : x = LinkExplicitRoots(t1)
      OBVIOUS
    <2>2. /\ IsTransaction(x) /\ x.rows = ExplicitRoots(t1.rows) /\ x.ops = t1.ops
          /\ t1.affected \subseteq x.affected
          /\ SelfRooted(t1.rows) \subseteq x.affected
          /\ \A i \in SelfRooted(t1.rows) : Pick1(RootHit(t1.rows, i), None) \in x.affected
      BY <2>1, ExplicitRootStep
    <2>3. t2 = LinkTransitiveRoots(x)
      BY <1>2, <2>1 DEF LinkRoots
    <2>4. /\ IsTransaction(t2) /\ t2.rows = ChainRoots(x.rows) /\ t2.ops = x.ops
          /\ x.affected \subseteq t2.affected
          /\ \A i \in Misrooted(x.rows) : {i, Top(x.rows, i)} \subseteq t2.affected
      BY <2>2, <2>3, ChainRootStep
    <2>5. t2.rows = RootsLinked(t1.rows)
      BY <2>2, <2>4 DEF RootsLinked
    <2>6. /\ Tables(t2.rows, t1.ops) /\ KeepsStash(t1.rows, t2.rows)
          /\ KeepsParents(t1.rows, t2.rows)
          /\ Orphans(t2.rows) = Orphans(t1.rows) /\ Misrooted(t2.rows) = {}
          /\ \A i \in DOMAIN t1.rows : t2.rows[i].root # t1.rows[i].root =>
                \/ /\ i \in SelfRooted(t1.rows)
                   /\ t2.rows[i].root = Pick1(RootHit(t1.rows, i), None)
                \/ i \in Misrooted(x.rows) /\ t2.rows[i].root = Top(x.rows, i)
      BY <2>2, <2>5, RootPass
    <2>7. \A i \in DOMAIN t1.rows : t2.rows[i].root # t1.rows[i].root =>
             {i, t2.rows[i].root} \subseteq t2.affected
      BY <2>2, <2>4, <2>6
    <2> QED BY <1>2, <2>2, <2>4, <2>6, <2>7
  <1> QED BY <1>1, <1>2

\* ... and the passes over operations after those.
OpsDone(t2, t) ==
    /\ t.rows = t2.rows /\ Tables(t2.rows, t.ops) /\ DOMAIN t.ops = DOMAIN t2.ops
    /\ OpsLinkable(t2.rows, t.ops) = {}
    /\ t2.affected \subseteq t.affected
    /\ \A p \in DOMAIN t2.ops :
          /\ t2.ops[p].child # None => t.ops[p].child = t2.ops[p].child
          /\ t.ops[p].child # t2.ops[p].child => t2.ops[p].session \in t.affected

LEMMA OpsEffect ==
    ASSUME NEW t2, IsTransaction(t2), Tables(t2.rows, t2.ops), NEW t,
           t = LinkOpChildrenByToolUse(LinkOpChildren(t2))
    PROVE  OpsDone(t2, t)
  <1>1. PICK r : r = t2.rows
    OBVIOUS
  <1>2. PICK o : o = t2.ops
    OBVIOUS
  <1>3. PICK t3 : t3 = LinkOpChildren(t2)
    OBVIOUS
  <1>4. /\ IsTransaction(t3) /\ t3.rows = r /\ t3.ops = ByName(r, o)
        /\ t2.affected \subseteq t3.affected
        /\ \A p \in DOMAIN o : ChildHits(r, o)[p] # {} => o[p].session \in t3.affected
    BY <1>1, <1>2, <1>3, OpStep DEF ByName
  <1>5. t = LinkOpChildrenByToolUse(t3)
    BY <1>3
  <1>6. /\ t.rows = r /\ t.ops = HitsApplied(t3.ops, ToolHits(r, t3.ops))
        /\ t3.affected \subseteq t.affected
        /\ \A p \in DOMAIN t3.ops : ToolHits(r, t3.ops)[p] # {} => t3.ops[p].session \in t.affected
    BY <1>4, <1>5, ToolUseStep
  <1>7. t.ops = OpsLinked(r, o)
    BY <1>4, <1>6 DEF OpsLinked
  <1>8. /\ Tables(r, t.ops) /\ DOMAIN t.ops = DOMAIN o /\ OpsLinkable(r, t.ops) = {}
        /\ \A p \in DOMAIN o :
              /\ o[p].child # None => t.ops[p].child = o[p].child
              /\ t.ops[p].child # o[p].child =>
                    ChildHits(r, o)[p] # {} \/ ToolHits(r, ByName(r, o))[p] # {}
    BY <1>1, <1>2, <1>7, OpPass
  <1>9. /\ DOMAIN t3.ops = DOMAIN o /\ \A p \in DOMAIN o : t3.ops[p].session = o[p].session
    <2>1. \A p \in DOMAIN o : ChildHits(r, o)[p] \subseteq DOMAIN r
      BY HitsAreSessions
    <2>2. PICK H : H = ChildHits(r, o)
      OBVIOUS
    <2>3. Tables(r, o) /\ \A p \in DOMAIN o : H[p] \subseteq DOMAIN r
      BY <1>1, <1>2, <2>1, <2>2
    <2>4. t3.ops = HitsApplied(o, H)
      BY <1>4, <2>2 DEF ByName
    <2> QED BY <2>3, <2>4, OpColumn
  <1>10. \A p \in DOMAIN o : t.ops[p].child # o[p].child => o[p].session \in t.affected
    <2> SUFFICES ASSUME NEW p \in DOMAIN o, t.ops[p].child # o[p].child
                 PROVE  o[p].session \in t.affected
      OBVIOUS
    <2>1. CASE ChildHits(r, o)[p] # {}
      BY <1>4, <1>6, <2>1
    <2>2. CASE ToolHits(r, ByName(r, o))[p] # {}
      BY <1>4, <1>6, <1>9, <2>2
    <2> QED BY <1>8, <2>1, <2>2
  <1> QED BY <1>1, <1>2, <1>4, <1>6, <1>8, <1>10 DEF OpsDone

\* The whole pass.
LEMMA LinkedEffect ==
    ASSUME Tables(rows, ops), NEW s \in BOOLEAN
    PROVE  PassEffect(rows, ops, s, RootsDue(s), Linked(s))
  <1>1. PICK t1 : t1 = IF s THEN LinkParents([rows |-> rows, ops |-> ops, affected |-> {}])
                       ELSE [rows |-> rows, ops |-> ops, affected |-> {}]
    OBVIOUS
  <1>2. PICK roots \in BOOLEAN : roots = RootsDue(s)
    BY DEF RootsDue
  <1>3. PICK t2 : t2 = IF roots THEN LinkRoots(t1) ELSE t1
    OBVIOUS
  <1>4. PICK t : t = LinkOpChildrenByToolUse(LinkOpChildren(t2))
    OBVIOUS
  <1>5. t = Linked(s)
    BY <1>1, <1>2, <1>3, <1>4, Zenon DEF Linked
  <1>6. /\ IsTransaction(t1) /\ t1.ops = ops
        /\ Tables(t1.rows, ops) /\ KeepsStash(rows, t1.rows)
        /\ s => Orphans(t1.rows) = {}
        /\ ~s \/ Orphans(rows) = {} => t1.rows = rows
        /\ \A i \in DOMAIN rows :
              /\ rows[i].parent # None => t1.rows[i].parent = rows[i].parent
              /\ t1.rows[i].parent # rows[i].parent => {i, t1.rows[i].parent} \subseteq t1.affected
              /\ t1.rows[i].root = rows[i].root
    <2>1. SessionsDone(rows, ops, s, t1)
      BY <1>1, SessionsEffect
    <2> QED BY <2>1 DEF SessionsDone
  <1>7. /\ IsTransaction(t2) /\ t2.ops = ops
        /\ Tables(t2.rows, ops) /\ KeepsStash(t1.rows, t2.rows) /\ KeepsParents(t1.rows, t2.rows)
        /\ Orphans(t2.rows) = Orphans(t1.rows)
        /\ roots => Misrooted(t2.rows) = {}
        /\ ~roots => t2.rows = t1.rows
        /\ t1.affected \subseteq t2.affected
        /\ \A i \in DOMAIN t1.rows : t2.rows[i].root # t1.rows[i].root =>
              {i, t2.rows[i].root} \subseteq t2.affected
    BY <1>3, <1>6, RootsEffect
  <1>8. /\ t.rows = t2.rows /\ Tables(t2.rows, t.ops) /\ DOMAIN t.ops = DOMAIN ops
        /\ OpsLinkable(t2.rows, t.ops) = {}
        /\ t2.affected \subseteq t.affected
        /\ \A p \in DOMAIN ops :
              /\ ops[p].child # None => t.ops[p].child = ops[p].child
              /\ t.ops[p].child # ops[p].child => ops[p].session \in t.affected
    <2>1. OpsDone(t2, t)
      BY <1>4, <1>7, OpsEffect
    <2> QED BY <1>7, <2>1 DEF OpsDone
  <1>9. DOMAIN t1.rows = DOMAIN rows /\ KeepsStash(rows, t.rows)
    BY <1>6, <1>7, <1>8 DEF KeepsStash
  <1>10. \A i \in DOMAIN rows : t.rows[i].parent = t1.rows[i].parent
    BY <1>7, <1>8, <1>9 DEF KeepsParents
  <1>11. \A i \in DOMAIN rows :
            /\ rows[i].parent # None => t.rows[i].parent = rows[i].parent
            /\ t.rows[i].parent # rows[i].parent => {i, t.rows[i].parent} \subseteq t.affected
            /\ t.rows[i].root # rows[i].root => {i, t.rows[i].root} \subseteq t.affected
    BY <1>6, <1>7, <1>8, <1>9, <1>10
  <1>12. PassEffect(rows, ops, s, roots, t)
    BY <1>6, <1>7, <1>8, <1>9, <1>11, Zenon DEF PassEffect
  <1> QED BY <1>2, <1>5, <1>12

-----------------------------------------------------------------------------
(* A committed batch.                                                       *)

\* Rows only grow: a resolved parent stays, the timestamp never goes back.
Grows(r, r2) ==
    \A i \in DOMAIN r : /\ i \in DOMAIN r2 /\ r[i].ts <= r2[i].ts
                        /\ r[i].parent # None => r2[i].parent = r[i].parent

LEMMA PutRow ==
    ASSUME NEW r, NEW o, Tables(r, o), NEW x \in Ids, NEW row, IsRow(row), row.ts \in Nat,
           x \in DOMAIN r => /\ r[x].ts <= row.ts
                             /\ r[x].parent # None => row.parent = r[x].parent
    PROVE  Tables(Put(r, x, row), o) /\ Grows(r, Put(r, x, row))
  <1> DEFINE r2 == Put(r, x, row)
  <1>1. /\ DOMAIN r2 = DOMAIN r \cup {x} /\ r2 = [i \in DOMAIN r \cup {x} |-> r2[i]]
        /\ \A i \in DOMAIN r \cup {x} : r2[i] = IF i = x THEN row ELSE r[i]
    BY DEF Put
  <1> HIDE DEF r2
  <1>2. IsFiniteSet(DOMAIN r2)
    BY <1>1, FS_AddElement DEF Tables
  <1>3. \A i \in DOMAIN r2 : IsRow(r2[i]) /\ r2[i].ts \in Nat
    <2>1. \A i \in DOMAIN r : IsRow(r[i]) /\ r[i].ts \in Nat
      BY DEF Tables
    <2> QED BY <1>1, <2>1
  <1>4. Tables(r2, o)
    <2>1. DOMAIN r2 \subseteq Ids
      BY <1>1 DEF Tables
    <2>2. r2 = [i \in DOMAIN r2 |-> r2[i]]
      BY <1>1
    <2> QED BY <1>2, <1>3, <2>1, <2>2, Zenon DEF Tables
  <1>5. Grows(r, r2)
    <2> SUFFICES ASSUME NEW i \in DOMAIN r
                 PROVE  /\ i \in DOMAIN r2 /\ r[i].ts <= r2[i].ts
                        /\ r[i].parent # None => r2[i].parent = r[i].parent
      BY DEF Grows
    <2>1. r[i].ts \in Nat
      BY DEF Tables
    <2> QED BY <1>1, <2>1
  <1> QED BY <1>4, <1>5 DEF r2

LEMMA SessionCommit ==
    ASSUME NEW r, NEW o, Tables(r, o), NEW e \in Feed
    PROVE  Tables(ApplySession(r, e), o) /\ Grows(r, ApplySession(r, e))
  <1>1. e.id \in Ids /\ e.ts \in Nat
    BY FeedAssumption
  <1>2. PICK new : new = NewSession(r, e)
    OBVIOUS
  <1>3. IsRow(new) /\ new.ts = e.ts
    BY <1>2 DEF IsRow, NewSession
  <1>4. CASE e.id \notin DOMAIN r
    <2>1. ApplySession(r, e) = Put(r, e.id, new)
      BY <1>2, <1>4 DEF ApplySession
    <2> QED BY <1>1, <1>3, <1>4, <2>1, PutRow
  <1>5. CASE e.id \in DOMAIN r
    <2>1. PICK old : old = r[e.id]
      OBVIOUS
    <2>2. PICK row : row = MergeSession(e, old, new)
      OBVIOUS
    <2>3. ApplySession(r, e) = Put(r, e.id, row)
      BY <1>2, <1>5, <2>1, <2>2, Zenon DEF ApplySession
    <2>4. IsRow(row) /\ row.ts = Max({old.ts, new.ts})
      BY <2>2 DEF IsRow, MergeSession
    <2>5. old.parent # None => row.parent = old.parent
      <3>1. row.parent = IF Contradicts(e, old, "toParent") \/ old.parent # None
                         THEN old.parent ELSE new.parent
        BY <2>2 DEF MergeSession
      <3> QED BY <3>1
    <2>6. old.ts \in Nat
      BY <1>5, <2>1 DEF Tables
    <2>7. row.ts \in Nat /\ old.ts <= row.ts
      BY <1>1, <1>3, <2>4, <2>6, MaxOfTwo
    <2> QED BY <1>1, <2>1, <2>3, <2>4, <2>5, <2>7, PutRow
  <1> QED BY <1>4, <1>5

LEMMA OpRowCommit ==
    ASSUME NEW r, NEW o, Tables(r, o), NEW e \in Feed
    PROVE  Tables(RowsAfterOp(r, e), o) /\ Grows(r, RowsAfterOp(r, e))
  <1>1. e.id \in Ids /\ e.ts \in Nat
    BY FeedAssumption
  <1>2. CASE e.id \notin DOMAIN r
    <2>1. PICK row : row = Stub(e.id, e.ts)
      OBVIOUS
    <2>2. RowsAfterOp(r, e) = Put(r, e.id, row)
      BY <1>2, <2>1 DEF RowsAfterOp
    <2>3. IsRow(row) /\ row.ts = e.ts
      BY <2>1 DEF IsRow, Stub
    <2> QED BY <1>1, <1>2, <2>2, <2>3, PutRow
  <1>3. CASE e.id \in DOMAIN r
    <2>1. PICK old : old = r[e.id]
      OBVIOUS
    <2>2. PICK ts : ts = Max({old.ts, e.ts})
      OBVIOUS
    <2>3. PICK row : row = [old EXCEPT !.ts = ts]
      OBVIOUS
    <2>4. RowsAfterOp(r, e) = Put(r, e.id, row)
      BY <1>3, <2>1, <2>2, <2>3, Zenon DEF RowsAfterOp
    <2>5. IsRow(old) /\ old.ts \in Nat
      BY <1>3, <2>1 DEF Tables
    <2>6. IsRow(row) /\ row.ts = ts /\ row.parent = old.parent
      BY <2>3, <2>5 DEF IsRow
    <2>7. ts \in Nat /\ old.ts <= ts
      BY <1>1, <2>2, <2>5, MaxOfTwo
    <2> QED BY <1>1, <2>1, <2>4, <2>6, <2>7, PutRow
  <1> QED BY <1>2, <1>3

KeepsChildren(o, o2) ==
    \A p \in DOMAIN o : p \in DOMAIN o2 /\ (o[p].child # None => o2[p].child = o[p].child)

LEMMA OpCommit ==
    ASSUME NEW r, NEW o, Tables(r, o), NEW e
    PROVE  Tables(r, Put(o, e.op, OpAfter(r, o, e))) /\ KeepsChildren(o, Put(o, e.op, OpAfter(r, o, e)))
  <1>1. PICK row : row = OpAfter(r, o, e)
    OBVIOUS
  <1>2. PICK x : x = e.op
    OBVIOUS
  <1>3. IsOp(row)
    BY <1>1 DEF IsOp, OpAfter
  <1>4. x \in DOMAIN o /\ o[x].child # None => row.child = o[x].child
    BY <1>1, <1>2 DEF OpAfter
  <1> DEFINE o2 == Put(o, x, row)
  <1>5. /\ DOMAIN o2 = DOMAIN o \cup {x} /\ o2 = [p \in DOMAIN o2 |-> o2[p]]
        /\ \A p \in DOMAIN o2 : o2[p] = IF p = x THEN row ELSE o[p]
    BY DEF Put
  <1> HIDE DEF o2
  <1>6. \A p \in DOMAIN o2 : IsOp(o2[p])
    BY <1>3, <1>5 DEF Tables
  <1>7. Tables(r, o2)
    BY <1>5, <1>6, Zenon DEF Tables
  <1>8. KeepsChildren(o, o2)
    BY <1>4, <1>5 DEF KeepsChildren
  <1> QED BY <1>1, <1>2, <1>7, <1>8 DEF o2

LEMMA CommitEffect ==
    ASSUME Tables(rows, ops), NEW e \in Feed, Commit(e)
    PROVE  Tables(rows', ops') /\ Grows(rows, rows') /\ KeepsChildren(ops, ops')
  <1>1. CASE e.kind = "session"
    <2>1. rows' = ApplySession(rows, e) /\ ops' = ops
      BY <1>1 DEF Commit
    <2>2. KeepsChildren(ops, ops)
      BY DEF KeepsChildren
    <2> QED BY <2>1, <2>2, SessionCommit
  <1>2. CASE e.kind # "session"
    <2>1. rows' = RowsAfterOp(rows, e) /\ ops' = Put(ops, e.op, OpAfter(rows', ops, e))
      BY <1>2 DEF Commit
    <2>2. Tables(rows', ops) /\ Grows(rows, rows')
      BY <2>1, OpRowCommit
    <2> QED BY <2>1, <2>2, OpCommit
  <1> QED BY <1>1, <1>2

-----------------------------------------------------------------------------
(* The inductive invariant.                                                 *)

\* What is due, in terms of the tables alone.
LEMMA DueIs ==
    /\ OpsDue = OpsLinkable(rows, ops) /\ OpsDue' = OpsLinkable(rows', ops')
    /\ ParentsDue = Orphans(rows) /\ ParentsDue' = Orphans(rows')
  <1>1. OpsDue = OpsLinkable(rows, ops)
    BY DEF OpsDue, OpsLinkable, ChildHits, ToolHits
  <1>2. OpsDue' = OpsLinkable(rows', ops')
    BY DEF OpsDue, OpsLinkable, ChildHits, ToolHits
  <1> QED BY <1>1, <1>2 DEF ParentsDue

LEMMA SameData ==
    ASSUME rows' = rows, ops' = ops
    PROVE  /\ Tables(rows, ops) => Tables(rows', ops')
           /\ OpsDue' = OpsDue /\ ParentsDue' = ParentsDue
           /\ Misrooted(rows') = Misrooted(rows) /\ Watermark(rows') = Watermark(rows)
  BY DueIs

\* Steps that touch neither the tables nor the ghosts of the gaps.
LEMMA BumpKeeps ==
    ASSUME IInv, BumpIngestionGen PROVE IInv'
  <1>1. rows' = rows /\ ops' = ops
    BY DEF BumpIngestionGen, data
  <1>2. /\ Tables(rows', ops') /\ OpsDue' = OpsDue /\ ParentsDue' = ParentsDue
        /\ Misrooted(rows') = Misrooted(rows) /\ Watermark(rows') = Watermark(rows)
    BY <1>1, SameData DEF IInv
  <1>3. /\ gen' = gen + 1 /\ unbumped' = unbumped - 1 /\ unbumped > 0
        /\ life \in {"up", "stopping"} /\ life' = life /\ pass' = pass
        /\ seenGen' = seenGen /\ seenSession' = seenSession /\ rootsGen' = rootsGen
        /\ late' = late /\ rootsLost' = rootsLost
    BY DEF BumpIngestionGen, gates, ghosts
  <1>4. GateTypes' /\ MarksBehind'
    BY <1>2, <1>3 DEF IInv, GateTypes, MarksBehind
  <1>5. GenerationMark' /\ RootMark'
    BY <1>2, <1>3 DEF IInv, GenerationMark, RootMark, GateTypes, MarksBehind
  <1>6. SessionMark'
    BY <1>2, <1>3 DEF IInv, SessionMark
  <1>7. SkipJustified'
    BY <1>2, <1>3 DEF IInv, SkipJustified, GateTypes, MarksBehind
  <1>8. StopSettled'
    BY <1>2, <1>3 DEF StopSettled, CleanStopLinked
  <1> QED BY <1>2, <1>4, <1>5, <1>6, <1>7, <1>8 DEF IInv

LEMMA GatesKeep ==
    ASSUME IInv, UNCHANGED <<data, gates, gen, unbumped, pass, ghosts>>,
           life' = life \/ life' \in {"stopping", "failed"} \/ (life' = "final" /\ unbumped = 0)
    PROVE  IInv'
  <1>1. rows' = rows /\ ops' = ops
    BY DEF data
  <1>2. /\ Tables(rows', ops') /\ OpsDue' = OpsDue /\ ParentsDue' = ParentsDue
        /\ Misrooted(rows') = Misrooted(rows) /\ Watermark(rows') = Watermark(rows)
    BY <1>1, SameData DEF IInv
  <1>3. /\ gen' = gen /\ unbumped' = unbumped /\ pass' = pass
        /\ seenGen' = seenGen /\ seenSession' = seenSession /\ rootsGen' = rootsGen
        /\ late' = late /\ rootsLost' = rootsLost
    BY DEF gates, ghosts
  <1>4. GateTypes' /\ MarksBehind'
    BY <1>2, <1>3 DEF IInv, GateTypes, MarksBehind
  <1>5. GenerationMark' /\ RootMark'
    BY <1>2, <1>3 DEF IInv, GenerationMark, RootMark
  <1>6. SessionMark'
    BY <1>2, <1>3 DEF IInv, SessionMark
  <1>7. SkipJustified'
    BY <1>2, <1>3 DEF IInv, SkipJustified
  <1>8. StopSettled'
    BY <1>2, <1>3 DEF IInv, StopSettled, CleanStopLinked
  <1> QED BY <1>2, <1>4, <1>5, <1>6, <1>7, <1>8 DEF IInv

LEMMA TickKeeps ==
    ASSUME IInv, Tick PROVE IInv'
  <1>1. rows' = rows /\ ops' = ops
    BY DEF Tick, data
  <1>2. /\ Tables(rows', ops') /\ OpsDue' = OpsDue /\ ParentsDue' = ParentsDue
        /\ Misrooted(rows') = Misrooted(rows) /\ Watermark(rows') = Watermark(rows)
    BY <1>1, SameData DEF IInv
  <1>3. /\ gen' = gen /\ unbumped' = unbumped /\ life' = life
        /\ pass' = [at |-> "probe", gen |-> gen, wm |-> -1, sessions |-> FALSE]
        /\ seenGen' = seenGen /\ seenSession' = seenSession /\ rootsGen' = rootsGen
        /\ late' = late /\ rootsLost' = rootsLost
    BY DEF Tick, NoPass, gates, ghosts
  <1>4. GateTypes'
    BY <1>3 DEF IInv, GateTypes, IsPass
  <1>5. MarksBehind'
    <2>1. Watermark(rows) \in Nat
      BY WatermarkIsMax DEF IInv
    <2> QED BY <1>2, <1>3, <2>1 DEF IInv, GateTypes, MarksBehind
  <1>6. GenerationMark' /\ RootMark'
    BY <1>2, <1>3 DEF IInv, GenerationMark, RootMark
  <1>7. SessionMark'
    BY <1>2, <1>3 DEF IInv, SessionMark
  <1>8. SkipJustified'
    BY <1>3 DEF SkipJustified
  <1>9. StopSettled'
    BY <1>2, <1>3 DEF IInv, StopSettled, CleanStopLinked
  <1> QED BY <1>2, <1>4, <1>5, <1>6, <1>7, <1>8, <1>9 DEF IInv

LEMMA ProbeKeeps ==
    ASSUME IInv, NEW ok \in BOOLEAN, Probe(ok) PROVE IInv'
  <1>1. rows' = rows /\ ops' = ops
    BY DEF Probe, data
  <1>2. /\ Tables(rows', ops') /\ OpsDue' = OpsDue /\ ParentsDue' = ParentsDue
        /\ Misrooted(rows') = Misrooted(rows) /\ Watermark(rows') = Watermark(rows)
    BY <1>1, SameData DEF IInv
  <1> DEFINE wm == Watermark(rows)
             skip == ok /\ wm = seenSession
  <1>3. PICK w : w = IF ok /\ wm # seenSession THEN wm ELSE -1
    OBVIOUS
  <1>4. PICK s \in BOOLEAN : s <=> ~skip
    OBVIOUS
  <1>5. /\ gen' = gen /\ unbumped' = unbumped /\ life' = life
        /\ seenGen' = seenGen /\ seenSession' = seenSession /\ rootsGen' = rootsGen
        /\ late' = late /\ rootsLost' = rootsLost
    BY DEF Probe, gates, ghosts
  <1>6. pass' = [at |-> "run", gen |-> pass.gen, wm |-> w, sessions |-> s]
    <2>1. pass' = [pass EXCEPT !.at = "run", !.sessions = (~ok \/ wm # seenSession), !.wm = w]
      BY <1>3, Zenon DEF Probe
    <2>2. (~ok \/ wm # seenSession) = s
      BY <1>4
    <2>3. pass' = [pass EXCEPT !.at = "run", !.sessions = s, !.wm = w]
      BY <2>1, <2>2, Zenon
    <2>4. IsPass(pass)
      BY DEF IInv, GateTypes
    <2> QED BY <2>3, <2>4 DEF IsPass
  <1>7. wm \in Nat
    BY WatermarkIsMax DEF IInv
  <1>8. w \in Int /\ w <= wm
    BY <1>3, <1>7
  <1> HIDE DEF wm
  <1>9. GateTypes'
    BY <1>4, <1>5, <1>6, <1>8 DEF IInv, GateTypes, IsPass
  <1>10. MarksBehind'
    BY <1>2, <1>5, <1>6, <1>8 DEF IInv, MarksBehind, wm
  <1>11. GenerationMark' /\ RootMark'
    BY <1>2, <1>5 DEF IInv, GenerationMark, RootMark
  <1>12. SessionMark'
    BY <1>2, <1>5 DEF IInv, SessionMark
  <1>13. SkipJustified'
    <2>1. ~s => w = -1 /\ Watermark(rows') = seenSession'
      BY <1>2, <1>3, <1>4, <1>5 DEF wm
    <2> QED BY <1>6, <2>1 DEF SkipJustified
  <1>14. StopSettled'
    BY <1>2, <1>5 DEF IInv, StopSettled, CleanStopLinked
  <1> QED BY <1>2, <1>9, <1>10, <1>11, <1>12, <1>13, <1>14 DEF IInv

\* A committed batch is owed to the counter, so only the watermark is at stake.
LEMMA CommitKeeps ==
    ASSUME IInv, NEW e \in Feed, Commit(e) PROVE IInv'
  <1>1. Tables(rows', ops') /\ Grows(rows, rows')
    BY CommitEffect DEF IInv
  <1>2. /\ gen' = gen /\ unbumped' = unbumped + 1 /\ life' = life /\ pass' = pass
        /\ life \in {"up", "stopping"}
        /\ seenGen' = seenGen /\ seenSession' = seenSession /\ rootsGen' = rootsGen
        /\ rootsLost' = rootsLost
        /\ late' = (late \/ (rows' # rows /\ Watermark(rows') = Watermark(rows)))
    BY DEF Commit, gates
  <1>3. Watermark(rows) <= Watermark(rows') /\ Watermark(rows) \in Nat /\ Watermark(rows') \in Nat
    <2>1. \A i \in DOMAIN rows : i \in DOMAIN rows' /\ rows[i].ts <= rows'[i].ts
      BY <1>1 DEF Grows
    <2> QED BY <1>1, <2>1, WatermarkGrows, WatermarkIsMax DEF IInv
  <1>4. GateTypes'
    <2>1. late' \in BOOLEAN
      BY <1>2
    <2> QED BY <1>2, <2>1 DEF IInv, GateTypes
  <1>5. MarksBehind'
    BY <1>2, <1>3 DEF IInv, GateTypes, MarksBehind
  <1>6. unbumped' # 0
    BY <1>2 DEF IInv, GateTypes
  <1>7. GenerationMark' /\ RootMark' /\ StopSettled'
    BY <1>2, <1>6 DEF GenerationMark, RootMark, StopSettled, CleanStopLinked
  <1>8. SkipJustified'
    BY <1>2, <1>6 DEF IInv, SkipJustified
  <1>9. SessionMark'
    <2> SUFFICES ASSUME ~late', Watermark(rows') = seenSession'
                 PROVE  ParentsDue' = {} /\ (~rootsLost' => Misrooted(rows') = {})
      BY DEF SessionMark
    <2>1. Watermark(rows') = Watermark(rows)
      BY <1>2, <1>3 DEF IInv, GateTypes, MarksBehind
    <2>2. rows' = rows /\ ~late
      BY <1>2, <2>1
    <2>3. ParentsDue' = ParentsDue
      BY <2>2, DueIs
    <2> QED BY <1>2, <2>1, <2>2, <2>3 DEF IInv, SessionMark
  <1> QED BY <1>1, <1>4, <1>5, <1>7, <1>8, <1>9 DEF IInv

\* A transaction that rolls back.
LEMMA RollbackKeeps ==
    ASSUME IInv, NEW s, LinkOrphansRollback(s), pass' = NoPass,
           gen' = gen, unbumped' = unbumped, seenGen' = seenGen, seenSession' = seenSession,
           life' = life \/ life' = "failed", life # "stopped"
    PROVE  IInv'
  <1>1. rows' = rows /\ ops' = ops /\ late' = late
    BY DEF LinkOrphansRollback, data
  <1>2. /\ Tables(rows', ops') /\ OpsDue' = OpsDue /\ ParentsDue' = ParentsDue
        /\ Misrooted(rows') = Misrooted(rows) /\ Watermark(rows') = Watermark(rows)
    BY <1>1, SameData DEF IInv
  <1>3. \/ rootsGen' = rootsGen /\ rootsLost' = rootsLost
        \/ rootsGen' = gen /\ rootsLost' = TRUE
    BY DEF LinkOrphansRollback
  <1>4. Watermark(rows) \in Nat
    BY WatermarkIsMax DEF IInv
  <1>5. IsPass(NoPass) /\ pass'.gen = -1 /\ pass'.wm = -1 /\ pass'.sessions = FALSE /\ pass'.at = "idle"
    BY DEF IsPass, NoPass
  <1>6. GateTypes'
    <2>1. rootsGen' \in Int
      BY <1>3 DEF IInv, GateTypes
    <2>2. rootsLost \in BOOLEAN /\ late \in BOOLEAN
      BY DEF IInv, GateTypes
    <2>3. rootsLost' \in BOOLEAN
      BY <1>3, <2>2, Zenon
    <2>4. late' \in BOOLEAN
      BY <1>1, <2>2, Zenon
    <2>5. pass'.gen \in Int /\ pass'.wm \in Int
      BY <1>5
    <2>6. pass'.sessions \in BOOLEAN
      BY <1>5, Zenon
    <2>7. IsPass(pass')
      BY <1>5, Zenon
    <2>8. gen' \in Nat /\ unbumped' \in Nat /\ seenGen' \in Int /\ seenSession' \in Int
      BY DEF IInv, GateTypes
    <2> QED BY <2>1, <2>3, <2>4, <2>5, <2>6, <2>7, <2>8, Zenon DEF GateTypes
  <1>7. MarksBehind'
    BY <1>2, <1>3, <1>4, <1>5 DEF IInv, GateTypes, MarksBehind
  <1>8. GenerationMark' /\ SessionMark'
    BY <1>1, <1>2, <1>3 DEF IInv, GenerationMark, SessionMark
  <1>9. RootMark'
    BY <1>2, <1>3 DEF IInv, RootMark
  <1>10. SkipJustified' /\ StopSettled'
    BY <1>5 DEF IInv, SkipJustified, StopSettled, CleanStopLinked
  <1> QED BY <1>2, <1>6, <1>7, <1>8, <1>9, <1>10 DEF IInv

LEMMA PassFailsKeeps ==
    ASSUME IInv, PassFails PROVE IInv'
  <1>1. PICK s : s = (pass.at = "run" /\ pass.sessions)
    OBVIOUS
  <1>2. LinkOrphansRollback(s)
    BY <1>1, Zenon DEF PassFails
  <1> QED BY <1>2, RollbackKeeps DEF PassFails

\* A transaction that commits: with the sessions unless the watermark, seen
\* before the tables last changed, was the one already seen.
LEMMA PassKeepsTables ==
    ASSUME IInv, NEW s \in BOOLEAN, LinkOrphansCommit(s), gen' = gen
    PROVE  /\ Tables(rows', ops') /\ OpsDue' = {} /\ Watermark(rows') = Watermark(rows)
           /\ s => ParentsDue' = {} /\ (~rootsLost' => Misrooted(rows') = {})
           /\ ~s => rows' = rows /\ rootsGen' = rootsGen /\ rootsLost' = rootsLost /\ late' = late
           /\ rootsGen' \in {gen, rootsGen} /\ rootsLost' \in BOOLEAN /\ late' \in BOOLEAN
           /\ rootsGen' = gen /\ unbumped = 0 /\ ~rootsLost' =>
                 ParentsDue' = {} /\ Misrooted(rows') = {}
  <1>1. PICK t : t = Linked(s)
    OBVIOUS
  <1>2. PICK roots \in BOOLEAN : roots = RootsDue(s)
    BY DEF RootsDue
  <1>3. PassEffect(rows, ops, s, roots, t)
    BY <1>1, <1>2, LinkedEffect DEF IInv
  <1>4. /\ rows' = t.rows /\ ops' = t.ops
        /\ rootsGen' = IF roots THEN gen ELSE rootsGen
    BY <1>1, <1>2, Zenon DEF LinkOrphansCommit
  <1>5. late' = (late /\ ~s)
    BY Zenon DEF LinkOrphansCommit
  <1>6. rootsLost' = (~roots /\ (rootsLost \/ (s /\ unbumped > 0)))
    BY <1>2, Zenon DEF LinkOrphansCommit
  <1>7. Tables(rows', ops') /\ OpsDue' = {} /\ KeepsStash(rows, rows')
    BY <1>3, <1>4, DueIs DEF PassEffect
  <1>8. Watermark(rows') = Watermark(rows)
    BY <1>7, WatermarkSame DEF KeepsStash
  <1>9. /\ s => ParentsDue' = {}
        /\ roots => Misrooted(rows') = {}
        /\ ~roots /\ (~s \/ Orphans(rows) = {}) => rows' = rows
    BY <1>3, <1>4, DueIs DEF PassEffect
  <1>10. roots <=> s /\ gen # rootsGen
    BY <1>2 DEF RootsDue
  <1>12. rootsLost' \in BOOLEAN /\ late' \in BOOLEAN /\ rootsGen' \in {gen, rootsGen}
    BY <1>4, <1>5, <1>6
  <1>11. ~s => rows' = rows /\ rootsGen' = rootsGen /\ rootsLost' = rootsLost /\ late' = late
    <2>1. rootsLost \in BOOLEAN /\ late \in BOOLEAN
      BY DEF IInv, GateTypes
    <2> SUFFICES ASSUME ~s
                 PROVE  rows' = rows /\ rootsGen' = rootsGen /\ rootsLost' = rootsLost /\ late' = late
      OBVIOUS
    <2>2. ~roots
      BY <1>10
    <2>3. rows' = rows /\ rootsGen' = rootsGen
      BY <1>4, <1>9, <2>2
    <2>4. rootsLost' = rootsLost
      BY <1>6, <2>1, <2>2, Zenon
    <2>5. late' = late
      <3>1. CASE late
        <4>1. late' /\ late = TRUE
          BY <1>5, <2>1, <3>1
        <4> QED BY <1>12, <4>1
      <3>2. CASE ~late
        <4>1. ~late' /\ late = FALSE
          BY <1>5, <2>1, <3>2
        <4> QED BY <1>12, <4>1
      <3> QED BY <3>1, <3>2
    <2> QED BY <2>3, <2>4, <2>5
  <1>13. ASSUME ~rootsLost', ~roots, s
         PROVE  ~(unbumped > 0) /\ ~rootsLost /\ gen = rootsGen
    BY <1>6, <1>10, <1>13
  <1>14. ASSUME s, ~rootsLost' PROVE Misrooted(rows') = {}
    <2>1. CASE roots
      BY <1>9, <2>1
    <2>2. CASE ~roots
      <3>1. unbumped = 0 /\ ~rootsLost /\ gen = rootsGen
        BY <1>13, <1>14, <2>2 DEF IInv, GateTypes
      <3>2. Orphans(rows) = {} /\ Misrooted(rows) = {}
        BY <3>1, DueIs DEF IInv, RootMark
      <3> QED BY <1>9, <2>2, <3>2
    <2> QED BY <2>1, <2>2
  <1>15. ASSUME rootsGen' = gen, unbumped = 0, ~rootsLost'
         PROVE  ParentsDue' = {} /\ Misrooted(rows') = {}
    <2>1. CASE s
      BY <1>9, <1>14, <1>15, <2>1
    <2>2. CASE ~s
      <3>1. rows' = rows /\ rootsGen = gen /\ ~rootsLost
        BY <1>11, <1>15, <2>2
      <3>2. ParentsDue' = ParentsDue
        BY <3>1, DueIs
      <3> QED BY <1>15, <3>1, <3>2 DEF IInv, RootMark
    <2> QED BY <2>1, <2>2
  <1> QED BY <1>7, <1>8, <1>9, <1>11, <1>12, <1>14, <1>15

LEMMA PassCommitsKeeps ==
    ASSUME IInv, PassCommits PROVE IInv'
  <1>1. PICK s \in BOOLEAN : s = pass.sessions
    BY DEF IInv, GateTypes
  <1>2. /\ LinkOrphansCommit(s) /\ pass.at = "run" /\ life \in {"up", "stopping"}
        /\ seenGen' = pass.gen /\ pass' = NoPass
        /\ seenSession' = IF pass.wm # -1 THEN pass.wm ELSE seenSession
        /\ gen' = gen /\ unbumped' = unbumped /\ life' = life
    BY <1>1, Zenon DEF PassCommits
  <1>3. /\ Tables(rows', ops') /\ OpsDue' = {} /\ Watermark(rows') = Watermark(rows)
        /\ s => ParentsDue' = {} /\ (~rootsLost' => Misrooted(rows') = {})
        /\ ~s => rows' = rows /\ rootsGen' = rootsGen /\ rootsLost' = rootsLost /\ late' = late
        /\ rootsGen' \in {gen, rootsGen} /\ rootsLost' \in BOOLEAN /\ late' \in BOOLEAN
        /\ rootsGen' = gen /\ unbumped = 0 /\ ~rootsLost' =>
              ParentsDue' = {} /\ Misrooted(rows') = {}
    BY <1>2, PassKeepsTables
  <1>4. Watermark(rows) \in Nat
    BY WatermarkIsMax DEF IInv
  <1>5. IsPass(pass') /\ pass'.gen = -1 /\ pass'.wm = -1 /\ pass'.sessions = FALSE /\ pass'.at = "idle"
    BY <1>2 DEF IsPass, NoPass
  <1>6. GateTypes'
    <2>1. seenGen' \in Int /\ seenSession' \in Int /\ rootsGen' \in Int
          /\ gen' \in Nat /\ unbumped' \in Nat
      BY <1>2, <1>3 DEF IInv, GateTypes
    <2>2. pass'.gen \in Int /\ pass'.wm \in Int
      BY <1>5
    <2>3. pass'.sessions \in BOOLEAN
      BY <1>5, Zenon
    <2> QED BY <1>3, <1>5, <2>1, <2>2, <2>3, Zenon DEF GateTypes
  <1>7. MarksBehind'
    BY <1>2, <1>3, <1>4, <1>5 DEF IInv, GateTypes, MarksBehind
  <1>8. SessionMark'
    <2>1. CASE s
      BY <1>3, <2>1 DEF SessionMark
    <2>2. CASE ~s
      <3>1. rows' = rows /\ rootsLost' = rootsLost /\ late' = late /\ seenSession' = seenSession
        BY <1>1, <1>2, <1>3, <2>2 DEF IInv, SkipJustified
      <3>2. ParentsDue' = ParentsDue
        BY <3>1, DueIs
      <3> QED BY <3>1, <3>2 DEF IInv, SessionMark
    <2> QED BY <2>1, <2>2
  <1>9. RootMark'
    BY <1>2, <1>3 DEF RootMark
  <1>10. GenerationMark'
    <2> SUFFICES ASSUME seenGen' = gen', unbumped' = 0
                 PROVE  /\ OpsDue' = {}
                        /\ ~late' => ParentsDue' = {}
                        /\ ~late' /\ ~rootsLost' => Misrooted(rows') = {}
      BY DEF GenerationMark
    <2>1. CASE s
      BY <1>3, <2>1
    <2>2. CASE ~s
      <3>1. rows' = rows /\ rootsLost' = rootsLost /\ late' = late /\ pass.gen = gen /\ unbumped = 0
        BY <1>2, <1>3, <2>2
      <3>2. Watermark(rows) = seenSession
        BY <1>1, <1>2, <2>2, <3>1 DEF IInv, SkipJustified
      <3>3. ParentsDue' = ParentsDue
        BY <3>1, DueIs
      <3> QED BY <1>3, <3>1, <3>2, <3>3 DEF IInv, SessionMark
    <2> QED BY <2>1, <2>2
  <1>11. SkipJustified'
    BY <1>5 DEF SkipJustified
  <1>12. StopSettled'
    BY <1>2 DEF StopSettled, CleanStopLinked
  <1> QED BY <1>3, <1>6, <1>7, <1>8, <1>9, <1>10, <1>11, <1>12 DEF IInv

\* The final pass ignores the marks, and may leave roots to the recorded gap.
LEMMA FinalPassKeeps ==
    ASSUME IInv, FinalPass PROVE IInv'
  <1>1. /\ life = "final" /\ pass' = NoPass
        /\ gen' = gen /\ unbumped' = unbumped /\ seenGen' = seenGen /\ seenSession' = seenSession
        /\ unbumped = 0
    BY DEF FinalPass, IInv, StopSettled
  <1>2. CASE LinkOrphansRollback(TRUE) /\ life' = "failed"
    BY <1>1, <1>2, RollbackKeeps
  <1>3. CASE LinkOrphansCommit(TRUE) /\ life' = "stopped"
    <2>1. PICK s \in BOOLEAN : s = TRUE
      OBVIOUS
    <2>2. LinkOrphansCommit(s)
      BY <1>3, <2>1, Zenon
    <2>3. /\ Tables(rows', ops') /\ OpsDue' = {} /\ Watermark(rows') = Watermark(rows)
          /\ ParentsDue' = {} /\ (~rootsLost' => Misrooted(rows') = {})
          /\ rootsGen' \in {gen, rootsGen} /\ rootsLost' \in BOOLEAN /\ late' \in BOOLEAN
      BY <1>1, <2>1, <2>2, PassKeepsTables
    <2>4. Watermark(rows) \in Nat
      BY WatermarkIsMax DEF IInv
    <2>5. IsPass(pass') /\ pass'.gen = -1 /\ pass'.wm = -1 /\ pass'.sessions = FALSE /\ pass'.at = "idle"
      BY <1>1 DEF IsPass, NoPass
    <2>6. GateTypes'
      <3>1. seenGen' \in Int /\ seenSession' \in Int /\ rootsGen' \in Int
            /\ gen' \in Nat /\ unbumped' \in Nat
        BY <1>1, <2>3 DEF IInv, GateTypes
      <3>2. pass'.gen \in Int /\ pass'.wm \in Int
        BY <2>5
      <3>3. pass'.sessions \in BOOLEAN
        BY <2>5, Zenon
      <3> QED BY <2>3, <2>5, <3>1, <3>2, <3>3, Zenon DEF GateTypes
    <2>7. MarksBehind'
      BY <1>1, <2>3, <2>4, <2>5 DEF IInv, GateTypes, MarksBehind
    <2>8. GenerationMark' /\ SessionMark' /\ RootMark'
      BY <2>3 DEF GenerationMark, SessionMark, RootMark
    <2>9. SkipJustified'
      BY <2>5 DEF SkipJustified
    <2>10. StopSettled'
      BY <1>3, <2>3 DEF StopSettled, CleanStopLinked
    <2> QED BY <2>3, <2>6, <2>7, <2>8, <2>9, <2>10 DEF IInv
  <1> QED BY <1>2, <1>3 DEF FinalPass

\* A restart forgets the marks, so nothing is skipped on their account.
LEMMA FreshStart ==
    ASSUME Tables(rows, ops), gen = 0, unbumped = 0, seenGen = -1, seenSession = -1,
           rootsGen = -1, pass = NoPass, life = "up", late = FALSE, rootsLost = FALSE
    PROVE  IInv
  <1>1. Watermark(rows) \in Nat
    BY WatermarkIsMax
  <1>2. IsPass(pass) /\ pass.gen = -1 /\ pass.wm = -1 /\ pass.sessions = FALSE /\ pass.at = "idle"
    BY DEF IsPass, NoPass
  <1>3. GateTypes
    <2>1. pass.gen \in Int /\ pass.wm \in Int /\ gen \in Nat /\ unbumped \in Nat
          /\ seenGen \in Int /\ seenSession \in Int /\ rootsGen \in Int
      BY <1>2
    <2>2. pass.sessions \in BOOLEAN /\ late \in BOOLEAN /\ rootsLost \in BOOLEAN
      BY <1>2, Zenon
    <2> QED BY <1>2, <2>1, <2>2, Zenon DEF GateTypes
  <1>4. MarksBehind
    BY <1>1, <1>2 DEF MarksBehind
  <1>5. GenerationMark /\ SessionMark /\ RootMark
    BY <1>1 DEF GenerationMark, SessionMark, RootMark
  <1>6. SkipJustified /\ StopSettled
    BY <1>2 DEF SkipJustified, StopSettled, CleanStopLinked
  <1> QED BY <1>3, <1>4, <1>5, <1>6 DEF IInv

LEMMA RestartKeeps ==
    ASSUME IInv, Restart PROVE IInv'
  <1>1. Tables(rows', ops')
    BY DEF IInv, Restart, data
  <1>2. /\ gen' = 0 /\ unbumped' = 0 /\ seenGen' = -1 /\ seenSession' = -1
        /\ rootsGen' = -1 /\ pass' = NoPass /\ life' = "up" /\ late' = FALSE /\ rootsLost' = FALSE
    BY DEF Restart
  <1>3. \A r, o : Tables(r, o) => Watermark(r) \in Nat
    BY WatermarkIsMax
  <1>4. IsPass(pass') /\ pass'.gen = -1 /\ pass'.wm = -1 /\ pass'.sessions = FALSE /\ pass'.at = "idle"
    BY <1>2 DEF IsPass, NoPass
  <1>5. GateTypes'
    <2>1. pass'.gen \in Int /\ pass'.wm \in Int /\ gen' \in Nat /\ unbumped' \in Nat
          /\ seenGen' \in Int /\ seenSession' \in Int /\ rootsGen' \in Int
      BY <1>2, <1>4
    <2>2. pass'.sessions \in BOOLEAN /\ late' \in BOOLEAN /\ rootsLost' \in BOOLEAN
      BY <1>2, <1>4, Zenon
    <2> QED BY <1>4, <2>1, <2>2, Zenon DEF GateTypes
  <1>6. Watermark(rows') \in Nat
    BY <1>1, <1>3
  <1>7. MarksBehind'
    BY <1>2, <1>4, <1>6 DEF MarksBehind
  <1>8. GenerationMark' /\ SessionMark' /\ RootMark'
    BY <1>2, <1>6 DEF GenerationMark, SessionMark, RootMark
  <1>9. SkipJustified' /\ StopSettled'
    BY <1>2, <1>4 DEF SkipJustified, StopSettled, CleanStopLinked
  <1> QED BY <1>1, <1>5, <1>7, <1>8, <1>9 DEF IInv

LEMMA InitHolds ==
    ASSUME Init PROVE IInv
  <1>1. rows = <<>> /\ ops = <<>>
    BY DEF Init
  <1>2. DOMAIN <<>> = {} /\ <<>> = [i \in {} |-> <<>>[i]]
    OBVIOUS
  <1>3. Tables(rows, ops)
    <2>1. rows = [i \in DOMAIN rows |-> rows[i]] /\ DOMAIN rows = {}
      BY <1>1, <1>2
    <2>2. ops = [i \in DOMAIN ops |-> ops[i]] /\ DOMAIN ops = {}
      BY <1>1, <1>2
    <2> QED BY <2>1, <2>2, FS_EmptySet DEF Tables
  <1> QED BY <1>3, FreshStart DEF Init

LEMMA IInvIsInductive ==
    IInv /\ [Next]_vars => IInv'
  <1> SUFFICES ASSUME IInv, [Next]_vars PROVE IInv'
    OBVIOUS
  <1>1. ASSUME NEW e \in Feed, Commit(e) PROVE IInv'
    BY <1>1, CommitKeeps
  <1>2. CASE BumpIngestionGen
    BY <1>2, BumpKeeps
  <1>3. CASE DeferralEnds
    BY <1>3, GatesKeep DEF DeferralEnds
  <1>4. CASE Tick
    BY <1>4, TickKeeps
  <1>5. ASSUME NEW ok \in BOOLEAN, Probe(ok) PROVE IInv'
    BY <1>5, ProbeKeeps
  <1>6. CASE PassCommits
    BY <1>6, PassCommitsKeeps
  <1>7. CASE PassFails
    BY <1>7, PassFailsKeeps
  <1>8. CASE StopContext
    BY <1>8, GatesKeep DEF StopContext
  <1>9. CASE Drain
    BY <1>9, GatesKeep DEF Drain
  <1>10. CASE FinalPass
    BY <1>10, FinalPassKeeps
  <1>11. CASE Restart
    BY <1>11, RestartKeeps
  <1>12. CASE UNCHANGED vars
    BY <1>12, GatesKeep DEF vars, data, gates, ghosts
  <1> QED BY <1>1, <1>2, <1>3, <1>4, <1>5, <1>6, <1>7, <1>8, <1>9, <1>10, <1>11, <1>12
          DEF Next, LoopStep

LEMMA IInvAlways ==
    Spec => []IInv
  BY InitHolds, IInvIsInductive, PTL DEF Spec

-----------------------------------------------------------------------------
(* The theorems.                                                            *)

\* Whenever every committed batch has been counted and the loop's next tick
\* would do nothing, no parent, root or operation that could be linked is
\* unlinked, but for the two recorded gaps (resolver.go loop, linkOrphansGated).
THEOREM GatesNeverHideWork ==
    Spec => []GatesHideNothing
  <1>1. IInv => GatesHideNothing
    BY DEF IInv, GenerationMark, GatesHideNothing
  <1> QED BY <1>1, IInvAlways, PTL

\* After a clean stop nothing linkable is left, however late a session was
\* committed (ingester.go StopContext, the final pass).
THEOREM CleanStopsLeaveNothing ==
    Spec => []CleanStopLinked
  <1>1. IInv => CleanStopLinked
    BY DEF IInv, StopSettled
  <1> QED BY <1>1, IInvAlways, PTL

\* No step of the writer or of the resolver re-points or drops a resolved
\* parent or a resolved child (the conflict clauses of writer.go, the IS NULL
\* conditions of resolver.go).
THEOREM LinksNeverMove ==
    Spec => LinksAreStable
  <1> DEFINE Stable == /\ \A i \in DOMAIN rows : rows[i].parent # None => rows'[i].parent = rows[i].parent
                       /\ \A o \in DOMAIN ops : ops[o].child # None => ops'[o].child = ops[o].child
  <1>1. ASSUME IInv, [Next]_vars PROVE Stable
    <2>1. ASSUME NEW e \in Feed, Commit(e) PROVE Stable
      <3>1. Grows(rows, rows') /\ KeepsChildren(ops, ops')
        BY <1>1, <2>1, CommitEffect DEF IInv
      <3> QED BY <3>1 DEF Grows, KeepsChildren
    <2>2. ASSUME NEW s \in BOOLEAN, LinkOrphansCommit(s) PROVE Stable
      <3>1. PICK t : t = Linked(s)
        OBVIOUS
      <3>2. PassEffect(rows, ops, s, RootsDue(s), t)
        BY <1>1, <3>1, LinkedEffect DEF IInv
      <3>3. rows' = t.rows /\ ops' = t.ops
        BY <2>2, <3>1, Zenon DEF LinkOrphansCommit
      <3> QED BY <3>2, <3>3 DEF PassEffect
    <2>3. CASE rows' = rows /\ ops' = ops
      BY <2>3
    <2>4. CASE PassCommits
      BY <1>1, <2>2, <2>4 DEF PassCommits, IInv, GateTypes
    <2>5. CASE FinalPass
      <3>1. CASE LinkOrphansCommit(TRUE)
        BY <2>2, <3>1
      <3>2. CASE LinkOrphansRollback(TRUE)
        BY <2>3, <3>2 DEF LinkOrphansRollback, data
      <3> QED BY <2>5, <3>1, <3>2 DEF FinalPass
    <2>6. CASE PassFails
      BY <2>3, <2>6 DEF PassFails, LinkOrphansRollback, data
    <2> QED BY <1>1, <2>1, <2>3, <2>4, <2>5, <2>6
            DEF Next, LoopStep, BumpIngestionGen, DeferralEnds, Tick, Probe, StopContext, Drain,
                Restart, vars, data
  <1>2. IInv /\ [Next]_vars => [Stable]_vars
    BY <1>1
  <1> QED BY <1>2, IInvAlways, PTL DEF Spec, LinksAreStable

\* A resolver transaction that links a session or an operation names it, and
\* the session it is linked to, in the notify rows it commits (linkOrphans).
THEOREM LinksAreNeverSilent ==
    Spec => LinksAreAnnounced
  <1> DEFINE Announced ==
                /\ \A i \in DOMAIN rows :
                      /\ rows'[i].parent # rows[i].parent => {i, rows'[i].parent} \subseteq notified'
                      /\ rows'[i].root # rows[i].root => {i, rows'[i].root} \subseteq notified'
                /\ \A o \in DOMAIN ops :
                      ops'[o].child # ops[o].child => ops[o].session \in notified'
  <1>1. ASSUME IInv, [Next]_vars, UNCHANGED unbumped PROVE Announced
    <2>1. ASSUME NEW e \in Feed, Commit(e) PROVE FALSE
      BY <1>1, <2>1 DEF Commit, IInv, GateTypes
    <2>2. ASSUME NEW s \in BOOLEAN, LinkOrphansCommit(s) PROVE Announced
      <3>1. PICK t : t = Linked(s)
        OBVIOUS
      <3>2. PassEffect(rows, ops, s, RootsDue(s), t)
        BY <1>1, <3>1, LinkedEffect DEF IInv
      <3>3. rows' = t.rows /\ ops' = t.ops /\ notified' = t.affected
        BY <2>2, <3>1, Zenon DEF LinkOrphansCommit
      <3> QED BY <3>2, <3>3 DEF PassEffect
    <2>3. CASE rows' = rows /\ ops' = ops
      BY <2>3
    <2>4. CASE PassCommits
      BY <1>1, <2>2, <2>4 DEF PassCommits, IInv, GateTypes
    <2>5. CASE FinalPass
      <3>1. CASE LinkOrphansCommit(TRUE)
        BY <2>2, <3>1
      <3>2. CASE LinkOrphansRollback(TRUE)
        BY <2>3, <3>2 DEF LinkOrphansRollback, data
      <3> QED BY <2>5, <3>1, <3>2 DEF FinalPass
    <2>6. CASE PassFails
      BY <2>3, <2>6 DEF PassFails, LinkOrphansRollback, data
    <2> QED BY <1>1, <2>1, <2>3, <2>4, <2>5, <2>6
            DEF Next, LoopStep, BumpIngestionGen, DeferralEnds, Tick, Probe, StopContext, Drain,
                Restart, vars, data
  <1>2. IInv /\ [Next]_vars => [UNCHANGED unbumped => Announced]_vars
    BY <1>1
  <1> QED BY <1>2, IInvAlways, PTL DEF Spec, LinksAreAnnounced
==============================================================================
