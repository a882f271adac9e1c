--------------------------- MODULE CoalescerProofs ---------------------------
(***************************************************************************)
(* Proofs about Coalescer, for every value of its constants: no event is   *)
(* lost, repeated or reordered within its source on its way to the         *)
(* database, committed cursors cover only settled events, and the write    *)
(* path implements IngestLedger.                                           *)
(*                                                                         *)
(* Along the way: the positions of a source in a queue (PosIn), what a     *)
(* flush applies (Steps), what holds of its transaction after any number   *)
(* of steps (TransactionSound), concatenation (Cat) and consecutive        *)
(* positions (Run), the inductive invariant (IInv), its preservation by    *)
(* every action, and the refinement.                                       *)
(***************************************************************************)
EXTENDS Coalescer, CountingLemmas, SequenceTheorems

-----------------------------------------------------------------------------
\* An event in a queue: its source and its position.
Tag == Sources \X Nat
Queue == Seq(Tag)

\* Appending to the second part of a concatenation appends to the whole.
LEMMA ConcatAppend ==
    ASSUME NEW T, NEW p \in Seq(T), NEW q \in Seq(T), NEW e \in T
    PROVE  p \o Append(q, e) = Append(p \o q, e)
  <1>1. Append(q, e) = q \o <<e>> /\ Append(p \o q, e) = (p \o q) \o <<e>>
    BY AppendIsConcat, ConcatProperties
  <1>2. <<e>> \in Seq(T)
    OBVIOUS
  <1> QED BY <1>1, <1>2, ConcatAssociative

\* A prefix grows by one element.
LEMMA PrefixStep ==
    ASSUME NEW T, NEW q \in Seq(T), NEW k \in 1 .. Len(q)
    PROVE  /\ SubSeq(q, 1, k - 1) \in Seq(T) /\ q[k] \in T
           /\ SubSeq(q, 1, k) = Append(SubSeq(q, 1, k - 1), q[k])
  <1>1. SubSeq(q, 1, k - 1) \in Seq(T) /\ q[k] \in T /\ Len(q) \in Nat
    OBVIOUS
  <1>2. SubSeq(q, 1, k) = SubSeq(q, 1, k - 1) \o <<q[k]>>
    BY <1>1, SubSeqRecursiveSecond
  <1> QED BY <1>1, <1>2, AppendIsConcat

\* The recursive definition of PosUpTo has a solution, so PosUpTo obeys it.
LEMMA PosUpToDef ==
    ASSUME NEW q \in Queue, NEW s
    PROVE  /\ PosUpTo(q, s)[0] = <<>>
           /\ \A k \in 1 .. Len(q) :
                 PosUpTo(q, s)[k] = IF q[k][1] = s THEN Append(PosUpTo(q, s)[k - 1], q[k][2])
                                    ELSE PosUpTo(q, s)[k - 1]
  <1> DEFINE Val(f, k) == IF k = 0 THEN <<>>
                          ELSE IF q[k][1] = s THEN Append(f[k - 1], q[k][2]) ELSE f[k - 1]
             Is(f, n) == \A k \in 0 .. n : f[k] = Val(f, k)
             S == {n \in Nat : \E f : Is(f, n)}
  <1>1. 0 \in S
    <2>1. Is([k \in 0 .. 0 |-> <<>>], 0)
      OBVIOUS
    <2> QED BY <2>1
  <1>2. ASSUME NEW n \in Nat, n \in S PROVE n + 1 \in S
    <2>1. PICK f : Is(f, n)
      BY <1>2
    <2> DEFINE g == [k \in 0 .. n + 1 |-> IF k <= n THEN f[k] ELSE Val(f, k)]
    <2>2. \A k \in 0 .. n + 1 : Val(g, k) = Val(f, k)
      OBVIOUS
    <2>3. Is(g, n + 1)
      <3> HIDE DEF Val
      <3> QED BY <2>1, <2>2
    <2> HIDE DEF Is, g
    <2> QED BY <2>3
  <1>3. PICK f : Is(f, Len(q))
    <2> HIDE DEF Is
    <2>1. Nat \subseteq S
      <3> HIDE DEF S
      <3> QED BY <1>1, <1>2, SetInduction
    <2>2. Len(q) \in Nat
      BY DEF Queue
    <2> QED BY <2>1, <2>2
  <1> DEFINE h == [k \in 0 .. Len(q) |-> f[k]]
             Table(g) == g = [k \in 0 .. Len(q) |-> Val(g, k)]
  <1>4. Table(h)
    <2>1. \A k \in 0 .. Len(q) : Val(h, k) = Val(f, k)
      BY DEF Queue
    <2> HIDE DEF Val
    <2> QED BY <1>3, <2>1
  <1>5. PosUpTo(q, s) = CHOOSE g : Table(g)
    BY DEF PosUpTo
  <1>6. Table(PosUpTo(q, s))
    <2> HIDE DEF Table, h
    <2> QED BY <1>4, <1>5
  <1>7. \A k \in 0 .. Len(q) : PosUpTo(q, s)[k] = Val(PosUpTo(q, s), k)
    <2> HIDE DEF Val
    <2> QED BY <1>6, Zenon
  <1>8. 0 \in 0 .. Len(q) /\ \A k \in 1 .. Len(q) : k \in 0 .. Len(q) /\ k # 0
    BY DEF Queue
  <1> QED BY <1>7, <1>8, Zenon

\* Positions are naturals.
LEMMA PosTypes ==
    ASSUME NEW q \in Queue, NEW s
    PROVE  \A k \in 0 .. Len(q) : PosUpTo(q, s)[k] \in Seq(Nat)
  <1> DEFINE S == {k \in 0 .. Len(q) : PosUpTo(q, s)[k] \in Seq(Nat)}
  <1>0. Len(q) \in Nat /\ \A k \in 1 .. Len(q) : q[k][2] \in Nat
    BY DEF Queue, Tag
  <1>1. 0 \in S
    <2>1. <<>> \in Seq(Nat)
      OBVIOUS
    <2>2. PosUpTo(q, s)[0] \in Seq(Nat)
      BY <2>1, PosUpToDef, Zenon
    <2> QED BY <1>0, <2>2
  <1>2. ASSUME NEW k \in 1 .. Len(q), k - 1 \in S PROVE k \in S
    <2> DEFINE prev == PosUpTo(q, s)[k - 1]
    <2>1. PosUpTo(q, s)[k] = IF q[k][1] = s THEN Append(prev, q[k][2]) ELSE prev
      BY PosUpToDef
    <2>2. prev \in Seq(Nat)
      BY <1>2
    <2>3. Append(prev, q[k][2]) \in Seq(Nat)
      BY <1>0, <2>2
    <2>4. PosUpTo(q, s)[k] \in Seq(Nat)
      BY <2>1, <2>2, <2>3, Zenon
    <2> QED BY <1>0, <2>4
  <1>3. 0 .. Len(q) \subseteq S
    <2> HIDE DEF S
    <2> QED BY <1>0, <1>1, <1>2, UpToInduction
  <1> QED BY <1>3

\* The same for the whole queue.
LEMMA PosInType ==
    ASSUME NEW q \in Queue, NEW s PROVE PosIn(q, s) \in Seq(Nat)
  BY PosTypes DEF PosIn, Queue

\* An empty queue holds no position.
LEMMA PosEmpty ==
    ASSUME NEW s PROVE PosIn(<<>>, s) = <<>>
  <1>1. <<>> \in Queue /\ Len(<<>>) = 0
    BY DEF Queue
  <1> QED BY <1>1, PosUpToDef DEF PosIn

\* An appended event adds its position to those of its own source only.
LEMMA PosAppend ==
    ASSUME NEW q \in Queue, NEW e \in Tag, NEW s
    PROVE  PosIn(Append(q, e), s) = IF e[1] = s THEN Append(PosIn(q, s), e[2]) ELSE PosIn(q, s)
  <1> DEFINE r == Append(q, e)
             S == {k \in 0 .. Len(q) : PosUpTo(r, s)[k] = PosUpTo(q, s)[k]}
  <1>0. /\ r \in Queue /\ Len(r) = Len(q) + 1 /\ r[Len(r)] = e /\ Len(q) \in Nat
        /\ \A k \in 1 .. Len(q) : r[k] = q[k]
    BY DEF Queue
  <1> HIDE DEF r
  <1>1. 0 \in S
    BY <1>0, PosUpToDef
  <1>2. ASSUME NEW k \in 1 .. Len(q), k - 1 \in S PROVE k \in S
    <2>1. PosUpTo(q, s)[k] = IF q[k][1] = s THEN Append(PosUpTo(q, s)[k - 1], q[k][2])
                             ELSE PosUpTo(q, s)[k - 1]
      BY <1>0, PosUpToDef
    <2>2. PosUpTo(r, s)[k] = IF r[k][1] = s THEN Append(PosUpTo(r, s)[k - 1], r[k][2])
                             ELSE PosUpTo(r, s)[k - 1]
      BY <1>0, PosUpToDef
    <2> QED BY <1>0, <1>2, <2>1, <2>2
  <1>3. 0 .. Len(q) \subseteq S
    <2> HIDE DEF S
    <2> QED BY <1>0, <1>1, <1>2, UpToInduction
  <1>4. PosUpTo(r, s)[Len(q)] = PosUpTo(q, s)[Len(q)]
    BY <1>0, <1>3
  <1>5. PosUpTo(r, s)[Len(r)] = IF e[1] = s THEN Append(PosUpTo(r, s)[Len(q)], e[2])
                                ELSE PosUpTo(r, s)[Len(q)]
    BY <1>0, PosUpToDef
  <1> QED BY <1>4, <1>5 DEF PosIn, r

\* Queues are closed under concatenation and appending.
LEMMA QueueAppend ==
    ASSUME NEW p \in Queue, NEW u \in Queue, NEW e \in Tag
    PROVE  p \o u \in Queue /\ Append(u, e) \in Queue /\ p \o Append(u, e) = Append(p \o u, e)
  BY ConcatAppend, ConcatProperties, AppendProperties DEF Queue

\* The induction step of PosConcat.
LEMMA PosConcatStep ==
    ASSUME NEW p \in Queue, NEW u \in Queue, NEW e \in Tag, NEW s,
           PosIn(p \o u, s) = PosIn(p, s) \o PosIn(u, s)
    PROVE  PosIn(p \o Append(u, e), s) = PosIn(p, s) \o PosIn(Append(u, e), s)
  <1> DEFINE x == PosIn(p, s)
             y == PosIn(u, s)
  <1>1. p \o Append(u, e) = Append(p \o u, e)
    BY QueueAppend
  <1>2. p \o u \in Queue
    BY QueueAppend
  <1>3. PosIn(Append(p \o u, e), s) = IF e[1] = s THEN Append(x \o y, e[2]) ELSE x \o y
    <2> DEFINE w == p \o u
    <2>1. w \in Queue
      BY <1>2
    <2>2. PosIn(w, s) = x \o y
      OBVIOUS
    <2> HIDE DEF w, x, y
    <2>3. PosIn(Append(w, e), s) = IF e[1] = s THEN Append(PosIn(w, s), e[2]) ELSE PosIn(w, s)
      BY <2>1, PosAppend
    <2> QED BY <2>2, <2>3 DEF w
  <1>4. PosIn(Append(u, e), s) = IF e[1] = s THEN Append(y, e[2]) ELSE y
    BY PosAppend
  <1>5. x \in Seq(Nat) /\ y \in Seq(Nat) /\ e[2] \in Nat
    BY PosInType DEF Tag
  <1> HIDE DEF x, y
  <1>6. x \o Append(y, e[2]) = Append(x \o y, e[2])
    BY <1>5, ConcatAppend
  <1>7. PosIn(Append(p \o u, e), s) = x \o PosIn(Append(u, e), s)
    BY <1>3, <1>4, <1>6
  <1> QED BY <1>1, <1>7 DEF x

\* The positions of s in two queues, one behind the other.
LEMMA PosConcat ==
    ASSUME NEW p \in Queue, NEW q \in Queue, NEW s
    PROVE  PosIn(p \o q, s) = PosIn(p, s) \o PosIn(q, s)
  <1> DEFINE part(k) == SubSeq(q, 1, k)
             S == {k \in 0 .. Len(q) : PosIn(p \o part(k), s) = PosIn(p, s) \o PosIn(part(k), s)}
  <1>0. Len(q) \in Nat
    BY DEF Queue
  <1>1. 0 \in S
    <2>1. part(0) = <<>> /\ p \o <<>> = p
      BY SubSeqEmpty, ConcatEmptySeq DEF Queue
    <2>2. PosIn(p, s) \o <<>> = PosIn(p, s)
      BY PosInType, ConcatEmptySeq
    <2>3. PosIn(p \o part(0), s) = PosIn(p, s) \o PosIn(part(0), s)
      BY <2>1, <2>2, PosEmpty
    <2> QED BY <1>0, <2>3
  <1>2. ASSUME NEW k \in 1 .. Len(q), k - 1 \in S PROVE k \in S
    <2>1. PosIn(p \o part(k - 1), s) = PosIn(p, s) \o PosIn(part(k - 1), s)
      BY <1>2
    <2>2. part(k - 1) \in Queue /\ q[k] \in Tag /\ part(k) = Append(part(k - 1), q[k])
      BY PrefixStep DEF Queue
    <2> HIDE DEF part
    <2>3. PosIn(p \o part(k), s) = PosIn(p, s) \o PosIn(part(k), s)
      <3> DEFINE u == part(k - 1)
                 e == q[k]
      <3> HIDE DEF u, e
      <3>1. u \in Queue /\ e \in Tag /\ PosIn(p \o u, s) = PosIn(p, s) \o PosIn(u, s)
        BY <2>1, <2>2 DEF u, e
      <3>2. PosIn(p \o Append(u, e), s) = PosIn(p, s) \o PosIn(Append(u, e), s)
        BY <3>1, PosConcatStep
      <3> QED BY <2>2, <3>2 DEF u, e
    <2> QED BY <1>0, <2>3
  <1>3. 0 .. Len(q) \subseteq S
    <2> HIDE DEF S
    <2> QED BY <1>0, <1>1, <1>2, UpToInduction
  <1>4. part(Len(q)) = q
    BY DEF Queue
  <1>5. Len(q) \in S
    <2> HIDE DEF S
    <2> QED BY <1>0, <1>3
  <1> QED BY <1>4, <1>5

\* The positions of s in a queue are those of its events.
LEMMA PosElements ==
    ASSUME NEW q \in Queue, NEW s
    PROVE  \A n : <<s, n>> \in EventsIn(q) <=> \E i \in 1 .. Len(PosIn(q, s)) : PosIn(q, s)[i] = n
  <1> DEFINE in(k, n) == \E j \in 1 .. k : q[j] = <<s, n>>
             at(k, n) == \E i \in 1 .. Len(PosUpTo(q, s)[k]) : PosUpTo(q, s)[k][i] = n
             S == {k \in 0 .. Len(q) : \A n : in(k, n) <=> at(k, n)}
  <1>0. Len(q) \in Nat
    BY DEF Queue
  <1>1. 0 \in S
    <2>1. Len(PosUpTo(q, s)[0]) = 0
      BY PosUpToDef
    <2> QED BY <1>0, <2>1
  <1>2. ASSUME NEW k \in 1 .. Len(q), k - 1 \in S PROVE k \in S
    <2> DEFINE prev == PosUpTo(q, s)[k - 1]
    <2>1. PosUpTo(q, s)[k] = IF q[k][1] = s THEN Append(prev, q[k][2]) ELSE prev
      BY PosUpToDef
    <2>2. prev \in Seq(Nat) /\ q[k] = <<q[k][1], q[k][2]>> /\ q[k][2] \in Nat
      BY PosTypes DEF Queue, Tag
    <2>3. \A n : in(k, n) <=> (in(k - 1, n) \/ (q[k][1] = s /\ q[k][2] = n))
      <3>1. \A j \in 1 .. k : j \in 1 .. k - 1 \/ j = k
        OBVIOUS
      <3>2. \A j \in 1 .. k - 1 : j \in 1 .. k
        OBVIOUS
      <3>3. \A n : q[k] = <<s, n>> <=> q[k][1] = s /\ q[k][2] = n
        BY <2>2
      <3> QED BY <3>1, <3>2, <3>3
    <2>4. \A n : at(k, n) <=> (at(k - 1, n) \/ (q[k][1] = s /\ q[k][2] = n))
      <3> HIDE DEF prev
      <3>1. CASE q[k][1] = s
        <4>1. PosUpTo(q, s)[k] = Append(prev, q[k][2])
          BY <2>1, <3>1
        <4> DEFINE x == q[k][2]
        <4>2. prev \in Seq(Nat) /\ x \in Nat
          BY <2>2
        <4> HIDE DEF x
        <4>3. \A n : (\E i \in 1 .. Len(Append(prev, x)) : Append(prev, x)[i] = n)
                     <=> ((\E i \in 1 .. Len(prev) : prev[i] = n) \/ x = n)
          BY <4>2
        <4> QED BY <3>1, <4>1, <4>3 DEF prev, x
      <3>2. CASE q[k][1] # s
        <4>1. PosUpTo(q, s)[k] = prev
          BY <2>1, <3>2
        <4> QED BY <3>2, <4>1 DEF prev
      <3> QED BY <3>1, <3>2
    <2> HIDE DEF in, at
    <2> QED BY <1>0, <1>2, <2>3, <2>4
  <1>3. Len(q) \in S
    <2> HIDE DEF S
    <2>1. 0 .. Len(q) \subseteq S
      BY <1>0, <1>1, <1>2, UpToInduction
    <2> QED BY <1>0, <2>1
  <1>4. \A n : <<s, n>> \in EventsIn(q) <=> in(Len(q), n)
    BY DEF EventsIn
  <1> QED BY <1>3, <1>4 DEF PosIn

-----------------------------------------------------------------------------
\* What two queues hold, one behind the other.
LEMMA EventsInConcat ==
    ASSUME NEW p \in Queue, NEW q \in Queue
    PROVE  EventsIn(p \o q) = EventsIn(p) \cup EventsIn(q)
  <1>1. /\ Len(p) \in Nat /\ Len(q) \in Nat /\ Len(p \o q) = Len(p) + Len(q)
        /\ \A i \in 1 .. Len(p) + Len(q) :
              (p \o q)[i] = IF i <= Len(p) THEN p[i] ELSE q[i - Len(p)]
    BY ConcatProperties, LenProperties DEF Queue
  <1> DEFINE r == p \o q
  <1> HIDE DEF r
  <1>2. ASSUME NEW i \in 1 .. Len(q) PROVE q[i] \in EventsIn(r)
    <2>1. i + Len(p) \in 1 .. Len(r) /\ r[i + Len(p)] = q[i]
      BY <1>1 DEF r
    <2> QED BY <2>1 DEF EventsIn
  <1>3. ASSUME NEW i \in 1 .. Len(p) PROVE p[i] \in EventsIn(r)
    BY <1>1 DEF EventsIn, r
  <1>4. ASSUME NEW i \in 1 .. Len(r) PROVE r[i] \in EventsIn(p) \cup EventsIn(q)
    <2>1. CASE i <= Len(p)
      BY <1>1, <2>1 DEF EventsIn, r
    <2>2. CASE i > Len(p)
      <3>1. i - Len(p) \in 1 .. Len(q) /\ r[i] = q[i - Len(p)]
        BY <1>1, <2>2 DEF r
      <3> QED BY <3>1 DEF EventsIn
    <2> QED BY <1>1, <2>1, <2>2 DEF r
  <1> QED BY <1>2, <1>3, <1>4 DEF EventsIn, r

\* flushBody gets exactly the events of its source, and its end step.
LEMMA SourceRunFacts ==
    ASSUME NEW b \in Queue, NEW s \in Sources
    PROVE  /\ SourceRun(b, s) \in Queue
           /\ EventsIn(SourceRun(b, s)) = {e \in EventsIn(b) : e[1] = s} \cup {<<s, EndStep>>}
  <1> DEFINE run == Append(PosIn(b, s), EndStep)
             r == SourceRun(b, s)
  <1>1. PosIn(b, s) \in Seq(Nat) /\ EndStep \in Nat
    BY PosInType DEF EndStep
  <1>2. /\ run \in Seq(Nat) /\ Len(run) = Len(PosIn(b, s)) + 1 /\ run[Len(run)] = EndStep
        /\ \A i \in 1 .. Len(PosIn(b, s)) : run[i] = PosIn(b, s)[i]
    BY <1>1, AppendProperties
  <1>3. r = [k \in 1 .. Len(run) |-> <<s, run[k]>>]
    BY DEF SourceRun
  <1> HIDE DEF run, r
  <1>4. r \in Seq(Tag) /\ Len(r) = Len(run)
    BY <1>2, <1>3 DEF Tag
  <1>5. \A e \in EventsIn(b) : e = <<e[1], e[2]>>
    BY DEF EventsIn, Queue, Tag
  <1>6. ASSUME NEW e \in EventsIn(b), e[1] = s PROVE e \in EventsIn(r)
    <2>1. PICK i \in 1 .. Len(PosIn(b, s)) : PosIn(b, s)[i] = e[2]
      <3>1. <<s, e[2]>> \in EventsIn(b)
        BY <1>5, <1>6
      <3> QED BY <3>1, PosElements
    <2>2. i \in 1 .. Len(r) /\ r[i] = <<s, e[2]>>
      BY <1>1, <1>2, <1>3, <1>4, <2>1
    <2> QED BY <1>5, <1>6, <2>2 DEF EventsIn
  <1>7. <<s, EndStep>> \in EventsIn(r)
    BY <1>1, <1>2, <1>3, <1>4 DEF EventsIn
  <1>8. ASSUME NEW i \in 1 .. Len(r), r[i] # <<s, EndStep>> PROVE r[i] \in EventsIn(b) /\ r[i][1] = s
    <2>1. i \in 1 .. Len(PosIn(b, s)) /\ r[i] = <<s, PosIn(b, s)[i]>>
      BY <1>1, <1>2, <1>3, <1>4, <1>8
    <2>2. <<s, PosIn(b, s)[i]>> \in EventsIn(b)
      BY <2>1, PosElements
    <2> QED BY <2>1, <2>2
  <1>9. EventsIn(r) = {e \in EventsIn(b) : e[1] = s} \cup {<<s, EndStep>>}
    BY <1>6, <1>7, <1>8 DEF EventsIn
  <1> QED BY <1>4, <1>9 DEF r, Queue

\* The recursive definition of StepsUpTo has a solution.
LEMMA StepsUpToDef ==
    ASSUME NEW b \in Queue
    PROVE  /\ StepsUpTo(b)[0] = <<>>
           /\ \A k \in 1 .. Len(b) :
                 StepsUpTo(b)[k] = IF FirstSeen(b, k) THEN StepsUpTo(b)[k - 1] \o SourceRun(b, b[k][1])
                                   ELSE StepsUpTo(b)[k - 1]
  <1> DEFINE Val(f, k) == IF k = 0 THEN <<>>
                          ELSE IF FirstSeen(b, k) THEN f[k - 1] \o SourceRun(b, b[k][1]) ELSE f[k - 1]
             Is(f, n) == \A k \in 0 .. n : f[k] = Val(f, k)
             S == {n \in Nat : \E f : Is(f, n)}
  <1>1. 0 \in S
    <2>1. Is([k \in 0 .. 0 |-> <<>>], 0)
      OBVIOUS
    <2> QED BY <2>1
  <1>2. ASSUME NEW n \in Nat, n \in S PROVE n + 1 \in S
    <2>1. PICK f : Is(f, n)
      BY <1>2
    <2> DEFINE g == [k \in 0 .. n + 1 |-> IF k <= n THEN f[k] ELSE Val(f, k)]
    <2>2. \A k \in 0 .. n + 1 : Val(g, k) = Val(f, k)
      OBVIOUS
    <2>3. Is(g, n + 1)
      <3> HIDE DEF Val
      <3> QED BY <2>1, <2>2
    <2> HIDE DEF Is, g
    <2> QED BY <2>3
  <1>3. PICK f : Is(f, Len(b))
    <2> HIDE DEF Is
    <2>1. Nat \subseteq S
      <3> HIDE DEF S
      <3> QED BY <1>1, <1>2, SetInduction
    <2>2. Len(b) \in Nat
      BY DEF Queue
    <2> QED BY <2>1, <2>2
  <1> DEFINE h == [k \in 0 .. Len(b) |-> f[k]]
             Table(g) == g = [k \in 0 .. Len(b) |-> Val(g, k)]
  <1>4. Table(h)
    <2>1. \A k \in 0 .. Len(b) : Val(h, k) = Val(f, k)
      BY DEF Queue
    <2> HIDE DEF Val
    <2> QED BY <1>3, <2>1
  <1>5. StepsUpTo(b) = CHOOSE g : Table(g)
    BY DEF StepsUpTo
  <1>6. Table(StepsUpTo(b))
    <2> HIDE DEF Table, h
    <2> QED BY <1>4, <1>5
  <1>7. \A k \in 0 .. Len(b) : StepsUpTo(b)[k] = Val(StepsUpTo(b), k)
    <2> HIDE DEF Val
    <2> QED BY <1>6, Zenon
  <1>8. 0 \in 0 .. Len(b) /\ \A k \in 1 .. Len(b) : k \in 0 .. Len(b) /\ k # 0
    BY DEF Queue
  <1> QED BY <1>7, <1>8, Zenon

\* flushBatch applies every event of the batch and nothing else but the end
\* steps of the sources it has seen.
LEMMA StepsFacts ==
    ASSUME NEW b \in Queue
    PROVE  /\ Steps(b) \in Queue
           /\ EventsIn(b) \subseteq EventsIn(Steps(b))
           /\ EventsIn(Steps(b)) \subseteq EventsIn(b) \cup (SourcesIn(b) \X {EndStep})
  <1> DEFINE steps(k) == StepsUpTo(b)[k]
             own(s) == {e \in EventsIn(b) : e[1] = s}
             ends == SourcesIn(b) \X {EndStep}
             S == {k \in 0 .. Len(b) :
                     /\ steps(k) \in Queue
                     /\ EventsIn(steps(k)) \subseteq EventsIn(b) \cup ends
                     /\ \A j \in 1 .. k : own(b[j][1]) \subseteq EventsIn(steps(k))}
  <1>0. Len(b) \in Nat /\ \A k \in 1 .. Len(b) : b[k][1] \in Sources /\ b[k][1] \in SourcesIn(b)
    BY DEF Queue, Tag, SourcesIn
  <1>1. 0 \in S
    <2>1. steps(0) = <<>> /\ <<>> \in Queue /\ EventsIn(<<>>) = {}
      BY StepsUpToDef DEF EventsIn, Queue
    <2> HIDE DEF steps
    <2> QED BY <1>0, <2>1
  <1>2. ASSUME NEW k \in 1 .. Len(b), k - 1 \in S PROVE k \in S
    <2> DEFINE s == b[k][1]
               run == SourceRun(b, s)
    <2>1. /\ steps(k - 1) \in Queue
          /\ EventsIn(steps(k - 1)) \subseteq EventsIn(b) \cup ends
          /\ \A j \in 1 .. k - 1 : own(b[j][1]) \subseteq EventsIn(steps(k - 1))
      BY <1>2
    <2>2. run \in Queue /\ EventsIn(run) = own(s) \cup {<<s, EndStep>>}
      BY <1>0, SourceRunFacts
    <2>3. <<s, EndStep>> \in ends
      BY <1>0
    <2>4. steps(k) = IF FirstSeen(b, k) THEN steps(k - 1) \o run ELSE steps(k - 1)
      BY StepsUpToDef
    <2>5. own(s) \subseteq EventsIn(b)
      OBVIOUS
    <2>6. \A j \in 1 .. k : j \in 1 .. k - 1 \/ j = k
      OBVIOUS
    <2>7. k \in 0 .. Len(b)
      BY <1>0
    <2>8. CASE FirstSeen(b, k)
      <3>1. steps(k) = steps(k - 1) \o run
        BY <2>4, <2>8
      <3> HIDE DEF steps, own, ends, run, s
      <3>2. steps(k) \in Queue
        BY <2>1, <2>2, <3>1, ConcatProperties DEF Queue
      <3>3. EventsIn(steps(k)) = EventsIn(steps(k - 1)) \cup own(s) \cup {<<s, EndStep>>}
        BY <2>1, <2>2, <3>1, EventsInConcat
      <3>4. \A j \in 1 .. k : own(b[j][1]) \subseteq EventsIn(steps(k))
        <4>1. \A j \in 1 .. k - 1 : own(b[j][1]) \subseteq EventsIn(steps(k))
          BY <2>1, <3>3
        <4>2. own(b[k][1]) \subseteq EventsIn(steps(k))
          BY <3>3 DEF s
        <4> QED BY <2>6, <4>1, <4>2
      <3> QED BY <2>1, <2>3, <2>5, <2>7, <3>2, <3>3, <3>4
    <2>9. CASE ~FirstSeen(b, k)
      <3>1. steps(k) = steps(k - 1)
        BY <2>4, <2>9
      <3>2. PICK i \in 1 .. k - 1 : b[i][1] = s
        BY <2>9 DEF FirstSeen
      <3> HIDE DEF steps, own, ends, run
      <3> QED BY <2>1, <2>6, <2>7, <3>1, <3>2
    <2> QED BY <2>8, <2>9
  <1>3. Len(b) \in S
    <2> HIDE DEF S
    <2>1. 0 .. Len(b) \subseteq S
      BY <1>0, <1>1, <1>2, UpToInduction
    <2> QED BY <1>0, <2>1
  <1>4. EventsIn(b) \subseteq EventsIn(steps(Len(b)))
    <2>1. ASSUME NEW k \in 1 .. Len(b) PROVE b[k] \in EventsIn(steps(Len(b)))
      <3>1. b[k] \in own(b[k][1])
        BY DEF EventsIn
      <3> HIDE DEF steps, own
      <3> QED BY <1>3, <3>1
    <2> HIDE DEF steps
    <2> QED BY <2>1 DEF EventsIn
  <1> QED BY <1>3, <1>4 DEF Steps
-----------------------------------------------------------------------------
\* The recursive definition of Transaction has a solution.
LEMMA TransactionDef ==
    ASSUME NEW b \in Queue
    PROVE  /\ Transaction(b)[0] = TxStart
           /\ \A k \in 1 .. Len(Steps(b)) :
                 Transaction(b)[k] = ApplyStep(Transaction(b)[k - 1], Steps(b)[k])
  <1> DEFINE Val(f, k) == IF k = 0 THEN TxStart ELSE ApplyStep(f[k - 1], Steps(b)[k])
             Is(f, n) == \A k \in 0 .. n : f[k] = Val(f, k)
             S == {n \in Nat : \E f : Is(f, n)}
  <1>1. 0 \in S
    <2>1. Is([k \in 0 .. 0 |-> TxStart], 0)
      OBVIOUS
    <2> QED BY <2>1
  <1>2. ASSUME NEW n \in Nat, n \in S PROVE n + 1 \in S
    <2>1. PICK f : Is(f, n)
      BY <1>2
    <2> DEFINE g == [k \in 0 .. n + 1 |-> IF k <= n THEN f[k] ELSE Val(f, k)]
    <2>2. \A k \in 0 .. n + 1 : Val(g, k) = Val(f, k)
      OBVIOUS
    <2>3. Is(g, n + 1)
      <3> HIDE DEF Val
      <3> QED BY <2>1, <2>2
    <2> HIDE DEF Is, g
    <2> QED BY <2>3
  <1>3. PICK f : Is(f, Len(Steps(b)))
    <2> HIDE DEF Is
    <2>1. Nat \subseteq S
      <3> HIDE DEF S
      <3> QED BY <1>1, <1>2, SetInduction
    <2>2. Len(Steps(b)) \in Nat
      BY StepsFacts DEF Queue
    <2> QED BY <2>1, <2>2
  <1> DEFINE h == [k \in 0 .. Len(Steps(b)) |-> f[k]]
             Table(g) == g = [k \in 0 .. Len(Steps(b)) |-> Val(g, k)]
  <1>4. Table(h)
    <2>1. \A k \in 0 .. Len(Steps(b)) : Val(h, k) = Val(f, k)
      BY StepsFacts DEF Queue
    <2> HIDE DEF Val
    <2> QED BY <1>3, <2>1
  <1>5. Transaction(b) = CHOOSE g : Table(g)
    BY DEF Transaction
  <1>6. Table(Transaction(b))
    <2> HIDE DEF Table, h
    <2> QED BY <1>4, <1>5
  <1>7. \A k \in 0 .. Len(Steps(b)) : Transaction(b)[k] = Val(Transaction(b), k)
    <2> HIDE DEF Val
    <2> QED BY <1>6, Zenon
  <1>8. 0 \in 0 .. Len(Steps(b)) /\ \A k \in 1 .. Len(Steps(b)) : k \in 0 .. Len(Steps(b)) /\ k # 0
    BY StepsFacts DEF Queue
  <1> QED BY <1>7, <1>8, Zenon

\* The values of an open transaction.
TxState == [rows : SUBSET (Sources \X Parents), written : SUBSET Tag, cursor : [Sources -> Nat],
            writer : [Sources -> WriterState], err : {"none", "fk", "notify"}]

\* A cursor of s that was staged before the transaction or comes from batch b.
Stageable(b, s, c) == c = writer[s].cursor \/ <<s, c>> \in EventsIn(b)

\* What holds of the transaction of batch b after every step.
TxSound(tx, b) ==
    /\ tx \in TxState
    /\ written \subseteq tx.written /\ tx.written \subseteq written \cup EventsIn(b)
    /\ \A s \in Sources :
          /\ Stageable(b, s, tx.writer[s].cursor)
          /\ \/ tx.cursor[s] = cursor[s]
             \/ s \in SourcesIn(b) /\ tx.cursor[s] # 0 /\ Stageable(b, s, tx.cursor[s])

\* The types of the database and the writers.
DbTypes == /\ stream \in [Sources -> Seq(Event)]
           /\ rows \subseteq Sources \X Parents /\ written \subseteq Tag
           /\ cursor \in [Sources -> Nat] /\ writer \in [Sources -> WriterState]

\* Marking a session dirty keeps the staged cursor.
LEMMA TouchType ==
    ASSUME NEW w \in WriterState, NEW p \in Parents
    PROVE  Touch(w, p) \in WriterState /\ Touch(w, p).cursor = w.cursor
  BY DEF Touch, WriterState

\* A step that changes only the rows, the written events and the writer of s.
LEMMA WriteSound ==
    ASSUME NEW b, DbTypes, NEW tx, TxSound(tx, b), NEW s \in Sources, NEW w \in WriterState,
           NEW e \in EventsIn(b), Stageable(b, s, w.cursor), NEW new \in TxState,
           new.written = tx.written \cup {e}, new.cursor = tx.cursor,
           new.writer = [tx.writer EXCEPT ![s] = w]
    PROVE  TxSound(new, b)
  <1>1. tx \in TxState
    BY DEF TxSound
  <1>2. \A r1 \in Sources : new.writer[r1] = IF r1 = s THEN w ELSE tx.writer[r1]
    BY <1>1 DEF TxState
  <1> QED BY <1>2 DEF TxSound

\* Every step of a transaction keeps it sound, and records the event it
\* applies unless it fails.
LEMMA StepSound ==
    ASSUME NEW b \in Seq(Tagged), DbTypes, NEW tx, TxSound(tx, b), tx.err = "none",
           NEW step \in EventsIn(b) \cup (SourcesIn(b) \X {EndStep})
    PROVE  /\ TxSound(ApplyStep(tx, step), b)
           /\ tx.written \subseteq ApplyStep(tx, step).written
           /\ ApplyStep(tx, step).err = "none" /\ step[2] # EndStep => step \in ApplyStep(tx, step).written
  <1> DEFINE s == step[1]
             n == step[2]
             e == stream[s][n]
  <1>1. CASE n = EndStep
    <2>1. s \in SourcesIn(b) /\ s \in Sources
      BY <1>1 DEF Tagged, EventsIn, SourcesIn
    <2>2. ApplyStep(tx, step) = ApplyEnd(tx, s)
      BY <1>1 DEF ApplyStep
    <2> HIDE DEF s, n, e
    <2> DEFINE c == tx.writer[s].cursor
               new == [tx EXCEPT !.cursor[s] = IF c = 0 THEN @ ELSE c]
               bad == [tx EXCEPT !.err = "notify"]
    <2>3. tx \in TxState /\ c \in Nat
      BY <2>1 DEF TxSound, TxState, WriterState
    <2>4. TxSound(bad, b) /\ bad.written = tx.written
      BY <2>3 DEF TxSound, TxState
    <2>5. TxSound(new, b) /\ new.written = tx.written
      <3>1. /\ new \in TxState /\ new.written = tx.written /\ new.writer = tx.writer
            /\ new.cursor = [tx.cursor EXCEPT ![s] = IF c = 0 THEN @ ELSE c]
        BY <2>3 DEF TxState
      <3>2. Stageable(b, s, c)
        BY <2>1 DEF TxSound
      <3>3. \A r \in Sources : new.cursor[r] = IF r = s /\ c # 0 THEN c ELSE tx.cursor[r]
        BY <2>3, <3>1 DEF TxState
      <3> HIDE DEF new
      <3> QED BY <2>1, <3>1, <3>2, <3>3 DEF TxSound
    <2>6. ApplyStep(tx, step) = new \/ ApplyStep(tx, step) = bad
      BY <2>2 DEF ApplyEnd
    <2> HIDE DEF new, bad
    <2> QED BY <1>1, <2>4, <2>5, <2>6 DEF n
  <1>2. CASE n # EndStep
    <2>1. step \in EventsIn(b) /\ s \in Sources /\ n \in Positions(s) /\ step = <<s, n>> /\ step \in Tag
      BY <1>2 DEF Tagged, EventsIn, Tag
    <2>2. e \in Event
      BY <2>1 DEF DbTypes, Positions
    <2>3. n \in Nat
      BY <2>1 DEF Tag
    <2>4. CASE e.kind = "session"
      <3>1. ApplyStep(tx, step) = ApplySession(tx, s, n, e.parent)
        BY <1>2, <2>4 DEF ApplyStep
      <3>2. e.parent \in Parents
        BY <2>2 DEF Event
      <3> HIDE DEF s, n, e
      <3> DEFINE w == Touch(tx.writer[s], e.parent)
                 r == tx.rows \cup {<<s, e.parent>>}
                 new == ApplySession(tx, s, n, e.parent)
      <3>3. tx \in TxState /\ tx.writer[s] \in WriterState /\ Stageable(b, s, tx.writer[s].cursor)
        BY <2>1 DEF TxSound, TxState
      <3>4. w \in WriterState /\ Stageable(b, s, w.cursor)
        BY <3>2, <3>3, TouchType
      <3>5. r \in SUBSET (Sources \X Parents)
        BY <2>1, <3>2, <3>3 DEF TxState
      <3>6. new = [tx EXCEPT !.rows = r, !.written = @ \cup {step}, !.writer[s] = w]
        BY <2>1 DEF ApplySession
      <3> HIDE DEF w, r, new
      <3>7. /\ new \in TxState /\ new.written = tx.written \cup {step} /\ new.cursor = tx.cursor
            /\ new.writer = [tx.writer EXCEPT ![s] = w]
        BY <2>1, <3>3, <3>4, <3>5, <3>6 DEF TxState
      <3>8. TxSound(new, b)
        BY <2>1, <3>4, <3>7, WriteSound
      <3> QED BY <3>1, <3>7, <3>8 DEF new
    <2>5. CASE e.kind = "op"
      <3>1. ApplyStep(tx, step) = ApplyOp(tx, s, n, e.parent)
        BY <1>2, <2>5 DEF ApplyStep
      <3>2. e.parent \in Parents
        BY <2>2 DEF Event
      <3> HIDE DEF s, n, e
      <3> DEFINE w == [Touch(tx.writer[s], e.parent) EXCEPT !.cached = @ \cup {e.parent}]
                 r == IF e.parent \in tx.writer[s].cached THEN tx.rows
                      ELSE tx.rows \cup {<<s, e.parent>>}
                 new == [tx EXCEPT !.rows = r, !.written = @ \cup {<<s, n>>}, !.writer[s] = w]
                 bad == [tx EXCEPT !.err = "fk"]
      <3>3. tx \in TxState /\ tx.writer[s] \in WriterState /\ Stageable(b, s, tx.writer[s].cursor)
        BY <2>1 DEF TxSound, TxState
      <3>4. w \in WriterState /\ w.cursor = tx.writer[s].cursor
        BY <3>2, <3>3 DEF WriterState, Touch
      <3>5. r \in SUBSET (Sources \X Parents)
        BY <2>1, <3>2, <3>3 DEF TxState
      <3>6. TxSound(bad, b) /\ bad.written = tx.written /\ bad.err # "none"
        BY <3>3 DEF TxSound, TxState
      <3>7. ApplyStep(tx, step) = new \/ ApplyStep(tx, step) = bad
        BY <3>1 DEF ApplyOp
      <3> HIDE DEF w, r
      <3>8. /\ new \in TxState /\ new.written = tx.written \cup {step} /\ new.cursor = tx.cursor
            /\ new.writer = [tx.writer EXCEPT ![s] = w]
        BY <2>1, <3>3, <3>4, <3>5 DEF TxState
      <3>9. Stageable(b, s, w.cursor)
        BY <3>3, <3>4
      <3> HIDE DEF new, bad
      <3>10. TxSound(new, b)
        BY <2>1, <3>4, <3>8, <3>9, WriteSound
      <3> QED BY <3>6, <3>7, <3>8, <3>10
    <2>6. CASE e.kind = "progress"
      <3>1. ApplyStep(tx, step) = ApplyProgress(tx, s, n)
        BY <1>2, <2>6 DEF ApplyStep
      <3> HIDE DEF s, n, e
      <3> DEFINE w == [tx.writer[s] EXCEPT !.cursor = n]
                 new == ApplyProgress(tx, s, n)
      <3>2. tx \in TxState /\ tx.writer[s] \in WriterState /\ tx.rows \in SUBSET (Sources \X Parents)
        BY <2>1 DEF TxSound, TxState
      <3>3. w \in WriterState /\ w.cursor = n
        BY <2>3, <3>2 DEF WriterState
      <3>4. Stageable(b, s, w.cursor)
        BY <2>1, <3>3 DEF Stageable
      <3>5. new = [tx EXCEPT !.rows = tx.rows, !.written = @ \cup {step}, !.writer[s] = w]
        BY <2>1, <3>2 DEF ApplyProgress, TxState
      <3> HIDE DEF w, new
      <3>6. /\ new \in TxState /\ new.written = tx.written \cup {step} /\ new.cursor = tx.cursor
            /\ new.writer = [tx.writer EXCEPT ![s] = w]
        BY <2>1, <3>2, <3>3, <3>5 DEF TxState
      <3>7. TxSound(new, b)
        BY <2>1, <3>3, <3>4, <3>6, WriteSound
      <3> QED BY <3>1, <3>6, <3>7 DEF new
    <2> QED BY <2>2, <2>4, <2>5, <2>6 DEF Event
  <1> QED BY <1>1, <1>2
\* A transaction is sound after any number of steps, and one that ran to its
\* end without an error has written the whole batch.
LEMMA TransactionSound ==
    ASSUME NEW b \in Seq(Tagged), DbTypes
    PROVE  /\ \A k \in 0 .. Len(Steps(b)) : TxSound(TxAfter(b, k), b)
           /\ TxSound(TxAfterAll(b), b)
           /\ TxAfterAll(b).err = "none" => TxAfterAll(b).written = written \cup EventsIn(b)
  <1> DEFINE tx(k) == Transaction(b)[k]
             did(k) == \A j \in 1 .. k : Steps(b)[j][2] # EndStep => Steps(b)[j] \in tx(k).written
             S == {k \in 0 .. Len(Steps(b)) : TxSound(tx(k), b) /\ (tx(k).err = "none" => did(k))}
  <1>0. b \in Queue /\ \A e \in EventsIn(b) : e[2] # EndStep
    BY DEF Queue, Tag, Tagged, EventsIn, Positions, EndStep
  <1>1. Len(Steps(b)) \in Nat
    BY <1>0, StepsFacts DEF Queue
  <1>2. 0 \in S
    <2>1. tx(0) = TxStart
      BY <1>0, TransactionDef
    <2>2. TxSound(TxStart, b)
      BY DEF TxStart, TxSound, TxState, DbTypes, Stageable
    <2> HIDE DEF tx
    <2> QED BY <1>1, <2>1, <2>2
  <1>3. ASSUME NEW k \in 1 .. Len(Steps(b)), k - 1 \in S PROVE k \in S
    <2> DEFINE step == Steps(b)[k]
               new == ApplyStep(tx(k - 1), step)
    <2>1. tx(k) = new
      BY <1>0, TransactionDef
    <2>2. TxSound(tx(k - 1), b) /\ (tx(k - 1).err = "none" => did(k - 1))
      BY <1>3
    <2>3. step \in EventsIn(b) \cup (SourcesIn(b) \X {EndStep})
      BY <1>0, StepsFacts DEF EventsIn
    <2>4. k \in 0 .. Len(Steps(b)) /\ \A j \in 1 .. k : j \in 1 .. k - 1 \/ j = k
      BY <1>1
    <2>5. CASE tx(k - 1).err # "none"
      <3>1. new = tx(k - 1)
        BY <2>5 DEF ApplyStep
      <3> HIDE DEF new, tx
      <3> QED BY <2>1, <2>2, <2>4, <2>5, <3>1
    <2>6. CASE tx(k - 1).err = "none"
      <3> HIDE DEF tx, step
      <3>1. /\ TxSound(new, b) /\ tx(k - 1).written \subseteq new.written
            /\ new.err = "none" /\ step[2] # EndStep => step \in new.written
        BY <2>2, <2>3, <2>6, StepSound
      <3> HIDE DEF new
      <3>2. tx(k).err = "none" => did(k)
        <4> SUFFICES ASSUME tx(k).err = "none", NEW j \in 1 .. k, Steps(b)[j][2] # EndStep
                     PROVE  Steps(b)[j] \in tx(k).written
          OBVIOUS
        <4>1. CASE j = k
          BY <2>1, <3>1, <4>1 DEF step
        <4>2. CASE j \in 1 .. k - 1
          BY <2>1, <2>2, <2>6, <3>1, <4>2
        <4> QED BY <2>4, <4>1, <4>2
      <3> QED BY <2>1, <2>4, <3>1, <3>2
    <2> QED BY <2>5, <2>6
  <1>4. 0 .. Len(Steps(b)) \subseteq S
    <2> HIDE DEF S
    <2> QED BY <1>1, <1>2, <1>3, UpToInduction
  <1>5. Len(Steps(b)) \in S
    <2> HIDE DEF S
    <2> QED BY <1>1, <1>4
  <1>6. ASSUME TxAfterAll(b).err = "none" PROVE TxAfterAll(b).written = written \cup EventsIn(b)
    <2> DEFINE last == tx(Len(Steps(b)))
    <2>1. did(Len(Steps(b))) /\ TxSound(last, b)
      BY <1>5, <1>6 DEF TxAfterAll, TxAfter
    <2>2. ASSUME NEW e \in EventsIn(b) PROVE e \in last.written
      <3>1. PICK j \in 1 .. Len(Steps(b)) : Steps(b)[j] = e
        BY <1>0, StepsFacts DEF EventsIn
      <3> QED BY <1>0, <2>1, <3>1
    <2> QED BY <2>1, <2>2 DEF TxSound, TxAfterAll, TxAfter
  <1>7. \A k \in 0 .. Len(Steps(b)) : TxSound(TxAfter(b, k), b)
    BY <1>4 DEF TxAfter
  <1>8. TxSound(TxAfterAll(b), b)
    BY <1>1, <1>7 DEF TxAfterAll
  <1> QED BY <1>6, <1>7, <1>8

-----------------------------------------------------------------------------
\* Concatenation as an operator of its own: the lemmas about it are used by
\* matching, without the provers looking into sequences again.
Cat(p, q) == p \o q
Line == Seq(Nat)

\* Its type and its length.
LEMMA CatType ==
    ASSUME NEW p \in Line, NEW q \in Line
    PROVE  /\ Cat(p, q) \in Line /\ Len(Cat(p, q)) = Len(p) + Len(q)
           /\ Len(p) \in Nat /\ Len(q) \in Nat
  BY ConcatProperties, LenProperties DEF Cat, Line

\* It is associative.
LEMMA CatAssoc ==
    ASSUME NEW p \in Line, NEW q \in Line, NEW r \in Line
    PROVE  Cat(Cat(p, q), r) = Cat(p, Cat(q, r))
  BY DEF Cat, Line

\* The empty sequence is neutral.
LEMMA CatEmpty ==
    ASSUME NEW p \in Line
    PROVE  Cat(p, <<>>) = p /\ Cat(<<>>, p) = p /\ <<>> \in Line /\ Len(<<>>) = 0
  BY ConcatEmptySeq DEF Cat, Line

\* Appending is concatenation with one element.
LEMMA CatOne ==
    ASSUME NEW p \in Line, NEW n \in Nat
    PROVE  Append(p, n) = Cat(p, <<n>>) /\ <<n>> \in Line
  BY DEF Cat, Line

\* A sequence is its head and its tail.
LEMMA CatHeadTail ==
    ASSUME NEW p \in Line, p # <<>>
    PROVE  p = Cat(<<Head(p)>>, Tail(p)) /\ Head(p) \in Nat /\ Tail(p) \in Line
  <1>1. Len(p) \in Nat \ {0}
    BY DEF Line
  <1>2. p = <<p[1]>> \o SubSeq(p, 2, Len(p))
    BY <1>1, SubSeqRecursiveFirst, SubSeqFull DEF Line
  <1>3. Head(p) = p[1] /\ Tail(p) = SubSeq(p, 2, Len(p))
    BY TailIsSubSeq DEF Line
  <1>4. Head(p) \in Nat /\ Tail(p) \in Seq(Nat)
    BY HeadTailProperties DEF Line
  <1> QED BY <1>2, <1>3, <1>4 DEF Cat, Line

\* A sequence of consecutive positions, the first one after a.
Run(q, a) == \A k \in 1 .. Len(q) : q[k] = a + k

\* The parts of consecutive positions are consecutive.
LEMMA RunCat ==
    ASSUME NEW p \in Line, NEW q \in Line, NEW a \in Int, Run(Cat(p, q), a)
    PROVE  Run(p, a) /\ Run(q, a + Len(p))
  <1>1. /\ Len(p) \in Nat /\ Len(q) \in Nat /\ Len(p \o q) = Len(p) + Len(q)
        /\ \A i \in 1 .. Len(p) + Len(q) :
              (p \o q)[i] = IF i <= Len(p) THEN p[i] ELSE q[i - Len(p)]
    BY ConcatProperties, LenProperties DEF Line
  <1> DEFINE r == Cat(p, q)
  <1>2. ASSUME NEW k \in 1 .. Len(p) PROVE p[k] = a + k
    <2>1. k \in 1 .. Len(r) /\ r[k] = p[k]
      BY <1>1 DEF Cat
    <2> HIDE DEF r
    <2> QED BY <2>1 DEF Run, r
  <1>3. ASSUME NEW k \in 1 .. Len(q) PROVE q[k] = a + Len(p) + k
    <2>1. k + Len(p) \in 1 .. Len(r) /\ r[k + Len(p)] = q[k]
      BY <1>1 DEF Cat
    <2> HIDE DEF r
    <2>2. r[k + Len(p)] = a + (k + Len(p))
      BY <2>1 DEF Run, r
    <2> QED BY <1>1, <2>1, <2>2
  <1> QED BY <1>2, <1>3 DEF Run

\* The next position continues them.
LEMMA RunAppend ==
    ASSUME NEW q \in Line, NEW a \in Int, Run(q, a), NEW n \in Nat, n = a + Len(q) + 1
    PROVE  Run(Append(q, n), a)
  <1>1. /\ Len(q) \in Nat /\ Len(Append(q, n)) = Len(q) + 1 /\ Append(q, n)[Len(q) + 1] = n
        /\ \A i \in 1 .. Len(q) : Append(q, n)[i] = q[i]
    BY AppendProperties, LenProperties DEF Line
  <1> QED BY <1>1 DEF Run

\* PosInType in terms of Line.
LEMMA PosLine ==
    ASSUME NEW q \in Queue, NEW s PROVE PosIn(q, s) \in Line
  BY PosInType DEF Line

\* PosConcat in terms of Cat.
LEMMA PosCat ==
    ASSUME NEW p \in Queue, NEW q \in Queue, NEW s
    PROVE  p \o q \in Queue /\ PosIn(p \o q, s) = Cat(PosIn(p, s), PosIn(q, s))
  BY PosConcat, ConcatProperties DEF Cat, Queue

-----------------------------------------------------------------------------
\* The types the argument needs; no adapter has sent more than its source holds.
Types ==
    /\ DbTypes /\ dropped \subseteq Tag
    /\ sent \in [Sources -> Nat] /\ base \in [Sources -> Nat]
    /\ \A s \in Sources : sent[s] <= Len(stream[s])
    /\ chan \in [Sources -> Seq(Nat)] /\ hand \in [Sources -> Nat]
    /\ merged \in Queue /\ batch \in Queue

\* The last event a batch holds of s, or the frontier: what a flush of the
\* batch moves the frontier to.
Reach(s) == Frontier(s) + Len(PosIn(batch, s))

\* A cursor staged in the writer of s by an attempt that failed lies between
\* the committed one and the end of the batch: it survives retries, cut-off
\* flushes and even the drop of its batch.
StagedInReach(s) ==
    writer[s].cursor # 0 => cursor[s] <= writer[s].cursor /\ writer[s].cursor <= Reach(s)

\* What holds of each source: its pipe is the gapless run of positions after
\* the frontier, the frontier has passed the committed cursor and whatever this
\* life started from, everything up to the frontier is settled, and a staged
\* cursor is in reach.
SourceInv(s) ==
    /\ Run(Pipe(s), Frontier(s))
    /\ base[s] <= Frontier(s) /\ cursor[s] <= Frontier(s)
    /\ \A n \in 1 .. Frontier(s) : Settled(s, n)
    /\ StagedInReach(s)

\* The inductive invariant.
IInv == Types /\ \A s \in Sources : SourceInv(s)

\* What the merger holds, as a sequence.
HandSeq(s) == IF hand[s] = 0 THEN <<>> ELSE <<hand[s]>>

\* The pipe as a concatenation of its four parts.
LEMMA PipeTypes ==
    ASSUME Types, NEW s \in Sources
    PROVE  /\ PosIn(batch, s) \in Line /\ PosIn(merged, s) \in Line
           /\ HandSeq(s) \in Line /\ chan[s] \in Line
           /\ Pipe(s) = Cat(Cat(Cat(PosIn(batch, s), PosIn(merged, s)), HandSeq(s)), chan[s])
           /\ Pipe(s) \in Line /\ Len(Pipe(s)) \in Nat /\ Frontier(s) \in Int
           /\ sent[s] = Frontier(s) + Len(Pipe(s))
  <1>1. PosIn(batch, s) \in Line /\ PosIn(merged, s) \in Line
    BY PosLine DEF Types
  <1>2. HandSeq(s) \in Line /\ chan[s] \in Line /\ sent[s] \in Nat
    BY DEF Types, HandSeq, Line
  <1>3. Pipe(s) = Cat(Cat(Cat(PosIn(batch, s), PosIn(merged, s)), HandSeq(s)), chan[s])
    BY DEF Pipe, HandSeq, Cat
  <1>4. Pipe(s) \in Line
    <2>1. Cat(PosIn(batch, s), PosIn(merged, s)) \in Line
      BY <1>1, CatType
    <2>2. Cat(Cat(PosIn(batch, s), PosIn(merged, s)), HandSeq(s)) \in Line
      BY <1>2, <2>1, CatType
    <2> QED BY <1>2, <1>3, <2>2, CatType
  <1>5. Len(Pipe(s)) \in Nat
    BY <1>4 DEF Line
  <1>6. Frontier(s) \in Int /\ sent[s] = Frontier(s) + Len(Pipe(s))
    BY <1>2, <1>5 DEF Frontier
  <1> QED BY <1>1, <1>2, <1>3, <1>4, <1>5, <1>6

\* The part of the pipe behind the batch.
Behind(s) == Cat(Cat(PosIn(merged, s), HandSeq(s)), chan[s])

\* The batch holds of s exactly the positions from the frontier to its reach.
LEMMA PipeParts ==
    ASSUME IInv, NEW s \in Sources
    PROVE  /\ Pipe(s) = Cat(PosIn(batch, s), Behind(s)) /\ Behind(s) \in Line
           /\ Frontier(s) \in Nat /\ Reach(s) \in Nat /\ Frontier(s) <= Reach(s) /\ Reach(s) <= sent[s]
           /\ Run(Behind(s), Reach(s)) /\ sent[s] = Reach(s) + Len(Behind(s))
           /\ \A n \in Nat : <<s, n>> \in EventsIn(batch) <=> n \in Frontier(s) + 1 .. Reach(s)
  <1> DEFINE b == PosIn(batch, s)
             rest == Behind(s)
  <1>0. Types /\ SourceInv(s)
    BY DEF IInv
  <1>1. /\ b \in Line /\ PosIn(merged, s) \in Line /\ HandSeq(s) \in Line /\ chan[s] \in Line
        /\ Pipe(s) = Cat(Cat(Cat(b, PosIn(merged, s)), HandSeq(s)), chan[s])
        /\ Frontier(s) \in Int /\ sent[s] = Frontier(s) + Len(Pipe(s)) /\ batch \in Queue
    BY <1>0, PipeTypes DEF Types
  <1>2. Run(Pipe(s), Frontier(s)) /\ Frontier(s) \in Nat
    BY <1>0, <1>1 DEF SourceInv, Types
  <1>3. \A n : <<s, n>> \in EventsIn(batch) <=> \E i \in 1 .. Len(b) : b[i] = n
    BY <1>1, PosElements
  <1> HIDE DEF b
  <1>4. rest \in Line /\ Pipe(s) = Cat(b, rest)
    <2> DEFINE m == PosIn(merged, s)
               h == HandSeq(s)
               c == chan[s]
    <2>1. m \in Line /\ h \in Line /\ c \in Line /\ Pipe(s) = Cat(Cat(Cat(b, m), h), c)
      BY <1>1
    <2>2. rest = Cat(Cat(m, h), c)
      BY DEF Behind
    <2> HIDE DEF m, h, c, rest
    <2>3. Cat(m, h) \in Line /\ Cat(Cat(b, m), h) = Cat(b, Cat(m, h))
      BY <1>1, <2>1, CatType, CatAssoc
    <2>4. rest \in Line /\ Cat(Cat(b, Cat(m, h)), c) = Cat(b, rest)
      BY <1>1, <2>1, <2>2, <2>3, CatType, CatAssoc
    <2> QED BY <2>1, <2>3, <2>4
  <1> HIDE DEF rest
  <1>5. /\ Run(b, Frontier(s)) /\ Run(rest, Frontier(s) + Len(b))
        /\ Len(b) \in Nat /\ Len(rest) \in Nat /\ Len(Pipe(s)) = Len(b) + Len(rest)
    BY <1>1, <1>2, <1>4, RunCat, CatType
  <1>6. Reach(s) = Frontier(s) + Len(b)
    BY DEF Reach, b
  <1>7. Reach(s) \in Nat /\ Frontier(s) <= Reach(s) /\ Reach(s) <= sent[s] /\ sent[s] = Reach(s) + Len(rest)
    BY <1>1, <1>2, <1>5, <1>6
  <1>8. ASSUME NEW n \in Nat
        PROVE  (\E i \in 1 .. Len(b) : b[i] = n) <=> n \in Frontier(s) + 1 .. Reach(s)
    <2>1. ASSUME NEW i \in 1 .. Len(b), b[i] = n PROVE n \in Frontier(s) + 1 .. Reach(s)
      BY <1>2, <1>5, <1>6, <2>1 DEF Run
    <2>2. ASSUME n \in Frontier(s) + 1 .. Reach(s) PROVE \E i \in 1 .. Len(b) : b[i] = n
      <3>1. n - Frontier(s) \in 1 .. Len(b)
        BY <1>2, <1>5, <1>6, <2>2
      <3>2. b[n - Frontier(s)] = n
        BY <1>2, <1>5, <3>1 DEF Run
      <3> QED BY <3>1, <3>2
    <2> QED BY <2>1, <2>2
  <1> QED BY <1>2, <1>3, <1>4, <1>5, <1>6, <1>7, <1>8 DEF b, rest

\* The batch only holds events of the streams, so each step finds its event.
LEMMA BatchTagged ==
    ASSUME IInv PROVE batch \in Seq(Tagged)
  <1>1. batch \in Seq(Tag)
    BY DEF IInv, Types, Queue
  <1>2. ASSUME NEW k \in 1 .. Len(batch) PROVE batch[k] \in Tagged
    <2> DEFINE s == batch[k][1]
               n == batch[k][2]
    <2>1. s \in Sources /\ n \in Nat /\ batch[k] = <<s, n>> /\ batch[k] \in EventsIn(batch)
      BY <1>1 DEF Tag, EventsIn
    <2> HIDE DEF s, n
    <2>2. n \in Frontier(s) + 1 .. Reach(s) /\ Frontier(s) \in Nat /\ Reach(s) \in Nat
          /\ Reach(s) <= sent[s]
      BY <2>1, PipeParts
    <2>3. sent[s] \in Nat /\ sent[s] <= Len(stream[s]) /\ Len(stream[s]) \in Nat
      BY <2>1 DEF IInv, Types, DbTypes
    <2> QED BY <2>1, <2>2, <2>3 DEF Tagged, Positions
  <1> QED BY <1>1, <1>2

\* What a step that settles nothing must leave alone for source s.
KeepsPipe(s) ==
    /\ Pipe(s)' = Pipe(s) /\ sent'[s] = sent[s] /\ base'[s] = base[s]
    /\ Len(PosIn(batch, s)) <= Len(PosIn(batch, s))'
\* It commits and drops nothing.
KeepsDb == cursor' = cursor /\ written' = written /\ dropped' = dropped
\* It leaves the staged cursor of s, clears it, or stages one of the batch.
KeepsWriter(s) == Stageable(batch, s, writer'[s].cursor) \/ writer'[s].cursor = 0
\* A step the ledger does not see.
Quiet == KeepsDb /\ \A s \in Sources : Frontier(s)' = Frontier(s)

\* Such a step preserves the invariant.
LEMMA KeepInv ==
    ASSUME IInv, Types', KeepsDb, \A s \in Sources : KeepsPipe(s) /\ KeepsWriter(s)
    PROVE  IInv' /\ Quiet
  <1>1. ASSUME NEW s \in Sources PROVE Frontier(s)' = Frontier(s)
    BY DEF KeepsPipe, Frontier
  <1>2. ASSUME NEW s \in Sources PROVE SourceInv(s)'
    <2>1. /\ Frontier(s) \in Nat /\ Reach(s) \in Nat /\ Reach(s)' \in Nat /\ Reach(s) <= Reach(s)'
          /\ \A n \in Nat : <<s, n>> \in EventsIn(batch) <=> n \in Frontier(s) + 1 .. Reach(s)
      <3>1. Len(PosIn(batch, s)) \in Nat /\ Len(PosIn(batch, s))' \in Nat
        BY PosInType DEF IInv, Types
      <3> QED BY <1>1, <3>1, PipeParts DEF KeepsPipe, Reach
    <2>2. writer'[s].cursor \in Nat /\ cursor[s] \in Nat /\ writer[s].cursor \in Nat
      BY DEF Types, DbTypes, WriterState, IInv
    <2>3. SourceInv(s)
      BY DEF IInv
    <2>4. StagedInReach(s)'
      <3> SUFFICES ASSUME writer'[s].cursor # 0
                   PROVE  cursor[s] <= writer'[s].cursor /\ writer'[s].cursor <= Reach(s)'
        BY DEF StagedInReach, KeepsDb
      <3>1. CASE writer'[s].cursor = writer[s].cursor
        BY <2>1, <2>2, <2>3, <3>1 DEF SourceInv, StagedInReach
      <3>2. CASE <<s, writer'[s].cursor>> \in EventsIn(batch)
        BY <2>1, <2>2, <2>3, <3>2 DEF SourceInv
      <3> QED BY <3>1, <3>2 DEF KeepsWriter, Stageable
    <2>5. Settled(s, 1)' \in BOOLEAN /\ \A n : Settled(s, n)' = Settled(s, n)
      BY DEF Settled, KeepsDb
    <2> QED BY <1>1, <2>3, <2>4, <2>5 DEF SourceInv, KeepsPipe, KeepsDb
  <1> QED BY <1>1, <1>2 DEF IInv, Quiet

\* A step that moves no event: only the control state and the writers change.
LEMMA StillInv ==
    ASSUME IInv, KeepsDb, rows' = rows, stream' = stream, sent' = sent, base' = base,
           chan' = chan, hand' = hand, merged' = merged, batch' = batch,
           writer' \in [Sources -> WriterState], \A s \in Sources : KeepsWriter(s)
    PROVE  IInv' /\ Quiet
  <1>1. Types'
    BY DEF IInv, Types, DbTypes, KeepsDb
  <1>2. ASSUME NEW s \in Sources PROVE KeepsPipe(s)
    <2>1. Len(PosIn(batch, s)) \in Nat
      BY PosInType DEF IInv, Types
    <2> QED BY <2>1 DEF KeepsPipe, Pipe
  <1> QED BY <1>1, <1>2, KeepInv

\* The writers after an attempt that failed or was cut off.
LEMMA AttemptWriters ==
    ASSUME IInv, NEW tx, TxSound(tx, batch), writer' = tx.writer
    PROVE  writer' \in [Sources -> WriterState] /\ \A s \in Sources : KeepsWriter(s)
  BY DEF TxSound, TxState, KeepsWriter

\* An attempt of flushBatch that fails leaves the writers within reach.
LEMMA FailWriters ==
    ASSUME IInv, FailAttempt(batch)
    PROVE  /\ writer' \in [Sources -> WriterState] /\ \A s \in Sources : KeepsWriter(s)
           /\ UNCHANGED dbVars
  <1>1. batch \in Seq(Tagged) /\ DbTypes
    BY BatchTagged DEF IInv, Types
  <1>2. /\ TxSound(TxAfterAll(batch), batch)
        /\ \A k \in 0 .. Len(Steps(batch)) : TxSound(TxAfter(batch, k), batch)
    BY <1>1, TransactionSound
  <1>3. \E tx : TxSound(tx, batch) /\ writer' = tx.writer
    BY <1>2 DEF FailAttempt
  <1> QED BY <1>3, AttemptWriters DEF FailAttempt

\* Closing channels, stopping, timers and cancellation move nothing.
LEMMA ControlInv ==
    ASSUME IInv,
           \/ \E s \in Sources : AdapterClose(s) \/ MergerStop(s) \/ MergerExit(s)
           \/ CoTimer \/ Cancel \/ CoStop \/ UNCHANGED vars
    PROVE  IInv' /\ Quiet
  <1>1. /\ UNCHANGED <<stream, sent, base, chan, hand, merged, batch, rows, writer>>
        /\ KeepsDb
    BY DEF AdapterClose, MergerStop, MergerExit, CoTimer, Cancel, CoStop, vars, pipeVars, dbVars,
           histVars, KeepsDb
  <1>2. writer' \in [Sources -> WriterState] /\ \A s \in Sources : KeepsWriter(s)
    BY <1>1 DEF IInv, Types, DbTypes, KeepsWriter, Stageable
  <1> QED BY <1>1, <1>2, StillInv

\* Failed and cut-off attempts and the idle pass settle nothing.
LEMMA AttemptInv ==
    ASSUME IInv, FlushRetry \/ FlushSuppressed \/ FinalFail \/ CoTick
    PROVE  IInv' /\ Quiet
  <1>1. UNCHANGED <<stream, sent, base, chan, hand, merged, batch, rows>> /\ KeepsDb
    BY DEF FlushRetry, FlushSuppressed, FinalFail, CoTick, FailAttempt, pipeVars, dbVars, histVars,
           KeepsDb
  <1>2. writer' \in [Sources -> WriterState] /\ \A s \in Sources : KeepsWriter(s)
    <2>1. CASE FlushRetry \/ FinalFail
      BY <2>1, FailWriters DEF FlushRetry, FinalFail
    <2>2. CASE FlushSuppressed
      <3>1. batch \in Seq(Tagged) /\ DbTypes
        BY BatchTagged DEF IInv, Types
      <3>2. \E tx : TxSound(tx, batch) /\ writer' = tx.writer
        BY <2>2, <3>1, TransactionSound DEF FlushSuppressed
      <3> QED BY <3>2, AttemptWriters
    <2>3. CASE CoTick
      <3>1. \A c \in BOOLEAN : /\ [NoBatch EXCEPT !.carry = c] \in WriterState
                               /\ [NoBatch EXCEPT !.carry = c].cursor = 0
        BY DEF NoBatch, WriterState
      <3>2. PICK open : writer' = [s \in Sources |-> IF writer[s].carry
                                       THEN [NoBatch EXCEPT !.carry = s \in open] ELSE writer[s]]
        BY <2>3 DEF CoTick
      <3>3. ASSUME NEW s \in Sources
            PROVE  \/ writer'[s] = writer[s]
                   \/ writer'[s] \in WriterState /\ writer'[s].cursor = 0
        <4>1. (s \in open) \in BOOLEAN
          OBVIOUS
        <4>2. writer'[s] = writer[s] \/ writer'[s] = [NoBatch EXCEPT !.carry = s \in open]
          BY <3>2
        <4> QED BY <3>1, <4>1, <4>2
      <3>4. writer \in [Sources -> WriterState]
        BY DEF IInv, Types, DbTypes
      <3>5. writer' \in [Sources -> WriterState]
        BY <3>2, <3>3, <3>4
      <3>6. \A s \in Sources : KeepsWriter(s)
        BY <3>3 DEF KeepsWriter, Stageable
      <3> QED BY <3>5, <3>6
    <2> QED BY <2>1, <2>2, <2>3
  <1> QED BY <1>1, <1>2, StillInv

\* An adapter sends the next position at the end of the pipe.
LEMMA SendInv ==
    ASSUME IInv, NEW s \in Sources, AdapterSend(s)
    PROVE  IInv' /\ Quiet
  <1>0. Types /\ \A r \in Sources : SourceInv(r)
    BY DEF IInv
  <1>1. /\ sent' = [sent EXCEPT ![s] = @ + 1] /\ chan' = [chan EXCEPT ![s] = Append(@, sent[s] + 1)]
        /\ sent[s] < Len(stream[s])
        /\ UNCHANGED <<stream, base, hand, merged, batch, writer, rows, written, cursor, dropped>>
    BY DEF AdapterSend, dbVars, histVars
  <1>2. Types'
    <2>1. sent[s] + 1 \in Nat /\ sent[s] + 1 <= Len(stream[s])
      BY <1>0, <1>1 DEF Types, DbTypes
    <2>2. Append(chan[s], sent[s] + 1) \in Seq(Nat)
      BY <1>0, <2>1 DEF Types
    <2>3. chan' \in [Sources -> Seq(Nat)]
      BY <1>0, <1>1, <2>2 DEF Types
    <2>4. sent' \in [Sources -> Nat] /\ \A r \in Sources : sent'[r] <= Len(stream[r])
      BY <1>0, <1>1, <2>1 DEF Types
    <2> QED BY <1>0, <1>1, <2>3, <2>4 DEF Types, DbTypes
  <1>3. ASSUME NEW r \in Sources, r # s PROVE Pipe(r)' = Pipe(r) /\ sent'[r] = sent[r]
    BY <1>0, <1>1, <1>3 DEF Types, Pipe
  <1>4. Pipe(s)' = Append(Pipe(s), sent[s] + 1)
    <2> DEFINE f == Cat(Cat(PosIn(batch, s), PosIn(merged, s)), HandSeq(s))
               c == chan[s]
               n == sent[s] + 1
    <2>1. Pipe(s) = Cat(f, c) /\ c \in Line /\ f \in Line
      BY <1>0, PipeTypes, CatType
    <2>2. Pipe(s)' = Cat(f, c')
      BY <1>1, <1>2, PipeTypes DEF HandSeq, Cat, Pipe
    <2>3. c' = Append(c, n) /\ n \in Nat
      BY <1>0, <1>1 DEF Types
    <2> HIDE DEF f, c, n
    <2>4. Append(c, n) = Cat(c, <<n>>) /\ <<n>> \in Line
      BY <2>1, <2>3, CatOne
    <2>5. Cat(f, Cat(c, <<n>>)) = Cat(Cat(f, c), <<n>>)
      BY <2>1, <2>4, CatAssoc
    <2>6. Append(Cat(f, c), n) = Cat(Cat(f, c), <<n>>)
      BY <2>1, <2>3, CatType, CatOne
    <2> QED BY <2>1, <2>2, <2>3, <2>4, <2>5, <2>6 DEF n
  <1>5. /\ Pipe(s) \in Line /\ Len(Pipe(s)) \in Nat /\ Len(Pipe(s)') = Len(Pipe(s)) + 1
        /\ sent[s] \in Nat /\ sent'[s] = sent[s] + 1
    <2>1. Pipe(s) \in Line /\ Len(Pipe(s)) \in Nat
      BY <1>0, PipeTypes
    <2>2. sent[s] \in Nat /\ sent'[s] = sent[s] + 1
      BY <1>0, <1>1 DEF Types
    <2> QED BY <1>4, <2>1, <2>2, CatOne, CatType, AppendProperties DEF Line
  <1>6. \A r \in Sources : Frontier(r)' = Frontier(r)
    BY <1>3, <1>5 DEF Frontier
  <1>7. Run(Pipe(s)', Frontier(s))
    <2>1. Frontier(s) \in Int /\ Run(Pipe(s), Frontier(s)) /\ sent[s] = Frontier(s) + Len(Pipe(s))
      BY <1>0, PipeTypes DEF SourceInv
    <2>2. sent[s] + 1 \in Nat /\ sent[s] + 1 = Frontier(s) + Len(Pipe(s)) + 1
      BY <1>5, <2>1
    <2> DEFINE n == sent[s] + 1
    <2> HIDE DEF n
    <2>3. Run(Append(Pipe(s), n), Frontier(s))
      BY <1>5, <2>1, <2>2, RunAppend DEF n
    <2> QED BY <1>4, <2>3 DEF n
  <1>8. ASSUME NEW r \in Sources PROVE SourceInv(r)'
    <2>1. Run(Pipe(r)', Frontier(r)')
      BY <1>0, <1>3, <1>6, <1>7 DEF SourceInv
    <2>2. Reach(r)' = Reach(r)
      BY <1>1, <1>6 DEF Reach
    <2> QED BY <1>0, <1>1, <1>6, <2>1, <2>2 DEF SourceInv, StagedInReach, Settled
  <1> QED BY <1>1, <1>2, <1>6, <1>8 DEF IInv, Quiet, KeepsDb

\* The pipe of a source none of whose parts changes.
LEMMA PipeSame ==
    ASSUME NEW r \in Sources, PosIn(batch', r) = PosIn(batch, r), PosIn(merged', r) = PosIn(merged, r),
           hand'[r] = hand[r], chan'[r] = chan[r]
    PROVE  Pipe(r)' = Pipe(r)
  <1>1. HandSeq(r)' = HandSeq(r)
    BY DEF HandSeq
  <1>2. /\ Pipe(r) = Cat(Cat(Cat(PosIn(batch, r), PosIn(merged, r)), HandSeq(r)), chan[r])
        /\ Pipe(r)' = Cat(Cat(Cat(PosIn(batch', r), PosIn(merged', r)), HandSeq(r)'), chan'[r])
    BY DEF Pipe, HandSeq, Cat
  <1> QED BY <1>1, <1>2

\* A merger takes the head of its channel; the pipe is the same.
LEMMA RecvInv ==
    ASSUME IInv, NEW s \in Sources, MergerRecv(s)
    PROVE  IInv' /\ Quiet
  <1>0. Types /\ \A r \in Sources : SourceInv(r)
    BY DEF IInv
  <1>1. /\ hand[s] = 0 /\ chan[s] # <<>>
        /\ hand' = [hand EXCEPT ![s] = Head(chan[s])] /\ chan' = [chan EXCEPT ![s] = Tail(@)]
        /\ UNCHANGED <<stream, sent, base, merged, batch, writer, rows, written, cursor, dropped>>
    BY DEF MergerRecv, dbVars, histVars
  <1> DEFINE c == chan[s]
             n == Head(chan[s])
             bm == Cat(PosIn(batch, s), PosIn(merged, s))
  <1>2. c \in Line /\ c # <<>> /\ bm \in Line /\ HandSeq(s) = <<>>
    BY <1>0, <1>1, PipeTypes, CatType DEF HandSeq
  <1>3. c = Cat(<<n>>, Tail(c)) /\ n \in Nat /\ Tail(c) \in Line /\ <<n>> \in Line
    BY <1>2, CatHeadTail, CatOne
  <1>4. Pipe(s) = Cat(Cat(bm, <<>>), c)
    BY <1>2, <1>0, PipeTypes
  <1>5. n # 0
    <2>1. Run(Pipe(s), Frontier(s)) /\ Frontier(s) \in Nat
      BY <1>0, PipeParts DEF SourceInv
    <2> HIDE DEF c, n, bm
    <2>2. Pipe(s) = Cat(bm, c)
      BY <1>2, <1>4, CatEmpty
    <2>3. Run(c, Frontier(s) + Len(bm)) /\ Len(bm) \in Nat
      BY <1>2, <2>1, <2>2, RunCat, CatType
    <2>4. c[1] = Frontier(s) + Len(bm) + 1
      BY <1>2, <2>1, <2>3 DEF Run, Line
    <2>5. n = c[1]
      BY <1>2 DEF n, c, Line
    <2> QED BY <2>1, <2>3, <2>4, <2>5
  <1>6. Types'
    <2>1. hand' \in [Sources -> Nat] /\ chan' \in [Sources -> Seq(Nat)]
      BY <1>0, <1>1, <1>3 DEF Types, Line
    <2> QED BY <1>0, <1>1, <2>1 DEF Types, DbTypes
  <1>7. Pipe(s)' = Cat(Cat(bm, <<n>>), Tail(c))
    <2>1. hand'[s] = n /\ chan'[s] = Tail(c)
      BY <1>0, <1>1 DEF Types
    <2> HIDE DEF n, c
    <2> QED BY <1>1, <1>5, <2>1 DEF Pipe, Cat
  <1>8. Pipe(s)' = Pipe(s)
    <2> HIDE DEF c, n, bm
    <2>1. Cat(Cat(bm, <<n>>), Tail(c)) = Cat(bm, Cat(<<n>>, Tail(c)))
      BY <1>2, <1>3, CatAssoc
    <2> QED BY <1>2, <1>3, <1>4, <1>7, <2>1, CatEmpty
  <1>9. ASSUME NEW r \in Sources PROVE KeepsPipe(r) /\ KeepsWriter(r)
    <2>1. CASE r # s
      <3>1. hand'[r] = hand[r] /\ chan'[r] = chan[r]
        BY <1>0, <1>1, <2>1 DEF Types
      <3>2. Pipe(r)' = Pipe(r)
        BY <1>1, <3>1, PipeSame
      <3> QED BY <1>0, <1>1, <3>2, PosInType DEF KeepsPipe, KeepsWriter, Stageable, Types
    <2>2. CASE r = s
      BY <1>0, <1>1, <1>8, <2>2, PosInType DEF KeepsPipe, KeepsWriter, Stageable, Types
    <2> QED BY <2>1, <2>2
  <1> QED BY <1>1, <1>6, <1>9, KeepInv DEF KeepsDb

\* A merger forwards the event in its hand; the pipe is the same.
LEMMA ForwardInv ==
    ASSUME IInv, NEW s \in Sources, MergerForward(s)
    PROVE  IInv' /\ Quiet
  <1>0. Types
    BY DEF IInv
  <1>1. /\ hand[s] # 0 /\ hand' = [hand EXCEPT ![s] = 0] /\ merged' = Append(merged, <<s, hand[s]>>)
        /\ UNCHANGED <<stream, sent, base, chan, batch, writer, rows, written, cursor, dropped>>
    BY DEF MergerForward, dbVars, histVars
  <1> DEFINE n == hand[s]
             b == PosIn(batch, s)
             m == PosIn(merged, s)
             c == chan[s]
  <1>2. n \in Nat /\ b \in Line /\ m \in Line /\ c \in Line /\ <<s, n>> \in Tag /\ merged \in Queue
    BY <1>0, PipeTypes DEF Types, Tag
  <1>3. \A r \in Sources : PosIn(merged', r) = IF r = s THEN Append(m, n) ELSE PosIn(merged, r)
    BY <1>1, <1>2, PosAppend
  <1>4. Types'
    <2>1. merged' \in Queue
      BY <1>1, <1>2 DEF Queue
    <2>2. hand' \in [Sources -> Nat]
      BY <1>0, <1>1 DEF Types
    <2> QED BY <1>0, <1>1, <2>1, <2>2 DEF Types, DbTypes
  <1>5. Pipe(s) = Cat(Cat(Cat(b, m), <<n>>), c)
    BY <1>1 DEF Pipe, Cat
  <1>6. Pipe(s)' = Cat(Cat(Cat(b, Append(m, n)), <<>>), c)
    <2>1. hand'[s] = 0 /\ PosIn(merged', s) = Append(m, n)
      BY <1>0, <1>1, <1>3 DEF Types
    <2> QED BY <1>1, <2>1 DEF Pipe, Cat
  <1>7. Pipe(s)' = Pipe(s)
    <2> HIDE DEF n, b, m, c
    <2>1. Append(m, n) = Cat(m, <<n>>) /\ <<n>> \in Line
      BY <1>2, CatOne
    <2>2. Cat(b, Cat(m, <<n>>)) = Cat(Cat(b, m), <<n>>) /\ Cat(Cat(b, m), <<n>>) \in Line
      BY <1>2, <2>1, CatAssoc, CatType
    <2> QED BY <1>5, <1>6, <2>1, <2>2, CatEmpty
  <1>8. ASSUME NEW r \in Sources PROVE KeepsPipe(r) /\ KeepsWriter(r)
    <2>1. CASE r # s
      <3>1. hand'[r] = hand[r] /\ PosIn(merged', r) = PosIn(merged, r)
        BY <1>0, <1>1, <1>3, <2>1 DEF Types
      <3>2. Pipe(r)' = Pipe(r)
        BY <1>1, <3>1, PipeSame
      <3> QED BY <1>0, <1>1, <3>2, PosInType DEF KeepsPipe, KeepsWriter, Stageable, Types
    <2>2. CASE r = s
      BY <1>0, <1>1, <1>7, <2>2, PosInType DEF KeepsPipe, KeepsWriter, Stageable, Types
    <2> QED BY <2>1, <2>2
  <1> QED BY <1>1, <1>4, <1>8, KeepInv DEF KeepsDb

\* The coalescer takes the head of the merged channel; the pipe is the same.
LEMMA ReceiveInv ==
    ASSUME IInv, CoReceive
    PROVE  IInv' /\ Quiet
  <1>0. Types
    BY DEF IInv
  <1> DEFINE e == Head(merged)
             one == <<e>>
             rest == Tail(merged)
  <1>1. /\ merged # <<>> /\ batch' = Append(batch, e) /\ merged' = rest
        /\ UNCHANGED <<stream, sent, base, chan, hand, writer, rows, written, cursor, dropped>>
    BY DEF CoReceive, pipeVars, dbVars, histVars
  <1>2. merged \in Queue /\ batch \in Queue
    BY <1>0 DEF Types
  <1>3. /\ merged = one \o rest /\ e \in Tag /\ rest \in Queue /\ one \in Queue
        /\ Append(batch, e) = batch \o one
    <2>1. Len(merged) \in Nat \ {0} /\ merged \in Seq(Tag) /\ batch \in Seq(Tag)
      BY <1>1, <1>2 DEF Queue
    <2>2. merged = <<merged[1]>> \o SubSeq(merged, 2, Len(merged))
      BY <2>1, SubSeqRecursiveFirst, SubSeqFull
    <2>3. e = merged[1] /\ rest = SubSeq(merged, 2, Len(merged))
      BY <1>1, <2>1, TailIsSubSeq
    <2>4. e \in Tag /\ rest \in Seq(Tag)
      BY <1>1, <2>1, HeadTailProperties
    <2> HIDE DEF e, rest
    <2>5. one \in Seq(Tag) /\ Append(batch, e) = batch \o one
      BY <2>1, <2>4, AppendIsConcat
    <2> QED BY <2>2, <2>3, <2>4, <2>5 DEF Queue
  <1> HIDE DEF e, one, rest
  <1>4. Types'
    <2>1. batch' \in Queue /\ merged' \in Queue
      BY <1>1, <1>2, <1>3, PosCat
    <2> QED BY <1>0, <1>1, <2>1 DEF Types, DbTypes
  <1>5. ASSUME NEW r \in Sources PROVE KeepsPipe(r) /\ KeepsWriter(r)
    <2> DEFINE b == PosIn(batch, r)
               x == PosIn(one, r)
               m == PosIn(rest, r)
               h == HandSeq(r)
               c == chan[r]
    <2>1. b \in Line /\ x \in Line /\ m \in Line /\ h \in Line /\ c \in Line
      BY <1>0, <1>2, <1>3, PosLine, PipeTypes
    <2>2. PosIn(batch', r) = Cat(b, x) /\ PosIn(merged', r) = m /\ PosIn(merged, r) = Cat(x, m)
      BY <1>1, <1>2, <1>3, PosCat
    <2>3. HandSeq(r)' = h /\ chan'[r] = c
      BY <1>1 DEF HandSeq
    <2>4. /\ Pipe(r) = Cat(Cat(Cat(b, PosIn(merged, r)), h), c)
          /\ Pipe(r)' = Cat(Cat(Cat(PosIn(batch', r), PosIn(merged', r)), HandSeq(r)'), chan'[r])
      BY DEF Pipe, HandSeq, Cat
    <2>5. Len(b) <= Len(PosIn(batch', r))
      <3> HIDE DEF b, x
      <3> QED BY <2>1, <2>2, CatType
    <2>6. Pipe(r)' = Pipe(r)
      <3> HIDE DEF b, x, m, h, c
      <3> QED BY <2>1, <2>2, <2>3, <2>4, CatAssoc
    <2> QED BY <1>1, <2>5, <2>6 DEF KeepsPipe, KeepsWriter, Stageable
  <1> QED BY <1>1, <1>4, <1>5, KeepInv DEF KeepsDb

\* The shutdown drain takes the whole merged channel; the pipe is the same.
LEMMA DrainInv ==
    ASSUME IInv, CoDrain
    PROVE  IInv' /\ Quiet
  <1>0. Types
    BY DEF IInv
  <1>1. /\ batch' = batch \o merged /\ merged' = <<>>
        /\ UNCHANGED <<stream, sent, base, chan, hand, writer, rows, written, cursor, dropped>>
    BY DEF CoDrain, pipeVars, dbVars, histVars
  <1>2. merged \in Queue /\ batch \in Queue
    BY <1>0 DEF Types
  <1>3. Types'
    <2>1. batch' \in Queue /\ merged' \in Queue
      BY <1>1, <1>2, PosCat DEF Queue
    <2> QED BY <1>0, <1>1, <2>1 DEF Types, DbTypes
  <1>4. ASSUME NEW r \in Sources PROVE KeepsPipe(r) /\ KeepsWriter(r)
    <2> DEFINE b == PosIn(batch, r)
               m == PosIn(merged, r)
               h == HandSeq(r)
               c == chan[r]
    <2>1. b \in Line /\ m \in Line /\ h \in Line /\ c \in Line
      BY <1>0, PipeTypes
    <2>2. PosIn(batch', r) = Cat(b, m) /\ PosIn(merged', r) = <<>>
      BY <1>1, <1>2, PosCat, PosEmpty
    <2>3. HandSeq(r)' = h /\ chan'[r] = c
      BY <1>1 DEF HandSeq
    <2>4. /\ Pipe(r) = Cat(Cat(Cat(b, m), h), c)
          /\ Pipe(r)' = Cat(Cat(Cat(PosIn(batch', r), PosIn(merged', r)), HandSeq(r)'), chan'[r])
      BY DEF Pipe, HandSeq, Cat
    <2>5. Len(b) <= Len(PosIn(batch', r))
      <3> HIDE DEF b, m
      <3> QED BY <2>1, <2>2, CatType
    <2>6. Pipe(r)' = Pipe(r)
      <3> HIDE DEF b, m, h, c
      <3> QED BY <2>1, <2>2, <2>3, <2>4, CatType, CatEmpty
    <2> QED BY <1>1, <2>5, <2>6 DEF KeepsPipe, KeepsWriter, Stageable
  <1> QED BY <1>1, <1>3, <1>4, KeepInv DEF KeepsDb

-----------------------------------------------------------------------------
\* The end of a flush that empties the batch, committed or dropped: the
\* frontier of every source moves to the end of what the batch held of it.
LEMMA SettleInv ==
    ASSUME IInv, batch' = <<>>, UNCHANGED <<stream, sent, base, chan, hand, merged>>,
           DbTypes', dropped' \subseteq Tag,
           written \cup dropped \cup EventsIn(batch) \subseteq written' \cup dropped',
           \A s \in Sources : cursor'[s] <= Reach(s),
           \A s \in Sources : writer'[s].cursor # 0 =>
                 cursor'[s] <= writer'[s].cursor /\ writer'[s].cursor <= Reach(s)
    PROVE  IInv' /\ \A s \in Sources : Frontier(s)' = Reach(s)
  <1>0. Types /\ \A r \in Sources : SourceInv(r)
    BY DEF IInv
  <1>1. Types'
    BY <1>0 DEF Types, Queue
  <1>2. ASSUME NEW s \in Sources PROVE Pipe(s)' = Behind(s)
    <2> DEFINE m == PosIn(merged, s)
               h == HandSeq(s)
               c == chan[s]
    <2>1. m \in Line /\ h \in Line /\ c \in Line
      BY <1>0, PipeTypes
    <2>2. /\ PosIn(batch', s) = <<>> /\ PosIn(merged', s) = m /\ HandSeq(s)' = h /\ chan'[s] = c
          /\ Behind(s) = Cat(Cat(m, h), c)
      BY PosEmpty DEF HandSeq, Behind
    <2>3. Pipe(s)' = Cat(Cat(Cat(PosIn(batch', s), PosIn(merged', s)), HandSeq(s)'), chan'[s])
      BY DEF Pipe, HandSeq, Cat
    <2> HIDE DEF m, h, c
    <2> QED BY <2>1, <2>2, <2>3, CatEmpty
  <1>3. ASSUME NEW s \in Sources
        PROVE  Frontier(s)' = Reach(s) /\ Reach(s)' = Reach(s) /\ Run(Pipe(s)', Frontier(s)')
    <2>1. /\ Behind(s) \in Line /\ Reach(s) \in Nat /\ Run(Behind(s), Reach(s))
          /\ sent[s] = Reach(s) + Len(Behind(s))
      BY PipeParts
    <2>2. Len(Behind(s)) \in Nat
      BY <2>1 DEF Line
    <2>3. Frontier(s)' = Reach(s)
      <3>1. Frontier(s)' = sent[s] - Len(Behind(s))
        BY <1>2 DEF Frontier
      <3> QED BY <2>1, <2>2, <3>1
    <2>4. Len(PosIn(batch', s)) = 0
      BY PosEmpty
    <2>5. Reach(s)' = Reach(s)
      <3>1. Reach(s)' = Frontier(s)' + Len(PosIn(batch', s))
        BY DEF Reach
      <3> QED BY <2>1, <2>3, <2>4, <3>1
    <2> QED BY <1>2, <2>1, <2>3, <2>5
  <1>4. ASSUME NEW s \in Sources PROVE SourceInv(s)'
    <2>1. /\ Frontier(s) \in Nat /\ Reach(s) \in Nat /\ Frontier(s) <= Reach(s)
          /\ \A n \in Nat : <<s, n>> \in EventsIn(batch) <=> n \in Frontier(s) + 1 .. Reach(s)
      BY PipeParts
    <2>2. base[s] \in Nat /\ base[s] <= Reach(s)
      BY <1>0, <2>1 DEF Types, SourceInv
    <2>3. ASSUME NEW n \in 1 .. Reach(s) PROVE Settled(s, n)'
      <3>1. CASE n \in 1 .. Frontier(s)
        BY <1>0, <3>1 DEF SourceInv, Settled
      <3>2. CASE n \in Frontier(s) + 1 .. Reach(s)
        BY <2>1, <3>2 DEF Settled
      <3> QED BY <2>1, <3>1, <3>2
    <2> QED BY <1>3, <2>2, <2>3 DEF SourceInv, StagedInReach
  <1> QED BY <1>1, <1>3, <1>4 DEF IInv

\* A committed batch settles what it held; the new cursors stay within reach.
LEMMA CommitInv ==
    ASSUME IInv, CommitBatch(batch), batch' = <<>>, dropped' = dropped,
           UNCHANGED <<stream, sent, base, chan, hand, merged>>
    PROVE  /\ IInv' /\ \A s \in Sources : Frontier(s)' = Reach(s) /\ cursor[s] <= cursor'[s]
           /\ \A s \in Sources : cursor'[s] <= Reach(s)
           /\ written' = written \cup EventsIn(batch)
  <1>0. Types /\ DbTypes /\ \A r \in Sources : SourceInv(r)
    BY DEF IInv, Types
  <1> DEFINE tx == TxAfterAll(batch)
  <1>1. TxSound(tx, batch) /\ (tx.err = "none" => tx.written = written \cup EventsIn(batch))
    BY <1>0, BatchTagged, TransactionSound
  <1> HIDE DEF tx
  <1>2. /\ tx.err = "none" /\ rows' = tx.rows /\ written' = tx.written /\ cursor' = tx.cursor
        /\ \E open : writer' = [s \in Sources |-> IF s \in SourcesIn(batch)
                                     THEN [NoBatch EXCEPT !.carry = s \in open] ELSE writer[s]]
    BY DEF CommitBatch, tx
  <1>3. PICK open : writer' = [s \in Sources |-> IF s \in SourcesIn(batch)
                                     THEN [NoBatch EXCEPT !.carry = s \in open] ELSE writer[s]]
    BY <1>2
  <1>4. \A c \in BOOLEAN : /\ [NoBatch EXCEPT !.carry = c] \in WriterState
                           /\ [NoBatch EXCEPT !.carry = c].cursor = 0
    BY DEF NoBatch, WriterState
  <1>5. ASSUME NEW s \in Sources
        PROVE  /\ writer'[s] \in WriterState
               /\ s \in SourcesIn(batch) => writer'[s].cursor = 0
               /\ s \notin SourcesIn(batch) => writer'[s] = writer[s]
    <2>1. (s \in open) \in BOOLEAN
      OBVIOUS
    <2>2. writer[s] \in WriterState
      BY <1>0 DEF DbTypes
    <2> QED BY <1>3, <1>4, <2>1, <2>2
  <1>6. written' = written \cup EventsIn(batch)
    BY <1>1, <1>2
  <1>7. DbTypes'
    <2>1. writer' \in [Sources -> WriterState]
      BY <1>3, <1>5
    <2>2. cursor' \in [Sources -> Nat] /\ rows' \subseteq Sources \X Parents /\ written' \subseteq Tag
      BY <1>1, <1>2 DEF TxSound, TxState
    <2> QED BY <1>0, <2>1, <2>2 DEF DbTypes
  <1>8. ASSUME NEW s \in Sources
        PROVE  /\ cursor[s] <= cursor'[s] /\ cursor'[s] <= Reach(s)
               /\ s \notin SourcesIn(batch) => cursor'[s] = cursor[s]
    <2>1. /\ Frontier(s) \in Nat /\ Reach(s) \in Nat /\ Frontier(s) <= Reach(s)
          /\ \A n \in Nat : <<s, n>> \in EventsIn(batch) <=> n \in Frontier(s) + 1 .. Reach(s)
      BY PipeParts
    <2>2. /\ cursor[s] \in Nat /\ cursor'[s] \in Nat /\ writer[s].cursor \in Nat
          /\ cursor[s] <= Frontier(s) /\ StagedInReach(s)
      BY <1>0, <1>7 DEF DbTypes, SourceInv, WriterState
    <2>3. \/ cursor'[s] = cursor[s]
          \/ s \in SourcesIn(batch) /\ cursor'[s] # 0 /\ Stageable(batch, s, cursor'[s])
      BY <1>1, <1>2 DEF TxSound
    <2> QED BY <2>1, <2>2, <2>3 DEF Stageable, StagedInReach
  <1>9. ASSUME NEW s \in Sources, writer'[s].cursor # 0
        PROVE  cursor'[s] <= writer'[s].cursor /\ writer'[s].cursor <= Reach(s)
    BY <1>0, <1>5, <1>8, <1>9 DEF SourceInv, StagedInReach
  <1>10. /\ dropped' \subseteq Tag
         /\ written \cup dropped \cup EventsIn(batch) \subseteq written' \cup dropped'
    BY <1>0, <1>6 DEF Types
  <1>11. IInv' /\ \A s \in Sources : Frontier(s)' = Reach(s)
    BY <1>7, <1>8, <1>9, <1>10, SettleInv
  <1> QED BY <1>6, <1>8, <1>11

\* So does a dropped batch, which leaves the database alone.
LEMMA DropInv ==
    ASSUME IInv, FlushDrop
    PROVE  /\ IInv' /\ \A s \in Sources : Frontier(s)' = Reach(s)
           /\ dropped' = dropped \cup EventsIn(batch) /\ cursor' = cursor /\ written' = written
  <1>0. Types /\ \A r \in Sources : SourceInv(r)
    BY DEF IInv
  <1>1. /\ FailAttempt(batch) /\ batch' = <<>> /\ dropped' = dropped \cup EventsIn(batch)
        /\ UNCHANGED <<stream, sent, base, chan, hand, merged>>
    BY DEF FlushDrop, pipeVars
  <1>2. /\ writer' \in [Sources -> WriterState] /\ \A s \in Sources : KeepsWriter(s)
        /\ rows' = rows /\ written' = written /\ cursor' = cursor
    BY <1>1, FailWriters DEF dbVars
  <1>3. DbTypes' /\ dropped' \subseteq Tag
    <2>1. EventsIn(batch) \subseteq Tag
      BY <1>0 DEF Types, Queue, EventsIn
    <2> QED BY <1>0, <1>1, <1>2, <2>1 DEF Types, DbTypes
  <1>4. ASSUME NEW s \in Sources
        PROVE  /\ cursor'[s] <= Reach(s)
               /\ writer'[s].cursor # 0 =>
                     cursor'[s] <= writer'[s].cursor /\ writer'[s].cursor <= Reach(s)
    <2>1. /\ Frontier(s) \in Nat /\ Reach(s) \in Nat /\ Frontier(s) <= Reach(s)
          /\ \A n \in Nat : <<s, n>> \in EventsIn(batch) <=> n \in Frontier(s) + 1 .. Reach(s)
      BY PipeParts
    <2>2. /\ cursor[s] \in Nat /\ writer'[s].cursor \in Nat /\ writer[s].cursor \in Nat
          /\ cursor[s] <= Frontier(s) /\ StagedInReach(s)
      BY <1>0, <1>2 DEF Types, DbTypes, SourceInv, WriterState
    <2>3. Stageable(batch, s, writer'[s].cursor) \/ writer'[s].cursor = 0
      BY <1>2 DEF KeepsWriter
    <2> QED BY <1>2, <2>1, <2>2, <2>3 DEF Stageable, StagedInReach
  <1> QED BY <1>1, <1>2, <1>3, <1>4, SettleInv

\* A restart goes back to the committed cursors, all of them settled.
LEMMA RestartInv ==
    ASSUME IInv, Restart
    PROVE  /\ IInv' /\ \A s \in Sources : Frontier(s)' = cursor[s]
           /\ cursor' = cursor /\ written' = written /\ dropped' = dropped
  <1>0. Types /\ \A r \in Sources : SourceInv(r)
    BY DEF IInv
  <1>1. /\ sent' = cursor /\ base' = cursor /\ chan' = [s \in Sources |-> <<>>]
        /\ hand' = [s \in Sources |-> 0] /\ merged' = <<>> /\ batch' = <<>>
        /\ writer' = [s \in Sources |-> NoBatch]
        /\ UNCHANGED <<stream, rows, written, cursor, dropped>>
    BY DEF Restart, dbVars
  <1>2. ASSUME NEW s \in Sources
        PROVE  /\ Pipe(s)' = <<>> /\ Frontier(s)' = cursor[s] /\ cursor[s] \in Nat
               /\ cursor[s] <= Len(stream[s]) /\ cursor[s] <= Frontier(s) /\ Frontier(s) \in Nat
    <2>1. PosIn(batch', s) = <<>> /\ PosIn(merged', s) = <<>> /\ hand'[s] = 0 /\ chan'[s] = <<>>
      BY <1>1, PosEmpty
    <2>2. Pipe(s)' = Cat(Cat(Cat(PosIn(batch', s), PosIn(merged', s)), HandSeq(s)'), chan'[s])
      BY DEF Pipe, HandSeq, Cat
    <2>3. HandSeq(s)' = <<>> /\ <<>> \in Line
      BY <2>1 DEF HandSeq, Line
    <2>4. Pipe(s)' = <<>>
      BY <2>1, <2>2, <2>3, CatEmpty
    <2>5. cursor[s] \in Nat /\ cursor[s] <= Frontier(s)
      BY <1>0 DEF Types, DbTypes, SourceInv
    <2>6. Frontier(s)' = cursor[s]
      <3>1. Frontier(s)' = cursor[s] - Len(<<>>)
        BY <1>1, <2>4 DEF Frontier
      <3> QED BY <2>5, <3>1
    <2>7. /\ Frontier(s) \in Nat /\ Reach(s) \in Nat /\ Reach(s) <= sent[s] /\ Frontier(s) <= Reach(s)
      BY PipeParts
    <2>8. sent[s] \in Nat /\ sent[s] <= Len(stream[s]) /\ Len(stream[s]) \in Nat
      BY <1>0 DEF Types, DbTypes
    <2> QED BY <2>4, <2>5, <2>6, <2>7, <2>8
  <1>3. NoBatch \in WriterState /\ NoBatch.cursor = 0
    BY DEF NoBatch, WriterState
  <1>4. Types'
    BY <1>0, <1>1, <1>2, <1>3 DEF Types, DbTypes, Queue
  <1>5. ASSUME NEW s \in Sources PROVE SourceInv(s)'
    <2>1. Run(Pipe(s)', Frontier(s)')
      BY <1>2 DEF Run
    <2>2. writer'[s].cursor = 0 /\ base'[s] = cursor[s]
      BY <1>1, <1>3
    <2>3. \A n \in 1 .. cursor[s] : Settled(s, n)'
      BY <1>0, <1>1, <1>2 DEF SourceInv, Settled
    <2> QED BY <1>1, <1>2, <2>1, <2>2, <2>3 DEF SourceInv, StagedInReach
  <1> QED BY <1>1, <1>2, <1>4, <1>5 DEF IInv

-----------------------------------------------------------------------------
\* The invariant holds initially.
LEMMA InitInv == Init => IInv
  <1> SUFFICES ASSUME Init PROVE IInv
    OBVIOUS
  <1>1. NoBatch \in WriterState /\ NoBatch.cursor = 0
    BY DEF NoBatch, WriterState
  <1>2. stream \in [Sources -> Seq(Event)]
    BY ConstantsAssumption DEF Init
  <1>3. Types
    BY <1>1, <1>2 DEF Init, Types, DbTypes, Queue, Tag
  <1>4. ASSUME NEW s \in Sources PROVE SourceInv(s)
    <2>1. /\ PosIn(batch, s) = <<>> /\ PosIn(merged, s) = <<>> /\ HandSeq(s) = <<>> /\ chan[s] = <<>>
          /\ <<>> \in Line
      BY PosEmpty DEF Init, HandSeq, Line
    <2>2. Pipe(s) = Cat(Cat(Cat(PosIn(batch, s), PosIn(merged, s)), HandSeq(s)), chan[s])
      BY DEF Pipe, HandSeq, Cat
    <2>3. Pipe(s) = <<>>
      BY <2>1, <2>2, CatEmpty
    <2>4. Frontier(s) = 0
      BY <2>3 DEF Frontier, Init
    <2> QED BY <1>1, <2>3, <2>4 DEF Init, SourceInv, Run, StagedInReach
  <1> QED BY <1>3, <1>4 DEF IInv

\* The four kinds of steps of the write path.
Commits == FlushCommit \/ FinalCommit

\* All other steps but a drop and a restart are quiet.
LEMMA QuietSteps ==
    ASSUME IInv, [Next]_vars, ~Commits, ~FlushDrop, ~Restart
    PROVE  IInv' /\ Quiet
  <1>1. CASE \E s \in Sources : AdapterSend(s)
    BY <1>1, SendInv
  <1>2. CASE \E s \in Sources : MergerRecv(s)
    BY <1>2, RecvInv
  <1>3. CASE \E s \in Sources : MergerForward(s)
    BY <1>3, ForwardInv
  <1>4. CASE \/ \E s \in Sources : AdapterClose(s) \/ MergerStop(s) \/ MergerExit(s)
             \/ CoTimer \/ Cancel \/ CoStop \/ UNCHANGED vars
    BY <1>4, ControlInv
  <1>5. CASE FlushRetry \/ FlushSuppressed \/ FinalFail \/ CoTick
    BY <1>5, AttemptInv
  <1>6. CASE CoReceive
    BY <1>6, ReceiveInv
  <1>7. CASE CoDrain
    BY <1>7, DrainInv
  <1> QED BY <1>1, <1>2, <1>3, <1>4, <1>5, <1>6, <1>7 DEF Next, CoStep, Merger, Commits

\* CommitInv for the two actions that commit.
LEMMA CommitSteps ==
    ASSUME IInv, Commits
    PROVE  /\ IInv' /\ \A s \in Sources : Frontier(s)' = Reach(s) /\ cursor[s] <= cursor'[s]
           /\ \A s \in Sources : cursor'[s] <= Reach(s)
           /\ written' = written \cup EventsIn(batch) /\ dropped' = dropped
  <1>1. /\ CommitBatch(batch) /\ batch' = <<>> /\ dropped' = dropped
        /\ UNCHANGED <<stream, sent, base, chan, hand, merged>>
    BY DEF Commits, FlushCommit, FinalCommit, pipeVars, histVars
  <1> QED BY <1>1, CommitInv

\* Every step preserves the invariant.
LEMMA NextInv == IInv /\ [Next]_vars => IInv'
  BY QuietSteps, CommitSteps, DropInv, RestartInv

\* The invariant implies both safety properties.
LEMMA SafetyInv == IInv => NothingLostInOrder /\ CursorCovered
  <1> SUFFICES ASSUME IInv, NEW s \in Sources
               PROVE  /\ Pipe(s) = [k \in 1 .. Len(Pipe(s)) |-> Frontier(s) + k]
                      /\ Frontier(s) >= base[s]
                      /\ \A n \in base[s] + 1 .. Frontier(s) : Settled(s, n)
                      /\ \A n \in 1 .. cursor[s] : Settled(s, n)
    BY DEF NothingLostInOrder, CursorCovered
  <1>1. SourceInv(s) /\ Types
    BY DEF IInv
  <1>2. Pipe(s) \in Seq(Nat) /\ Frontier(s) \in Nat
    BY <1>1, PipeTypes, PipeParts DEF Line
  <1>3. base[s] \in Nat /\ cursor[s] \in Nat
    BY <1>1 DEF Types, DbTypes
  <1>4. Pipe(s) = [k \in 1 .. Len(Pipe(s)) |-> Frontier(s) + k]
    <2> DEFINE q == Pipe(s)
    <2> HIDE DEF q
    <2>1. q \in Seq(Nat) /\ \A k \in 1 .. Len(q) : q[k] = Frontier(s) + k
      BY <1>1, <1>2 DEF SourceInv, Run, q
    <2>2. q = [k \in 1 .. Len(q) |-> q[k]]
      BY <2>1
    <2> QED BY <2>1, <2>2 DEF q
  <1> QED BY <1>1, <1>2, <1>3, <1>4 DEF SourceInv

\* The invariant holds throughout.
LEMMA InvariantHolds == Spec => []IInv
  BY InitInv, NextInv, PTL DEF Spec

\* register: "Never drop - a dropped event is data loss": for every set of
\* sources and streams, every channel and batch size and every number of
\* failures, retries and restarts, the pipeline of a source holds exactly the
\* events sent and not yet written or given up with their batch, once each and
\* in order.
THEOREM NothingIsLost == Spec => []NothingLostInOrder
  BY InvariantHolds, SafetyInv, PTL

\* upsertSourceProgress inside the transaction: for every number of sources,
\* every capacity, batch size and number of failures and restarts, the committed
\* cursor covers only settled events, though staged cursors outlive the attempts
\* and even the batches that staged them.
THEOREM CursorsAreCovered == Spec => []CursorCovered
  BY InvariantHolds, SafetyInv, PTL

-----------------------------------------------------------------------------
\* The events of a flushed batch are those the ledger settles.
LEMMA BatchIsAdvance ==
    ASSUME IInv, \A s \in Sources : Frontier(s)' = Reach(s)
    PROVE  Ledger!Advance = EventsIn(batch) /\ Ledger!Forward
  <1>1. ASSUME NEW s \in Sources
        PROVE  /\ Frontier(s) \in Nat /\ Reach(s) \in Nat /\ Frontier(s) <= Reach(s)
               /\ \A n \in Nat : <<s, n>> \in EventsIn(batch) <=> n \in Frontier(s) + 1 .. Reach(s)
    BY PipeParts
  <1>2. \A e \in EventsIn(batch) : e[1] \in Sources /\ e[2] \in Nat /\ e = <<e[1], e[2]>>
    <2>1. batch \in Seq(Tag)
      BY DEF IInv, Types, Queue
    <2> QED BY <2>1 DEF Tag, EventsIn
  <1>3. Ledger!Advance = UNION {{s} \X (Frontier(s) + 1 .. Reach(s)) : s \in Sources}
    BY DEF Ledger!Advance
  <1>4. Ledger!Forward
    BY <1>1 DEF Ledger!Forward
  <1>5. UNION {{s} \X (Frontier(s) + 1 .. Reach(s)) : s \in Sources} = EventsIn(batch)
    BY <1>1, <1>2
  <1> QED BY <1>3, <1>4, <1>5

\* Every step is a step of the ledger or a stutter.
LEMMA StepRefines == IInv /\ [Next]_vars => [Ledger!Next]_(Ledger!ledger)
  <1> SUFFICES ASSUME IInv, [Next]_vars PROVE [Ledger!Next]_(Ledger!ledger)
    OBVIOUS
  <1>1. CASE Commits
    <2>1. Ledger!Commit
      BY <1>1, CommitSteps, BatchIsAdvance DEF Ledger!Commit
    <2> QED BY <2>1 DEF Ledger!Next
  <1>2. CASE FlushDrop
    <2>1. Ledger!Drop
      BY <1>2, DropInv, BatchIsAdvance DEF Ledger!Drop
    <2> QED BY <2>1 DEF Ledger!Next
  <1>3. CASE Restart
    <2>1. Ledger!Restart
      BY <1>3, RestartInv DEF Ledger!Restart, IInv, Types, DbTypes
    <2> QED BY <2>1 DEF Ledger!Next
  <1>4. CASE ~Commits /\ ~FlushDrop /\ ~Restart
    <2>1. Quiet
      BY <1>4, QuietSteps
    <2> QED BY <2>1 DEF Quiet, KeepsDb, Ledger!ledger
  <1> QED BY <1>1, <1>2, <1>3, <1>4

\* The initial states are those of the ledger.
LEMMA InitRefines == Init => Ledger!Init
  <1> SUFFICES ASSUME Init PROVE Ledger!Init
    OBVIOUS
  <1>1. ASSUME NEW s \in Sources PROVE Frontier(s) = 0
    <2>1. /\ PosIn(batch, s) = <<>> /\ PosIn(merged, s) = <<>> /\ HandSeq(s) = <<>> /\ chan[s] = <<>>
          /\ <<>> \in Line
      BY PosEmpty DEF Init, HandSeq, Line
    <2>2. Pipe(s) = Cat(Cat(Cat(PosIn(batch, s), PosIn(merged, s)), HandSeq(s)), chan[s])
      BY DEF Pipe, HandSeq, Cat
    <2>3. Pipe(s) = <<>>
      BY <2>1, <2>2, CatEmpty
    <2> QED BY <2>3 DEF Frontier, Init
  <1> QED BY <1>1 DEF Init, Ledger!Init

\* The write path implements the in-order, at-least-once ledger: commits and
\* drops settle the next events of each source, in order and without gaps, and a
\* restart resumes from the committed cursors.
THEOREM ImplementsLedger == Spec => LedgerSpec
  BY InvariantHolds, InitRefines, StepRefines, PTL DEF Spec, LedgerSpec, Ledger!Spec
==============================================================================
