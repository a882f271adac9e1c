----------------------------- MODULE ParityProofs -----------------------------
(***************************************************************************)
(* Proofs about the parity checker, for any artifacts, matrix, number of   *)
(* rows and finding cap, and for any tree, number of changes and number of *)
(* runs.                                                                   *)
(*                                                                         *)
(* ParityDiff.  While rows are written, what the findings table holds is   *)
(* an interleaving of what the two sides' validations give: as many        *)
(* findings, and each as often (Gathered).  When the result is taken, the  *)
(* duplicate and comparison findings follow (Following), and the result is *)
(* the accumulator over all of them (DiffInv).  An accumulator's state and *)
(* total do not depend on the order nor on the cap (AccumulateIs), so both *)
(* engines agree; and manifests without validation and duplicate findings  *)
(* compare clean exactly when they agree (CleanCompare), so the verdict is *)
(* exact (VerdictIs).                                                      *)
(*                                                                         *)
(* ParityCheck.  The verdict is about a tree that moved while it was read. *)
(* CheckInv ties each stage to the fingerprint: while a captured file will *)
(* still verify (Steady), or once it has (Sure), what the extractors read  *)
(* of it is what was hashed (SrcOk, CanOk); an mtime never comes back      *)
(* (StampOk, PrintOk), so a file that verifies at the end was the same all *)
(* along.                                                                  *)
(***************************************************************************)
EXTENDS ParityDiff, ParityCheck, CountingLemmas, FiniteSetTheorems, SequenceTheorems

-----------------------------------------------------------------------------
(* Sequences of findings.                                                   *)

LEMMA MembersOf ==
    ASSUME NEW F, NEW s \in Seq(F), NEW t \in Seq(F)
    PROVE  /\ s \o t \in Seq(F) /\ Len(s \o t) = Len(s) + Len(t) /\ Len(s) \in Nat /\ Len(t) \in Nat
           /\ ToSet(s) \subseteq F /\ ToSet(s \o t) = ToSet(s) \cup ToSet(t)
           /\ (s = <<>> <=> ToSet(s) = {}) /\ (s = <<>> <=> Len(s) = 0)
           /\ (s \o t = <<>> <=> s = <<>> /\ t = <<>>)
  <1>1. /\ s \o t \in Seq(F) /\ Len(s \o t) = Len(s) + Len(t) /\ Len(s) \in Nat /\ Len(t) \in Nat
        /\ \A i \in 1 .. Len(s) + Len(t) : (s \o t)[i] = IF i <= Len(s) THEN s[i] ELSE t[i - Len(s)]
    BY ConcatProperties, LenProperties
  <1>2. DOMAIN s = 1 .. Len(s) /\ DOMAIN t = 1 .. Len(t) /\ DOMAIN (s \o t) = 1 .. Len(s) + Len(t)
    BY <1>1
  <1>3. ToSet(s) \subseteq F
    BY DEF ToSet
  <1>4. (s = <<>> <=> Len(s) = 0) /\ (t = <<>> <=> Len(t) = 0) /\ (s \o t = <<>> <=> Len(s \o t) = 0)
    BY <1>1, EmptySeq
  <1>5. ToSet(s) = {} <=> Len(s) = 0
    <2>1. CASE Len(s) = 0
      <3>1. DOMAIN s = {}
        BY <1>2, <2>1
      <3> QED BY <2>1, <3>1 DEF ToSet
    <2>2. CASE Len(s) # 0
      <3>1. 1 \in DOMAIN s
        BY <1>1, <1>2, <2>2
      <3> QED BY <2>2, <3>1 DEF ToSet
    <2> QED BY <2>1, <2>2
  <1>6. ToSet(s \o t) \subseteq ToSet(s) \cup ToSet(t)
    <2> SUFFICES ASSUME NEW i \in 1 .. Len(s) + Len(t) PROVE (s \o t)[i] \in ToSet(s) \cup ToSet(t)
      BY <1>2 DEF ToSet
    <2>1. CASE i <= Len(s)
      BY <1>1, <1>2, <2>1 DEF ToSet
    <2>2. CASE ~(i <= Len(s))
      <3>1. i - Len(s) \in 1 .. Len(t) /\ (s \o t)[i] = t[i - Len(s)]
        BY <1>1, <2>2
      <3> QED BY <1>2, <3>1 DEF ToSet
    <2> QED BY <2>1, <2>2
  <1>7. ToSet(s) \subseteq ToSet(s \o t)
    <2> SUFFICES ASSUME NEW i \in 1 .. Len(s) PROVE s[i] \in ToSet(s \o t)
      BY <1>2 DEF ToSet
    <2>1. i \in 1 .. Len(s) + Len(t) /\ (s \o t)[i] = s[i]
      BY <1>1
    <2> QED BY <1>2, <2>1 DEF ToSet
  <1>8. ToSet(t) \subseteq ToSet(s \o t)
    <2> SUFFICES ASSUME NEW i \in 1 .. Len(t) PROVE t[i] \in ToSet(s \o t)
      BY <1>2 DEF ToSet
    <2>1. i + Len(s) \in 1 .. Len(s) + Len(t) /\ (s \o t)[i + Len(s)] = t[i]
      BY <1>1
    <2> QED BY <1>2, <2>1 DEF ToSet
  <1> QED BY <1>1, <1>3, <1>4, <1>5, <1>6, <1>7, <1>8

\* The recursion of FlattenSeq has a solution.
LEMMA FlattenIs ==
    ASSUME NEW F, NEW n \in Nat, n # 0, NEW ss \in [1 .. n -> Seq(F)]
    PROVE  \E g : /\ FlattenSeq(ss) = g[n] /\ g[1] = ss[1]
                  /\ \A k \in 2 .. n : g[k] = g[k - 1] \o ss[k]
  <1> DEFINE Val(g, k) == IF k = 1 THEN ss[k] ELSE g[k - 1] \o ss[k]
             Is(g, m) == \A k \in 1 .. m : g[k] = Val(g, k)
             S == {m \in Nat : \E g : Is(g, m)}
  <1>1. 0 \in S
    OBVIOUS
  <1>2. ASSUME NEW m \in Nat, m \in S PROVE m + 1 \in S
    <2>1. PICK g : Is(g, m)
      BY <1>2
    <2> DEFINE h == [k \in 1 .. m + 1 |-> IF k <= m THEN g[k] ELSE Val(g, k)]
    <2>2. \A k \in 1 .. m + 1 : Val(h, k) = Val(g, k)
      OBVIOUS
    <2>3. \A k \in 1 .. m + 1 : h[k] = IF k <= m THEN g[k] ELSE Val(g, k)
      BY Zenon
    <2>4. Is(h, m + 1)
      <3> HIDE DEF Val, h
      <3> QED BY <2>1, <2>2, <2>3
    <2> HIDE DEF Is, h
    <2> QED BY <2>4
  <1>3. PICK g : Is(g, n)
    <2> HIDE DEF Is
    <2>1. Nat \subseteq S
      <3> HIDE DEF S
      <3> QED BY <1>1, <1>2, SetInduction
    <2> QED BY <2>1
  <1> DEFINE h == [k \in 1 .. n |-> g[k]]
             Table(t) == t = [k \in 1 .. n |-> Val(t, k)]
             T == CHOOSE t : Table(t)
  <1>4. Table(h)
    <2>1. \A k \in 1 .. n : Val(h, k) = Val(g, k)
      OBVIOUS
    <2> HIDE DEF Val
    <2> QED BY <1>3, <2>1
  <1>5. ss \in Seq(Seq(F)) /\ Len(ss) = n
    BY LenProperties
  <1>6. FlattenSeq(ss) = T[n]
    BY <1>5, Zenon DEF FlattenSeq
  <1>7. Table(T)
    <2> HIDE DEF Table, h
    <2> QED BY <1>4
  <1>8. \A k \in 1 .. n : T[k] = Val(T, k)
    <2> HIDE DEF Val, T
    <2> QED BY <1>7, Zenon
  <1> HIDE DEF T
  <1>9. 1 \in 1 .. n /\ \A k \in 2 .. n : k \in 1 .. n /\ k # 1
    OBVIOUS
  <1> QED BY <1>6, <1>8, <1>9, Zenon

LEMMA FlattenOfNone ==
    ASSUME NEW F, NEW ss \in [1 .. 0 -> Seq(F)]
    PROVE  FlattenSeq(ss) = <<>>
  <1>1. ss \in Seq(Seq(F)) /\ Len(ss) = 0
    BY LenProperties
  <1>2. ss = <<>>
    BY <1>1, EmptySeq
  <1> QED BY <1>1, <1>2, Zenon DEF FlattenSeq

\* What a flattened sequence holds.
LEMMA FlattenMembers ==
    ASSUME NEW F, NEW n \in Nat, NEW ss \in [1 .. n -> Seq(F)]
    PROVE  /\ FlattenSeq(ss) \in Seq(F)
           /\ ToSet(FlattenSeq(ss)) = UNION {ToSet(ss[i]) : i \in 1 .. n}
  <1>1. CASE n = 0
    <2>1. FlattenSeq(ss) = <<>>
      BY <1>1, FlattenOfNone
    <2>2. ToSet(<<>>) = {}
      BY DEF ToSet
    <2> QED BY <1>1, <2>1, <2>2
  <1>2. CASE n # 0
    <2>1. PICK g : FlattenSeq(ss) = g[n] /\ g[1] = ss[1] /\ \A k \in 2 .. n : g[k] = g[k - 1] \o ss[k]
      BY <1>2, FlattenIs
    <2> DEFINE Good(k) == g[k] \in Seq(F) /\ ToSet(g[k]) = UNION {ToSet(ss[i]) : i \in 1 .. k}
               S == {k \in 0 .. n : k = 0 \/ Good(k)}
    <2>2. ASSUME NEW k \in 1 .. n, k - 1 \in S PROVE k \in S
      <3>1. CASE k = 1
        <4>1. 1 .. 1 = {1} /\ ss[1] \in Seq(F) /\ g[1] = ss[1]
          BY <1>2, <2>1
        <4> QED BY <3>1, <4>1
      <3>2. CASE k # 1
        <4>1. k - 1 \in 1 .. n /\ k \in 2 .. n /\ k - 1 # 0
          BY <3>2
        <4>2. Good(k - 1)
          BY <2>2, <4>1
        <4>3. g[k] = g[k - 1] \o ss[k] /\ ss[k] \in Seq(F)
          BY <2>1, <4>1
        <4>4. g[k] \in Seq(F) /\ ToSet(g[k]) = ToSet(g[k - 1]) \cup ToSet(ss[k])
          BY <4>2, <4>3, MembersOf
        <4>5. 1 .. k = 1 .. (k - 1) \cup {k}
          OBVIOUS
        <4>6. ToSet(g[k]) = UNION {ToSet(ss[i]) : i \in 1 .. k}
          BY <4>2, <4>4, <4>5
        <4> QED BY <4>4, <4>6
      <3> QED BY <3>1, <3>2
    <2>3. 0 .. n \subseteq S
      <3>1. 0 \in S
        OBVIOUS
      <3> HIDE DEF S
      <3> QED BY <2>2, <3>1, UpToInduction
    <2>4. Good(n)
      <3>1. n \in S
        <4> HIDE DEF S
        <4> QED BY <2>3
      <3> QED BY <1>2, <3>1
    <2> QED BY <2>1, <2>4
  <1> QED BY <1>1, <1>2

LEMMA FlattenEmpty ==
    ASSUME NEW F, NEW n \in Nat, NEW ss \in [1 .. n -> Seq(F)]
    PROVE  /\ FlattenSeq(ss) \in Seq(F)
           /\ FlattenSeq(ss) = <<>> <=> \A i \in 1 .. n : ss[i] = <<>>
           /\ \A f : f \in ToSet(FlattenSeq(ss)) <=> \E i \in 1 .. n : f \in ToSet(ss[i])
  <1>1. FlattenSeq(ss) \in Seq(F) /\ ToSet(FlattenSeq(ss)) = UNION {ToSet(ss[i]) : i \in 1 .. n}
    BY FlattenMembers
  <1>2. \A f : f \in ToSet(FlattenSeq(ss)) <=> \E i \in 1 .. n : f \in ToSet(ss[i])
    BY <1>1
  <1>3. ASSUME NEW i \in 1 .. n PROVE ss[i] = <<>> <=> ToSet(ss[i]) = {}
    <2>1. ss[i] \in Seq(F)
      OBVIOUS
    <2> QED BY <2>1, MembersOf
  <1>4. FlattenSeq(ss) = <<>> <=> ToSet(FlattenSeq(ss)) = {}
    BY <1>1, MembersOf
  <1>5. ToSet(FlattenSeq(ss)) = {} <=> \A i \in 1 .. n : ToSet(ss[i]) = {}
    <2> DEFINE T(x) == ToSet(x)
    <2>1. \A f : f \in T(FlattenSeq(ss)) <=> \E i \in 1 .. n : f \in T(ss[i])
      BY <1>2
    <2> HIDE DEF T
    <2>2. T(FlattenSeq(ss)) = {} <=> \A i \in 1 .. n : T(ss[i]) = {}
      BY <2>1
    <2> QED BY <2>2 DEF T
  <1> QED BY <1>1, <1>2, <1>3, <1>4, <1>5, Zenon

LEMMA FlattenOneMore ==
    ASSUME NEW F, NEW n \in Nat, NEW ss \in [1 .. n -> Seq(F)], NEW rr \in [1 .. n + 1 -> Seq(F)],
           \A i \in 1 .. n : rr[i] = ss[i]
    PROVE  FlattenSeq(rr) = FlattenSeq(ss) \o rr[n + 1]
  <1>1. PICK g : FlattenSeq(rr) = g[n + 1] /\ g[1] = rr[1] /\ \A k \in 2 .. n + 1 : g[k] = g[k - 1] \o rr[k]
    <2>1. n + 1 \in Nat /\ n + 1 # 0
      OBVIOUS
    <2> QED BY <2>1, FlattenIs
  <1>2. CASE n = 0
    <2>1. FlattenSeq(ss) = <<>>
      BY <1>2, FlattenOfNone
    <2>2. FlattenSeq(rr) = rr[1] /\ rr[1] \in Seq(F)
      BY <1>1, <1>2
    <2>3. <<>> \o rr[1] = rr[1]
      BY <2>2, ConcatEmptySeq
    <2> QED BY <1>2, <2>1, <2>2, <2>3
  <1>3. CASE n # 0
    <2>1. PICK h : FlattenSeq(ss) = h[n] /\ h[1] = ss[1] /\ \A k \in 2 .. n : h[k] = h[k - 1] \o ss[k]
      BY <1>3, FlattenIs
    <2> DEFINE S == {k \in 0 .. n : k = 0 \/ g[k] = h[k]}
    <2>2. ASSUME NEW k \in 1 .. n, k - 1 \in S PROVE k \in S
      <3>1. CASE k = 1
        BY <1>1, <1>3, <2>1, <3>1
      <3>2. CASE k # 1
        <4>1. k \in 2 .. n /\ k \in 2 .. n + 1 /\ k \in 1 .. n /\ k - 1 # 0
          BY <3>2
        <4>2. g[k] = g[k - 1] \o rr[k] /\ h[k] = h[k - 1] \o ss[k] /\ rr[k] = ss[k]
          BY <1>1, <2>1, <4>1
        <4>3. g[k - 1] = h[k - 1]
          BY <2>2, <4>1
        <4>4. g[k] = h[k]
          BY <4>2, <4>3, Zenon
        <4> QED BY <4>4
      <3> QED BY <3>1, <3>2
    <2>3. 0 .. n \subseteq S
      <3>1. 0 \in S
        OBVIOUS
      <3> HIDE DEF S
      <3> QED BY <2>2, <3>1, UpToInduction
    <2>4. g[n] = h[n]
      <3>1. n \in S
        BY <2>3
      <3> QED BY <1>3, <3>1
    <2>5. g[n + 1] = g[n] \o rr[n + 1]
      <3> SUFFICES ASSUME NEW k, k = n + 1 PROVE g[k] = g[n] \o rr[k]
        OBVIOUS
      <3>1. k \in 2 .. n + 1 /\ k - 1 = n
        BY <1>3
      <3>2. g[k] = g[k - 1] \o rr[k]
        BY <1>1, <3>1, Zenon
      <3> QED BY <3>1, <3>2
    <2> QED BY <1>1, <2>1, <2>4, <2>5
  <1> QED BY <1>2, <1>3

\* How often a finding is in a sequence.
LEMMA TimesFinite ==
    ASSUME NEW F, NEW s \in Seq(F), NEW f
    PROVE  /\ IsFiniteSet({i \in DOMAIN s : s[i] = f}) /\ Times(f, s) \in Nat
           /\ Times(f, s) = 0 <=> f \notin ToSet(s)
  <1> DEFINE P == {i \in DOMAIN s : s[i] = f}
  <1>1. Len(s) \in Nat /\ DOMAIN s = 1 .. Len(s)
    BY LenProperties
  <1>2. IsFiniteSet(1 .. Len(s))
    BY <1>1, FS_Interval
  <1>3. IsFiniteSet(P)
    BY <1>1, <1>2, FS_Subset
  <1>4. Cardinality(P) \in Nat /\ (Cardinality(P) = 0 <=> P = {})
    BY <1>3, FS_CardinalityType, FS_EmptySet
  <1>5. P = {} <=> f \notin ToSet(s)
    BY DEF ToSet
  <1> QED BY <1>3, <1>4, <1>5 DEF Times

LEMMA TimesConcat ==
    ASSUME NEW F, NEW s \in Seq(F), NEW t \in Seq(F), NEW f
    PROVE  Times(f, s \o t) = Times(f, s) + Times(f, t)
  <1> DEFINE n == Len(s)
             A == {i \in DOMAIN s : s[i] = f}
             B == {i \in DOMAIN t : t[i] = f}
             D == {i \in DOMAIN (s \o t) : (s \o t)[i] = f}
             E == {i \in D : i > n}
             g == [i \in B |-> i + n]
  <1>1. /\ s \o t \in Seq(F) /\ Len(s \o t) = Len(s) + Len(t) /\ Len(s) \in Nat /\ Len(t) \in Nat
        /\ \A i \in 1 .. Len(s) + Len(t) : (s \o t)[i] = IF i <= Len(s) THEN s[i] ELSE t[i - Len(s)]
        /\ DOMAIN s = 1 .. Len(s) /\ DOMAIN t = 1 .. Len(t) /\ DOMAIN (s \o t) = 1 .. Len(s) + Len(t)
    BY ConcatProperties, LenProperties
  <1>2. IsFiniteSet(A) /\ IsFiniteSet(B) /\ IsFiniteSet(D)
    BY <1>1, TimesFinite
  <1>3. E = D \ A /\ A \subseteq D
    BY <1>1
  <1>4. g \in Bijection(B, E)
    <2>1. \A i \in B : i + n \in E
      BY <1>1
    <2>2. \A i, j \in B : i # j => i + n # j + n
      BY <1>1
    <2>3. \A k \in E : k - n \in B /\ (k - n) + n = k
      BY <1>1
    <2> HIDE DEF B, E, n
    <2>4. g \in [B -> E]
      BY <2>1
    <2>5. \A i, j \in B : g[i] = g[j] => i = j
      BY <2>2
    <2>6. \A k \in E : \E i \in B : g[i] = k
      BY <2>3
    <2> HIDE DEF g
    <2> QED BY <2>4, <2>5, <2>6 DEF Bijection, Injection, Surjection, IsInjective
  <1>5. IsFiniteSet(E) /\ Cardinality(E) = Cardinality(B)
    <2> HIDE DEF B, E, g
    <2>1. ExistsBijection(B, E)
      BY <1>4 DEF ExistsBijection
    <2> QED BY <1>2, <2>1, FS_Bijection
  <1>6. Cardinality(E) = Cardinality(D) - Cardinality(A)
    <2> HIDE DEF A, D, E
    <2>1. D \cap A = A
      BY <1>3
    <2> QED BY <1>2, <1>3, <2>1, FS_Difference
  <1>7. Cardinality(A) \in Nat /\ Cardinality(D) \in Nat /\ Cardinality(B) \in Nat
    BY <1>2, FS_CardinalityType
  <1>8. Times(f, s \o t) = Cardinality(D) /\ Times(f, s) = Cardinality(A) /\ Times(f, t) = Cardinality(B)
    BY DEF Times
  <1> HIDE DEF A, B, D, E, g, n
  <1>9. Cardinality(D) = Cardinality(A) + Cardinality(B)
    BY <1>5, <1>6, <1>7
  <1> QED BY <1>8, <1>9

-----------------------------------------------------------------------------
(* The accumulator: how many findings there are and whether one is a        *)
(* corrupt source is all that a state depends on.                           *)

\* The recursion of AfterEach has a solution.
LEMMA AfterEachIs ==
    ASSUME NEW cap, NEW F, NEW s \in Seq(F)
    PROVE  /\ AfterEach(cap, s)[0] = Empty
           /\ \A k \in 1 .. Len(s) : AfterEach(cap, s)[k] = Add(cap, AfterEach(cap, s)[k - 1], s[k])
  <1> DEFINE n == Len(s)
             Val(g, k) == IF k = 0 THEN Empty ELSE Add(cap, g[k - 1], s[k])
             Is(g, m) == \A k \in 0 .. m : g[k] = Val(g, k)
             S == {m \in Nat : \E g : Is(g, m)}
  <1>0. n \in Nat
    OBVIOUS
  <1>1. 0 \in S
    <2>1. Is([k \in 0 .. 0 |-> Empty], 0)
      OBVIOUS
    <2> QED BY <2>1
  <1>2. ASSUME NEW m \in Nat, m \in S PROVE m + 1 \in S
    <2>1. PICK g : Is(g, m)
      BY <1>2
    <2> DEFINE h == [k \in 0 .. m + 1 |-> IF k <= m THEN g[k] ELSE Val(g, k)]
    <2>2. \A k \in 0 .. m + 1 : Val(h, k) = Val(g, k)
      OBVIOUS
    <2>3. Is(h, m + 1)
      <3> HIDE DEF Val
      <3> QED BY <2>1, <2>2
    <2> HIDE DEF Is, h
    <2> QED BY <2>3
  <1>3. PICK g : Is(g, n)
    <2> HIDE DEF Is
    <2>1. Nat \subseteq S
      <3> HIDE DEF S
      <3> QED BY <1>1, <1>2, SetInduction
    <2> QED BY <1>0, <2>1
  <1> DEFINE h == [k \in 0 .. n |-> g[k]]
             Table(t) == t = [k \in 0 .. n |-> Val(t, k)]
  <1>4. Table(h)
    <2>1. \A k \in 0 .. n : Val(h, k) = Val(g, k)
      BY <1>0
    <2> HIDE DEF Val
    <2> QED BY <1>3, <2>1
  <1>5. AfterEach(cap, s) = CHOOSE t : Table(t)
    BY DEF AfterEach
  <1>6. Table(AfterEach(cap, s))
    <2> HIDE DEF Table, h
    <2> QED BY <1>4, <1>5
  <1>7. \A k \in 0 .. n : AfterEach(cap, s)[k] = Val(AfterEach(cap, s), k)
    <2> HIDE DEF Val
    <2> QED BY <1>6, Zenon
  <1>8. 0 \in 0 .. n /\ \A k \in 1 .. n : k \in 0 .. n /\ k # 0
    BY <1>0
  <1> QED BY <1>7, <1>8, Zenon

Outcome(s) ==
    IF \E f \in ToSet(s) : f.code = "source_corrupt" THEN "INCOMPLETE"
    ELSE IF ToSet(s) = {} THEN "PASS" ELSE "FAIL"

LEMMA AccumulateIs ==
    ASSUME NEW F, \A f \in F : f.sev \in {"P0", "P1", "P2"}, NEW cap \in Int, NEW s \in Seq(F)
    PROVE  /\ Accumulate(cap, s).total = Len(s) /\ Accumulate(cap, s).state = Outcome(s)
           /\ cap < 0 => Accumulate(cap, s).details = s
  <1> DEFINE n == Len(s)
             acc(k) == AfterEach(cap, s)[k]
             Seen(k) == \E i \in 1 .. k : s[i].code = "source_corrupt"
             Good(a, k) == /\ a.total = k /\ a.details \in Seq(F)
                           /\ Seen(k) => a.state = "INCOMPLETE"
                           /\ ~Seen(k) => a.state = IF k = 0 THEN "PASS" ELSE "FAIL"
                           /\ cap < 0 => Len(a.details) = k /\ \A i \in 1 .. k : a.details[i] = s[i]
             S == {k \in 0 .. n : Good(acc(k), k)}
  <1>0. n \in Nat /\ DOMAIN s = 1 .. n
    OBVIOUS
  <1>1. acc(0) = Empty /\ \A k \in 1 .. n : acc(k) = Add(cap, acc(k - 1), s[k])
    BY AfterEachIs
  <1>2. 0 \in S
    <2>1. Good(Empty, 0)
      BY DEF Empty
    <2> HIDE DEF Good, acc
    <2> QED BY <1>0, <1>1, <2>1
  <1>3. ASSUME NEW k \in 1 .. n, k - 1 \in S PROVE k \in S
    <2> DEFINE a == acc(k - 1)
               b == acc(k)
    <2>1. Good(a, k - 1)
      <3> HIDE DEF Good, acc
      <3> QED BY <1>3
    <2>2. s[k] \in F
      BY <1>0
    <2>3. b = [state   |-> IF s[k].code = "source_corrupt" THEN "INCOMPLETE"
                           ELSE IF a.state = "PASS" /\ s[k].sev \in {"P0", "P1", "P2"} THEN "FAIL" ELSE a.state,
               total   |-> a.total + 1,
               details |-> IF cap < 0 \/ Len(a.details) < cap THEN Append(a.details, s[k]) ELSE a.details]
      <3> HIDE DEF acc
      <3> QED BY <1>1 DEF Add
    <2> HIDE DEF acc, a, b
    <2>4. b.total = k
      BY <2>1, <2>3
    <2>5. b.details \in Seq(F)
      BY <2>1, <2>2, <2>3, AppendProperties
    <2>6. 1 .. k = 1 .. (k - 1) \cup {k}
      OBVIOUS
    <2>7. Seen(k) <=> Seen(k - 1) \/ s[k].code = "source_corrupt"
      BY <2>6
    <2>8. Seen(k) => b.state = "INCOMPLETE"
      BY <2>1, <2>3, <2>7
    <2>9. ~Seen(k) => b.state = "FAIL"
      BY <2>1, <2>2, <2>3, <2>7
    <2>10. cap < 0 => Len(b.details) = k /\ \A i \in 1 .. k : b.details[i] = s[i]
      <3> SUFFICES ASSUME cap < 0 PROVE Len(b.details) = k /\ \A i \in 1 .. k : b.details[i] = s[i]
        OBVIOUS
      <3>1. b.details = Append(a.details, s[k]) /\ a.details \in Seq(F) /\ Len(a.details) = k - 1
        BY <2>1, <2>3
      <3>2. Len(b.details) = k /\ b.details[k] = s[k] /\ \A i \in 1 .. k - 1 : b.details[i] = a.details[i]
        BY <2>2, <3>1, AppendProperties
      <3> QED BY <2>1, <2>6, <3>2
    <2>11. Good(b, k)
      BY <2>4, <2>5, <2>8, <2>9, <2>10
    <2> HIDE DEF Good
    <2> QED BY <2>11 DEF b
  <1>4. Good(acc(n), n)
    <2>1. 0 .. n \subseteq S
      <3> HIDE DEF S
      <3> QED BY <1>0, <1>2, <1>3, UpToInduction
    <2>2. n \in S
      <3> HIDE DEF S
      <3> QED BY <1>0, <2>1
    <2> HIDE DEF Good, acc
    <2> QED BY <2>2
  <1>5. ToSet(s) = {s[i] : i \in 1 .. n} /\ (ToSet(s) = {} <=> n = 0)
    <2>1. ToSet(s) = {} <=> n = 0
      BY MembersOf
    <2> QED BY <1>0, <2>1 DEF ToSet
  <1>6. Seen(n) <=> \E f \in ToSet(s) : f.code = "source_corrupt"
    BY <1>5
  <1>7. Accumulate(cap, s) = acc(n)
    BY DEF Accumulate
  <1>8. cap < 0 => acc(n).details = s
    <2> SUFFICES ASSUME cap < 0 PROVE acc(n).details = s
      OBVIOUS
    <2> DEFINE d == acc(n).details
    <2>1. d \in Seq(F) /\ Len(d) = n /\ \A i \in 1 .. n : d[i] = s[i]
      <3> HIDE DEF acc
      <3> QED BY <1>4
    <2> HIDE DEF d
    <2>2. d = s
      BY <2>1, SeqEqual
    <2> QED BY <2>2 DEF d
  <1>9. acc(n).state = Outcome(s)
    <2> HIDE DEF acc
    <2> QED BY <1>4, <1>5, <1>6 DEF Outcome
  <1> HIDE DEF acc
  <1> QED BY <1>4, <1>7, <1>8, <1>9

-----------------------------------------------------------------------------
(* What each rule of the comparison finds.                                  *)

Codes == {"invalid_source", "invalid_canonical", "duplicate_source", "duplicate_canonical", "matrix",
          "source_corrupt", "unverifiable", "availability", "hash_domain", "hash", "selector",
          "class_mismatch", "missing_canonical", "extra_canonical", "undocumented_synthetic"}
Found(A) == {Finding(a, sev, code) : a \in A, sev \in {"P0", "P1", "P2"}, code \in Codes}
Plain(A) == {f \in Found(A) : f.code # "source_corrupt"}

LEMMA FindingIs ==
    ASSUME NEW A, NEW a \in A, NEW sev \in {"P0", "P1", "P2"}, NEW code \in Codes
    PROVE  /\ Finding(a, sev, code) \in Found(A) /\ Finding(a, sev, code).code = code
           /\ <<Finding(a, sev, code)>> \in Seq(Found(A)) /\ <<Finding(a, sev, code)>> # <<>>
           /\ ToSet(<<Finding(a, sev, code)>>) = {Finding(a, sev, code)}
           /\ code # "source_corrupt" => <<Finding(a, sev, code)>> \in Seq(Plain(A))
  <1> DEFINE f == Finding(a, sev, code)
  <1>1. f \in Found(A) /\ f.code = code
    BY DEF Found, Finding
  <1>2. code # "source_corrupt" => f \in Plain(A)
    BY <1>1 DEF Plain
  <1> HIDE DEF f
  <1>3. <<f>> \in Seq(Found(A)) /\ (code # "source_corrupt" => <<f>> \in Seq(Plain(A)))
    BY <1>1, <1>2
  <1>4. <<f>> # <<>> /\ ToSet(<<f>>) = {f}
    <2>1. DOMAIN <<f>> = {1} /\ <<f>>[1] = f
      OBVIOUS
    <2>2. DOMAIN <<>> = {}
      OBVIOUS
    <2> QED BY <2>1, <2>2 DEF ToSet
  <1> QED BY <1>1, <1>3, <1>4 DEF f

LEMMA PlainIsFound ==
    ASSUME NEW A, NEW s \in Seq(Plain(A))
    PROVE  s \in Seq(Found(A)) /\ \A f \in ToSet(s) : f.code # "source_corrupt"
  <1>1. Plain(A) \subseteq Found(A)
    BY DEF Plain
  <1>2. ToSet(s) \subseteq Plain(A)
    BY DEF ToSet
  <1>3. s \in Seq(Found(A))
    BY <1>1
  <1> QED BY <1>2, <1>3 DEF Plain

LEMMA ValidationIs ==
    ASSUME NEW A, NEW a \in A, NEW matrix, NEW side \in Sides
    PROVE  /\ Validation(matrix, side, a) \in Seq(Plain(A))
           /\ Validation(matrix, side, a) = <<>> <=> Valid(a) /\ MatrixAllows(matrix, a)
  <1> DEFINE code == OnSide("invalid", side)
             u == IF Valid(a) THEN <<>> ELSE <<Finding(a, "P1", code)>>
             v == IF MatrixAllows(matrix, a) THEN <<>> ELSE <<Finding(a, "P2", "matrix")>>
  <1>1. code \in Codes /\ code # "source_corrupt"
    BY DEF Sides, OnSide, Codes
  <1>2. "matrix" \in Codes
    BY DEF Codes
  <1>3. <<Finding(a, "P1", code)>> \in Seq(Plain(A)) /\ <<Finding(a, "P1", code)>> # <<>>
    <2> HIDE DEF code
    <2> QED BY <1>1, FindingIs
  <1>4. <<Finding(a, "P2", "matrix")>> \in Seq(Plain(A)) /\ <<Finding(a, "P2", "matrix")>> # <<>>
    BY <1>2, FindingIs
  <1>5. u \in Seq(Plain(A)) /\ (u = <<>> <=> Valid(a))
    <2> HIDE DEF code
    <2>1. <<>> \in Seq(Plain(A))
      OBVIOUS
    <2> QED BY <1>3, <2>1, Zenon
  <1>6. v \in Seq(Plain(A)) /\ (v = <<>> <=> MatrixAllows(matrix, a))
    <2>1. <<>> \in Seq(Plain(A))
      OBVIOUS
    <2> QED BY <1>4, <2>1, Zenon
  <1>7. Validation(matrix, side, a) = u \o v
    BY DEF Validation
  <1> HIDE DEF u, v
  <1> QED BY <1>5, <1>6, <1>7, MembersOf

\* Canonical artifact c proves what source artifact s says.
Proves(c, s) ==
    /\ c.avail = s.avail /\ c.avail # "unverifiable" /\ Valid(c)
    /\ ByteProof(s) => /\ c.dom = s.dom /\ c.val = s.val /\ c.val # NoVal
                       /\ s.cls \in SelectorClasses => c.sel = s.sel

LEMMA CompareMatchedIs ==
    ASSUME NEW A, NEW s \in A, NEW c
    PROVE  /\ CompareMatched(s, c) \in Seq(Plain(A))
           /\ CompareMatched(s, c) = <<>> <=> Proves(c, s)
  <1> DEFINE one(sev, code) == <<Finding(s, sev, code)>>
             P == Seq(Plain(A))
             av == IF c.avail = s.avail THEN <<>> ELSE one("P1", "availability")
             dm == IF c.dom = s.dom THEN <<>> ELSE one("P1", "hash_domain")
             hs == CASE c.val = NoVal -> one("P1", "unverifiable")
                     [] c.val # NoVal /\ c.val # s.val -> one("P0", "hash")
                     [] OTHER -> <<>>
             sl == IF s.cls \in SelectorClasses /\ c.sel # s.sel THEN one("P1", "selector") ELSE <<>>
             bp == IF ~ByteProof(s) THEN <<>> ELSE dm \o hs \o sl
  <1>1. /\ \A sev \in {"P0", "P1", "P2"}, code \in Codes \ {"source_corrupt"} :
              one(sev, code) \in P /\ one(sev, code) # <<>>
        /\ <<>> \in P
    <2>1. ASSUME NEW sev \in {"P0", "P1", "P2"}, NEW code \in Codes \ {"source_corrupt"}
          PROVE  <<Finding(s, sev, code)>> \in Seq(Plain(A)) /\ <<Finding(s, sev, code)>> # <<>>
      BY FindingIs
    <2>2. <<>> \in P
      OBVIOUS
    <2> QED BY <2>1, <2>2
  <1>2. {"availability", "hash_domain", "unverifiable", "hash", "selector"} \subseteq Codes \ {"source_corrupt"}
    BY DEF Codes
  <1>3. CompareMatched(s, c) = IF c.avail = "unverifiable" \/ ~Valid(c) THEN one("P1", "unverifiable")
                               ELSE av \o bp
    BY Zenon DEF CompareMatched
  <1> HIDE DEF one, P
  <1>4. av \in P /\ (av = <<>> <=> c.avail = s.avail)
    BY <1>1, <1>2
  <1>5. dm \in P /\ (dm = <<>> <=> c.dom = s.dom)
    BY <1>1, <1>2
  <1>6. hs \in P /\ (hs = <<>> <=> c.val # NoVal /\ c.val = s.val)
    <2>1. CASE c.val = NoVal
      <3>1. hs = one("P1", "unverifiable")
        BY <2>1
      <3> QED BY <1>1, <1>2, <2>1, <3>1
    <2>2. CASE c.val # NoVal /\ c.val # s.val
      <3>1. hs = one("P0", "hash")
        BY <2>2
      <3> QED BY <1>1, <1>2, <2>2, <3>1
    <2>3. CASE c.val # NoVal /\ c.val = s.val
      <3>1. hs = <<>>
        BY <2>3
      <3> QED BY <1>1, <2>3, <3>1
    <2> QED BY <2>1, <2>2, <2>3
  <1>7. sl \in P /\ (sl = <<>> <=> (s.cls \in SelectorClasses => c.sel = s.sel))
    BY <1>1, <1>2
  <1> HIDE DEF av, dm, hs, sl
  <1>8. dm \o hs \o sl \in P /\ (dm \o hs \o sl = <<>> <=> dm = <<>> /\ hs = <<>> /\ sl = <<>>)
    BY <1>5, <1>6, <1>7, MembersOf DEF P
  <1>9. bp \in P /\ (bp = <<>> <=> (ByteProof(s) => dm = <<>> /\ hs = <<>> /\ sl = <<>>))
    BY <1>1, <1>8
  <1> HIDE DEF bp
  <1>10. av \o bp \in P /\ (av \o bp = <<>> <=> av = <<>> /\ bp = <<>>)
    BY <1>4, <1>9, MembersOf DEF P
  <1>11. CASE c.avail = "unverifiable" \/ ~Valid(c)
    <2>1. CompareMatched(s, c) = one("P1", "unverifiable")
      BY <1>3, <1>11
    <2> QED BY <1>1, <1>2, <1>11, <2>1 DEF P, Proves
  <1>12. CASE ~(c.avail = "unverifiable" \/ ~Valid(c))
    <2>1. CompareMatched(s, c) = av \o bp
      BY <1>3, <1>12
    <2> QED BY <1>4, <1>5, <1>6, <1>7, <1>9, <1>10, <1>12, <2>1 DEF P, Proves
  <1> QED BY <1>11, <1>12

\* The only artifact of its key, in a manifest.
Only(m, a, i) == Having(m, Key(a)) = {i}

LEMMA CompareSourceIs ==
    ASSUME NEW A, NEW source \in Seq(A), NEW canonical \in Seq(A), NEW s \in A
    PROVE  LET r == CompareSource(source, canonical, s)
           IN  /\ r \in Seq(Found(A))
               /\ (\E f \in ToSet(r) : f.code = "source_corrupt") <=> s.avail = "source_corrupt"
               /\ r = <<>> <=> /\ s.avail # "source_corrupt"
                               /\ \/ Duplicated(source, s)
                                  \/ \E i \in DOMAIN canonical :
                                        Only(canonical, s, i) /\ Proves(canonical[i], s)
  <1> DEFINE r == CompareSource(source, canonical, s)
             matches == Having(canonical, Key(s))
             j == CHOOSE i \in matches : TRUE
             one(sev, code) == <<Finding(s, sev, code)>>
             other == HavingClassless(canonical, ClasslessKey(s)) # {}
  <1>1. /\ r = IF s.avail = "source_corrupt" THEN one("P1", "source_corrupt")
               ELSE IF Duplicated(source, s) THEN <<>>
               ELSE IF \E i \in matches : matches = {i} THEN CompareMatched(s, canonical[j])
               ELSE IF matches # {} THEN one("P1", "duplicate_canonical")
               ELSE IF other THEN one("P1", "class_mismatch")
               ELSE one(MissingSeverity(s), "missing_canonical")
    BY Zenon DEF CompareSource
  <1>2. /\ \A sev \in {"P0", "P1", "P2"}, code \in Codes \ {"source_corrupt"} :
              one(sev, code) \in Seq(Plain(A)) /\ one(sev, code) # <<>>
        /\ <<>> \in Seq(Plain(A))
    <2>1. ASSUME NEW sev \in {"P0", "P1", "P2"}, NEW code \in Codes \ {"source_corrupt"}
          PROVE  <<Finding(s, sev, code)>> \in Seq(Plain(A)) /\ <<Finding(s, sev, code)>> # <<>>
      BY FindingIs
    <2>2. <<>> \in Seq(Plain(A))
      OBVIOUS
    <2> QED BY <2>1, <2>2
  <1>3. /\ {"duplicate_canonical", "class_mismatch", "missing_canonical"} \subseteq Codes \ {"source_corrupt"}
        /\ "source_corrupt" \in Codes
    BY DEF Codes
  <1>4. MissingSeverity(s) \in {"P0", "P1", "P2"}
    BY DEF MissingSeverity
  <1>5. matches \subseteq DOMAIN canonical
    BY DEF Having
  <1>6. CASE s.avail = "source_corrupt"
    <2>1. r = <<Finding(s, "P1", "source_corrupt")>>
      BY <1>1, <1>6
    <2>2. r \in Seq(Found(A)) /\ r # <<>> /\ \E f \in ToSet(r) : f.code = "source_corrupt"
      BY <1>3, <2>1, FindingIs
    <2> QED BY <1>6, <2>2
  <1>7. CASE s.avail # "source_corrupt"
    <2>1. r \in Seq(Plain(A)) /\ (r = <<>> <=>
              \/ Duplicated(source, s)
              \/ \E i \in DOMAIN canonical : Only(canonical, s, i) /\ Proves(canonical[i], s))
      <3>1. CASE Duplicated(source, s)
        <4>1. r = <<>>
          BY <1>1, <1>7, <3>1
        <4> QED BY <1>2, <3>1, <4>1
      <3>2. ASSUME ~Duplicated(source, s), NEW i \in matches, matches = {i}
            PROVE  r \in Seq(Plain(A)) /\ (r = <<>> <=>
                      \E k \in DOMAIN canonical : Only(canonical, s, k) /\ Proves(canonical[k], s))
        <4>1. j = i
          BY <3>2
        <4>2. r = CompareMatched(s, canonical[i])
          <5> HIDE DEF matches, j, r
          <5> QED BY <1>1, <1>7, <3>2, <4>1
        <4>3. r \in Seq(Plain(A)) /\ (r = <<>> <=> Proves(canonical[i], s))
          <5> HIDE DEF r
          <5> QED BY <4>2, CompareMatchedIs
        <4>4. i \in DOMAIN canonical /\ Only(canonical, s, i) /\ \A k : Only(canonical, s, k) => k = i
          BY <1>5, <3>2 DEF Only
        <4> QED BY <4>3, <4>4
      <3>3. CASE ~Duplicated(source, s) /\ ~\E i \in matches : matches = {i}
        <4>1. r \in {one("P1", "duplicate_canonical"), one("P1", "class_mismatch"),
                     one(MissingSeverity(s), "missing_canonical")}
          <5> HIDE DEF matches, j, r, other, one
          <5> QED BY <1>1, <1>7, <3>3
        <4>2. r \in Seq(Plain(A)) /\ r # <<>>
          <5> HIDE DEF r, one
          <5> QED BY <1>2, <1>3, <1>4, <4>1
        <4>3. ~\E i : Only(canonical, s, i)
          BY <3>3 DEF Only
        <4> QED BY <3>3, <4>2, <4>3
      <3> QED BY <3>1, <3>2, <3>3
    <2>2. r \in Seq(Found(A)) /\ ~\E f \in ToSet(r) : f.code = "source_corrupt"
      <3> HIDE DEF r
      <3> QED BY <2>1, PlainIsFound
    <2> HIDE DEF r
    <2> QED BY <1>7, <2>1, <2>2 DEF r
  <1> QED BY <1>6, <1>7

LEMMA CompareCanonicalIs ==
    ASSUME NEW A, NEW source \in Seq(A), NEW canonical \in Seq(A), NEW c \in A
    PROVE  LET r == CompareCanonical(source, canonical, c)
           IN  /\ r \in Seq(Plain(A))
               /\ r = <<>> <=> \/ Duplicated(canonical, c)
                               \/ \E i \in DOMAIN source : ClasslessKey(source[i]) = ClasslessKey(c)
                               \/ Documented(c)
  <1> DEFINE r == CompareCanonical(source, canonical, c)
             one(code) == <<Finding(c, "P1", code)>>
             dup == Duplicated(canonical, c)
             same == Having(source, Key(c)) # {}
             near == HavingClassless(source, ClasslessKey(c)) # {}
  <1>1. \A code \in Codes \ {"source_corrupt"} : one(code) \in Seq(Plain(A)) /\ one(code) # <<>>
    <2>1. ASSUME NEW code \in Codes \ {"source_corrupt"}
          PROVE  <<Finding(c, "P1", code)>> \in Seq(Plain(A)) /\ <<Finding(c, "P1", code)>> # <<>>
      BY FindingIs
    <2> QED BY <2>1
  <1>2. {"extra_canonical", "undocumented_synthetic"} \subseteq Codes \ {"source_corrupt"}
    BY DEF Codes
  <1>3. near <=> \E i \in DOMAIN source : ClasslessKey(source[i]) = ClasslessKey(c)
    BY DEF HavingClassless
  <1>4. same => near
    BY DEF Having, HavingClassless, Key, ClasslessKey
  <1>5. r = IF dup \/ same \/ near \/ Documented(c) THEN <<>>
            ELSE one(IF c.synth = "no" THEN "extra_canonical" ELSE "undocumented_synthetic")
    BY Zenon DEF CompareCanonical
  <1> HIDE DEF r, one, dup, same, near
  <1>6. <<>> \in Seq(Plain(A))
    OBVIOUS
  <1>7. r \in Seq(Plain(A)) /\ (r = <<>> <=> dup \/ near \/ Documented(c))
    BY <1>1, <1>2, <1>4, <1>5, <1>6
  <1> QED BY <1>3, <1>7 DEF r, dup

\* A key that is there twice is found at its first artifact.
LEMMA DuplicatesIs ==
    ASSUME NEW A, NEW m \in Seq(A), NEW side \in Sides
    PROVE  /\ Duplicates(m, side) \in Seq(Plain(A))
           /\ Duplicates(m, side) = <<>> <=> \A i, j \in DOMAIN m : i # j => Key(m[i]) # Key(m[j])
  <1> DEFINE n == Len(m)
             ss == [i \in 1 .. n |-> DuplicatesAt(m, side, i)]
             code == OnSide("duplicate", side)
             first(i) == Duplicated(m, m[i]) /\ \A j \in 1 .. i - 1 : Key(m[j]) # Key(m[i])
  <1>1. n \in Nat /\ DOMAIN m = 1 .. n
    OBVIOUS
  <1>2. code \in Codes /\ code # "source_corrupt"
    BY DEF Sides, OnSide, Codes
  <1>3. ASSUME NEW i \in 1 .. n
        PROVE  DuplicatesAt(m, side, i) \in Seq(Plain(A)) /\ (DuplicatesAt(m, side, i) = <<>> <=> ~first(i))
    <2>1. DuplicatesAt(m, side, i) = IF first(i) THEN <<Finding(m[i], "P1", code)>> ELSE <<>>
      BY Zenon DEF DuplicatesAt
    <2>2. m[i] \in A
      BY <1>1
    <2>3. <<Finding(m[i], "P1", code)>> \in Seq(Plain(A)) /\ <<Finding(m[i], "P1", code)>> # <<>>
      <3> HIDE DEF code
      <3> QED BY <1>2, <2>2, FindingIs
    <2>4. <<>> \in Seq(Plain(A))
      OBVIOUS
    <2> HIDE DEF first, code
    <2> QED BY <2>1, <2>3, <2>4
  <1>4. ss \in [1 .. n -> Seq(Plain(A))] /\ Duplicates(m, side) = FlattenSeq(ss)
    BY <1>3 DEF Duplicates
  <1>5. /\ FlattenSeq(ss) \in Seq(Plain(A))
        /\ FlattenSeq(ss) = <<>> <=> \A i \in 1 .. n : ss[i] = <<>>
    BY <1>1, <1>4, FlattenEmpty
  <1>6. (\A i \in 1 .. n : ~first(i)) <=> \A i, j \in DOMAIN m : i # j => Key(m[i]) # Key(m[j])
    <2>1. ASSUME NEW i \in 1 .. n, first(i) PROVE \E k, j \in DOMAIN m : k # j /\ Key(m[k]) = Key(m[j])
      BY <2>1 DEF Duplicated, Having
    <2>2. ASSUME NEW i \in DOMAIN m, NEW j \in DOMAIN m, i # j, Key(m[i]) = Key(m[j])
          PROVE  \E k \in 1 .. n : first(k)
      <3> DEFINE T == {k \in 1 .. n : Key(m[k]) = Key(m[i])}
      <3>1. PICK k \in T : \A l \in T : k <= l
        <4>1. T \subseteq Nat /\ T # {}
          BY <1>1
        <4> HIDE DEF T
        <4> QED BY <4>1, LeastNatural
      <3>2. Duplicated(m, m[k])
        <4>1. i \in Having(m, Key(m[k])) /\ j \in Having(m, Key(m[k]))
          BY <2>2, <3>1 DEF Having
        <4> QED BY <2>2, <4>1 DEF Duplicated
      <3>3. ASSUME NEW l \in 1 .. k - 1 PROVE Key(m[l]) # Key(m[k])
        <4>1. l \in 1 .. n /\ l < k
          BY <3>1
        <4> QED BY <3>1, <4>1
      <3> QED BY <3>1, <3>2, <3>3
    <2> QED BY <2>1, <2>2
  <1>7. \A i \in 1 .. n : ss[i] = <<>> <=> ~first(i)
    BY <1>3
  <1> HIDE DEF ss, first
  <1> QED BY <1>4, <1>5, <1>6, <1>7

\* What the artifacts of a side contribute by themselves.
LEMMA ValidationsIs ==
    ASSUME NEW A, NEW m \in Seq(A), NEW matrix, NEW side \in Sides
    PROVE  /\ Validations(matrix, side, m) \in Seq(Plain(A))
           /\ Validations(matrix, side, m) = <<>> <=>
                \A i \in DOMAIN m : Valid(m[i]) /\ MatrixAllows(matrix, m[i])
  <1> DEFINE n == Len(m)
             ss == [i \in 1 .. n |-> Validation(matrix, side, m[i])]
  <1>1. n \in Nat /\ DOMAIN m = 1 .. n
    OBVIOUS
  <1>2. ASSUME NEW i \in 1 .. n
        PROVE  /\ Validation(matrix, side, m[i]) \in Seq(Plain(A))
               /\ Validation(matrix, side, m[i]) = <<>> <=> Valid(m[i]) /\ MatrixAllows(matrix, m[i])
    <2>1. m[i] \in A
      BY <1>1
    <2> QED BY <2>1, ValidationIs
  <1>3. ss \in [1 .. n -> Seq(Plain(A))] /\ Validations(matrix, side, m) = FlattenSeq(ss)
    BY <1>2 DEF Validations
  <1>4. \A i \in 1 .. n : ss[i] = <<>> <=> Valid(m[i]) /\ MatrixAllows(matrix, m[i])
    BY <1>2
  <1> HIDE DEF ss
  <1>5. /\ FlattenSeq(ss) \in Seq(Plain(A))
        /\ FlattenSeq(ss) = <<>> <=> \A i \in 1 .. n : ss[i] = <<>>
    BY <1>1, <1>3, FlattenEmpty
  <1> QED BY <1>1, <1>3, <1>4, <1>5

LEMMA ValidationsOneMore ==
    ASSUME NEW A, NEW m \in Seq(A), NEW a \in A, NEW matrix, NEW side \in Sides
    PROVE  Validations(matrix, side, Append(m, a)) =
               Validations(matrix, side, m) \o Validation(matrix, side, a)
  <1> DEFINE n == Len(m)
             r == Append(m, a)
             ss == [i \in 1 .. n |-> Validation(matrix, side, m[i])]
             rr == [i \in 1 .. n + 1 |-> Validation(matrix, side, r[i])]
  <1>1. /\ n \in Nat /\ Len(r) = n + 1 /\ r \in Seq(A)
        /\ \A i \in 1 .. n : r[i] = m[i] /\ m[i] \in A /\ i \in 1 .. n + 1
        /\ r[n + 1] = a /\ n + 1 \in 1 .. n + 1 /\ \A i \in 1 .. n + 1 : r[i] \in A
    OBVIOUS
  <1> HIDE DEF r, n
  <1>2. \A b \in A : Validation(matrix, side, b) \in Seq(Plain(A))
    BY ValidationIs
  <1>3. ss \in [1 .. n -> Seq(Plain(A))] /\ rr \in [1 .. n + 1 -> Seq(Plain(A))]
    BY <1>1, <1>2
  <1>4. (\A i \in 1 .. n : rr[i] = ss[i]) /\ rr[n + 1] = Validation(matrix, side, a)
    BY <1>1
  <1>5. Validations(matrix, side, m) = FlattenSeq(ss) /\ Validations(matrix, side, r) = FlattenSeq(rr)
    BY <1>1 DEF Validations, n
  <1> HIDE DEF ss, rr
  <1>6. FlattenSeq(rr) = FlattenSeq(ss) \o rr[n + 1]
    BY <1>1, <1>3, <1>4, FlattenOneMore
  <1> QED BY <1>4, <1>5, <1>6 DEF r

\* What the comparison loops find.
LEMMA ComparisonsIs ==
    ASSUME NEW A, NEW source \in Seq(A), NEW canonical \in Seq(A)
    PROVE  LET x == Comparisons(source, canonical)
           IN  /\ x \in Seq(Found(A))
               /\ (\E f \in ToSet(x) : f.code = "source_corrupt") <=> Corrupt(source)
               /\ x = <<>> <=>
                    /\ \A i \in DOMAIN source : CompareSource(source, canonical, source[i]) = <<>>
                    /\ \A i \in DOMAIN canonical : CompareCanonical(source, canonical, canonical[i]) = <<>>
  <1> DEFINE n == Len(source)
             k == Len(canonical)
             ss == [i \in 1 .. n |-> CompareSource(source, canonical, source[i])]
             cc == [i \in 1 .. k |-> CompareCanonical(source, canonical, canonical[i])]
             Bad(r) == \E f \in ToSet(r) : f.code = "source_corrupt"
  <1>1. /\ n \in Nat /\ k \in Nat /\ DOMAIN source = 1 .. n /\ DOMAIN canonical = 1 .. k
        /\ (\A i \in 1 .. n : source[i] \in A) /\ \A i \in 1 .. k : canonical[i] \in A
    OBVIOUS
  <1>2. ASSUME NEW i \in 1 .. n
        PROVE  /\ CompareSource(source, canonical, source[i]) \in Seq(Found(A))
               /\ Bad(CompareSource(source, canonical, source[i])) <=> source[i].avail = "source_corrupt"
    BY <1>1, CompareSourceIs
  <1>3. ASSUME NEW i \in 1 .. k
        PROVE  CompareCanonical(source, canonical, canonical[i]) \in Seq(Plain(A))
    BY <1>1, CompareCanonicalIs
  <1>4. /\ ss \in [1 .. n -> Seq(Found(A))] /\ cc \in [1 .. k -> Seq(Plain(A))]
        /\ Comparisons(source, canonical) = FlattenSeq(ss) \o FlattenSeq(cc)
    BY <1>2, <1>3, Zenon DEF Comparisons
  <1>5. /\ \A i \in 1 .. n : Bad(ss[i]) <=> source[i].avail = "source_corrupt"
        /\ \A i \in 1 .. n : ss[i] = CompareSource(source, canonical, source[i])
        /\ \A i \in 1 .. k : cc[i] = CompareCanonical(source, canonical, canonical[i])
    BY <1>2, Zenon
  <1> HIDE DEF ss, cc
  <1>6. /\ FlattenSeq(ss) \in Seq(Found(A))
        /\ FlattenSeq(ss) = <<>> <=> \A i \in 1 .. n : ss[i] = <<>>
        /\ \A f : f \in ToSet(FlattenSeq(ss)) <=> \E i \in 1 .. n : f \in ToSet(ss[i])
    BY <1>1, <1>4, FlattenEmpty
  <1>7. /\ FlattenSeq(cc) \in Seq(Plain(A))
        /\ FlattenSeq(cc) = <<>> <=> \A i \in 1 .. k : cc[i] = <<>>
    BY <1>1, <1>4, FlattenEmpty
  <1>8. FlattenSeq(cc) \in Seq(Found(A)) /\ ~Bad(FlattenSeq(cc))
    BY <1>7, PlainIsFound
  <1>9. /\ FlattenSeq(ss) \o FlattenSeq(cc) \in Seq(Found(A))
        /\ ToSet(FlattenSeq(ss) \o FlattenSeq(cc)) = ToSet(FlattenSeq(ss)) \cup ToSet(FlattenSeq(cc))
        /\ FlattenSeq(ss) \o FlattenSeq(cc) = <<>> <=> FlattenSeq(ss) = <<>> /\ FlattenSeq(cc) = <<>>
    BY <1>6, <1>8, MembersOf
  <1>10. Bad(FlattenSeq(ss) \o FlattenSeq(cc)) <=> \E i \in 1 .. n : source[i].avail = "source_corrupt"
    BY <1>5, <1>6, <1>8, <1>9
  <1>11. Corrupt(source) <=> \E i \in 1 .. n : source[i].avail = "source_corrupt"
    BY <1>1 DEF Corrupt, ToSet
  <1> HIDE DEF n, k
  <1> QED BY <1>1, <1>4, <1>5, <1>6, <1>7, <1>9, <1>10, <1>11

\* No finding at all is agreement, for an artifact on its own ...
Clean(matrix, m) ==
    /\ \A i \in DOMAIN m : Valid(m[i]) /\ MatrixAllows(matrix, m[i])
    /\ \A i, j \in DOMAIN m : i # j => Key(m[i]) # Key(m[j])

\* ... and for two manifests: the comparison of two clean ones.
LEMMA CleanCompare ==
    ASSUME NEW A, NEW source \in Seq(A), NEW canonical \in Seq(A), NEW matrix,
           Clean(matrix, source), Clean(matrix, canonical), ~Corrupt(source)
    PROVE  Comparisons(source, canonical) = <<>> <=> Agree(matrix, source, canonical)
  <1> DEFINE Match(s, c) ==
                /\ Key(c) = Key(s) /\ c.avail = s.avail /\ c.avail # "unverifiable"
                /\ ByteProof(s) => /\ c.dom = s.dom /\ c.val = s.val
                                   /\ s.cls \in SelectorClasses => c.sel = s.sel
             Near(c) == \E i \in DOMAIN source : ClasslessKey(source[i]) = ClasslessKey(c)
  <1>1. /\ DOMAIN source = 1 .. Len(source) /\ DOMAIN canonical = 1 .. Len(canonical)
        /\ (\A i \in DOMAIN source : source[i] \in A) /\ \A i \in DOMAIN canonical : canonical[i] \in A
    OBVIOUS
  <1>2. ASSUME NEW i \in DOMAIN source
        PROVE  CompareSource(source, canonical, source[i]) = <<>> <=>
                  \E k \in DOMAIN canonical : Match(source[i], canonical[k])
    <2> DEFINE s == source[i]
    <2>1. s \in A /\ s.avail # "source_corrupt"
      BY <1>1 DEF Corrupt, ToSet
    <2>2. ~Duplicated(source, s)
      BY DEF Clean, Duplicated, Having
    <2>3. CompareSource(source, canonical, s) = <<>> <=>
             \E k \in DOMAIN canonical : Only(canonical, s, k) /\ Proves(canonical[k], s)
      <3> HIDE DEF s
      <3> QED BY <2>1, <2>2, CompareSourceIs
    <2>4. ASSUME NEW k \in DOMAIN canonical
          PROVE  Only(canonical, s, k) /\ Proves(canonical[k], s) <=> Match(s, canonical[k])
      <3>1. Key(canonical[k]) = Key(s) <=> Only(canonical, s, k)
        BY DEF Clean, Only, Having
      <3>2. Valid(canonical[k])
        BY DEF Clean
      <3>3. ByteProof(s) /\ canonical[k].avail = s.avail => canonical[k].val # NoVal
        BY <3>2 DEF Valid, ByteProof
      <3> QED BY <3>1, <3>2, <3>3 DEF Proves
    <2> QED BY <2>3, <2>4
  <1>3. ASSUME NEW i \in DOMAIN canonical
        PROVE  CompareCanonical(source, canonical, canonical[i]) = <<>> <=>
                  Near(canonical[i]) \/ Documented(canonical[i])
    <2>1. ~Duplicated(canonical, canonical[i])
      BY DEF Clean, Duplicated, Having
    <2> QED BY <1>1, <2>1, CompareCanonicalIs
  <1>4. Agree(matrix, source, canonical) <=>
            /\ \A i \in DOMAIN source : \E k \in DOMAIN canonical : Match(source[i], canonical[k])
            /\ \A i \in DOMAIN canonical : Near(canonical[i]) \/ Documented(canonical[i])
    <2>1. \A m \in {source, canonical} : \A i, j \in 1 .. Len(m) :
                /\ Valid(m[i]) /\ MatrixAllows(matrix, m[i])
                /\ i # j => Key(m[i]) # Key(m[j])
      <3> SUFFICES ASSUME NEW m \in {source, canonical}
                   PROVE  \A i, j \in 1 .. Len(m) : /\ Valid(m[i]) /\ MatrixAllows(matrix, m[i])
                                                    /\ i # j => Key(m[i]) # Key(m[j])
        OBVIOUS
      <3>1. Clean(matrix, m) /\ DOMAIN m = 1 .. Len(m)
        BY <1>1
      <3> QED BY <3>1 DEF Clean
    <2>2. Agree(matrix, source, canonical) <=>
            /\ \A i \in 1 .. Len(source) : \E c \in ToSet(canonical) : Match(source[i], c)
            /\ \A c \in ToSet(canonical) :
                  Documented(c) \/ \E s \in ToSet(source) : ClasslessKey(s) = ClasslessKey(c)
      BY <2>1, Zenon DEF Agree
    <2>3. \A i \in 1 .. Len(source) :
             (\E c \in ToSet(canonical) : Match(source[i], c))
             <=> \E k \in DOMAIN canonical : Match(source[i], canonical[k])
      BY DEF ToSet
    <2>4. (\A c \in ToSet(canonical) :
              Documented(c) \/ \E s \in ToSet(source) : ClasslessKey(s) = ClasslessKey(c))
          <=> \A i \in DOMAIN canonical : Near(canonical[i]) \/ Documented(canonical[i])
      BY DEF ToSet
    <2> HIDE DEF Match, Near
    <2> QED BY <1>1, <2>2, <2>3, <2>4
  <1>5. Comparisons(source, canonical) = <<>> <=>
            /\ \A i \in DOMAIN source : CompareSource(source, canonical, source[i]) = <<>>
            /\ \A i \in DOMAIN canonical : CompareCanonical(source, canonical, canonical[i]) = <<>>
    BY ComparisonsIs
  <1> HIDE DEF Match, Near
  <1> QED BY <1>2, <1>3, <1>4, <1>5

\* The findings of both engines, whatever the order of the first ones.
LEMMA VerdictIs ==
    ASSUME NEW A, NEW source \in Seq(A), NEW canonical \in Seq(A), NEW matrix,
           NEW fs \in Seq(Plain(A)),
           fs = <<>> <=> /\ Validations(matrix, "source", source) = <<>>
                         /\ Validations(matrix, "canonical", canonical) = <<>>,
           NEW all \in Seq(Found(A)),
           ToSet(all) = ToSet(fs) \cup ToSet(Duplicates(source, "source"))
                        \cup ToSet(Duplicates(canonical, "canonical"))
                        \cup ToSet(Comparisons(source, canonical))
    PROVE  /\ Outcome(all) = "INCOMPLETE" <=> Corrupt(source)
           /\ Outcome(all) = "PASS" <=> ~Corrupt(source) /\ Agree(matrix, source, canonical)
  <1> DEFINE ds == Duplicates(source, "source")
             dc == Duplicates(canonical, "canonical")
             cs == Comparisons(source, canonical)
             Bad(r) == \E f \in ToSet(r) : f.code = "source_corrupt"
  <1>0. {"source", "canonical"} \subseteq Sides
    BY DEF Sides
  <1>1. ds \in Seq(Plain(A)) /\ dc \in Seq(Plain(A)) /\ cs \in Seq(Found(A))
    BY <1>0, DuplicatesIs, ComparisonsIs
  <1>2. ~Bad(fs) /\ ~Bad(ds) /\ ~Bad(dc) /\ (Bad(cs) <=> Corrupt(source))
    <2> HIDE DEF ds, dc
    <2> QED BY <1>1, PlainIsFound, ComparisonsIs
  <1>3. Bad(all) <=> Corrupt(source)
    BY <1>2
  <1>4. ToSet(all) = {} <=> fs = <<>> /\ ds = <<>> /\ dc = <<>> /\ cs = <<>>
    <2>1. (fs = <<>> <=> ToSet(fs) = {}) /\ (ds = <<>> <=> ToSet(ds) = {})
          /\ (dc = <<>> <=> ToSet(dc) = {}) /\ (cs = <<>> <=> ToSet(cs) = {})
      <3> HIDE DEF ds, dc, cs
      <3> QED BY <1>1, MembersOf
    <2> QED BY <2>1
  <1>5. fs = <<>> /\ ds = <<>> /\ dc = <<>> <=> Clean(matrix, source) /\ Clean(matrix, canonical)
    BY <1>0, ValidationsIs, DuplicatesIs DEF Clean
  <1>6. Agree(matrix, source, canonical) => Clean(matrix, source) /\ Clean(matrix, canonical)
    <2>1. DOMAIN source = 1 .. Len(source) /\ DOMAIN canonical = 1 .. Len(canonical)
      OBVIOUS
    <2> QED BY <2>1 DEF Agree, Clean
  <1>7. ~Corrupt(source) => (ToSet(all) = {} <=> Agree(matrix, source, canonical))
    <2> HIDE DEF ds, dc
    <2> QED BY <1>4, <1>5, <1>6, CleanCompare
  <1>8. "PASS" # "INCOMPLETE" /\ "PASS" # "FAIL" /\ "INCOMPLETE" # "FAIL"
    OBVIOUS
  <1>9. Outcome(all) = IF Bad(all) THEN "INCOMPLETE" ELSE IF ToSet(all) = {} THEN "PASS" ELSE "FAIL"
    BY DEF Outcome
  <1> HIDE DEF Bad
  <1>10. CASE Corrupt(source)
    BY <1>3, <1>8, <1>9, <1>10
  <1>11. CASE ~Corrupt(source)
    BY <1>3, <1>7, <1>8, <1>9, <1>11
  <1> QED BY <1>10, <1>11

-----------------------------------------------------------------------------
(* The disk-backed engine.                                                  *)

Validated(side) == Validations(Matrix, side, Rows(side))

\* The validation findings of the rows written so far, in any order.
Gathered(fs) ==
    /\ fs \in Seq(Plain(Shapes))
    /\ Len(fs) = Len(Validated("source")) + Len(Validated("canonical"))
    /\ \A f \in Found(Shapes) :
          Times(f, fs) = Times(f, Validated("source")) + Times(f, Validated("canonical"))

\* All findings of a diff whose validation findings are fs.
Following(fs) ==
    fs \o Duplicates(Rows("source"), "source") \o Duplicates(Rows("canonical"), "canonical")
       \o Comparisons(Rows("source"), Rows("canonical"))

DiffInv ==
    /\ table \in [Sides -> Seq(Shapes)]
    /\ result = NoResult => Gathered(findings)
    /\ result # NoResult =>
          /\ finished
          /\ \E fs : Gathered(fs) /\ findings = Following(fs)
          /\ result = Accumulate(Cap, findings)

\* Types of what the findings of a diff are made of.
LEMMA PartsOf ==
    ASSUME DiffInv
    PROVE  /\ "source" \in Sides /\ "canonical" \in Sides
           /\ Rows("source") \in Seq(Shapes) /\ Rows("canonical") \in Seq(Shapes)
           /\ \A side \in Sides :
                 /\ Validated(side) \in Seq(Plain(Shapes)) /\ Validated(side) \in Seq(Found(Shapes))
                 /\ Duplicates(Rows(side), side) \in Seq(Found(Shapes))
           /\ Comparisons(Rows("source"), Rows("canonical")) \in Seq(Found(Shapes))
  <1>1. "source" \in Sides /\ "canonical" \in Sides /\ \A side \in Sides : Rows(side) \in Seq(Shapes)
    BY DEF DiffInv, Rows, Sides
  <1>2. ASSUME NEW side \in Sides
        PROVE  /\ Validated(side) \in Seq(Plain(Shapes))
               /\ Duplicates(Rows(side), side) \in Seq(Plain(Shapes))
    BY <1>1, ValidationsIs, DuplicatesIs DEF Validated
  <1>3. ASSUME NEW side \in Sides
        PROVE  /\ Validated(side) \in Seq(Found(Shapes))
               /\ Duplicates(Rows(side), side) \in Seq(Found(Shapes))
    BY <1>2, PlainIsFound
  <1>4. Comparisons(Rows("source"), Rows("canonical")) \in Seq(Found(Shapes))
    BY <1>1, ComparisonsIs
  <1> QED BY <1>1, <1>2, <1>3, <1>4

\* Writing an artifact adds its own findings.
LEMMA WriteGathers ==
    ASSUME NEW side \in Sides, NEW a \in Shapes, DiffInv, Gathered(findings),
           findings' = findings \o Validation(Matrix, side, a),
           table' = [table EXCEPT ![side] = Append(@, a)]
    PROVE  Gathered(findings)' /\ table' \in [Sides -> Seq(Shapes)]
  <1> DEFINE v == Validation(Matrix, side, a)
             other == IF side = "source" THEN "canonical" ELSE "source"
             total(s) == Len(s["source"]) + Len(s["canonical"])
  <1>1. /\ side \in {"source", "canonical"} /\ other \in Sides /\ side # other
        /\ {side, other} = {"source", "canonical"}
    BY DEF Sides
  <1>2. /\ table \in [Sides -> Seq(Shapes)] /\ table' \in [Sides -> Seq(Shapes)]
        /\ Rows(side)' = Append(Rows(side), a) /\ Rows(other)' = Rows(other)
        /\ Rows(side) \in Seq(Shapes)
    BY <1>1 DEF DiffInv, Rows
  <1>3. v \in Seq(Plain(Shapes)) /\ v \in Seq(Found(Shapes))
    BY ValidationIs, PlainIsFound
  <1>4. Validated(side)' = Validated(side) \o v /\ Validated(other)' = Validated(other)
    BY <1>2, ValidationsOneMore DEF Validated
  <1>5. /\ findings \in Seq(Plain(Shapes)) /\ findings \in Seq(Found(Shapes))
        /\ Validated(side) \in Seq(Found(Shapes)) /\ Validated(other) \in Seq(Found(Shapes))
    BY <1>1, PartsOf, PlainIsFound DEF Gathered
  <1> HIDE DEF v, other
  <1>6. findings' \in Seq(Plain(Shapes))
    BY <1>3, <1>5, MembersOf DEF v
  <1>7. Len(findings) = Len(Validated(side)) + Len(Validated(other))
        /\ \A f \in Found(Shapes) :
              Times(f, findings) = Times(f, Validated(side)) + Times(f, Validated(other))
    <2>1. CASE side = "source"
      BY <2>1 DEF Gathered, other
    <2>2. CASE side = "canonical"
      <3>1. other = "source"
        BY <2>2 DEF other
      <3>2. Len(Validated("source")) \in Nat /\ Len(Validated("canonical")) \in Nat
        BY <1>5, <2>2, <3>1
      <3>3. \A f \in Found(Shapes) : Times(f, Validated("source")) \in Nat /\ Times(f, Validated("canonical")) \in Nat
        BY <1>5, <2>2, <3>1, TimesFinite
      <3> QED BY <2>2, <3>1, <3>2, <3>3 DEF Gathered
    <2> QED BY <1>1, <2>1, <2>2
  <1>8. /\ Len(findings') = Len(findings) + Len(v)
        /\ Len(Validated(side)') = Len(Validated(side)) + Len(v)
        /\ Len(v) \in Nat /\ Len(Validated(side)) \in Nat /\ Len(Validated(other)) \in Nat
    BY <1>3, <1>4, <1>5, MembersOf DEF v
  <1>9. ASSUME NEW f \in Found(Shapes)
        PROVE  /\ Times(f, findings') = Times(f, findings) + Times(f, v)
               /\ Times(f, Validated(side)') = Times(f, Validated(side)) + Times(f, v)
               /\ Times(f, v) \in Nat /\ Times(f, Validated(side)) \in Nat /\ Times(f, Validated(other)) \in Nat
    <2>1. findings' = findings \o v
      BY DEF v
    <2>2. Times(f, findings \o v) = Times(f, findings) + Times(f, v)
      BY <1>3, <1>5, TimesConcat
    <2>3. Times(f, Validated(side) \o v) = Times(f, Validated(side)) + Times(f, v)
      BY <1>3, <1>5, TimesConcat
    <2>4. Times(f, v) \in Nat /\ Times(f, Validated(side)) \in Nat /\ Times(f, Validated(other)) \in Nat
      BY <1>3, <1>5, TimesFinite
    <2> QED BY <1>4, <2>1, <2>2, <2>3, <2>4
  <1>10. Len(findings') = Len(Validated("source")') + Len(Validated("canonical")')
    <2>1. Len(findings') = Len(Validated(side)') + Len(Validated(other)')
      BY <1>4, <1>7, <1>8
    <2>2. Len(Validated(side)') \in Nat /\ Len(Validated(other)') \in Nat
      BY <1>4, <1>8
    <2>3. CASE side = "source"
      BY <2>1, <2>3 DEF other
    <2>4. CASE side = "canonical"
      <3>1. other = "source"
        BY <2>4 DEF other
      <3> QED BY <2>1, <2>2, <2>4, <3>1
    <2> QED BY <1>1, <2>3, <2>4
  <1>11. ASSUME NEW f \in Found(Shapes)
         PROVE  Times(f, findings') = Times(f, Validated("source")') + Times(f, Validated("canonical")')
    <2>1. Times(f, findings') = Times(f, Validated(side)') + Times(f, Validated(other)')
      BY <1>4, <1>7, <1>9
    <2>2. Times(f, Validated(side)') \in Nat /\ Times(f, Validated(other)') \in Nat
      BY <1>4, <1>9
    <2>3. CASE side = "source"
      BY <2>1, <2>3 DEF other
    <2>4. CASE side = "canonical"
      <3>1. other = "source"
        BY <2>4 DEF other
      <3> QED BY <2>1, <2>2, <2>4, <3>1
    <2> QED BY <1>1, <2>3, <2>4
  <1>12. Gathered(findings)'
    BY <1>6, <1>10, <1>11 DEF Gathered
  <1> QED BY <1>2, <1>12

\* What follows the validation findings of the rows.
LEMMA FollowingIs ==
    ASSUME DiffInv, NEW fs, Gathered(fs)
    PROVE  /\ Following(fs) \in Seq(Found(Shapes))
           /\ ToSet(Following(fs)) = ToSet(fs) \cup ToSet(Duplicates(Rows("source"), "source"))
                 \cup ToSet(Duplicates(Rows("canonical"), "canonical"))
                 \cup ToSet(Comparisons(Rows("source"), Rows("canonical")))
           /\ Len(Following(fs)) = Len(fs) + Len(Duplicates(Rows("source"), "source"))
                 + Len(Duplicates(Rows("canonical"), "canonical"))
                 + Len(Comparisons(Rows("source"), Rows("canonical")))
           /\ \A f : Times(f, Following(fs)) =
                 Times(f, fs) + Times(f, Duplicates(Rows("source"), "source"))
                 + Times(f, Duplicates(Rows("canonical"), "canonical"))
                 + Times(f, Comparisons(Rows("source"), Rows("canonical")))
  <1> DEFINE F == Found(Shapes)
             ds == Duplicates(Rows("source"), "source")
             dc == Duplicates(Rows("canonical"), "canonical")
             cs == Comparisons(Rows("source"), Rows("canonical"))
  <1>1. fs \in Seq(F) /\ ds \in Seq(F) /\ dc \in Seq(F) /\ cs \in Seq(F)
    BY PartsOf, PlainIsFound DEF Gathered
  <1>2. Following(fs) = ((fs \o ds) \o dc) \o cs
    BY DEF Following
  <1> HIDE DEF F, ds, dc, cs
  <1>3. fs \o ds \in Seq(F) /\ (fs \o ds) \o dc \in Seq(F) /\ ((fs \o ds) \o dc) \o cs \in Seq(F)
    BY <1>1, MembersOf
  <1>4. ToSet(((fs \o ds) \o dc) \o cs) = ToSet(fs) \cup ToSet(ds) \cup ToSet(dc) \cup ToSet(cs)
    <2>1. \A s, t \in Seq(F) : ToSet(s \o t) = ToSet(s) \cup ToSet(t)
      BY MembersOf
    <2>2. ToSet(((fs \o ds) \o dc) \o cs) = ToSet((fs \o ds) \o dc) \cup ToSet(cs)
      BY <1>1, <1>3, <2>1, Zenon
    <2>3. ToSet((fs \o ds) \o dc) = ToSet(fs \o ds) \cup ToSet(dc)
      BY <1>1, <1>3, <2>1, Zenon
    <2>4. ToSet(fs \o ds) = ToSet(fs) \cup ToSet(ds)
      BY <1>1, <2>1, Zenon
    <2> QED BY <2>2, <2>3, <2>4, Zenon
  <1>5. Len(((fs \o ds) \o dc) \o cs) = Len(fs) + Len(ds) + Len(dc) + Len(cs)
    <2>1. Len(((fs \o ds) \o dc) \o cs) = Len((fs \o ds) \o dc) + Len(cs)
      BY <1>1, <1>3, MembersOf
    <2>2. Len((fs \o ds) \o dc) = Len(fs \o ds) + Len(dc)
      BY <1>1, <1>3, MembersOf
    <2>3. Len(fs \o ds) = Len(fs) + Len(ds)
      BY <1>1, MembersOf
    <2> QED BY <2>1, <2>2, <2>3
  <1>6. ASSUME NEW f
        PROVE  Times(f, ((fs \o ds) \o dc) \o cs) = Times(f, fs) + Times(f, ds) + Times(f, dc) + Times(f, cs)
    <2>1. Times(f, ((fs \o ds) \o dc) \o cs) = Times(f, (fs \o ds) \o dc) + Times(f, cs)
      BY <1>1, <1>3, TimesConcat
    <2>2. Times(f, (fs \o ds) \o dc) = Times(f, fs \o ds) + Times(f, dc)
      BY <1>1, <1>3, TimesConcat
    <2>3. Times(f, fs \o ds) = Times(f, fs) + Times(f, ds)
      BY <1>1, TimesConcat
    <2> QED BY <2>1, <2>2, <2>3
  <1> QED BY <1>2, <1>3, <1>4, <1>5, <1>6 DEF F, ds, dc, cs

LEMMA DiffInvInit == Init => DiffInv
  <1> SUFFICES ASSUME Init PROVE DiffInv
    OBVIOUS
  <1>1. table = [side \in Sides |-> <<>>] /\ findings = <<>> /\ result = NoResult
    BY DEF Init
  <1>2. "source" \in Sides /\ "canonical" \in Sides
    BY DEF Sides
  <1>3. Rows("source") = <<>> /\ Rows("canonical") = <<>>
    BY <1>1, <1>2 DEF Rows
  <1>4. ASSUME NEW side \in Sides PROVE Validations(Matrix, side, <<>>) = <<>>
    <2>1. \A i \in DOMAIN <<>> : FALSE
      OBVIOUS
    <2>2. <<>> \in Seq(Shapes)
      OBVIOUS
    <2> QED BY <2>1, <2>2, ValidationsIs
  <1>5. Validated("source") = <<>> /\ Validated("canonical") = <<>>
    BY <1>2, <1>3, <1>4 DEF Validated
  <1>6. \A f : Times(f, <<>>) = 0
    <2>1. <<>> \in Seq({}) /\ ToSet(<<>>) = {}
      BY DEF ToSet
    <2> QED BY <2>1, TimesFinite
  <1>7. Gathered(findings)
    <2>1. <<>> \in Seq(Plain(Shapes)) /\ Len(<<>>) = 0
      OBVIOUS
    <2> QED BY <1>1, <1>5, <1>6, <2>1 DEF Gathered
  <1> QED BY <1>1, <1>7 DEF DiffInv

LEMMA DiffInvNext == DiffInv /\ [Next]_vars => DiffInv'
  <1> SUFFICES ASSUME DiffInv, [Next]_vars PROVE DiffInv'
    OBVIOUS
  <1>1. ASSUME NEW side \in Sides, NEW a \in Shapes, WriteArtifact(side, a) PROVE DiffInv'
    <2>1. /\ findings' = findings \o Validation(Matrix, side, a)
          /\ table' = [table EXCEPT ![side] = Append(@, a)]
          /\ ~finished /\ result' = result
      BY <1>1 DEF WriteArtifact
    <2>2. result = NoResult /\ Gathered(findings)
      BY <2>1 DEF DiffInv
    <2>3. Gathered(findings)' /\ table' \in [Sides -> Seq(Shapes)]
      BY <2>1, <2>2, WriteGathers
    <2> QED BY <2>1, <2>2, <2>3 DEF DiffInv
  <1>2. CASE FinishWrites
    BY <1>2 DEF FinishWrites, DiffInv, Gathered, Following, Validated, Rows
  <1>3. CASE Result
    <2>1. /\ finished /\ result = NoResult /\ findings' = AllFindings
          /\ result' = Accumulate(Cap, AllFindings) /\ table' = table /\ finished' = finished
      BY <1>3 DEF Result
    <2>2. Gathered(findings)
      BY <2>1 DEF DiffInv
    <2>3. AllFindings = Following(findings)
      BY DEF AllFindings, Following
    <2>4. \E x : x = findings /\ Gathered(x) /\ findings' = Following(x)
      BY <2>1, <2>2, <2>3
    <2>5. PICK x : Gathered(x) /\ findings' = Following(x)
      BY <2>4
    <2>6. Gathered(x)' /\ findings' = Following(x)'
      BY <2>1, <2>5 DEF Gathered, Following, Validated, Rows
    <2>7. result' = Accumulate(Cap, findings')
      BY <2>1
    <2>8. result' # NoResult
      <3>1. findings' \in Seq(Found(Shapes))
        BY <2>5, FollowingIs
      <3>2. \A f \in Found(Shapes) : f.sev \in {"P0", "P1", "P2"}
        BY DEF Found, Finding
      <3>3. Cap \in Int
        BY DiffAssumption
      <3>4. result'.state = Outcome(findings')
        BY <2>7, <3>1, <3>2, <3>3, AccumulateIs
      <3> QED BY <3>4 DEF Outcome, NoResult
    <2> QED BY <2>1, <2>6, <2>7, <2>8 DEF DiffInv
  <1>4. CASE Done
    BY <1>4 DEF Done, vars, DiffInv, Gathered, Following, Validated, Rows
  <1>5. CASE UNCHANGED vars
    BY <1>5 DEF vars, DiffInv, Gathered, Following, Validated, Rows
  <1> QED BY <1>1, <1>2, <1>3, <1>4, <1>5 DEF Next

\* The findings of the in-memory engine, run on the rows.
LEMMA MemoryIs ==
    ASSUME DiffInv
    PROVE  LET m == DiffFindings(Matrix, Rows("source"), Rows("canonical"))
           IN  /\ m \in Seq(Found(Shapes))
               /\ Len(m) = Len(Validated("source")) + Len(Validated("canonical"))
                     + Len(Duplicates(Rows("source"), "source"))
                     + Len(Duplicates(Rows("canonical"), "canonical"))
                     + Len(Comparisons(Rows("source"), Rows("canonical")))
               /\ \A f : Times(f, m) =
                     Times(f, Validated("source")) + Times(f, Validated("canonical"))
                     + Times(f, Duplicates(Rows("source"), "source"))
                     + Times(f, Duplicates(Rows("canonical"), "canonical"))
                     + Times(f, Comparisons(Rows("source"), Rows("canonical")))
  <1> DEFINE F == Found(Shapes)
             vs == Validated("source")
             vc == Validated("canonical")
             ds == Duplicates(Rows("source"), "source")
             dc == Duplicates(Rows("canonical"), "canonical")
             cs == Comparisons(Rows("source"), Rows("canonical"))
             m2 == vs \o ds
             m3 == m2 \o vc
             m4 == m3 \o dc
             m5 == m4 \o cs
  <1>1. vs \in Seq(F) /\ vc \in Seq(F) /\ ds \in Seq(F) /\ dc \in Seq(F) /\ cs \in Seq(F)
    BY PartsOf
  <1>2. DiffFindings(Matrix, Rows("source"), Rows("canonical")) = m5
    BY DEF DiffFindings, Validated
  <1> HIDE DEF F, vs, vc, ds, dc, cs
  <1>3. m2 \in Seq(F) /\ m3 \in Seq(F) /\ m4 \in Seq(F) /\ m5 \in Seq(F)
    BY <1>1, MembersOf
  <1>4. Len(m5) = Len(vs) + Len(vc) + Len(ds) + Len(dc) + Len(cs)
    <2>1. Len(m2) = Len(vs) + Len(ds)
      BY <1>1, MembersOf
    <2> HIDE DEF m2
    <2>2. Len(m3) = Len(m2) + Len(vc)
      BY <1>1, <1>3, MembersOf
    <2> HIDE DEF m3
    <2>3. Len(m4) = Len(m3) + Len(dc)
      BY <1>1, <1>3, MembersOf
    <2> HIDE DEF m4
    <2>4. Len(m5) = Len(m4) + Len(cs)
      BY <1>1, <1>3, MembersOf
    <2>5. Len(vs) \in Nat /\ Len(vc) \in Nat /\ Len(ds) \in Nat /\ Len(dc) \in Nat /\ Len(cs) \in Nat
      BY <1>1, LenProperties
    <2> QED BY <2>1, <2>2, <2>3, <2>4, <2>5
  <1>5. ASSUME NEW f
        PROVE  Times(f, m5) = Times(f, vs) + Times(f, vc) + Times(f, ds) + Times(f, dc) + Times(f, cs)
    <2>1. Times(f, m2) = Times(f, vs) + Times(f, ds)
      BY <1>1, TimesConcat
    <2> HIDE DEF m2
    <2>2. Times(f, m3) = Times(f, m2) + Times(f, vc)
      BY <1>1, <1>3, TimesConcat
    <2> HIDE DEF m3
    <2>3. Times(f, m4) = Times(f, m3) + Times(f, dc)
      BY <1>1, <1>3, TimesConcat
    <2> HIDE DEF m4
    <2>4. Times(f, m5) = Times(f, m4) + Times(f, cs)
      BY <1>1, <1>3, TimesConcat
    <2>5. Times(f, vs) \in Nat /\ Times(f, vc) \in Nat /\ Times(f, ds) \in Nat
          /\ Times(f, dc) \in Nat /\ Times(f, cs) \in Nat
      BY <1>1, TimesFinite
    <2> QED BY <2>1, <2>2, <2>3, <2>4, <2>5
  <1> HIDE DEF m5
  <1> QED BY <1>2, <1>3, <1>4, <1>5 DEF F, vs, vc, ds, dc, cs

\* Both engines count the same findings and reach the same state.
LEMMA DiffInvEngines == DiffInv => EnginesAgree
  <1> SUFFICES ASSUME DiffInv, result # NoResult PROVE EnginesAgree
    BY DEF EnginesAgree
  <1> DEFINE m == DiffFindings(Matrix, Rows("source"), Rows("canonical"))
             memory == Accumulate(-1, m)
             F == Found(Shapes)
  <1>1. PICK fs : Gathered(fs) /\ findings = Following(fs)
    BY DEF DiffInv
  <1>2. result = Accumulate(Cap, findings)
    BY DEF DiffInv
  <1>3. findings \in Seq(F) /\ m \in Seq(F)
    BY <1>1, FollowingIs, MemoryIs
  <1>4. \A f \in F : f.sev \in {"P0", "P1", "P2"}
    BY DEF Found, Finding
  <1>5. Cap \in Int /\ -1 \in Int /\ -1 < 0
    BY DiffAssumption
  <1>6. Len(findings) = Len(m)
    <2>1. Len(Validated("source")) \in Nat /\ Len(Validated("canonical")) \in Nat
      BY PartsOf, LenProperties
    <2> HIDE DEF m
    <2> QED BY <1>1, <2>1, FollowingIs, MemoryIs DEF Gathered, m
  <1>7. \A f \in F : Times(f, findings) = Times(f, m)
    <2> SUFFICES ASSUME NEW f \in F PROVE Times(f, findings) = Times(f, m)
      OBVIOUS
    <2>1. Times(f, fs) = Times(f, Validated("source")) + Times(f, Validated("canonical"))
      BY <1>1 DEF Gathered
    <2>2. Times(f, findings) = Times(f, fs) + Times(f, Duplicates(Rows("source"), "source"))
                 + Times(f, Duplicates(Rows("canonical"), "canonical"))
                 + Times(f, Comparisons(Rows("source"), Rows("canonical")))
      BY <1>1, FollowingIs
    <2>3. Times(f, m) = Times(f, Validated("source")) + Times(f, Validated("canonical"))
                     + Times(f, Duplicates(Rows("source"), "source"))
                     + Times(f, Duplicates(Rows("canonical"), "canonical"))
                     + Times(f, Comparisons(Rows("source"), Rows("canonical")))
      BY MemoryIs
    <2> QED BY <2>1, <2>2, <2>3
  <1>8. ToSet(findings) = ToSet(m)
    <2>1. ToSet(findings) \subseteq F /\ ToSet(m) \subseteq F
      BY <1>3, MembersOf
    <2>2. \A f \in F : (Times(f, findings) = 0 <=> f \notin ToSet(findings))
                       /\ (Times(f, m) = 0 <=> f \notin ToSet(m))
      BY <1>3, TimesFinite
    <2> HIDE DEF F, m
    <2> QED BY <1>7, <2>1, <2>2
  <1>9. /\ result.state = Outcome(findings) /\ result.total = Len(findings)
        /\ memory.state = Outcome(m) /\ memory.total = Len(m) /\ memory.details = m
    <2>1. result.state = Outcome(findings) /\ result.total = Len(findings)
      BY <1>2, <1>3, <1>4, <1>5, AccumulateIs
    <2> HIDE DEF F, m
    <2>2. memory.state = Outcome(m) /\ memory.total = Len(m) /\ memory.details = m
      BY <1>3, <1>4, <1>5, AccumulateIs
    <2> QED BY <2>1, <2>2
  <1>10. Outcome(findings) = Outcome(m)
    BY <1>8 DEF Outcome
  <1>11. \A f \in ToSet(findings) \cup ToSet(m) : f \in F
    BY <1>3, MembersOf
  <1>12. Diff(Matrix, -1, Rows("source"), Rows("canonical")) = memory
    BY DEF Diff
  <1> HIDE DEF m, memory, F
  <1> QED BY <1>6, <1>7, <1>8, <1>9, <1>10, <1>11, <1>12 DEF EnginesAgree

\* A verdict is about the manifests.
LEMMA DiffInvVerdict == DiffInv => VerdictIsExact
  <1> SUFFICES ASSUME DiffInv, result # NoResult PROVE VerdictIsExact
    BY DEF VerdictIsExact
  <1>1. PICK fs : Gathered(fs) /\ findings = Following(fs)
    BY DEF DiffInv
  <1>2. findings \in Seq(Found(Shapes))
    BY <1>1, FollowingIs
  <1>3. result.state = Outcome(findings)
    <2>1. \A f \in Found(Shapes) : f.sev \in {"P0", "P1", "P2"}
      BY DEF Found, Finding
    <2>2. Cap \in Int
      BY DiffAssumption
    <2>3. result = Accumulate(Cap, findings)
      BY DEF DiffInv
    <2> QED BY <1>2, <2>1, <2>2, <2>3, AccumulateIs
  <1>4. /\ fs \in Seq(Plain(Shapes))
        /\ fs = <<>> <=> Validated("source") = <<>> /\ Validated("canonical") = <<>>
    <2>1. Validated("source") \in Seq(Found(Shapes)) /\ Validated("canonical") \in Seq(Found(Shapes))
          /\ fs \in Seq(Plain(Shapes))
      BY <1>1, PartsOf DEF Gathered
    <2>2. /\ Len(Validated("source")) \in Nat /\ Len(Validated("canonical")) \in Nat /\ Len(fs) \in Nat
          /\ Validated("source") = <<>> <=> Len(Validated("source")) = 0
          /\ Validated("canonical") = <<>> <=> Len(Validated("canonical")) = 0
          /\ fs = <<>> <=> Len(fs) = 0
      BY <2>1, MembersOf
    <2>3. Len(fs) = Len(Validated("source")) + Len(Validated("canonical"))
      BY <1>1 DEF Gathered
    <2> QED BY <2>1, <2>2, <2>3
  <1>5. ToSet(findings) = ToSet(fs) \cup ToSet(Duplicates(Rows("source"), "source"))
                 \cup ToSet(Duplicates(Rows("canonical"), "canonical"))
                 \cup ToSet(Comparisons(Rows("source"), Rows("canonical")))
    BY <1>1, FollowingIs
  <1>6. Rows("source") \in Seq(Shapes) /\ Rows("canonical") \in Seq(Shapes)
    BY PartsOf
  <1>7. /\ Outcome(findings) = "INCOMPLETE" <=> Corrupt(Rows("source"))
        /\ Outcome(findings) = "PASS" <=>
              ~Corrupt(Rows("source")) /\ Agree(Matrix, Rows("source"), Rows("canonical"))
    BY <1>2, <1>4, <1>5, <1>6, VerdictIs DEF Validated
  <1> QED BY <1>3, <1>7 DEF VerdictIsExact

\* The disk-backed engine's verdict is exact, whatever the artifacts, the matrix, the
\* cap on details and the order in which the extractors wrote (StreamDiff.Result).
THEOREM DiffVerdictIsExact == Spec => []VerdictIsExact
  <1> QED BY DiffInvInit, DiffInvNext, DiffInvVerdict, PTL DEF Spec

\* It reaches the state of the in-memory engine with the same findings, each as often
\* (StreamDiff.Result and DiffContextCapped).
THEOREM DiffEnginesAgree == Spec => []EnginesAgree
  <1> QED BY DiffInvInit, DiffInvNext, DiffInvEngines, PTL DEF Spec

-----------------------------------------------------------------------------
(* The check run: what holds while the tree and the database move.          *)

\* A file and a row set: absent, or with at least one record.
FileStates == {Absent} \cup [gen : Nat \ {0}, len : Nat \ {0}, mtime : Nat]
RowStates == {Content(Absent)} \cup [gen : Nat \ {0}, len : Nat \ {0}]
Prints == [size : Nat, mtime : Nat, sha : RowStates]

\* An artifact the extractors of a run write.
Art == {a \in [cls : {"op_boundary", "user_prompt"}, id : {"op", "line"} \X Paths \X Nat,
               avail : {"available", "unverifiable"}, dom : {"identity", "text"},
               val : (Nat \X Nat) \cup {NoVal}, sel : {"line"}, synth : {"no"}, failures : {FALSE}] :
           a.cls = "op_boundary" <=> a.id[1] = "op"}

Runs == [pc : {"capture", "read", "source", "canonical", "verify", "diff", "record", "done"},
         opt : Options, todo : Seq(Paths), stat : FileStates,
         snap : [Paths -> Prints], img : [Paths -> FileStates],
         src : Seq(Art), pin : [Paths -> RowStates], can : Seq(Art),
         err : BOOLEAN, state : {"PASS", "FAIL", "INCOMPLETE", "SAMPLE_ONLY"},
         skipped : BOOLEAN, atPin : [Paths -> FileStates]]

CheckTypes ==
    /\ changes \in Nat
    /\ tree \in [Paths -> FileStates] /\ \A p \in Paths : tree[p].mtime <= changes
    /\ db \in [Paths -> RowStates]
    /\ cursor = NoEntry \/ cursor.state \in {"PASS", "FAIL"}
    /\ chk = Idle \/ chk \in Runs

\* The file is still the one its fingerprint was taken of: a change moves the mtime.
Steady(p) ==
    Captured(p) /\ tree[p] # Absent /\ tree[p].mtime = chk.snap[p].mtime

\* The file a run is reading is the one its stat saw, if its mtime is.
StampOk ==
    At("read") =>
        LET f == tree[Head(chk.todo)] IN
          /\ chk.todo # <<>> /\ chk.stat.mtime <= changes
          /\ chk.stat # Absent /\ f # Absent /\ f.mtime = chk.stat.mtime => f = chk.stat

\* The fingerprint a file has and what it is a fingerprint of.
PrintOk(p) ==
    /\ chk.snap[p].mtime <= changes
    /\ chk.snap[p].sha = Content(chk.img[p])
    /\ Steady(p) => chk.snap[p] = Fingerprint(tree[p], tree[p])

Fingerprints == chk # Idle => StampOk /\ \A p \in Paths : PrintOk(p)

\* The row artifacts of a file in a manifest, and those the file has.
OpsOf(m, p) == {a \in ToSet(m) : a.cls = "op_boundary" /\ a.id[2] = p}
OpArtifacts(p, f) ==
    {Artifact("op_boundary", <<"op", p, i>>, "available", "identity", <<f.gen, i>>) : i \in 1 .. f.len}

\* Nothing happened to a captured file up to its verification, if it has happened.
Sure(p) ==
    \/ Steady(p)
    \/ Captured(p) /\ (chk.pc \in {"diff", "record", "done"} \/ (At("verify") /\ p \notin ToSet(chk.todo)))

Reading == {"capture", "read"}
Sourcing == {"capture", "read", "source"}

\* The row artifacts of a file in the source manifest, with --db: those of the
\* fingerprint, as far as the file is known not to have moved.
SrcOk(p) ==
    chk.opt.db /\ Sure(p) =>
      /\ OpsOf(chk.src, p) \subseteq OpArtifacts(p, chk.snap[p].sha)
      /\ \/ chk.pc \in Reading
         \/ At("source") /\ p \in ToSet(chk.todo)
         \/ OpArtifacts(p, chk.snap[p].sha) \subseteq OpsOf(chk.src, p)
      /\ chk.pc \notin Sourcing => chk.snap[p] = Fingerprint(chk.atPin[p], chk.atPin[p])

\* Its row artifacts in the canonical manifest: those of the pinned rows.
CanOk(p) ==
    /\ OpsOf(chk.can, p) \subseteq OpArtifacts(p, chk.pin[p])
    /\ \/ chk.pc \in Sourcing
       \/ At("canonical") /\ p \in ToSet(chk.todo)
       \/ OpArtifacts(p, chk.pin[p]) \subseteq OpsOf(chk.can, p)

\* What the manifests of a run are, unless something failed.
Clear == chk # Idle /\ ~chk.err /\ ~chk.skipped

Manifests ==
    Clear =>
      /\ chk.pc \in Reading => chk.src = <<>>
      /\ chk.pc \in Sourcing => chk.can = <<>>
      /\ \A p \in Paths : SrcOk(p) /\ CanOk(p)
      /\ ~chk.opt.db /\ chk.pc \notin Sourcing => chk.pin = Contents(chk.img)

\* A reused result: the resume file's, of the same fingerprints.
SkipOk ==
    chk.skipped =>
      /\ chk.pc \in {"verify", "done"}
      /\ chk.state = "PASS" => chk.opt.use = "resume" /\ Hashes(chk.snap) \in proved

\* The state of a run that compared its manifests.
StateOk ==
    ~chk.skipped /\ chk.pc \in {"record", "done"} =>
      /\ chk.state \in {"PASS", "FAIL"} => ~chk.err
      /\ chk.state = "PASS" => ~Diagnostic(chk.opt) /\ Agree(CheckMatrix, chk.src, chk.can)

\* What a state that a run reports is worth.
Verdicts ==
    /\ cursor # NoEntry /\ cursor.state = "PASS" => Hashes(cursor.snap) \in proved
    /\ chk # Idle => SkipOk /\ StateOk

CheckInv == CheckTypes /\ Fingerprints /\ Manifests /\ Verdicts

\* A row set is known by the row artifacts it gives.
LEMMA OpArtifactsDiffer ==
    ASSUME NEW p, NEW f \in RowStates, NEW g \in RowStates,
           \A a \in OpArtifacts(p, f) : \E b \in OpArtifacts(p, g) : b.id = a.id /\ b.val = a.val,
           \A b \in OpArtifacts(p, g) : \E a \in OpArtifacts(p, f) : a.id = b.id
    PROVE  f = g
  <1> DEFINE art(h, i) == Artifact("op_boundary", <<"op", p, i>>, "available", "identity", <<h.gen, i>>)
  <1>1. \A h, i : art(h, i).id = <<"op", p, i>> /\ art(h, i).val = <<h.gen, i>>
    BY DEF Artifact
  <1>2. \A h : OpArtifacts(p, h) = {art(h, i) : i \in 1 .. h.len}
    BY DEF OpArtifacts
  <1> HIDE DEF art
  <1>3. \A i, j : <<"op", p, i>> = <<"op", p, j>> => i = j
    OBVIOUS
  <1>4. \A i \in 1 .. f.len : i \in 1 .. g.len /\ g.gen = f.gen
    <2> SUFFICES ASSUME NEW i \in 1 .. f.len PROVE i \in 1 .. g.len /\ g.gen = f.gen
      OBVIOUS
    <2>1. PICK b \in OpArtifacts(p, g) : b.id = art(f, i).id /\ b.val = art(f, i).val
      BY <1>2
    <2>2. PICK j \in 1 .. g.len : b = art(g, j)
      BY <1>2
    <2>3. <<"op", p, j>> = <<"op", p, i>> /\ <<g.gen, j>> = <<f.gen, i>>
      BY <1>1, <2>1, <2>2
    <2> QED BY <2>3
  <1>5. \A j \in 1 .. g.len : j \in 1 .. f.len
    <2> SUFFICES ASSUME NEW j \in 1 .. g.len PROVE j \in 1 .. f.len
      OBVIOUS
    <2>1. PICK a \in OpArtifacts(p, f) : a.id = art(g, j).id
      BY <1>2
    <2>2. PICK i \in 1 .. f.len : a = art(f, i)
      BY <1>2
    <2>3. <<"op", p, j>> = <<"op", p, i>>
      BY <1>1, <2>1, <2>2
    <2> QED BY <2>3
  <1>6. CASE f = Content(Absent)
    <2>1. f.len = 0
      BY <1>6 DEF Content, Absent
    <2>2. g = Content(Absent)
      BY <1>5, <2>1 DEF RowStates
    <2> QED BY <1>6, <2>2
  <1>7. CASE f # Content(Absent)
    <2>1. f \in [gen : Nat \ {0}, len : Nat \ {0}]
      BY <1>7 DEF RowStates
    <2>2. 1 \in 1 .. f.len /\ f.len \in 1 .. f.len
      BY <2>1
    <2>3. g # Content(Absent)
      BY <1>4, <2>2 DEF Content, Absent
    <2>4. g \in [gen : Nat \ {0}, len : Nat \ {0}]
      BY <2>3 DEF RowStates
    <2>5. f.gen = g.gen /\ g.len \in 1 .. f.len /\ f.len \in 1 .. g.len
      BY <1>4, <1>5, <2>2, <2>4
    <2> QED BY <2>1, <2>4, <2>5
  <1> QED BY <1>6, <1>7

\* Manifests side by side.
LEMMA OpsOfConcat ==
    ASSUME NEW s \in Seq(Art), NEW t \in Seq(Art), NEW p
    PROVE  s \o t \in Seq(Art) /\ OpsOf(s \o t, p) = OpsOf(s, p) \cup OpsOf(t, p)
  <1>1. s \o t \in Seq(Art) /\ ToSet(s \o t) = ToSet(s) \cup ToSet(t)
    BY MembersOf
  <1> QED BY <1>1 DEF OpsOf

\* What n rows add to a manifest: n row artifacts and n payload artifacts.
OpRows(p, n, g) == [i \in 1 .. n |-> Artifact("op_boundary", <<"op", p, i>>, "available", "identity", <<g, i>>)]

LEMMA RowsAndPayloads ==
    ASSUME NEW p \in Paths, NEW f, f.len \in Nat, f.gen \in Nat,
           NEW line \in [1 .. f.len -> Art], \A i \in 1 .. f.len : line[i].cls = "user_prompt"
    PROVE  /\ OpRows(p, f.len, f.gen) \o line \in Seq(Art)
           /\ OpsOf(OpRows(p, f.len, f.gen) \o line, p) = OpArtifacts(p, f)
           /\ \A q : q # p => OpsOf(OpRows(p, f.len, f.gen) \o line, q) = {}
  <1> DEFINE n == f.len
             art(i) == Artifact("op_boundary", <<"op", p, i>>, "available", "identity", <<f.gen, i>>)
             ops == OpRows(p, n, f.gen)
  <1>1. \A i \in Nat : art(i) \in Art /\ art(i).cls = "op_boundary" /\ art(i).id[2] = p
    BY DEF Artifact, Art
  <1>2. /\ DOMAIN ops = 1 .. n /\ \A i \in 1 .. n : ops[i] = art(i)
        /\ ops = [i \in 1 .. n |-> art(i)]
    BY DEF OpRows
  <1> HIDE DEF art, ops
  <1>3. ops \in Seq(Art) /\ ToSet(ops) = {art(i) : i \in 1 .. n}
    <2>1. ops \in [1 .. n -> Art]
      BY <1>1, <1>2
    <2>2. ops \in Seq(Art)
      BY <2>1
    <2>3. ToSet(ops) = {art(i) : i \in 1 .. n}
      BY <1>2 DEF ToSet
    <2> QED BY <2>2, <2>3
  <1>4. line \in Seq(Art) /\ \A q : OpsOf(line, q) = {}
    <2>1. DOMAIN line = 1 .. n
      OBVIOUS
    <2> QED BY <2>1 DEF OpsOf, ToSet
  <1>5. ops \o line \in Seq(Art) /\ \A q : OpsOf(ops \o line, q) = OpsOf(ops, q) \cup OpsOf(line, q)
    <2>1. \A q : ops \o line \in Seq(Art) /\ OpsOf(ops \o line, q) = OpsOf(ops, q) \cup OpsOf(line, q)
      BY <1>3, <1>4, OpsOfConcat
    <2> QED BY <2>1
  <1>6. OpsOf(ops, p) = {art(i) : i \in 1 .. n} /\ \A q : q # p => OpsOf(ops, q) = {}
    BY <1>1, <1>3 DEF OpsOf
  <1>7. OpArtifacts(p, f) = {art(i) : i \in 1 .. n}
    BY DEF OpArtifacts, art
  <1>8. \A q : OpsOf(ops \o line, q) = OpsOf(ops, q)
    BY <1>4, <1>5
  <1> HIDE DEF n
  <1> QED BY <1>5, <1>6, <1>7, <1>8, Zenon DEF n, ops

LEMMA SourceArtifactsAre ==
    ASSUME NEW p \in Paths, NEW f \in FileStates
    PROVE  /\ SourceArtifacts(p, f) \in Seq(Art)
           /\ OpsOf(SourceArtifacts(p, f), p) = OpArtifacts(p, f)
           /\ \A q : q # p => OpsOf(SourceArtifacts(p, f), q) = {}
  <1> DEFINE line == [i \in 1 .. f.len |-> Artifact("user_prompt", <<"line", p, i>>, "available", "text", <<f.gen, i>>)]
  <1>1. f.len \in Nat /\ f.gen \in Nat
    BY DEF FileStates, Absent
  <1>2. line \in [1 .. f.len -> Art] /\ \A i \in 1 .. f.len : line[i].cls = "user_prompt"
    BY <1>1 DEF Artifact, Art
  <1>3. SourceArtifacts(p, f) =
           OpRows(p, f.len, f.gen) \o line
    BY DEF SourceArtifacts, OpRows
  <1> HIDE DEF line
  <1>4. /\ OpRows(p, f.len, f.gen) \o line \in Seq(Art)
        /\ OpsOf(OpRows(p, f.len, f.gen) \o line, p) = OpArtifacts(p, f)
        /\ \A q : q # p => OpsOf(OpRows(p, f.len, f.gen) \o line, q) = {}
    BY <1>1, <1>2, RowsAndPayloads, Zenon
  <1> QED BY <1>3, <1>4, Zenon

LEMMA CanonicalArtifactsAre ==
    ASSUME NEW p \in Paths, NEW rows \in RowStates, NEW f \in FileStates
    PROVE  /\ CanonicalArtifacts(p, rows, f) \in Seq(Art)
           /\ OpsOf(CanonicalArtifacts(p, rows, f), p) = OpArtifacts(p, rows)
           /\ \A q : q # p => OpsOf(CanonicalArtifacts(p, rows, f), q) = {}
  <1> DEFINE line == [i \in 1 .. rows.len |->
                        IF i <= f.len
                        THEN Artifact("user_prompt", <<"line", p, i>>, "available", "text", <<f.gen, i>>)
                        ELSE Artifact("user_prompt", <<"line", p, i>>, "unverifiable", "text", NoVal)]
  <1>1. rows.len \in Nat /\ rows.gen \in Nat /\ f.len \in Nat /\ f.gen \in Nat
    BY DEF FileStates, RowStates, Content, Absent
  <1>2. line \in [1 .. rows.len -> Art] /\ \A i \in 1 .. rows.len : line[i].cls = "user_prompt"
    BY <1>1 DEF Artifact, Art
  <1>3. CanonicalArtifacts(p, rows, f) =
           OpRows(p, rows.len, rows.gen) \o line
    BY DEF CanonicalArtifacts, OpRows
  <1> HIDE DEF line
  <1>4. /\ OpRows(p, rows.len, rows.gen) \o line \in Seq(Art)
        /\ OpsOf(OpRows(p, rows.len, rows.gen) \o line, p) = OpArtifacts(p, rows)
        /\ \A q : q # p => OpsOf(OpRows(p, rows.len, rows.gen) \o line, q) = {}
    BY <1>1, <1>2, RowsAndPayloads, Zenon
  <1> QED BY <1>3, <1>4, Zenon

-----------------------------------------------------------------------------
(* Types.                                                                   *)

Stages == {"capture", "read", "source", "canonical", "verify", "diff", "record", "done"}

LEMMA FilesAreThere ==
    /\ Absent \in FileStates /\ Content(Absent) \in RowStates /\ NoFile \in Prints
    /\ \A f \in FileStates : Content(f) \in RowStates /\ f.mtime \in Nat /\ f.len \in Nat /\ f.gen \in Nat
    /\ \A f, g \in FileStates : Fingerprint(f, g) \in Prints
    /\ Files \in Seq(Paths) /\ <<>> \in Seq(Art)
  <1>1. Absent \in FileStates /\ Content(Absent) \in RowStates
    BY DEF FileStates, RowStates
  <1>2. ASSUME NEW f \in FileStates
        PROVE  Content(f) \in RowStates /\ f.mtime \in Nat /\ f.len \in Nat /\ f.gen \in Nat
    BY DEF FileStates, RowStates, Content, Absent
  <1>3. ASSUME NEW f \in FileStates, NEW g \in FileStates PROVE Fingerprint(f, g) \in Prints
    BY <1>2 DEF Fingerprint, Prints
  <1>4. NoFile \in Prints
    BY <1>1, <1>3 DEF NoFile
  <1> QED BY <1>1, <1>2, <1>3, <1>4, CheckAssumption DEF Paths

LEMMA FreshIs ==
    ASSUME NEW o \in Options
    PROVE  Fresh(o) \in Runs /\ Fresh(o).pc = "capture"
  <1>1. "capture" \in Stages /\ FALSE \in BOOLEAN /\ "INCOMPLETE" \in {"PASS", "FAIL", "INCOMPLETE", "SAMPLE_ONLY"}
    BY DEF Stages
  <1>2. /\ [p \in Paths |-> NoFile] \in [Paths -> Prints]
        /\ [p \in Paths |-> Absent] \in [Paths -> FileStates]
        /\ [p \in Paths |-> Content(Absent)] \in [Paths -> RowStates]
    BY FilesAreThere
  <1> QED BY <1>1, <1>2, FilesAreThere DEF Fresh, Runs

LEMMA TypesInit == CheckInit => CheckTypes
  <1> SUFFICES ASSUME CheckInit PROVE CheckTypes
    OBVIOUS
  <1>1. [gen |-> 1, len |-> 1, mtime |-> 0] \in FileStates
    BY DEF FileStates
  <1>2. tree \in [Paths -> FileStates] /\ \A p \in Paths : tree[p].mtime <= 0
    BY <1>1, FilesAreThere DEF CheckInit, Absent
  <1>3. db \in [Paths -> RowStates]
    BY <1>2, FilesAreThere DEF CheckInit, Contents
  <1> QED BY <1>2, <1>3 DEF CheckInit, CheckTypes

\* The head of a list of paths and what is left of it.
LEMMA WalkStep ==
    ASSUME NEW todo \in Seq(Paths), todo # <<>>
    PROVE  /\ Head(todo) \in Paths /\ Tail(todo) \in Seq(Paths)
           /\ ToSet(todo) = {Head(todo)} \cup ToSet(Tail(todo))
  <1>1. Len(todo) \in Nat \ {0} /\ DOMAIN todo = 1 .. Len(todo) /\ Head(todo) = todo[1]
    BY EmptySeq, LenProperties
  <1>2. /\ Tail(todo) \in Seq(Paths) /\ Len(Tail(todo)) = Len(todo) - 1
        /\ \A i \in 1 .. Len(todo) - 1 : Tail(todo)[i] = todo[i + 1]
        /\ DOMAIN Tail(todo) = 1 .. Len(todo) - 1
    BY HeadTailProperties, LenProperties
  <1>3. ToSet(todo) \subseteq {Head(todo)} \cup ToSet(Tail(todo))
    <2> SUFFICES ASSUME NEW i \in 1 .. Len(todo) PROVE todo[i] \in {Head(todo)} \cup ToSet(Tail(todo))
      BY <1>1 DEF ToSet
    <2>1. CASE i = 1
      BY <1>1, <2>1
    <2>2. CASE i # 1
      <3>1. i - 1 \in DOMAIN Tail(todo) /\ Tail(todo)[i - 1] = todo[i]
        BY <1>1, <1>2, <2>2
      <3> QED BY <3>1 DEF ToSet
    <2> QED BY <2>1, <2>2
  <1>4. ToSet(Tail(todo)) \subseteq ToSet(todo)
    <2> SUFFICES ASSUME NEW i \in 1 .. Len(todo) - 1 PROVE Tail(todo)[i] \in ToSet(todo)
      BY <1>2 DEF ToSet
    <2>1. i + 1 \in DOMAIN todo /\ Tail(todo)[i] = todo[i + 1]
      BY <1>1, <1>2
    <2> QED BY <2>1 DEF ToSet
  <1>5. Head(todo) \in ToSet(todo) /\ Head(todo) \in Paths
    BY <1>1 DEF ToSet
  <1> QED BY <1>2, <1>3, <1>4, <1>5

\* What the in-memory engine's verdict says of any two manifests.
LEMMA DiffIs ==
    ASSUME NEW A, NEW matrix, NEW source \in Seq(A), NEW canonical \in Seq(A)
    PROVE  LET state == Diff(matrix, 0, source, canonical).state
           IN  /\ state \in {"PASS", "FAIL", "INCOMPLETE"}
               /\ state = "PASS" => Agree(matrix, source, canonical)
  <1> DEFINE P == Seq(Found(A))
             vs == Validations(matrix, "source", source)
             vc == Validations(matrix, "canonical", canonical)
             ds == Duplicates(source, "source")
             dc == Duplicates(canonical, "canonical")
             cs == Comparisons(source, canonical)
             m == DiffFindings(matrix, source, canonical)
             fs == vs \o vc
  <1>1. /\ vs \in Seq(Plain(A)) /\ vc \in Seq(Plain(A)) /\ ds \in Seq(Plain(A)) /\ dc \in Seq(Plain(A))
        /\ cs \in P
    <2>1. "source" \in Sides /\ "canonical" \in Sides
      BY DEF Sides
    <2> QED BY <2>1, ValidationsIs, DuplicatesIs, ComparisonsIs
  <1>2. m = (((vs \o ds) \o vc) \o dc) \o cs
    BY DEF DiffFindings
  <1> HIDE DEF vs, vc, ds, dc, cs
  <1>3. vs \in P /\ vc \in P /\ ds \in P /\ dc \in P
    BY <1>1, PlainIsFound
  <1> HIDE DEF P
  <1>4. \A s, t \in P : s \o t \in P /\ ToSet(s \o t) = ToSet(s) \cup ToSet(t)
    BY MembersOf DEF P
  <1>5. m \in P /\ ToSet(m) = ToSet(vs) \cup ToSet(ds) \cup ToSet(vc) \cup ToSet(dc) \cup ToSet(cs)
    <2>1. vs \o ds \in P /\ ToSet(vs \o ds) = ToSet(vs) \cup ToSet(ds)
      BY <1>3, <1>4, Zenon
    <2>2. (vs \o ds) \o vc \in P /\ ToSet((vs \o ds) \o vc) = ToSet(vs \o ds) \cup ToSet(vc)
      BY <1>3, <1>4, <2>1, Zenon
    <2>3. ((vs \o ds) \o vc) \o dc \in P /\ ToSet(((vs \o ds) \o vc) \o dc) = ToSet((vs \o ds) \o vc) \cup ToSet(dc)
      BY <1>3, <1>4, <2>2, Zenon
    <2>4. m \in P /\ ToSet(m) = ToSet(((vs \o ds) \o vc) \o dc) \cup ToSet(cs)
      BY <1>1, <1>2, <1>4, <2>3, Zenon
    <2> HIDE DEF m
    <2> QED BY <2>1, <2>2, <2>3, <2>4
  <1>6. /\ fs \in Seq(Plain(A)) /\ ToSet(fs) = ToSet(vs) \cup ToSet(vc)
        /\ fs = <<>> <=> vs = <<>> /\ vc = <<>>
    BY <1>1, MembersOf
  <1> HIDE DEF fs
  <1>7. Outcome(m) = "PASS" <=> ~Corrupt(source) /\ Agree(matrix, source, canonical)
    <2>1. ToSet(m) = ToSet(fs) \cup ToSet(ds) \cup ToSet(dc) \cup ToSet(cs)
      BY <1>5, <1>6
    <2> HIDE DEF m
    <2> QED BY <1>5, <1>6, <2>1, VerdictIs DEF P, vs, vc, ds, dc, cs
  <1>8. Outcome(m) \in {"PASS", "FAIL", "INCOMPLETE"}
    BY DEF Outcome
  <1>9. Diff(matrix, 0, source, canonical).state = Outcome(m)
    <2>1. \A f \in Found(A) : f.sev \in {"P0", "P1", "P2"}
      BY DEF Found, Finding
    <2>2. Diff(matrix, 0, source, canonical) = Accumulate(0, m)
      BY DEF Diff
    <2> HIDE DEF m
    <2> QED BY <1>5, <2>1, <2>2, AccumulateIs DEF P
  <1> HIDE DEF m
  <1> QED BY <1>7, <1>8, <1>9

\* The state a run takes from its diff.
LEMMA DiffStates ==
    ASSUME chk \in Runs, DiffManifests
    PROVE  \E st \in {"PASS", "FAIL", "INCOMPLETE", "SAMPLE_ONLY"} :
              /\ chk' = [chk EXCEPT !.pc = "record", !.state = st]
              /\ chk.err => st = "INCOMPLETE"
              /\ st = "PASS" => ~Diagnostic(chk.opt) /\ Agree(CheckMatrix, chk.src, chk.can)
  <1>1. chk.src \in Seq(Art) /\ chk.can \in Seq(Art) /\ chk.err \in BOOLEAN
    BY DEF Runs
  <1>2. CASE chk.err
    <2>1. chk' = [chk EXCEPT !.pc = "record", !.state = "INCOMPLETE"]
      BY <1>2 DEF DiffManifests, Step
    <2> QED BY <2>1
  <1>3. CASE ~chk.err /\ chk.opt.sample
    <2>1. chk' = [chk EXCEPT !.pc = "record", !.state = "SAMPLE_ONLY"]
      BY <1>3 DEF DiffManifests, Step
    <2> QED BY <1>3, <2>1
  <1>4. CASE ~chk.err /\ ~chk.opt.sample
    <2> DEFINE verdict == Diff(CheckMatrix, 0, chk.src, chk.can).state
               st == IF verdict = "PASS" /\ Diagnostic(chk.opt) THEN "SAMPLE_ONLY" ELSE verdict
    <2>1. chk' = [chk EXCEPT !.pc = "record", !.state = st]
      BY <1>4 DEF DiffManifests, Step
    <2>2. verdict \in {"PASS", "FAIL", "INCOMPLETE"} /\ (verdict = "PASS" => Agree(CheckMatrix, chk.src, chk.can))
      BY <1>1, DiffIs
    <2> HIDE DEF verdict
    <2> QED BY <1>4, <2>1, <2>2
  <1> QED BY <1>1, <1>2, <1>3, <1>4

\* Where the step of a run leaves it.
LEMMA RunTypes ==
    ASSUME CheckTypes, Fingerprints, CheckStep
    PROVE  chk \in Runs /\ (chk' = Idle \/ chk' \in Runs)
  <1>0. /\ tree \in [Paths -> FileStates] /\ db \in [Paths -> RowStates]
        /\ cursor = NoEntry \/ cursor.state \in {"PASS", "FAIL"}
        /\ chk = Idle \/ chk \in Runs
    BY DEF CheckTypes
  <1>1. chk # Idle
    BY DEF CheckStep, Stat, ReadFile, Lookup, ExtractSource, PinCanonical, TempScanFails, ExtractCanonical,
           Extracted, Verify, Verified, DiffManifests, Record, Timeout, Exit, Walk, Walked, At, Idle
  <1>2. chk \in Runs
    BY <1>0, <1>1
  <1> USE DEF Stages
  <1>3. CASE Stat
    <2>1. chk.todo \in Seq(Paths) /\ chk.todo # <<>>
      BY <1>2, <1>3 DEF Runs, Stat, Walk
    <2>2. tree[Head(chk.todo)] \in FileStates
      BY <1>0, <2>1, WalkStep
    <2> QED BY <1>2, <1>3, <2>2 DEF Stat, Step, Runs
  <1>4. ASSUME NEW pc \in Stages, NEW r \in Runs PROVE Goto(r, pc) \in Runs
    BY FilesAreThere DEF Goto, Runs
  <1>5. ASSUME NEW q \in Paths PROVE Readable(q) \in FileStates /\ chk.pin[q] \in RowStates
    BY <1>0, <1>2 DEF Readable, Runs
  <1>6. \A pc \in Stages, b \in BOOLEAN, st \in {"PASS", "FAIL", "INCOMPLETE", "SAMPLE_ONLY"} :
           /\ [Goto(chk, pc) EXCEPT !.err = b] \in Runs
           /\ [Goto(chk, pc) EXCEPT !.state = st, !.skipped = b] \in Runs
           /\ [chk EXCEPT !.pc = pc, !.state = st] \in Runs
           /\ [chk EXCEPT !.pc = pc, !.err = b, !.state = st] \in Runs
           /\ [chk EXCEPT !.pc = pc] \in Runs
           /\ Goto(chk, pc) \in Runs
    <2> SUFFICES ASSUME NEW pc \in Stages, NEW b \in BOOLEAN,
                        NEW st \in {"PASS", "FAIL", "INCOMPLETE", "SAMPLE_ONLY"}
                 PROVE  /\ [Goto(chk, pc) EXCEPT !.err = b] \in Runs
                        /\ [Goto(chk, pc) EXCEPT !.state = st, !.skipped = b] \in Runs
                        /\ [chk EXCEPT !.pc = pc, !.state = st] \in Runs
                        /\ [chk EXCEPT !.pc = pc, !.err = b, !.state = st] \in Runs
                        /\ [chk EXCEPT !.pc = pc] \in Runs
                        /\ Goto(chk, pc) \in Runs
      OBVIOUS
    <2>1. Goto(chk, pc) \in Runs
      BY <1>2, <1>4
    <2>2. [Goto(chk, pc) EXCEPT !.err = b] \in Runs
      BY <2>1 DEF Runs
    <2>3. [Goto(chk, pc) EXCEPT !.state = st, !.skipped = b] \in Runs
      BY <2>1 DEF Runs
    <2>4. [chk EXCEPT !.pc = pc, !.state = st] \in Runs
      BY <1>2 DEF Runs
    <2>5. [chk EXCEPT !.pc = pc, !.err = b, !.state = st] \in Runs
      BY <1>2 DEF Runs
    <2>6. [chk EXCEPT !.pc = pc] \in Runs
      BY <1>2 DEF Runs
    <2> QED BY <2>1, <2>2, <2>3, <2>4, <2>5, <2>6
  <1>7. chk.todo # <<>> => /\ Head(chk.todo) \in Paths /\ Tail(chk.todo) \in Seq(Paths)
                           /\ tree[Head(chk.todo)] \in FileStates
    BY <1>0, <1>2, WalkStep DEF Runs
  <1>8. CASE ReadFile
    <2>1. chk.todo # <<>>
      BY <1>1, <1>8 DEF ReadFile, Fingerprints, StampOk
    <2> DEFINE p == Head(chk.todo)
               next == [chk EXCEPT !.pc = "capture", !.todo = Tail(chk.todo)]
               print == Fingerprint(chk.stat, tree[p])
    <2>2. next \in Runs
      BY <1>2, <1>7, <2>1 DEF Runs
    <2>3. p \in Paths /\ tree[p] \in FileStates /\ print \in Prints
      BY <1>2, <1>7, <2>1, FilesAreThere DEF Runs
    <2>4. [next EXCEPT !.img = [next.img EXCEPT ![p] = tree[p]],
                       !.snap = [next.snap EXCEPT ![p] = print]] \in Runs
      <3> HIDE DEF next, print, p
      <3>1. [next.img EXCEPT ![p] = tree[p]] \in [Paths -> FileStates]
        BY <2>2, <2>3 DEF Runs
      <3>2. [next.snap EXCEPT ![p] = print] \in [Paths -> Prints]
        BY <2>2, <2>3 DEF Runs
      <3> QED BY <2>2, <3>1, <3>2 DEF Runs
    <2>5. chk' \in {[Goto(chk, "source") EXCEPT !.err = TRUE], next,
                    [next EXCEPT !.img = [next.img EXCEPT ![p] = tree[p]],
                                 !.snap = [next.snap EXCEPT ![p] = print]]}
      BY <1>8 DEF ReadFile, Step
    <2>6. [Goto(chk, "source") EXCEPT !.err = TRUE] \in Runs
      BY <1>6
    <2> QED BY <1>2, <2>2, <2>4, <2>5, <2>6
  <1>9. CASE Lookup
    <2>1. \/ chk' = Goto(chk, "source")
          \/ chk' = [Goto(chk, "verify") EXCEPT !.state = "SAMPLE_ONLY", !.skipped = TRUE]
          \/ /\ cursor # NoEntry
             /\ chk' = [Goto(chk, "verify") EXCEPT !.state = cursor.state, !.skipped = TRUE]
      BY <1>9 DEF Lookup, Step, Matches
    <2> QED BY <1>0, <1>2, <1>6, <2>1
  <1>10. CASE ExtractSource
    <2> DEFINE p == Head(chk.todo)
    <2>1. chk.todo # <<>>
      BY <1>10 DEF ExtractSource, Walk
    <2>2. SourceArtifacts(p, Readable(p)) \in Seq(Art)
      BY <1>5, <1>7, <2>1, SourceArtifactsAre
    <2>3. chk.src \in Seq(Art) /\ chk.src \o SourceArtifacts(p, Readable(p)) \in Seq(Art)
      <3>1. chk.src \in Seq(Art)
        BY <1>2 DEF Runs
      <3> QED BY <2>2, <3>1
    <2>4. PICK src \in Seq(Art) : chk' = [chk EXCEPT !.todo = Tail(chk.todo), !.src = src]
      BY <1>10, <2>3 DEF ExtractSource, Step
    <2> QED BY <1>2, <1>7, <2>1, <2>4 DEF Runs
  <1>11. CASE PinCanonical \/ TempScanFails
    <2>1. Contents(chk.img) \in [Paths -> RowStates] /\ chk.pin \in [Paths -> RowStates]
      BY <1>2, FilesAreThere DEF Contents, Runs
    <2>2. PICK pin \in [Paths -> RowStates], b \in BOOLEAN :
             chk' = [Goto(chk, "canonical") EXCEPT !.pin = pin, !.err = b, !.atPin = tree]
      <3>1. CASE PinCanonical
        <4>1. PICK pin \in [Paths -> RowStates] :
                 chk' = [Goto(chk, "canonical") EXCEPT !.pin = pin, !.atPin = tree]
          BY <1>0, <2>1, <3>1 DEF PinCanonical, Step, Goto
        <4>2. chk.err \in BOOLEAN
          BY <1>2 DEF Runs
        <4>3. chk' = [Goto(chk, "canonical") EXCEPT !.pin = pin, !.err = chk.err, !.atPin = tree]
          BY <1>2, <4>1 DEF Goto, Runs
        <4> QED BY <4>2, <4>3
      <3>2. CASE TempScanFails
        <4>1. chk' = [Goto(chk, "canonical") EXCEPT !.pin = chk.pin, !.err = TRUE, !.atPin = tree]
          BY <1>2, <3>2 DEF TempScanFails, Step, Goto, Runs
        <4> QED BY <2>1, <4>1
      <3> QED BY <1>11, <3>1, <3>2
    <2>3. Goto(chk, "canonical") \in Runs
      BY <1>6
    <2> QED BY <1>0, <1>2, <2>2, <2>3 DEF Runs
  <1>12. CASE ExtractCanonical
    <2> DEFINE p == Head(chk.todo)
               more == CanonicalArtifacts(p, chk.pin[p], Readable(p))
    <2>1. chk.todo # <<>>
      BY <1>12 DEF ExtractCanonical, Walk
    <2>2. more \in Seq(Art)
      BY <1>5, <1>7, <2>1, CanonicalArtifactsAre
    <2>3. chk.can \in Seq(Art)
      BY <1>2 DEF Runs
    <2>4. chk' = [chk EXCEPT !.todo = Tail(chk.todo), !.can = chk.can \o more]
      BY <1>12 DEF ExtractCanonical, Step
    <2> HIDE DEF more
    <2>5. chk.can \o more \in Seq(Art)
      BY <2>2, <2>3
    <2> QED BY <1>2, <1>7, <2>1, <2>4, <2>5 DEF Runs
  <1>13. CASE Extracted
    <2>1. chk' = Goto(chk, "verify") \/ chk' = Goto(chk, "diff")
      BY <1>13 DEF Extracted, Step
    <2> QED BY <1>2, <1>6, <2>1
  <1>14. CASE Verify
    <2>1. chk.todo # <<>>
      BY <1>14 DEF Verify, Walk
    <2>2. PICK b \in BOOLEAN : chk' = [chk EXCEPT !.todo = Tail(chk.todo), !.err = b]
      BY <1>14 DEF Verify, Step
    <2> QED BY <1>2, <1>7, <2>1, <2>2 DEF Runs
  <1>15. CASE Verified
    <2>1. chk.state \in {"PASS", "FAIL", "INCOMPLETE", "SAMPLE_ONLY"}
      BY <1>2 DEF Runs
    <2>2. \/ chk' = Goto(chk, "diff")
          \/ chk' = [chk EXCEPT !.pc = "done", !.state = "INCOMPLETE"]
          \/ chk' = [chk EXCEPT !.pc = "done", !.state = chk.state]
      BY <1>15 DEF Verified, Step
    <2> QED BY <1>2, <1>6, <2>1, <2>2
  <1>16. CASE DiffManifests
    BY <1>2, <1>6, <1>16, DiffStates
  <1>17. CASE Record
    BY <1>2, <1>6, <1>17 DEF Record
  <1>18. CASE Timeout
    BY <1>2, <1>6, <1>18 DEF Timeout, Step
  <1>19. CASE Exit
    BY <1>2, <1>19 DEF Exit, Step
  <1> QED BY <1>3, <1>8, <1>9, <1>10, <1>11, <1>12, <1>13, <1>14, <1>15, <1>16, <1>17, <1>18, <1>19
          DEF CheckStep

\* A change leaves the file gone or with an mtime of its own.
LEMMA ChangeIs ==
    ASSUME CheckTypes, NEW p \in Paths, Change(p)
    PROVE  /\ changes' = changes + 1 /\ changes' \in Nat /\ chk' = chk
           /\ \A q \in Paths : q # p => tree'[q] = tree[q]
           /\ tree'[p] = Absent \/ tree'[p].mtime = changes + 1
           /\ tree' \in [Paths -> FileStates]
  <1>0. changes \in Nat /\ tree[p] \in FileStates /\ tree \in [Paths -> FileStates]
    BY DEF CheckTypes
  <1>1. PICK f \in {[tree[p] EXCEPT !.len = @ + 1], [tree[p] EXCEPT !.gen = @ + 1], Absent} :
            tree' = [tree EXCEPT ![p] =
                        IF f = Absent THEN Absent
                        ELSE [f EXCEPT !.mtime = changes + 1, !.gen = IF @ = 0 THEN 1 ELSE @,
                                       !.len = IF @ = 0 THEN 1 ELSE @]]
    BY DEF Change
  <1>2. f \in [gen : Nat, len : Nat, mtime : Nat]
    BY <1>0, <1>1 DEF FileStates, Absent
  <1> DEFINE g == IF f = Absent THEN Absent
                  ELSE [f EXCEPT !.mtime = changes + 1, !.gen = IF @ = 0 THEN 1 ELSE @,
                                 !.len = IF @ = 0 THEN 1 ELSE @]
  <1>3. g \in FileStates /\ (g = Absent \/ g.mtime = changes + 1)
    <2>1. CASE f = Absent
      BY <2>1, FilesAreThere
    <2>2. CASE f # Absent
      <3>1. g = [gen |-> IF f.gen = 0 THEN 1 ELSE f.gen, len |-> IF f.len = 0 THEN 1 ELSE f.len,
                 mtime |-> changes + 1]
        BY <1>2, <2>2
      <3>2. f.gen \in Nat /\ f.len \in Nat /\ changes + 1 \in Nat
        BY <1>0, <1>2
      <3> HIDE DEF g
      <3> QED BY <3>1, <3>2 DEF FileStates
    <2> QED BY <2>1, <2>2
  <1>4. changes' = changes + 1 /\ chk' = chk
    BY DEF Change
  <1>5. tree' = [tree EXCEPT ![p] = g]
    BY <1>1
  <1> HIDE DEF g
  <1>6. tree'[p] = g /\ (\A q \in Paths : q # p => tree'[q] = tree[q]) /\ tree' \in [Paths -> FileStates]
    BY <1>0, <1>3, <1>5
  <1> QED BY <1>0, <1>3, <1>4, <1>5, <1>6

\* A step of the run touches neither the tree nor the database.
LEMMA StepKeeps ==
    ASSUME CheckStep
    PROVE  /\ UNCHANGED <<tree, db, recent, changes, checks>>
           /\ (cursor' = cursor /\ proved' = proved) \/ Record
           /\ cursor' = cursor \/ cursor'.state \in {"PASS", "FAIL"}
  <1>1. CASE Record
    BY <1>1 DEF Record
  <1>2. CASE ~Record
    BY <1>2 DEF CheckStep, Stat, ReadFile, Lookup, ExtractSource, PinCanonical, TempScanFails, ExtractCanonical,
           Extracted, Verify, Verified, DiffManifests, Timeout, Exit, Step
  <1> QED BY <1>1, <1>2

LEMMA TypesNext ==
    ASSUME CheckTypes, Fingerprints, [CheckNext]_cvars
    PROVE  CheckTypes'
  <1>0. /\ changes \in Nat
        /\ tree \in [Paths -> FileStates] /\ \A p \in Paths : tree[p].mtime <= changes
        /\ db \in [Paths -> RowStates]
        /\ cursor = NoEntry \/ cursor.state \in {"PASS", "FAIL"}
        /\ chk = Idle \/ chk \in Runs
    BY DEF CheckTypes
  <1>1. ASSUME NEW p \in Paths, Change(p) PROVE CheckTypes'
    <2>1. /\ changes' = changes + 1 /\ chk' = chk /\ tree' \in [Paths -> FileStates]
          /\ \A q \in Paths : q # p => tree'[q] = tree[q]
          /\ tree'[p] = Absent \/ tree'[p].mtime = changes + 1
      BY <1>1, ChangeIs
    <2>2. ASSUME NEW q \in Paths PROVE tree'[q].mtime <= changes + 1
      <3>1. CASE q = p
        BY <1>0, <2>1, <3>1 DEF Absent
      <3>2. CASE q # p
        <4>1. tree[q].mtime \in Nat /\ tree[q].mtime <= changes
          BY <1>0, FilesAreThere
        <4> QED BY <1>0, <2>1, <3>2, <4>1
      <3> QED BY <3>1, <3>2
    <2>3. UNCHANGED <<db, cursor>>
      BY <1>1 DEF Change
    <2> QED BY <1>0, <2>1, <2>2, <2>3 DEF CheckTypes
  <1>2. ASSUME NEW p \in Paths, Ingest(p) PROVE CheckTypes'
    <2>1. Content(tree[p]) \in RowStates
      BY <1>0, FilesAreThere
    <2> QED BY <1>0, <1>2, <2>1 DEF Ingest, CheckTypes
  <1>3. ASSUME NEW o \in Options, Begin(o) PROVE CheckTypes'
    <2>1. Fresh(o) \in Runs
      BY FreshIs
    <2>2. [Fresh(o) EXCEPT !.pc = "done", !.state = "SAMPLE_ONLY", !.skipped = TRUE] \in Runs
      BY <2>1 DEF Runs
    <2> QED BY <1>0, <1>3, <2>1, <2>2 DEF Begin, CheckTypes
  <1>4. CASE CheckStep
    <2>1. UNCHANGED <<tree, db, changes>> /\ (cursor' = cursor \/ cursor'.state \in {"PASS", "FAIL"})
      BY <1>4, StepKeeps
    <2>2. chk' = Idle \/ chk' \in Runs
      BY <1>4, RunTypes
    <2> QED BY <1>0, <2>1, <2>2 DEF CheckTypes
  <1>5. CASE UNCHANGED cvars
    BY <1>0, <1>5 DEF cvars, CheckTypes
  <1> QED BY <1>1, <1>2, <1>3, <1>4, <1>5 DEF CheckNext

-----------------------------------------------------------------------------
(* Fingerprints.                                                            *)

\* What each step of a run leaves alone.
LEMMA StepFrames ==
    ASSUME chk \in Runs, CheckStep
    PROVE  /\ Exit => chk' = Idle
           /\ ~Exit =>
                /\ chk'.opt = chk.opt
                /\ ~ReadFile => chk'.snap = chk.snap /\ chk'.img = chk.img
                /\ chk'.pc = "read" => Stat
                /\ ~ExtractSource => chk'.src = chk.src
                /\ ~ExtractCanonical => chk'.can = chk.can
                /\ ~PinCanonical /\ ~TempScanFails => chk'.pin = chk.pin /\ chk'.atPin = chk.atPin
                /\ ~Lookup => chk'.skipped = chk.skipped
  <1>0. DOMAIN chk = {"pc", "opt", "todo", "stat", "snap", "img", "src", "pin", "can", "err", "state", "skipped", "atPin"}
    BY DEF Runs
  <1> DEFINE Kept == /\ chk'.opt = chk.opt /\ chk'.skipped = chk.skipped /\ chk'.src = chk.src /\ chk'.can = chk.can
                     /\ chk'.pin = chk.pin /\ chk'.atPin = chk.atPin /\ chk'.snap = chk.snap /\ chk'.img = chk.img
                     /\ chk'.pc # "read"
  <1>1. Exit => chk' = Idle
    BY DEF Exit, Step
  <1>2. CASE Stat
    <2>1. chk' = [chk EXCEPT !.pc = "read", !.stat = tree[Head(chk.todo)]]
      BY <1>2 DEF Stat, Step
    <2>2. /\ chk'.opt = chk.opt /\ chk'.skipped = chk.skipped /\ chk'.src = chk.src /\ chk'.can = chk.can
          /\ chk'.pin = chk.pin /\ chk'.atPin = chk.atPin /\ chk'.snap = chk.snap /\ chk'.img = chk.img
      BY <2>1, <1>0 DEF Runs
    <2> QED BY <1>1, <1>2, <2>2
  <1>3. CASE ReadFile
    <2> DEFINE p == Head(chk.todo)
               next == [chk EXCEPT !.pc = "capture", !.todo = Tail(@)]
    <2>1. chk' \in {[Goto(chk, "source") EXCEPT !.err = TRUE], next,
                    [next EXCEPT !.img[p] = tree[p], !.snap[p] = Fingerprint(chk.stat, tree[p])]}
      BY <1>3, Zenon DEF ReadFile, Step
    <2>2. /\ chk'.opt = chk.opt /\ chk'.skipped = chk.skipped /\ chk'.src = chk.src /\ chk'.can = chk.can
          /\ chk'.pin = chk.pin /\ chk'.atPin = chk.atPin /\ chk'.pc # "read"
      BY <2>1, <1>0 DEF Goto, Runs
    <2> QED BY <1>1, <1>3, <2>2
  <1>4. CASE Lookup
    <2>1. chk' \in {[Goto(chk, "verify") EXCEPT !.state = cursor.state, !.skipped = TRUE],
                    [Goto(chk, "verify") EXCEPT !.state = "SAMPLE_ONLY", !.skipped = TRUE], Goto(chk, "source")}
      <3>1. CASE chk.opt.use = "resume" /\ Matches
        BY <1>4, <3>1 DEF Lookup, Step
      <3>2. CASE chk.opt.use = "cursor" /\ Matches
        BY <1>4, <3>2 DEF Lookup, Step
      <3>3. CASE ~(chk.opt.use = "resume" /\ Matches) /\ ~(chk.opt.use = "cursor" /\ Matches)
        BY <1>4, <3>3 DEF Lookup, Step
      <3> QED BY <3>1, <3>2, <3>3
    <2> DEFINE Same(r) == /\ r.opt = chk.opt /\ r.src = chk.src /\ r.can = chk.can /\ r.pin = chk.pin
                          /\ r.atPin = chk.atPin /\ r.snap = chk.snap /\ r.img = chk.img /\ r.pc # "read"
    <2>2. Same(Goto(chk, "source"))
      BY <1>0 DEF Goto, Runs
    <2>3. \A st : Same([Goto(chk, "verify") EXCEPT !.state = st, !.skipped = TRUE])
      BY <1>0 DEF Goto, Runs
    <2> HIDE DEF Same
    <2>4. Same(chk')
      BY <2>1, <2>2, <2>3
    <2> QED BY <1>1, <1>4, <2>4 DEF Same
  <1>5. CASE ExtractSource
    <2> DEFINE more == IF chk.err /\ ~chk.opt.db THEN chk.src
                       ELSE chk.src \o SourceArtifacts(Head(chk.todo), Readable(Head(chk.todo)))
    <2>1. chk.pc = "source" /\ chk' = [chk EXCEPT !.todo = Tail(chk.todo), !.src = more]
      BY <1>5 DEF ExtractSource, Step, Walk, At
    <2> HIDE DEF more
    <2>2. /\ chk'.opt = chk.opt /\ chk'.skipped = chk.skipped /\ chk'.can = chk.can
          /\ chk'.pin = chk.pin /\ chk'.atPin = chk.atPin /\ chk'.snap = chk.snap /\ chk'.img = chk.img
          /\ chk'.pc # "read"
      BY <2>1, <1>0 DEF Runs
    <2> QED BY <1>1, <1>5, <2>2
  <1>6. CASE PinCanonical \/ TempScanFails
    <2>1. /\ chk'.opt = chk.opt /\ chk'.skipped = chk.skipped /\ chk'.src = chk.src /\ chk'.can = chk.can
          /\ chk'.snap = chk.snap /\ chk'.img = chk.img /\ chk'.pc # "read"
      BY <1>6, <1>0 DEF PinCanonical, TempScanFails, Step, Goto, Runs
    <2> QED BY <1>1, <1>6, <2>1
  <1>7. CASE ExtractCanonical
    <2> DEFINE more == chk.can \o CanonicalArtifacts(Head(chk.todo), chk.pin[Head(chk.todo)], Readable(Head(chk.todo)))
    <2>1. chk.pc = "canonical" /\ chk' = [chk EXCEPT !.todo = Tail(chk.todo), !.can = more]
      BY <1>7 DEF ExtractCanonical, Step, Walk, At
    <2> HIDE DEF more
    <2>2. /\ chk'.opt = chk.opt /\ chk'.skipped = chk.skipped /\ chk'.src = chk.src
          /\ chk'.pin = chk.pin /\ chk'.atPin = chk.atPin /\ chk'.snap = chk.snap /\ chk'.img = chk.img
          /\ chk'.pc # "read"
      BY <2>1, <1>0 DEF Runs
    <2> QED BY <1>1, <1>7, <2>2
  <1>8. CASE Extracted
    <2>1. Kept
      BY <1>8, <1>0 DEF Extracted, Step, Goto, Runs
    <2> QED BY <1>1, <2>1
  <1>9. CASE Verify
    <2>1. Kept
      BY <1>9, <1>0 DEF Verify, Walk, At, Step, Runs
    <2> QED BY <1>1, <2>1
  <1>10. CASE Verified
    <2>1. chk' \in {Goto(chk, "diff"), [chk EXCEPT !.pc = "done", !.state = IF chk.err THEN "INCOMPLETE" ELSE @]}
      BY <1>10 DEF Verified, Step
    <2>2. Kept
      BY <2>1, <1>0 DEF Goto, Runs
    <2> QED BY <1>1, <2>2
  <1>11. CASE DiffManifests
    <2>1. PICK st : chk' = [chk EXCEPT !.pc = "record", !.state = st]
      BY <1>11, DiffStates
    <2>2. Kept
      BY <2>1, <1>0 DEF Runs
    <2> QED BY <1>1, <2>2
  <1>12. CASE Record \/ Timeout
    <2>1. Kept
      BY <1>12, <1>0 DEF Record, Timeout, Step, Runs
    <2> QED BY <1>1, <2>1
  <1> QED BY <1>1, <1>2, <1>3, <1>4, <1>5, <1>6, <1>7, <1>8, <1>9, <1>10, <1>11, <1>12 DEF CheckStep

\* A file that was just read is steady only if it is what its stat saw.
LEMMA ReadIs ==
    ASSUME CheckTypes, chk \in Runs, StampOk, \A q \in Paths : PrintOk(q), ReadFile
    PROVE  chk' \in Runs => \A q \in Paths : PrintOk(q)'
  <1>1. chk.todo # <<>> /\ chk.todo \in Seq(Paths) /\ chk.stat \in FileStates /\ tree \in [Paths -> FileStates]
    BY DEF StampOk, ReadFile, At, Runs, CheckTypes
  <1>2. PICK p \in Paths : p = Head(chk.todo)
    BY <1>1, WalkStep
  <1> DEFINE next == [chk EXCEPT !.pc = "capture", !.todo = Tail(@)]
             taken == [next EXCEPT !.img[p] = tree[p], !.snap[p] = Fingerprint(chk.stat, tree[p])]
  <1>3. /\ UNCHANGED <<tree, changes>>
        /\ \/ chk' = [Goto(chk, "source") EXCEPT !.err = TRUE]
           \/ chk' = next
           \/ chk' = taken /\ chk.stat # Absent /\ ~(tree[p] = Absent /\ chk.stat # Absent)
        /\ chk.stat.mtime <= changes
        /\ chk.stat # Absent /\ tree[p] # Absent /\ tree[p].mtime = chk.stat.mtime => tree[p] = chk.stat
    BY <1>2 DEF ReadFile, Step, StampOk, At
  <1>4. CASE chk'.snap = chk.snap /\ chk'.img = chk.img
    BY <1>3, <1>4 DEF PrintOk, Steady, Captured
  <1>5. CASE chk' = taken /\ chk.stat # Absent /\ tree[p] # Absent
    <2>1. /\ chk'.snap = [chk.snap EXCEPT ![p] = Fingerprint(chk.stat, tree[p])]
          /\ chk'.img = [chk.img EXCEPT ![p] = tree[p]]
          /\ chk.snap \in [Paths -> Prints] /\ chk.img \in [Paths -> FileStates]
      BY <1>5 DEF Runs
    <2>2. ASSUME NEW q \in Paths, q # p PROVE PrintOk(q)'
      <3>1. chk'.snap[q] = chk.snap[q] /\ chk'.img[q] = chk.img[q]
        BY <2>1, <2>2
      <3> QED BY <1>3, <3>1 DEF PrintOk, Steady, Captured
    <2>3. PrintOk(p)'
      <3>1. chk'.snap[p] = Fingerprint(chk.stat, tree[p]) /\ chk'.img[p] = tree[p]
        BY <1>2, <2>1
      <3>2. Fingerprint(chk.stat, tree[p]).mtime = chk.stat.mtime /\ Fingerprint(chk.stat, tree[p]).sha = Content(tree[p])
        BY DEF Fingerprint
      <3>3. Steady(p)' => tree[p] = chk.stat
        BY <1>3, <1>5, <3>1, <3>2 DEF Steady
      <3> QED BY <1>3, <3>1, <3>2, <3>3 DEF PrintOk
    <2> QED BY <2>2, <2>3
  <1>6. chk' = next \/ chk' = [Goto(chk, "source") EXCEPT !.err = TRUE] => chk'.snap = chk.snap /\ chk'.img = chk.img
    BY DEF Goto, Runs
  <1> HIDE DEF next, taken
  <1> QED BY <1>3, <1>4, <1>5, <1>6

LEMMA PrintsInit == CheckInit => Fingerprints
  BY DEF CheckInit, Fingerprints

LEMMA PrintsNext ==
    ASSUME CheckTypes, Fingerprints, [CheckNext]_cvars
    PROVE  Fingerprints'
  <1>0. /\ changes \in Nat /\ tree \in [Paths -> FileStates] /\ (chk = Idle \/ chk \in Runs)
        /\ \A p \in Paths : tree[p].mtime <= changes
        /\ chk # Idle => StampOk /\ \A p \in Paths : PrintOk(p)
    BY DEF CheckTypes, Fingerprints
  <1>1. ASSUME NEW p \in Paths, Change(p), chk # Idle PROVE StampOk' /\ \A q \in Paths : PrintOk(q)'
    <2>1. /\ changes' = changes + 1 /\ chk' = chk
          /\ \A q \in Paths : q # p => tree'[q] = tree[q]
          /\ tree'[p] = Absent \/ tree'[p].mtime = changes + 1
      BY <1>1, ChangeIs
    <2>2. chk \in Runs /\ StampOk /\ \A q \in Paths : PrintOk(q)
      BY <1>0, <1>1
    <2>3. ASSUME NEW q \in Paths PROVE PrintOk(q)'
      <3>1. chk.snap[q].mtime \in Nat /\ chk.snap[q].mtime <= changes
        BY <2>2 DEF PrintOk, Runs, Prints
      <3>2. Steady(q)' => q # p /\ Steady(q)
        BY <1>0, <2>1, <3>1 DEF Steady, Captured
      <3> QED BY <1>0, <2>1, <2>2, <3>1, <3>2 DEF PrintOk
    <2>4. StampOk'
      <3> SUFFICES ASSUME At("read") PROVE StampOk'
        BY <2>1 DEF StampOk, At
      <3> DEFINE q == Head(chk.todo)
      <3>1. chk.todo \in Seq(Paths) /\ chk.stat \in FileStates
        BY <2>2 DEF Runs
      <3>2. /\ chk.todo # <<>> /\ chk.stat.mtime <= changes /\ chk.stat.mtime \in Nat
            /\ chk.stat # Absent /\ tree[q] # Absent /\ tree[q].mtime = chk.stat.mtime => tree[q] = chk.stat
        BY <2>2, <3>1, FilesAreThere DEF StampOk
      <3>3. q \in Paths
        BY <3>1, <3>2, WalkStep
      <3> HIDE DEF q
      <3>4. chk.stat # Absent /\ tree'[q] # Absent /\ tree'[q].mtime = chk.stat.mtime => tree'[q] = chk.stat
        BY <1>0, <2>1, <3>2, <3>3
      <3> QED BY <1>0, <2>1, <3>2, <3>4 DEF StampOk, At, q
    <2> QED BY <2>3, <2>4
  <1>2. ASSUME NEW p \in Paths, Ingest(p) PROVE UNCHANGED <<tree, changes, chk>>
    BY <1>2 DEF Ingest
  <1>3. ASSUME NEW o \in Options, Begin(o) PROVE StampOk' /\ \A q \in Paths : PrintOk(q)'
    <2>1. UNCHANGED <<tree, changes>> /\ chk'.snap = [p \in Paths |-> NoFile] /\ chk'.img = [p \in Paths |-> Absent]
          /\ chk'.pc # "read"
      BY <1>3 DEF Begin, Fresh
    <2>2. NoFile.mtime = 0 /\ NoFile.sha = Content(Absent)
      BY DEF NoFile, Fingerprint, Absent
    <2> QED BY <1>0, <2>1, <2>2 DEF StampOk, At, PrintOk, Steady, Captured
  <1>4. ASSUME CheckStep, chk' # Idle PROVE StampOk' /\ \A q \in Paths : PrintOk(q)'
    <2>1. UNCHANGED <<tree, changes>>
      BY <1>4, StepKeeps
    <2>2. chk \in Runs /\ chk' \in Runs /\ chk # Idle
      BY <1>4, RunTypes DEF Runs, Idle
    <2>3. StampOk'
      <3>1. CASE Stat
        <4>1. chk'.stat = tree[Head(chk.todo)] /\ chk'.todo = chk.todo /\ chk.todo # <<>>
          BY <2>2, <3>1 DEF Stat, Step, Walk, Runs
        <4>2. Head(chk.todo) \in Paths
          BY <2>2, <4>1, WalkStep DEF Runs
        <4> QED BY <1>0, <2>1, <4>1, <4>2 DEF StampOk
      <3>2. CASE ~Stat
        BY <1>4, <2>2, <3>2, StepFrames DEF StampOk, At
      <3> QED BY <3>1, <3>2
    <2>4. \A q \in Paths : PrintOk(q)'
      <3>1. CASE ReadFile
        BY <1>0, <2>2, <3>1, ReadIs
      <3>2. CASE ~ReadFile
        <4>1. chk'.snap = chk.snap /\ chk'.img = chk.img
          BY <1>4, <2>2, <3>2, StepFrames
        <4> QED BY <1>0, <2>1, <2>2, <4>1 DEF PrintOk, Steady, Captured
      <3> QED BY <3>1, <3>2
    <2> QED BY <2>3, <2>4
  <1>5. CASE UNCHANGED <<tree, changes, chk>>
    BY <1>5 DEF Fingerprints, StampOk, PrintOk, At, Steady, Captured
  <1>6. CASE chk' = Idle
    BY <1>6 DEF Fingerprints
  <1>7. (chk' # Idle => StampOk' /\ \A q \in Paths : PrintOk(q)') => Fingerprints'
    BY DEF Fingerprints
  <1>8. UNCHANGED cvars => UNCHANGED <<tree, changes, chk>>
    BY DEF cvars
  <1>9. ASSUME NEW p \in Paths, Change(p), chk = Idle PROVE chk' = Idle
    BY <1>9 DEF Change
  <1> QED BY <1>1, <1>2, <1>3, <1>4, <1>5, <1>6, <1>7, <1>8, <1>9 DEF CheckNext

-----------------------------------------------------------------------------
(* Manifests.                                                               *)

\* A run that is clear was clear before its step; the fields a step sets.
LEMMA ClearBefore ==
    ASSUME chk \in Runs, CheckStep, Clear'
    PROVE  /\ Clear /\ ~Exit /\ ~Timeout /\ ~TempScanFails
           /\ Stat => chk.pc = "capture" /\ chk'.pc = "read"
           /\ ReadFile => chk.pc = "read" /\ chk'.pc = "capture"
           /\ Lookup => chk.pc = "capture" /\ chk'.pc = "source" /\ chk'.todo = Files
           /\ ExtractSource =>
                /\ chk.pc = "source" /\ chk'.pc = "source" /\ chk.todo # <<>> /\ chk'.todo = Tail(chk.todo)
                /\ chk'.src = chk.src \o SourceArtifacts(Head(chk.todo), Readable(Head(chk.todo)))
           /\ PinCanonical =>
                /\ chk.pc = "source" /\ chk'.pc = "canonical" /\ chk.todo = <<>> /\ chk'.todo = Files
                /\ chk'.atPin = tree /\ chk'.pin = IF chk.opt.db THEN db ELSE Contents(chk.img)
           /\ ExtractCanonical =>
                /\ chk.pc = "canonical" /\ chk'.pc = "canonical" /\ chk.todo # <<>> /\ chk'.todo = Tail(chk.todo)
                /\ chk'.can = chk.can \o CanonicalArtifacts(Head(chk.todo), chk.pin[Head(chk.todo)],
                                                            Readable(Head(chk.todo)))
           /\ Extracted =>
                /\ chk.pc = "canonical" /\ chk.todo = <<>>
                /\ IF chk.opt.db THEN chk'.pc = "verify" /\ chk'.todo = Files ELSE chk'.pc = "diff"
           /\ Verify =>
                /\ chk.pc = "verify" /\ chk'.pc = "verify" /\ chk.todo # <<>> /\ chk'.todo = Tail(chk.todo)
                /\ Fingerprint(tree[Head(chk.todo)], tree[Head(chk.todo)]) = chk.snap[Head(chk.todo)]
           /\ Verified => chk.pc = "verify" /\ chk.todo = <<>> /\ chk'.pc = "diff"
           /\ DiffManifests => chk.pc = "diff" /\ chk'.pc = "record"
           /\ Record => chk.pc = "record" /\ chk'.pc = "done"
  <1>0. /\ DOMAIN chk = {"pc", "opt", "todo", "stat", "snap", "img", "src", "pin", "can", "err", "state", "skipped", "atPin"}
        /\ chk' # Idle /\ ~chk'.err /\ ~chk'.skipped
    BY DEF Runs, Clear
  <1>1. chk # Idle
    BY <1>0 DEF Idle
  <1>2. ~Exit /\ ~Timeout /\ ~TempScanFails
    BY <1>0 DEF Exit, Timeout, TempScanFails, Step, Runs, Goto
  <1>3. ASSUME Stat PROVE Clear /\ chk.pc = "capture" /\ chk'.pc = "read"
    BY <1>0, <1>1, <1>3 DEF Stat, Step, Walk, At, Clear, Runs
  <1>4. ASSUME ReadFile PROVE Clear /\ chk.pc = "read" /\ chk'.pc = "capture"
    <2> DEFINE p == Head(chk.todo)
               next == [chk EXCEPT !.pc = "capture", !.todo = Tail(@)]
    <2>1. chk.pc = "read" /\ chk' \in {[Goto(chk, "source") EXCEPT !.err = TRUE], next,
                    [next EXCEPT !.img[p] = tree[p], !.snap[p] = Fingerprint(chk.stat, tree[p])]}
      BY <1>4, Zenon DEF ReadFile, Step, At
    <2>2. chk' # [Goto(chk, "source") EXCEPT !.err = TRUE]
      BY <1>0 DEF Goto, Runs
    <2>3. chk'.pc = "capture" /\ chk'.err = chk.err /\ chk'.skipped = chk.skipped
      BY <1>0, <2>1, <2>2 DEF Runs
    <2> QED BY <1>0, <1>1, <2>1, <2>3 DEF Clear
  <1>5. ASSUME Lookup PROVE Clear /\ chk.pc = "capture" /\ chk'.pc = "source" /\ chk'.todo = Files
    <2>1. \A st : [Goto(chk, "verify") EXCEPT !.state = st, !.skipped = TRUE].skipped
      BY <1>0 DEF Goto, Runs
    <2>2. CASE chk.opt.use = "resume" /\ Matches
      BY <1>0, <1>5, <2>1, <2>2 DEF Lookup, Step
    <2>3. CASE chk.opt.use = "cursor" /\ Matches
      BY <1>0, <1>5, <2>1, <2>3 DEF Lookup, Step
    <2>4. CASE ~(chk.opt.use = "resume" /\ Matches) /\ ~(chk.opt.use = "cursor" /\ Matches)
      <3>1. chk' = Goto(chk, "source") /\ chk.pc = "capture"
        BY <1>5, <2>4 DEF Lookup, Step, Walked, At
      <3> QED BY <1>0, <1>1, <3>1 DEF Goto, Clear, Runs
    <2> QED BY <2>2, <2>3, <2>4
  <1>6. ASSUME ExtractSource
        PROVE  /\ Clear /\ chk.pc = "source" /\ chk'.pc = "source" /\ chk.todo # <<>> /\ chk'.todo = Tail(chk.todo)
               /\ chk'.src = chk.src \o SourceArtifacts(Head(chk.todo), Readable(Head(chk.todo)))
    <2> DEFINE new == chk.src \o SourceArtifacts(Head(chk.todo), Readable(Head(chk.todo)))
               more == IF chk.err /\ ~chk.opt.db THEN chk.src ELSE new
    <2>1. chk.pc = "source" /\ chk.todo # <<>> /\ chk' = [chk EXCEPT !.todo = Tail(chk.todo), !.src = more]
      BY <1>6 DEF ExtractSource, Step, Walk, At
    <2> HIDE DEF new
    <2>2. chk'.src = more /\ chk'.err = chk.err /\ chk'.skipped = chk.skipped /\ chk'.pc = chk.pc
          /\ chk'.todo = Tail(chk.todo)
      BY <1>0, <2>1 DEF Runs
    <2> QED BY <1>0, <1>1, <2>1, <2>2 DEF Clear, new
  <1>7. ASSUME PinCanonical
        PROVE  /\ Clear /\ chk.pc = "source" /\ chk'.pc = "canonical" /\ chk.todo = <<>> /\ chk'.todo = Files
               /\ chk'.atPin = tree /\ chk'.pin = IF chk.opt.db THEN db ELSE Contents(chk.img)
    BY <1>0, <1>1, <1>7 DEF PinCanonical, Step, Walked, At, Goto, Runs, Clear
  <1>8. ASSUME ExtractCanonical
        PROVE  /\ Clear /\ chk.pc = "canonical" /\ chk'.pc = "canonical" /\ chk.todo # <<>> /\ chk'.todo = Tail(chk.todo)
               /\ chk'.can = chk.can \o CanonicalArtifacts(Head(chk.todo), chk.pin[Head(chk.todo)],
                                                            Readable(Head(chk.todo)))
    <2> DEFINE new == chk.can \o CanonicalArtifacts(Head(chk.todo), chk.pin[Head(chk.todo)], Readable(Head(chk.todo)))
    <2>1. chk.pc = "canonical" /\ chk.todo # <<>> /\ chk' = [chk EXCEPT !.todo = Tail(chk.todo), !.can = new]
      BY <1>8 DEF ExtractCanonical, Step, Walk, At
    <2> HIDE DEF new
    <2>2. chk'.can = new /\ chk'.err = chk.err /\ chk'.skipped = chk.skipped /\ chk'.pc = chk.pc
          /\ chk'.todo = Tail(chk.todo)
      BY <1>0, <2>1 DEF Runs
    <2> QED BY <1>0, <1>1, <2>1, <2>2 DEF Clear, new
  <1>9. ASSUME Extracted
        PROVE  /\ Clear /\ chk.pc = "canonical" /\ chk.todo = <<>>
               /\ IF chk.opt.db THEN chk'.pc = "verify" /\ chk'.todo = Files ELSE chk'.pc = "diff"
    BY <1>0, <1>1, <1>9 DEF Extracted, Step, Walked, At, Goto, Runs, Clear
  <1>10. ASSUME Verify
         PROVE  /\ Clear /\ chk.pc = "verify" /\ chk'.pc = "verify" /\ chk.todo # <<>> /\ chk'.todo = Tail(chk.todo)
                /\ Fingerprint(tree[Head(chk.todo)], tree[Head(chk.todo)]) = chk.snap[Head(chk.todo)]
    BY <1>0, <1>1, <1>10 DEF Verify, Step, Walk, At, Runs, Clear
  <1>11. ASSUME Verified PROVE Clear /\ chk.pc = "verify" /\ chk.todo = <<>> /\ chk'.pc = "diff"
    BY <1>0, <1>1, <1>11 DEF Verified, Step, Walked, At, Goto, Runs, Clear
  <1>12. ASSUME DiffManifests PROVE Clear /\ chk.pc = "diff" /\ chk'.pc = "record"
    <2>1. PICK st : chk' = [chk EXCEPT !.pc = "record", !.state = st]
      BY <1>12, DiffStates
    <2> QED BY <1>0, <1>1, <1>12, <2>1 DEF DiffManifests, At, Runs, Clear
  <1>13. ASSUME Record PROVE Clear /\ chk.pc = "record" /\ chk'.pc = "done"
    BY <1>0, <1>1, <1>13 DEF Record, At, Runs, Clear
  <1> QED BY <1>2, <1>3, <1>4, <1>5, <1>6, <1>7, <1>8, <1>9, <1>10, <1>11, <1>12, <1>13 DEF CheckStep

\* What is sure of a file after a step was sure before it.
LEMMA SureBefore ==
    ASSUME CheckTypes, Fingerprints, chk \in Runs, CheckStep, ~ReadFile, Clear', chk.opt.db,
           NEW p \in Paths, Sure(p)'
    PROVE  Sure(p)
  <1>1. UNCHANGED tree /\ chk'.snap = chk.snap /\ ~Exit /\ ~Timeout /\ ~TempScanFails
    BY StepKeeps, StepFrames, ClearBefore
  <1>2. (Captured(p)' <=> Captured(p)) /\ (Steady(p)' <=> Steady(p))
    BY <1>1 DEF Captured, Steady
  <1>3. CASE Steady(p)
    BY <1>3 DEF Sure
  <1>4. ASSUME ~Steady(p) PROVE Sure(p)
    <2>1. /\ Captured(p)
          /\ chk'.pc \in {"diff", "record", "done"} \/ (chk'.pc = "verify" /\ p \notin ToSet(chk'.todo))
      BY <1>2, <1>4 DEF Sure, At
    <2>2. CASE Extracted
      <3>1. chk'.pc = "verify" /\ chk'.todo = Files
        BY <2>2, ClearBefore
      <3> QED BY <2>1, <3>1 DEF Paths
    <2>3. CASE Verify
      <3>1. /\ chk.pc = "verify" /\ chk'.pc = "verify" /\ chk.todo # <<>> /\ chk'.todo = Tail(chk.todo)
            /\ Fingerprint(tree[Head(chk.todo)], tree[Head(chk.todo)]) = chk.snap[Head(chk.todo)]
        BY <2>3, ClearBefore
      <3>2. chk.todo \in Seq(Paths)
        BY DEF Runs
      <3>3. ToSet(chk.todo) = {Head(chk.todo)} \cup ToSet(Tail(chk.todo))
        BY <3>1, <3>2, WalkStep
      <3>4. CASE p \notin ToSet(chk.todo)
        BY <2>1, <3>1, <3>4 DEF Sure, At
      <3>5. CASE p \in ToSet(chk.todo)
        <4>1. p = Head(chk.todo)
          BY <2>1, <3>1, <3>3, <3>5
        <4>2. Fingerprint(tree[p], tree[p]) = chk.snap[p]
          BY <3>1, <4>1
        <4>3. tree[p] # Absent
          BY <2>1, <4>2 DEF Captured, NoFile
        <4>4. tree[p].mtime = chk.snap[p].mtime
          <5>1. Fingerprint(tree[p], tree[p]).mtime = tree[p].mtime
            BY DEF Fingerprint
          <5> QED BY <4>2, <5>1
        <4> QED BY <1>4, <2>1, <4>3, <4>4 DEF Steady
      <3> QED BY <3>4, <3>5
    <2>4. CASE Verified
      <3>1. chk.pc = "verify" /\ chk.todo = <<>>
        BY <2>4, ClearBefore
      <3>2. p \notin ToSet(chk.todo)
        BY <3>1 DEF ToSet
      <3> QED BY <2>1, <3>1, <3>2 DEF Sure, At
    <2>5. CASE DiffManifests \/ Record
      <3>1. chk.pc \in {"diff", "record"}
        BY <2>5, ClearBefore
      <3> QED BY <2>1, <3>1 DEF Sure
    <2>6. CASE Stat \/ Lookup \/ ExtractSource \/ PinCanonical \/ ExtractCanonical
      <3>1. chk'.pc \in {"read", "source", "canonical"}
        BY <2>6, ClearBefore
      <3> QED BY <2>1, <3>1
    <2> QED BY <1>1, <2>2, <2>3, <2>4, <2>5, <2>6 DEF CheckStep
  <1> QED BY <1>3, <1>4

LEMMA NoArtifacts == \A p : OpsOf(<<>>, p) = {}
  BY DEF OpsOf, ToSet

LEMMA FilesAll == \A p \in Paths : p \in ToSet(Files)
  BY DEF Paths

\* Nothing is in a manifest before its extractor runs; the image is what is scanned.
LEMMA BlankNext ==
    ASSUME Manifests, chk \in Runs, CheckStep, Clear'
    PROVE  /\ chk'.pc \in Reading => chk'.src = <<>>
           /\ chk'.pc \in Sourcing => chk'.can = <<>>
           /\ ~chk'.opt.db /\ chk'.pc \notin Sourcing => chk'.pin = Contents(chk'.img)
  <1>1. /\ chk'.opt = chk.opt /\ ~Exit /\ ~Timeout /\ ~TempScanFails /\ Clear
        /\ ~ReadFile => chk'.img = chk.img
        /\ ~ExtractSource => chk'.src = chk.src
        /\ ~ExtractCanonical => chk'.can = chk.can
        /\ ~PinCanonical => chk'.pin = chk.pin
    BY StepFrames, ClearBefore
  <1>2. /\ chk.pc \in Reading => chk.src = <<>>
        /\ chk.pc \in Sourcing => chk.can = <<>>
        /\ ~chk.opt.db /\ chk.pc \notin Sourcing => chk.pin = Contents(chk.img)
    BY <1>1 DEF Manifests
  <1>3. chk'.pc \in Reading => chk.pc \in Reading /\ ~ExtractSource
    BY <1>1, ClearBefore DEF CheckStep, Reading
  <1>4. chk'.pc \in Sourcing => chk.pc \in Sourcing /\ ~ExtractCanonical
    BY <1>1, ClearBefore DEF CheckStep, Sourcing
  <1>5. CASE PinCanonical
    <2>1. ~ReadFile /\ chk'.pin = IF chk.opt.db THEN db ELSE Contents(chk.img)
      BY <1>5, ClearBefore
    <2> QED BY <1>1, <1>2, <1>3, <1>4, <2>1
  <1>6. CASE ~PinCanonical
    <2>1. chk'.pc \notin Sourcing => chk.pc \notin Sourcing /\ ~ReadFile
      BY <1>1, <1>6, ClearBefore DEF CheckStep, Sourcing
    <2> QED BY <1>1, <1>2, <1>3, <1>4, <1>6, <2>1
  <1> QED BY <1>5, <1>6

LEMMA SrcNext ==
    ASSUME CheckTypes, Fingerprints, Manifests, chk \in Runs, CheckStep, Clear', NEW p \in Paths
    PROVE  SrcOk(p)'
  <1>1. /\ UNCHANGED tree /\ chk'.opt = chk.opt /\ ~Exit /\ ~Timeout /\ ~TempScanFails /\ Clear
        /\ ~ReadFile => chk'.snap = chk.snap
        /\ ~ExtractSource => chk'.src = chk.src
        /\ ~PinCanonical => chk'.atPin = chk.atPin
    BY StepKeeps, StepFrames, ClearBefore
  <1>2. SrcOk(p) /\ (chk.pc \in Reading => chk.src = <<>>)
    BY <1>1 DEF Manifests
  <1>3. CASE chk.pc \in Reading
    <2>1. chk.src = <<>> /\ (Stat \/ ReadFile \/ Lookup)
      BY <1>1, <1>2, <1>3, ClearBefore DEF CheckStep, Reading
    <2>2. chk'.src = <<>> /\ (chk'.pc \in Reading \/ (chk'.pc = "source" /\ chk'.todo = Files))
      <3>1. chk'.pc \in Reading \/ (chk'.pc = "source" /\ chk'.todo = Files)
        BY <2>1, ClearBefore DEF Reading
      <3>2. ~ExtractSource
        BY <1>3, ClearBefore DEF Reading
      <3> QED BY <1>1, <2>1, <3>1, <3>2
    <2>3. OpsOf(chk'.src, p) = {} /\ chk'.pc \in Sourcing
      BY <2>2, NoArtifacts DEF Reading, Sourcing
    <2> QED BY <2>2, <2>3, FilesAll DEF SrcOk, At
  <1>4. ASSUME chk.pc \notin Reading PROVE chk'.pc \notin Reading /\ ~ReadFile
    BY <1>1, <1>4, ClearBefore DEF CheckStep, Reading
  <1>5. ASSUME chk.pc \notin Reading, chk.opt.db, Sure(p)'
        PROVE  /\ OpsOf(chk'.src, p) \subseteq OpArtifacts(p, chk'.snap[p].sha)
               /\ \/ chk'.pc = "source" /\ p \in ToSet(chk'.todo)
                  \/ OpArtifacts(p, chk'.snap[p].sha) \subseteq OpsOf(chk'.src, p)
               /\ chk'.pc \notin Sourcing => chk'.snap[p] = Fingerprint(chk'.atPin[p], chk'.atPin[p])
    <2>1. ~ReadFile /\ chk'.snap = chk.snap /\ chk'.pc \notin Reading
      BY <1>1, <1>4, <1>5
    <2>2. Sure(p)
      BY <1>5, <2>1, SureBefore
    <2>3. /\ OpsOf(chk.src, p) \subseteq OpArtifacts(p, chk.snap[p].sha)
          /\ \/ chk.pc = "source" /\ p \in ToSet(chk.todo)
             \/ OpArtifacts(p, chk.snap[p].sha) \subseteq OpsOf(chk.src, p)
          /\ chk.pc \notin Sourcing => chk.snap[p] = Fingerprint(chk.atPin[p], chk.atPin[p])
      BY <1>2, <1>5, <2>2 DEF SrcOk, At
    <2>4. chk.src \in Seq(Art) /\ chk.todo \in Seq(Paths) /\ PrintOk(p) /\ tree \in [Paths -> FileStates]
      BY <1>1 DEF Runs, Fingerprints, CheckTypes, Clear
    <2>5. CASE ExtractSource
      <3>1. /\ chk.pc = "source" /\ chk'.pc = "source" /\ chk.todo # <<>> /\ chk'.todo = Tail(chk.todo)
            /\ chk'.src = chk.src \o SourceArtifacts(Head(chk.todo), tree[Head(chk.todo)])
        BY <1>5, <2>5, ClearBefore DEF Readable
      <3>2. PICK h \in Paths : h = Head(chk.todo)
        BY <2>4, <3>1, WalkStep
      <3>3. /\ SourceArtifacts(h, tree[h]) \in Seq(Art)
            /\ OpsOf(SourceArtifacts(h, tree[h]), h) = OpArtifacts(h, tree[h])
            /\ \A q : q # h => OpsOf(SourceArtifacts(h, tree[h]), q) = {}
        BY <2>4, <3>2, SourceArtifactsAre
      <3>4. OpsOf(chk'.src, p) = OpsOf(chk.src, p) \cup OpsOf(SourceArtifacts(h, tree[h]), p)
        BY <2>4, <3>1, <3>2, <3>3, OpsOfConcat
      <3>5. CASE p = h
        <4>1. Steady(p)
          BY <2>2, <3>1 DEF Sure, At
        <4>2. OpArtifacts(p, tree[p]) = OpArtifacts(p, chk.snap[p].sha)
          <5>1. chk.snap[p].sha = Content(tree[p])
            BY <2>4, <4>1 DEF PrintOk, Fingerprint
          <5> QED BY <5>1 DEF OpArtifacts, Content
        <4> QED BY <2>1, <2>3, <3>1, <3>3, <3>4, <3>5, <4>2 DEF Sourcing
      <3>6. CASE p # h
        <4>1. p \in ToSet(chk.todo) => p \in ToSet(chk'.todo)
          BY <2>4, <3>1, <3>2, <3>6, WalkStep
        <4>2. OpsOf(chk'.src, p) = OpsOf(chk.src, p)
          BY <3>3, <3>4, <3>6
        <4> QED BY <2>1, <2>3, <3>1, <4>1, <4>2 DEF Sourcing
      <3> QED BY <3>5, <3>6
    <2>6. CASE PinCanonical
      <3>1. chk.todo = <<>> /\ chk.pc = "source" /\ chk'.pc = "canonical" /\ chk'.atPin = tree
        BY <2>6, ClearBefore
      <3>2. p \notin ToSet(chk.todo)
        BY <3>1 DEF ToSet
      <3>3. Steady(p)
        BY <2>2, <3>1 DEF Sure, At
      <3>4. chk.snap[p] = Fingerprint(tree[p], tree[p])
        BY <2>4, <3>3 DEF PrintOk
      <3>5. ~ExtractSource
        BY <3>1, ClearBefore
      <3> QED BY <1>1, <2>1, <2>3, <3>1, <3>2, <3>4, <3>5
    <2>7. CASE ExtractCanonical \/ Extracted \/ Verify \/ Verified \/ DiffManifests \/ Record
      <3>1. chk.pc \notin Sourcing /\ chk.pc # "source"
        BY <2>7, ClearBefore DEF Sourcing
      <3>2. ~ExtractSource /\ ~PinCanonical
        BY <3>1, ClearBefore
      <3> QED BY <1>1, <2>1, <2>3, <3>1, <3>2
    <2> QED BY <1>1, <1>5, <2>1, <2>5, <2>6, <2>7, ClearBefore DEF CheckStep, Reading
  <1>6. CASE chk.pc \notin Reading
    BY <1>1, <1>4, <1>5, <1>6 DEF SrcOk, At
  <1> QED BY <1>3, <1>6

LEMMA CanNext ==
    ASSUME CheckTypes, Fingerprints, Manifests, chk \in Runs, CheckStep, Clear', NEW p \in Paths
    PROVE  CanOk(p)'
  <1>1. /\ chk'.opt = chk.opt /\ ~Exit /\ ~Timeout /\ ~TempScanFails /\ Clear
        /\ ~ReadFile => chk'.img = chk.img
        /\ ~ExtractCanonical => chk'.can = chk.can
        /\ ~PinCanonical => chk'.pin = chk.pin
    BY StepFrames, ClearBefore
  <1>2. CanOk(p) /\ (chk.pc \in Sourcing => chk.can = <<>>)
    BY <1>1 DEF Manifests
  <1>3. /\ chk.can \in Seq(Art) /\ chk.todo \in Seq(Paths) /\ tree \in [Paths -> FileStates]
        /\ chk.pin \in [Paths -> RowStates] /\ chk.img \in [Paths -> FileStates]
    BY DEF Runs, CheckTypes
  <1>4. CASE chk.pc \in Sourcing
    <2>1. chk'.can = <<>> /\ OpsOf(chk'.can, p) = {}
      <3>1. ~ExtractCanonical
        BY <1>4, ClearBefore DEF Sourcing
      <3> QED BY <1>1, <1>2, <1>4, <3>1, NoArtifacts
    <2>2. CASE PinCanonical
      <3>1. /\ chk'.pc = "canonical" /\ chk'.todo = Files /\ ~ReadFile
            /\ chk'.pin = IF chk.opt.db THEN db ELSE Contents(chk.img)
        BY <2>2, ClearBefore
      <3> QED BY <1>1, <2>1, <3>1, FilesAll DEF CanOk, At, Sourcing
    <2>3. CASE ~PinCanonical
      <3>1. chk'.pc \in Sourcing
        BY <1>1, <1>4, <2>3, ClearBefore DEF CheckStep, Sourcing
      <3> QED BY <2>1, <3>1 DEF CanOk
    <2> QED BY <2>2, <2>3
  <1>5. CASE chk.pc \notin Sourcing
    <2>1. chk'.pin = chk.pin /\ chk'.pc \notin Sourcing
      <3>1. ~PinCanonical /\ ~ReadFile
        BY <1>5, ClearBefore DEF Sourcing
      <3>2. chk'.pc \notin Sourcing
        BY <1>1, <1>5, ClearBefore DEF CheckStep, Sourcing
      <3> QED BY <1>1, <3>1, <3>2
    <2>2. CanOk(p)'
      <3>0. /\ OpsOf(chk.can, p) \subseteq OpArtifacts(p, chk.pin[p])
            /\ \/ chk.pc = "canonical" /\ p \in ToSet(chk.todo)
               \/ OpArtifacts(p, chk.pin[p]) \subseteq OpsOf(chk.can, p)
        BY <1>2, <1>5 DEF CanOk, At
      <3>1. CASE ExtractCanonical
        <4>1. /\ chk.pc = "canonical" /\ chk'.pc = "canonical" /\ chk.todo # <<>> /\ chk'.todo = Tail(chk.todo)
              /\ chk'.can = chk.can \o CanonicalArtifacts(Head(chk.todo), chk.pin[Head(chk.todo)],
                                                          Readable(Head(chk.todo)))
          BY <3>1, ClearBefore
        <4>2. PICK h \in Paths : h = Head(chk.todo)
          BY <1>3, <4>1, WalkStep
        <4> DEFINE new == CanonicalArtifacts(h, chk.pin[h], Readable(h))
        <4>3. Readable(h) \in FileStates /\ chk.pin[h] \in RowStates
          BY <1>3, <4>2 DEF Readable
        <4>4. /\ new \in Seq(Art) /\ OpsOf(new, h) = OpArtifacts(h, chk.pin[h])
              /\ \A q : q # h => OpsOf(new, q) = {}
          BY <4>2, <4>3, CanonicalArtifactsAre
        <4>5. chk'.can = chk.can \o new
          BY <4>1, <4>2
        <4> HIDE DEF new
        <4>6. OpsOf(chk'.can, p) = OpsOf(chk.can, p) \cup OpsOf(new, p)
          BY <1>3, <4>4, <4>5, OpsOfConcat
        <4>7. CASE p = h
          BY <2>1, <3>0, <4>4, <4>6, <4>7 DEF CanOk, At
        <4>8. CASE p # h
          <5>1. p \in ToSet(chk.todo) => p \in ToSet(chk'.todo)
            BY <1>3, <4>1, <4>2, <4>8, WalkStep
          <5>2. OpsOf(chk'.can, p) = OpsOf(chk.can, p)
            BY <4>4, <4>6, <4>8
          <5> QED BY <2>1, <3>0, <4>1, <5>1, <5>2 DEF CanOk, At
        <4> QED BY <4>7, <4>8
      <3>2. CASE ~ExtractCanonical
        <4>1. chk.pc # "canonical" \/ chk.todo = <<>>
          BY <1>1, <1>5, <2>1, <3>2, ClearBefore DEF CheckStep, Sourcing
        <4>2. OpArtifacts(p, chk.pin[p]) \subseteq OpsOf(chk.can, p)
          <5>1. chk.todo = <<>> => p \notin ToSet(chk.todo)
            BY DEF ToSet
          <5> QED BY <3>0, <4>1, <5>1
        <4> QED BY <1>1, <2>1, <3>0, <3>2, <4>2 DEF CanOk
      <3> QED BY <3>1, <3>2
    <2> QED BY <2>1, <2>2
  <1> QED BY <1>4, <1>5

LEMMA ManifestsInit == CheckInit => Manifests
  BY DEF CheckInit, Manifests, Clear

LEMMA ManifestsNext ==
    ASSUME CheckTypes, Fingerprints, Manifests, [CheckNext]_cvars
    PROVE  Manifests'
  <1>0. chk = Idle \/ chk \in Runs
    BY DEF CheckTypes
  <1>1. ASSUME NEW p \in Paths, Change(p) PROVE Manifests'
    <2>1. /\ changes' = changes + 1 /\ chk' = chk
          /\ \A q \in Paths : q # p => tree'[q] = tree[q]
          /\ tree'[p] = Absent \/ tree'[p].mtime = changes + 1
      BY <1>1, ChangeIs
    <2>2. ASSUME Clear, NEW q \in Paths PROVE Sure(q)' => Sure(q)
      <3>1. chk.snap[q].mtime \in Nat /\ chk.snap[q].mtime <= changes /\ changes \in Nat
        BY <1>0, <2>2 DEF Clear, Fingerprints, PrintOk, Runs, Prints, CheckTypes
      <3>2. Steady(q)' => Steady(q)
        BY <2>1, <3>1 DEF Steady, Captured
      <3> QED BY <2>1, <3>2 DEF Sure, Captured, At
    <2>3. ASSUME Clear, NEW q \in Paths PROVE SrcOk(q)' /\ CanOk(q)'
      <3>1. SrcOk(q) /\ CanOk(q)
        BY <2>3 DEF Manifests
      <3>2. CanOk(q)'
        BY <2>1, <3>1 DEF CanOk, At
      <3>3. SrcOk(q)'
        BY <2>1, <2>2, <2>3, <3>1 DEF SrcOk, At
      <3> QED BY <3>2, <3>3
    <2> QED BY <2>1, <2>3 DEF Manifests, Clear
  <1>2. ASSUME NEW p \in Paths, Ingest(p) PROVE UNCHANGED <<tree, chk>>
    BY <1>2 DEF Ingest
  <1>3. ASSUME NEW o \in Options, Begin(o) PROVE Manifests'
    <2>1. CASE Unchanged(o)
      <3>1. chk'.skipped
        BY <1>3, <2>1 DEF Begin, Fresh
      <3> QED BY <3>1 DEF Manifests, Clear
    <2>2. CASE ~Unchanged(o)
      <3>1. chk'.pc = "capture" /\ chk'.src = <<>> /\ chk'.can = <<>>
        BY <1>3, <2>2 DEF Begin, Fresh
      <3>2. chk'.pc \in Reading /\ chk'.pc \in Sourcing
        BY <3>1 DEF Reading, Sourcing
      <3>3. \A q : OpsOf(chk'.src, q) = {} /\ OpsOf(chk'.can, q) = {}
        BY <3>1, NoArtifacts
      <3>4. \A q \in Paths : SrcOk(q)' /\ CanOk(q)'
        BY <3>2, <3>3 DEF SrcOk, CanOk
      <3> QED BY <3>1, <3>2, <3>4 DEF Manifests
    <2> QED BY <2>1, <2>2
  <1>4. ASSUME CheckStep, Clear' PROVE Manifests'
    <2>1. chk \in Runs
      BY <1>4, RunTypes
    <2>2. \A p \in Paths : SrcOk(p)' /\ CanOk(p)'
      BY <1>4, <2>1, SrcNext, CanNext
    <2>3. /\ chk'.pc \in Reading => chk'.src = <<>>
          /\ chk'.pc \in Sourcing => chk'.can = <<>>
          /\ ~chk'.opt.db /\ chk'.pc \notin Sourcing => chk'.pin = Contents(chk'.img)
      BY <1>4, <2>1, BlankNext
    <2> QED BY <2>2, <2>3 DEF Manifests
  <1>5. CASE UNCHANGED <<tree, chk>>
    BY <1>5 DEF Manifests, Clear, SrcOk, CanOk, Sure, Steady, Captured, At
  <1>6. ~Clear' => Manifests'
    BY DEF Manifests
  <1>7. UNCHANGED cvars => UNCHANGED <<tree, chk>>
    BY DEF cvars
  <1> QED BY <1>1, <1>2, <1>3, <1>4, <1>5, <1>6, <1>7 DEF CheckNext

-----------------------------------------------------------------------------
(* Verdicts.                                                                *)

LEMMA VerdictsInit == CheckInit => Verdicts
  BY DEF CheckInit, Verdicts

\* The stages of a run.
LEMMA StageOf ==
    ASSUME chk \in Runs, CheckStep
    PROVE  /\ Stat => chk'.pc = "read"
           /\ ReadFile => chk.pc = "read" /\ chk'.pc \in {"capture", "source"}
           /\ Lookup => \/ chk'.pc = "source" /\ chk'.skipped = chk.skipped
                        \/ chk'.pc = "verify" /\ chk'.state = "SAMPLE_ONLY"
                        \/ /\ chk'.pc = "verify" /\ chk'.state = cursor.state
                           /\ chk.opt.use = "resume" /\ Matches
           /\ Lookup => chk.pc = "capture"
           /\ ExtractSource => chk.pc = "source" /\ chk'.pc = "source"
           /\ PinCanonical => chk.pc = "source" /\ chk'.pc = "canonical"
           /\ TempScanFails => chk.pc = "source" /\ chk'.pc = "canonical"
           /\ ExtractCanonical => chk.pc = "canonical" /\ chk'.pc = "canonical"
           /\ Extracted => chk.pc = "canonical" /\ chk'.pc \in {"verify", "diff"}
           /\ Verify => chk.pc = "verify" /\ chk'.pc = "verify" /\ chk'.state = chk.state
           /\ Verified =>
                /\ chk.pc = "verify"
                /\ IF chk.skipped THEN chk'.pc = "done" /\ chk'.state \in {chk.state, "INCOMPLETE"}
                                  ELSE chk'.pc = "diff"
           /\ DiffManifests => chk.pc = "diff" /\ chk'.pc = "record"
           /\ Record => chk.pc = "record" /\ chk'.pc = "done" /\ chk'.state = chk.state /\ chk'.err = chk.err
           /\ Timeout => chk'.pc = "done" /\ chk'.state = "INCOMPLETE"
  <1>0. DOMAIN chk = {"pc", "opt", "todo", "stat", "snap", "img", "src", "pin", "can", "err", "state", "skipped", "atPin"}
    BY DEF Runs
  <1>1. Stat => chk'.pc = "read"
    BY <1>0 DEF Stat, Step, Runs
  <1>2. ASSUME ReadFile PROVE chk.pc = "read" /\ chk'.pc \in {"capture", "source"}
    <2> DEFINE p == Head(chk.todo)
               next == [chk EXCEPT !.pc = "capture", !.todo = Tail(@)]
    <2>1. chk.pc = "read" /\ chk' \in {[Goto(chk, "source") EXCEPT !.err = TRUE], next,
                    [next EXCEPT !.img[p] = tree[p], !.snap[p] = Fingerprint(chk.stat, tree[p])]}
      BY <1>2, Zenon DEF ReadFile, Step, At
    <2> QED BY <1>0, <2>1 DEF Goto, Runs
  <1>3. ASSUME Lookup
        PROVE  /\ chk.pc = "capture"
               /\ \/ chk'.pc = "source" /\ chk'.skipped = chk.skipped
                  \/ chk'.pc = "verify" /\ chk'.state = "SAMPLE_ONLY"
                  \/ chk'.pc = "verify" /\ chk'.state = cursor.state /\ chk.opt.use = "resume" /\ Matches
    <2>1. \A st : LET r == [Goto(chk, "verify") EXCEPT !.state = st, !.skipped = TRUE]
                  IN  r.pc = "verify" /\ r.state = st
      BY <1>0 DEF Goto, Runs
    <2>2. Goto(chk, "source").pc = "source" /\ Goto(chk, "source").skipped = chk.skipped
      BY <1>0 DEF Goto, Runs
    <2>3. chk.pc = "capture"
      BY <1>3 DEF Lookup, Walked, At
    <2>4. CASE chk.opt.use = "resume" /\ Matches
      BY <1>3, <2>1, <2>3, <2>4 DEF Lookup, Step
    <2>5. CASE chk.opt.use = "cursor" /\ Matches
      BY <1>3, <2>1, <2>3, <2>5 DEF Lookup, Step
    <2>6. CASE ~(chk.opt.use = "resume" /\ Matches) /\ ~(chk.opt.use = "cursor" /\ Matches)
      BY <1>3, <2>2, <2>3, <2>6 DEF Lookup, Step
    <2> QED BY <2>4, <2>5, <2>6
  <1>4. ExtractSource => chk.pc = "source" /\ chk'.pc = "source"
    BY <1>0 DEF ExtractSource, Walk, At, Step, Runs
  <1>5. /\ PinCanonical => chk.pc = "source" /\ chk'.pc = "canonical"
        /\ TempScanFails => chk.pc = "source" /\ chk'.pc = "canonical"
    BY <1>0 DEF PinCanonical, TempScanFails, Walked, At, Step, Goto, Runs
  <1>6. ExtractCanonical => chk.pc = "canonical" /\ chk'.pc = "canonical"
    BY <1>0 DEF ExtractCanonical, Walk, At, Step, Runs
  <1>7. Extracted => chk.pc = "canonical" /\ chk'.pc \in {"verify", "diff"}
    BY <1>0 DEF Extracted, Walked, At, Step, Goto, Runs
  <1>8. Verify => chk.pc = "verify" /\ chk'.pc = "verify" /\ chk'.state = chk.state
    BY <1>0 DEF Verify, Walk, At, Step, Runs
  <1>9. Verified =>
          /\ chk.pc = "verify"
          /\ IF chk.skipped THEN chk'.pc = "done" /\ chk'.state \in {chk.state, "INCOMPLETE"}
                            ELSE chk'.pc = "diff"
    BY <1>0 DEF Verified, Walked, At, Step, Goto, Runs
  <1>10. ASSUME DiffManifests PROVE chk.pc = "diff" /\ chk'.pc = "record"
    <2>1. PICK st : chk' = [chk EXCEPT !.pc = "record", !.state = st]
      BY <1>10, DiffStates
    <2> QED BY <1>0, <1>10, <2>1 DEF DiffManifests, At, Runs
  <1>11. Record => chk.pc = "record" /\ chk'.pc = "done" /\ chk'.state = chk.state /\ chk'.err = chk.err
    BY <1>0 DEF Record, At, Runs
  <1>12. Timeout => chk'.pc = "done" /\ chk'.state = "INCOMPLETE"
    BY <1>0 DEF Timeout, Step, Runs
  <1> QED BY <1>1, <1>2, <1>3, <1>4, <1>5, <1>6, <1>7, <1>8, <1>9, <1>10, <1>11, <1>12

LEMMA VerdictsNext ==
    ASSUME CheckTypes, Fingerprints, Verdicts, [CheckNext]_cvars
    PROVE  Verdicts'
  <1>1. ASSUME NEW p \in Paths, Change(p) \/ Ingest(p) PROVE UNCHANGED <<cursor, proved, chk>>
    BY <1>1 DEF Change, Ingest
  <1>2. ASSUME NEW o \in Options, Begin(o) PROVE Verdicts'
    <2>1. /\ UNCHANGED <<cursor, proved>>
          /\ \/ chk'.skipped /\ chk'.pc = "done" /\ chk'.state = "SAMPLE_ONLY"
             \/ ~chk'.skipped /\ chk'.pc = "capture"
      BY <1>2 DEF Begin, Fresh
    <2>2. SkipOk' /\ StateOk'
      BY <2>1 DEF SkipOk, StateOk
    <2> QED BY <2>1, <2>2 DEF Verdicts
  <1>3. ASSUME CheckStep PROVE Verdicts'
    <2>1. chk \in Runs /\ chk # Idle /\ proved \subseteq proved'
      BY <1>3, RunTypes, StepKeeps DEF Runs, Idle, Record
    <2>2. SkipOk /\ StateOk
      BY <2>1 DEF Verdicts
    <2>3. cursor' # NoEntry /\ cursor'.state = "PASS" => Hashes(cursor'.snap) \in proved'
      <3>1. CASE Record
        <4>1. /\ cursor' = IF chk.opt.use = "resume" /\ chk.state \in {"PASS", "FAIL"}
                           THEN [snap |-> chk.snap, state |-> chk.state] ELSE cursor
              /\ proved' = IF chk.state = "PASS" THEN proved \cup {Hashes(chk.snap)} ELSE proved
          BY <3>1 DEF Record
        <4> QED BY <4>1 DEF Verdicts
      <3>2. CASE ~Record
        <4>1. cursor' = cursor /\ proved' = proved
          BY <1>3, <3>2, StepKeeps
        <4> QED BY <4>1 DEF Verdicts
      <3> QED BY <3>1, <3>2
    <2>4. ASSUME ~Exit PROVE SkipOk'
      <3>1. chk'.opt = chk.opt
        BY <1>3, <2>1, <2>4, StepFrames
      <3>2. CASE Lookup
        <4>1. ~ReadFile /\ chk'.snap = chk.snap /\ chk.pc = "capture" /\ ~chk.skipped
          BY <1>3, <2>1, <2>2, <2>4, <3>2, StageOf, StepFrames DEF SkipOk
        <4>2. Matches /\ cursor.state = "PASS" => Hashes(chk.snap) \in proved'
          BY <2>1 DEF Matches, Verdicts
        <4> QED BY <1>3, <2>1, <3>1, <3>2, <4>1, <4>2, StageOf DEF SkipOk
      <3>3. CASE ~Lookup
        <4>1. chk'.skipped = chk.skipped
          BY <1>3, <2>1, <2>4, <3>3, StepFrames
        <4>2. CASE chk.skipped
          <5>1. chk.pc \in {"verify", "done"}
            BY <2>2, <4>2 DEF SkipOk
          <5>2. Verify \/ Verified \/ Timeout
            <6>1. ~Stat
              BY <5>1 DEF Stat, Walk, At
            <6> QED BY <1>3, <2>1, <2>4, <3>3, <5>1, <6>1, StageOf DEF CheckStep
          <5>3. chk'.pc \in {"verify", "done"} /\ chk'.state \in {chk.state, "INCOMPLETE"}
            BY <1>3, <2>1, <4>2, <5>2, StageOf
          <5>4. ~ReadFile /\ chk'.snap = chk.snap
            BY <1>3, <2>1, <2>4, <5>1, StageOf, StepFrames
          <5> QED BY <2>1, <2>2, <3>1, <4>1, <4>2, <5>3, <5>4 DEF SkipOk
        <4>3. CASE ~chk.skipped
          BY <4>1, <4>3 DEF SkipOk
        <4> QED BY <4>2, <4>3
      <3> QED BY <3>2, <3>3
    <2>5. ASSUME ~Exit PROVE StateOk'
      <3> SUFFICES ASSUME ~chk'.skipped, chk'.pc \in {"record", "done"} PROVE StateOk'
        BY DEF StateOk
      <3>1. chk'.opt = chk.opt
        BY <1>3, <2>1, <2>5, StepFrames
      <3>2. DiffManifests \/ Record \/ Timeout
        <4>1. ~Verified
          <5>1. Verified => chk.pc = "verify" /\ (chk.skipped <=> chk'.pc = "done")
            BY <1>3, <2>1, StageOf
          <5>2. Verified => ~Lookup
            BY <1>3, <2>1, <5>1, StageOf
          <5>3. Verified => chk'.skipped = chk.skipped
            BY <1>3, <2>1, <2>5, <5>2, StepFrames
          <5> QED BY <1>3, <2>1, <5>1, <5>3, StageOf
        <4> QED BY <1>3, <2>1, <2>5, <4>1, StageOf DEF CheckStep
      <3>3. CASE Timeout
        BY <1>3, <2>1, <3>3, StageOf DEF StateOk
      <3>4. CASE DiffManifests \/ Record
        <4>1. chk.pc \in {"diff", "record"} /\ ~ExtractSource /\ ~ExtractCanonical /\ ~Lookup
          BY <1>3, <2>1, <3>4, StageOf
        <4>2. chk'.src = chk.src /\ chk'.can = chk.can /\ chk'.skipped = chk.skipped
          BY <1>3, <2>1, <2>5, <4>1, StepFrames
        <4>3. CASE Record
          BY <1>3, <2>1, <2>2, <3>1, <4>2, <4>3, StageOf DEF StateOk
        <4>4. CASE DiffManifests
          <5>1. PICK st \in {"PASS", "FAIL", "INCOMPLETE", "SAMPLE_ONLY"} :
                    /\ chk' = [chk EXCEPT !.pc = "record", !.state = st]
                    /\ chk.err => st = "INCOMPLETE"
                    /\ st = "PASS" => ~Diagnostic(chk.opt) /\ Agree(CheckMatrix, chk.src, chk.can)
            BY <2>1, <4>4, DiffStates
          <5>2. chk'.state = st /\ chk'.err = chk.err
            BY <2>1, <5>1 DEF Runs
          <5> QED BY <3>1, <4>2, <5>1, <5>2 DEF StateOk
        <4> QED BY <3>4, <4>3, <4>4
      <3> QED BY <3>2, <3>3, <3>4
    <2>6. Exit => chk' = Idle
      BY <1>3, <2>1, StepFrames
    <2> QED BY <2>3, <2>4, <2>5, <2>6 DEF Verdicts
  <1>4. CASE UNCHANGED <<cursor, proved, chk>>
    BY <1>4 DEF Verdicts, SkipOk, StateOk
  <1>5. UNCHANGED cvars => UNCHANGED <<cursor, proved, chk>>
    BY DEF cvars
  <1> QED BY <1>1, <1>2, <1>3, <1>4, <1>5 DEF CheckNext

-----------------------------------------------------------------------------
(* What the invariant says of a run that is done.                           *)

\* Agreeing manifests hold the same rows of a file.
LEMMA AgreeOnRows ==
    ASSUME NEW src \in Seq(Art), NEW can \in Seq(Art), Agree(CheckMatrix, src, can), NEW p
    PROVE  /\ \A a \in OpsOf(src, p) : \E b \in OpsOf(can, p) : b.id = a.id /\ b.val = a.val
           /\ \A b \in OpsOf(can, p) : \E a \in OpsOf(src, p) : a.id = b.id
  <1>1. ToSet(src) \subseteq Art /\ ToSet(can) \subseteq Art /\ DOMAIN src = 1 .. Len(src)
    BY DEF ToSet
  <1>2. ASSUME NEW a \in OpsOf(src, p) PROVE \E b \in OpsOf(can, p) : b.id = a.id /\ b.val = a.val
    <2>1. a \in Art /\ a.cls = "op_boundary" /\ a.id[2] = p
      BY <1>1 DEF OpsOf
    <2>2. PICK i \in 1 .. Len(src) : a = src[i]
      BY <1>1 DEF OpsOf, ToSet
    <2>3. PICK c \in ToSet(can) : /\ Key(c) = Key(a) /\ c.avail = a.avail /\ c.avail # "unverifiable"
                                  /\ ByteProof(a) => c.val = a.val
      BY <2>2 DEF Agree
    <2>4. c.cls = a.cls /\ c.id = a.id
      BY <2>3 DEF Key
    <2>5. ByteProof(a)
      BY <2>1, <2>3 DEF Art, ByteProof
    <2> QED BY <2>1, <2>3, <2>4, <2>5 DEF OpsOf
  <1>3. ASSUME NEW b \in OpsOf(can, p) PROVE \E a \in OpsOf(src, p) : a.id = b.id
    <2>1. b \in Art /\ b.cls = "op_boundary" /\ b.id[2] = p /\ b \in ToSet(can)
      BY <1>1 DEF OpsOf
    <2>2. ~Documented(b)
      BY <2>1 DEF Documented, Art
    <2>3. PICK a \in ToSet(src) : a.id = b.id
      BY <2>1, <2>2 DEF Agree, ClasslessKey
    <2>4. a.cls = "op_boundary"
      BY <1>1, <2>1, <2>3 DEF Art
    <2> QED BY <2>1, <2>3, <2>4 DEF OpsOf
  <1> QED BY <1>2, <1>3

LEMMA DoneIsSound == CheckInv => VerdictIsSound
  <1> SUFFICES ASSUME CheckInv PROVE VerdictIsSound
    OBVIOUS
  <1>0. CheckTypes /\ Fingerprints /\ Manifests /\ Verdicts
    BY DEF CheckInv
  <1>1. At("done") => chk # Idle /\ chk \in Runs /\ SkipOk /\ StateOk
    <2>1. At("done") => chk # Idle
      BY DEF At, Idle
    <2> QED BY <1>0, <2>1 DEF CheckTypes, Verdicts
  <1>2. ResumeIsEarned
    BY <1>1 DEF ResumeIsEarned, SkipOk, At
  <1>3. DiagnosticNeverPasses
    <2> SUFFICES ASSUME At("done"), chk.state = "PASS" PROVE ~Diagnostic(chk.opt)
      BY DEF DiagnosticNeverPasses
    <2>1. CASE chk.skipped
      <3>1. chk.opt.use = "resume" /\ chk.opt \in Options
        BY <1>1, <2>1 DEF SkipOk, Runs
      <3> QED BY <3>1 DEF Options, Diagnostic
    <2>2. CASE ~chk.skipped
      BY <1>1, <2>2 DEF StateOk, At
    <2> QED BY <2>1, <2>2
  <1>4. ASSUME Settled, chk.state \in {"PASS", "FAIL"}
        PROVE  /\ Clear /\ chk \in Runs /\ chk.pc = "done" /\ chk.pc \notin Sourcing
               /\ \A p \in Paths : /\ SrcOk(p) /\ CanOk(p) /\ (Captured(p) => Sure(p))
                                   /\ chk.snap[p].sha = Content(chk.img[p])
               /\ ~chk.opt.db => chk.pin = Contents(chk.img)
    <2>1. Clear /\ chk.pc = "done" /\ chk.pc \notin Sourcing /\ chk \in Runs
      BY <1>1, <1>4 DEF Settled, StateOk, Clear, At, Sourcing
    <2>2. \A p \in Paths : chk.snap[p].sha = Content(chk.img[p])
      BY <1>0, <2>1 DEF Fingerprints, PrintOk, Clear
    <2> QED BY <1>0, <2>1, <2>2 DEF Manifests, Sure
  <1>5. MutationIsIncomplete
    <2> SUFFICES ASSUME Settled, chk.opt.db, chk.state \in {"PASS", "FAIL"}, NEW p \in Paths, Captured(p)
                 PROVE  chk.snap[p] = Fingerprint(chk.atPin[p], chk.atPin[p])
      BY DEF MutationIsIncomplete
    <2> QED BY <1>4 DEF SrcOk
  <1>6. PassIsParity
    <2> SUFFICES ASSUME Settled, chk.state = "PASS", NEW p \in Paths
                 PROVE  /\ Captured(p) \/ ~chk.opt.db => chk.pin[p] = chk.snap[p].sha
                        /\ chk.pin[p] # Content(Absent) => \E a \in ToSet(chk.src) : a.id[2] = p
      BY DEF PassIsParity
    <2>1. /\ Clear /\ chk \in Runs /\ chk.pc = "done" /\ chk.pc \notin Sourcing
          /\ SrcOk(p) /\ CanOk(p) /\ (Captured(p) => Sure(p)) /\ chk.snap[p].sha = Content(chk.img[p])
          /\ ~chk.opt.db => chk.pin = Contents(chk.img)
      BY <1>4
    <2>2. chk.src \in Seq(Art) /\ chk.can \in Seq(Art) /\ chk.pin[p] \in RowStates /\ chk.snap[p].sha \in RowStates
      BY <2>1 DEF Runs, Prints
    <2>3. Agree(CheckMatrix, chk.src, chk.can)
      BY <1>1 DEF Settled, StateOk, At
    <2>4. OpsOf(chk.can, p) = OpArtifacts(p, chk.pin[p])
      BY <2>1 DEF CanOk, At
    <2>5. /\ \A a \in OpsOf(chk.src, p) : \E b \in OpsOf(chk.can, p) : b.id = a.id /\ b.val = a.val
          /\ \A b \in OpsOf(chk.can, p) : \E a \in OpsOf(chk.src, p) : a.id = b.id
      BY <2>2, <2>3, AgreeOnRows
    <2>6. ASSUME Captured(p), chk.opt.db PROVE chk.pin[p] = chk.snap[p].sha
      <3>1. OpsOf(chk.src, p) = OpArtifacts(p, chk.snap[p].sha)
        BY <2>1, <2>6 DEF SrcOk, At, Reading
      <3> QED BY <2>2, <2>4, <2>5, <3>1, OpArtifactsDiffer
    <2>7. ASSUME ~chk.opt.db PROVE chk.pin[p] = chk.snap[p].sha
      BY <2>1, <2>7 DEF Contents
    <2>8. ASSUME chk.pin[p] # Content(Absent) PROVE \E a \in ToSet(chk.src) : a.id[2] = p
      <3>1. 1 \in 1 .. chk.pin[p].len
        BY <2>2, <2>8 DEF RowStates
      <3>2. OpArtifacts(p, chk.pin[p]) # {}
        BY <3>1 DEF OpArtifacts
      <3>3. PICK a \in OpsOf(chk.src, p) : TRUE
        BY <2>4, <2>5, <3>2
      <3> QED BY <3>3 DEF OpsOf
    <2> QED BY <2>6, <2>7, <2>8
  <1> QED BY <1>2, <1>3, <1>5, <1>6 DEF VerdictIsSound

\* What check-parity reports while the producer and the daemon move underneath it: a PASS is
\* about the captured content, a changed file gives no verdict, a reused PASS was earned, a
\* diagnostic run never passes (checkSourceForRun).
THEOREM CheckVerdictIsSound == CheckSpec => []VerdictIsSound
  <1>1. CheckInit => CheckInv
    BY TypesInit, PrintsInit, ManifestsInit, VerdictsInit DEF CheckInv
  <1>2. CheckInv /\ [CheckNext]_cvars => CheckInv'
    BY TypesNext, PrintsNext, ManifestsNext, VerdictsNext DEF CheckInv
  <1> QED BY <1>1, <1>2, DoneIsSound, PTL DEF CheckSpec
==============================================================================
