-------------------------------- MODULE TailProofs ----------------------------
(***************************************************************************)
(* Proofs about the two tails, for any transcripts and bounds.             *)
(*                                                                         *)
(* CodexTail: no cursor claims a line that was not delivered               *)
(* (CursorsAreHonest), a quiet tail forgets nothing (NothingForgotten),    *)
(* and an end of file decided once is not decided again (EofNotRepeated).  *)
(* CursorsAreHonest speaks of two cursors, the one in memory and the one   *)
(* committed.  Between them lie the reports in the channel, and each will  *)
(* be the committed one when the events before it are: that is what has to *)
(* hold of them (ReportsSound).  A cursor is sound as long as its file     *)
(* only grows; that it stands between two lines, at most at the last one,  *)
(* makes the next line to be written one that it does not claim.  The      *)
(* markers of ends only advance from the committed cursor over the reports *)
(* to the one in memory (Behind), so what a restart resumes from has them. *)
(*                                                                         *)
(* ClaudeTail: the same of a session's transcripts (TranscriptsKeptUp),    *)
(* and what is parked between them: completions (CompletionKept,           *)
(* ClosesAreDue) and names (NamesCatchUp).  Its cursor has four copies --  *)
(* committed, reported, the scan's and the one in memory, whose parked     *)
(* completions are those of the deferral -- and Carries says of any of     *)
(* them what it may claim of the files, so that a restart from it is as    *)
(* good as going on.                                                       *)
(***************************************************************************)
EXTENDS CodexTail, ClaudeTail, CountingLemmas, SequenceTheorems

Rollouts == [lines : Seq(Kinds), part : BOOLEAN, stale : BOOLEAN, gen : Nat \ {0}, written : Nat]
FileCursors == [off : Nat, size : Nat, eof : Nat, mt : Nat]
Cursors == [Files -> FileCursors]
Reports == [tag : {"progress"}, cur : Cursors]
Events == [tag : {"line", "eof"}, file : Files, gen : Nat, line : Nat]
Queues == Seq(Reports \cup Events)

Types ==
    /\ disk \in [Files -> Rollouts]
    /\ cur \in Cursors /\ db = [seen |-> db.seen, cur |-> db.cur] /\ db.cur \in Cursors
    /\ chan \in Queues
    /\ opened # NoFile => /\ opened.file \in Files /\ opened.size \in Nat
                          /\ opened.gen \in Nat /\ opened.gen <= disk[opened.file].gen

\* What cursor c claims of the rollouts d has been delivered.
SoundFor(d, sp, c, delivered, f) ==
    /\ c[f].mt <= d[f].gen
    /\ \E k \in Nat : c[f].off = 2 * k
    /\ f \notin sp /\ c[f].mt = d[f].gen =>
         /\ c[f].off <= 2 * Len(d[f].lines)
         /\ \A n \in DOMAIN d[f].lines :
               2 * n <= c[f].off /\ d[f].lines[n] # "quiet" => <<f, d[f].gen, n>> \in delivered
Sound(d, sp, c, delivered) == \A f \in Files : SoundFor(d, sp, c, delivered, f)

\* The lines in the first n events of a queue.
LineOf(x) == <<x.file, x.gen, x.line>>
LinesUpTo(q, n) == {LineOf(q[j]) : j \in {i \in 1 .. n : q[i].tag = "line"}}

\* Every report in the channel is sound once what precedes it is committed.
ReportsSound(d, sp, seen, q) ==
    \A i \in 1 .. Len(q) : q[i].tag = "progress" => Sound(d, sp, q[i].cur, seen \cup LinesUpTo(q, i))

Honest ==
    /\ Sound(disk, spliced, cur, Delivered)
    /\ Sound(disk, spliced, db.cur, db.seen)
    /\ ReportsSound(disk, spliced, db.seen, chan)

HInv == Types /\ Honest

-----------------------------------------------------------------------------
(* Rollouts that grow.                                                      *)

\* A rollout is cut and counted anew, or only gets longer.
Grows(d, e) ==
    \A f \in Files :
        \/ d[f].gen < e[f].gen
        \/ /\ e[f].gen = d[f].gen /\ Len(d[f].lines) <= Len(e[f].lines)
           /\ \A n \in 1 .. Len(d[f].lines) : e[f].lines[n] = d[f].lines[n]

LEMMA SoundGrows ==
    ASSUME NEW d \in [Files -> Rollouts], NEW e \in [Files -> Rollouts], Grows(d, e),
           NEW sp, NEW sq, sp \subseteq sq, NEW S, NEW T, S \subseteq T,
           NEW c \in Cursors, Sound(d, sp, c, S)
    PROVE  Sound(e, sq, c, T)
  <1> SUFFICES ASSUME NEW f \in Files PROVE SoundFor(e, sq, c, T, f)
    BY DEF Sound
  <1>1. SoundFor(d, sp, c, S, f)
    BY DEF Sound
  <1>2. /\ d[f].gen \in Nat /\ e[f].gen \in Nat /\ c[f].mt \in Nat /\ c[f].off \in Nat
        /\ d[f].lines \in Seq(Kinds) /\ e[f].lines \in Seq(Kinds)
    BY DEF Rollouts, Cursors, FileCursors
  <1>3. CASE d[f].gen < e[f].gen
    <2>1. c[f].mt <= d[f].gen /\ \E k \in Nat : c[f].off = 2 * k
      BY <1>1, Zenon DEF SoundFor
    <2>2. c[f].mt <= e[f].gen /\ c[f].mt # e[f].gen
      BY <1>2, <1>3, <2>1
    <2> QED BY <2>1, <2>2, Zenon DEF SoundFor
  <1>4. CASE /\ e[f].gen = d[f].gen /\ Len(d[f].lines) <= Len(e[f].lines)
             /\ \A n \in 1 .. Len(d[f].lines) : e[f].lines[n] = d[f].lines[n]
    <2> SUFFICES ASSUME f \notin sq, c[f].mt = e[f].gen
                 PROVE  /\ c[f].off <= 2 * Len(e[f].lines)
                        /\ \A n \in DOMAIN e[f].lines :
                              2 * n <= c[f].off /\ e[f].lines[n] # "quiet" => <<f, e[f].gen, n>> \in T
      <3>1. c[f].mt <= e[f].gen /\ \E k \in Nat : c[f].off = 2 * k
        BY <1>1, <1>4 DEF SoundFor
      <3> QED BY <3>1, Zenon DEF SoundFor
    <2> DEFINE o == d[f].lines
               l == e[f].lines
    <2>1. Len(o) \in Nat /\ Len(l) \in Nat /\ DOMAIN o = 1 .. Len(o) /\ DOMAIN l = 1 .. Len(l)
      BY <1>2
    <2>2. /\ c[f].off <= 2 * Len(o)
          /\ \A n \in DOMAIN o : 2 * n <= c[f].off /\ o[n] # "quiet" => <<f, d[f].gen, n>> \in S
      BY <1>1, <1>4 DEF SoundFor
    <2>3. Len(o) <= Len(l) /\ \A n \in 1 .. Len(o) : l[n] = o[n]
      BY <1>4
    <2>4. ASSUME NEW n \in DOMAIN l, 2 * n <= c[f].off, l[n] # "quiet" PROVE <<f, e[f].gen, n>> \in T
      <3> HIDE DEF o, l
      <3>1. n \in 1 .. Len(o)
        BY <1>2, <2>1, <2>2, <2>4
      <3>2. <<f, d[f].gen, n>> \in S
        BY <2>1, <2>2, <2>3, <2>4, <3>1
      <3> QED BY <1>4, <3>2
    <2>5. c[f].off <= 2 * Len(l)
      <3> HIDE DEF o, l
      <3> QED BY <1>2, <2>1, <2>2, <2>3
    <2> QED BY <2>4, <2>5
  <1> QED BY <1>3, <1>4 DEF Grows

\* A cursor at the start of every rollout claims nothing.
LEMMA NewCursorSound ==
    ASSUME NEW d \in [Files -> Rollouts], NEW sp, NEW S
    PROVE  NewCursor \in Cursors /\ Sound(d, sp, NewCursor, S)
  <1>1. NewCursor \in Cursors
    BY DEF NewCursor, NewFileCursor, Cursors, FileCursors
  <1>2. ASSUME NEW f \in Files PROVE SoundFor(d, sp, NewCursor, S, f)
    <2>1. NewCursor[f].off = 0 /\ NewCursor[f].mt = 0
      BY DEF NewCursor, NewFileCursor
    <2>2. d[f].gen \in Nat \ {0}
      BY DEF Rollouts
    <2> QED BY <2>1, <2>2 DEF SoundFor
  <1> QED BY <1>1, <1>2 DEF Sound

-----------------------------------------------------------------------------
(* Queues.                                                                  *)

\* The lines of a queue, by position.
LEMMA LinesAre ==
    ASSUME NEW q \in Queues
    PROVE  Lines(q) = LinesUpTo(q, Len(q))
  <1>1. DOMAIN q = 1 .. Len(q)
    BY DEF Queues
  <1> QED BY <1>1, Zenon DEF Lines, LinesUpTo, LineOf, Range

\* Concatenation, element by element.
LEMMA Joined ==
    ASSUME NEW q \in Queues, NEW u \in Queues
    PROVE  /\ q \o u \in Queues /\ Len(q \o u) = Len(q) + Len(u)
           /\ \A i \in 1 .. Len(q) : (q \o u)[i] = q[i]
           /\ \A i \in 1 .. Len(u) : (q \o u)[Len(q) + i] = u[i]
  BY ConcatProperties DEF Queues

LEMMA JoinedLines ==
    ASSUME NEW q \in Queues, NEW u \in Queues
    PROVE  Lines(q \o u) = Lines(q) \cup Lines(u)
  <1> DEFINE r == q \o u
  <1>1. /\ r \in Queues /\ Len(r) = Len(q) + Len(u) /\ Len(q) \in Nat /\ Len(u) \in Nat
        /\ \A i \in 1 .. Len(q) : r[i] = q[i]
        /\ \A i \in 1 .. Len(u) : r[Len(q) + i] = u[i]
    BY Joined DEF Queues
  <1> HIDE DEF r
  <1>2. LinesUpTo(r, Len(r)) = LinesUpTo(q, Len(q)) \cup LinesUpTo(u, Len(u))
    <2>1. ASSUME NEW i \in 1 .. Len(r), r[i].tag = "line"
          PROVE  LineOf(r[i]) \in LinesUpTo(q, Len(q)) \cup LinesUpTo(u, Len(u))
      <3>1. CASE i \in 1 .. Len(q)
        <4>1. r[i] = q[i]
          BY <1>1, <3>1
        <4> QED BY <2>1, <3>1, <4>1 DEF LinesUpTo
      <3>2. CASE i \notin 1 .. Len(q)
        <4>1. i - Len(q) \in 1 .. Len(u) /\ Len(q) + (i - Len(q)) = i
          BY <1>1, <3>2
        <4>2. r[i] = u[i - Len(q)]
          BY <1>1, <4>1
        <4> QED BY <2>1, <4>1, <4>2 DEF LinesUpTo
      <3> QED BY <3>1, <3>2
    <2>2. ASSUME NEW i \in 1 .. Len(q), q[i].tag = "line" PROVE LineOf(q[i]) \in LinesUpTo(r, Len(r))
      <3>1. i \in 1 .. Len(r) /\ r[i] = q[i]
        BY <1>1
      <3> QED BY <2>2, <3>1 DEF LinesUpTo
    <2>3. ASSUME NEW i \in 1 .. Len(u), u[i].tag = "line" PROVE LineOf(u[i]) \in LinesUpTo(r, Len(r))
      <3>1. Len(q) + i \in 1 .. Len(r) /\ r[Len(q) + i] = u[i]
        BY <1>1
      <3> QED BY <2>3, <3>1 DEF LinesUpTo
    <2>4. LinesUpTo(r, Len(r)) \subseteq LinesUpTo(q, Len(q)) \cup LinesUpTo(u, Len(u))
      BY <2>1 DEF LinesUpTo
    <2>5. LinesUpTo(q, Len(q)) \subseteq LinesUpTo(r, Len(r))
      BY <2>2 DEF LinesUpTo
    <2>6. LinesUpTo(u, Len(u)) \subseteq LinesUpTo(r, Len(r))
      BY <2>3 DEF LinesUpTo
    <2> QED BY <2>4, <2>5, <2>6
  <1> QED BY <1>1, <1>2, LinesAre DEF r

\* Events that are no reports keep the reports sound.
LEMMA ReportsKept ==
    ASSUME NEW d, NEW sp, NEW S, NEW q \in Queues, NEW u \in Queues,
           \A i \in 1 .. Len(u) : u[i].tag # "progress", ReportsSound(d, sp, S, q)
    PROVE  ReportsSound(d, sp, S, q \o u)
  <1> DEFINE r == q \o u
  <1>1. /\ Len(r) = Len(q) + Len(u) /\ Len(q) \in Nat /\ Len(u) \in Nat
        /\ \A i \in 1 .. Len(q) : r[i] = q[i]
        /\ \A i \in 1 .. Len(u) : r[Len(q) + i] = u[i]
    BY Joined DEF Queues
  <1> HIDE DEF r
  <1> SUFFICES ASSUME NEW i \in 1 .. Len(r), r[i].tag = "progress"
               PROVE  Sound(d, sp, r[i].cur, S \cup LinesUpTo(r, i))
    BY DEF ReportsSound, r
  <1>2. i \in 1 .. Len(q)
    <2> SUFFICES ASSUME i \notin 1 .. Len(q) PROVE FALSE
      OBVIOUS
    <2>1. i - Len(q) \in 1 .. Len(u) /\ Len(q) + (i - Len(q)) = i
      BY <1>1
    <2> QED BY <1>1, <2>1
  <1>3. \A j \in 1 .. i : r[j] = q[j]
    BY <1>1, <1>2
  <1>4. LinesUpTo(r, i) = LinesUpTo(q, i)
    BY <1>3 DEF LinesUpTo
  <1> QED BY <1>2, <1>3, <1>4 DEF ReportsSound

\* A sound cursor may be reported.
LEMMA ReportSound ==
    ASSUME NEW d, NEW sp, NEW S, NEW q \in Queues, NEW c \in Cursors,
           Sound(d, sp, c, S \cup Lines(q)), ReportsSound(d, sp, S, q)
    PROVE  Report(q, c) \in Queues /\ ReportsSound(d, sp, S, Report(q, c)) /\ Lines(Report(q, c)) = Lines(q)
  <1>1. CASE Report(q, c) = q
    BY <1>1
  <1>2. CASE Report(q, c) = Append(q, Progress(c))
    <2> DEFINE p == Progress(c)
               r == Append(q, p)
    <2>1. p \in Reports /\ p.tag = "progress" /\ p.cur = c
      BY DEF Progress, Reports
    <2>2. /\ r \in Queues /\ Len(r) = Len(q) + 1 /\ Len(q) \in Nat /\ r[Len(q) + 1] = p
          /\ \A i \in 1 .. Len(q) : r[i] = q[i]
      <3> HIDE DEF p
      <3> QED BY <2>1, AppendProperties DEF Queues
    <2> HIDE DEF p, r
    <2>3. LinesUpTo(r, Len(r)) = LinesUpTo(q, Len(q))
      <3>1. \A i \in 1 .. Len(r) : r[i].tag = "line" => i \in 1 .. Len(q)
        BY <2>1, <2>2
      <3>2. \A i \in 1 .. Len(q) : i \in 1 .. Len(r) /\ r[i] = q[i]
        BY <2>2
      <3> QED BY <3>1, <3>2 DEF LinesUpTo
    <2>4. Lines(r) = Lines(q)
      BY <2>2, <2>3, LinesAre
    <2>5. ASSUME NEW i \in 1 .. Len(r), r[i].tag = "progress"
          PROVE  Sound(d, sp, r[i].cur, S \cup LinesUpTo(r, i))
      <3>1. CASE i = Len(r)
        <4>1. r[i].cur = c
          BY <2>1, <2>2, <3>1
        <4>2. LinesUpTo(r, i) = Lines(q)
          BY <2>3, <3>1, LinesAre
        <4> QED BY <4>1, <4>2
      <3>2. CASE i # Len(r)
        <4>1. i \in 1 .. Len(q)
          BY <2>2, <3>2
        <4>2. \A j \in 1 .. i : r[j] = q[j]
          BY <2>2, <4>1
        <4>3. LinesUpTo(r, i) = LinesUpTo(q, i)
          BY <4>2 DEF LinesUpTo
        <4>4. r[i] = q[i]
          BY <2>2, <4>1
        <4>5. Sound(d, sp, q[i].cur, S \cup LinesUpTo(q, i))
          BY <2>5, <4>1, <4>4 DEF ReportsSound
        <4> QED BY <4>3, <4>4, <4>5
      <3> QED BY <3>1, <3>2
    <2> QED BY <1>2, <2>2, <2>4, <2>5 DEF ReportsSound, r, p
  <1> QED BY <1>1, <1>2 DEF Report

\* Reports stay sound while rollouts grow.
LEMMA ReportsGrow ==
    ASSUME NEW d \in [Files -> Rollouts], NEW e \in [Files -> Rollouts], Grows(d, e),
           NEW sp, NEW sq, sp \subseteq sq, NEW S, NEW q \in Queues, ReportsSound(d, sp, S, q)
    PROVE  ReportsSound(e, sq, S, q)
  <1> SUFFICES ASSUME NEW i \in 1 .. Len(q), q[i].tag = "progress"
               PROVE  Sound(e, sq, q[i].cur, S \cup LinesUpTo(q, i))
    BY DEF ReportsSound
  <1>1. q[i].cur \in Cursors
    <2>1. q[i] \in Reports \cup Events
      BY DEF Queues
    <2>2. q[i] \notin Events
      BY DEF Events
    <2> QED BY <2>1, <2>2 DEF Reports
  <1>2. Sound(d, sp, q[i].cur, S \cup LinesUpTo(q, i))
    BY DEF ReportsSound
  <1> QED BY <1>1, <1>2, SoundGrows

\* A line added to a queue.
LEMMA AppendLine ==
    ASSUME NEW q \in Seq(Events), NEW x \in Events, x.tag = "line"
    PROVE  /\ Append(q, x) \in Seq(Events) /\ Lines(q) \subseteq Lines(Append(q, x))
           /\ LineOf(x) \in Lines(Append(q, x))
           /\ \A i \in 1 .. Len(Append(q, x)) : Append(q, x)[i] = x \/ \E j \in 1 .. Len(q) : Append(q, x)[i] = q[j]
  <1> DEFINE r == Append(q, x)
  <1>1. /\ r \in Seq(Events) /\ Len(r) = Len(q) + 1 /\ r[Len(q) + 1] = x /\ Len(q) \in Nat
        /\ \A i \in 1 .. Len(q) : r[i] = q[i]
    BY AppendProperties
  <1>2. q \in Queues /\ r \in Queues
    <2>1. \A i \in 1 .. Len(q) : q[i] \in Reports \cup Events
      OBVIOUS
    <2>2. \A i \in 1 .. Len(r) : r[i] \in Reports \cup Events
      <3> HIDE DEF r
      <3> QED BY <1>1
    <2> HIDE DEF r
    <2> QED BY <1>1, <2>1, <2>2 DEF Queues
  <1> HIDE DEF r
  <1>3. Lines(q) = LinesUpTo(q, Len(q)) /\ Lines(r) = LinesUpTo(r, Len(r))
    BY <1>2, LinesAre
  <1>4. LineOf(x) \in LinesUpTo(r, Len(r))
    BY <1>1 DEF LinesUpTo
  <1>5. LinesUpTo(q, Len(q)) \subseteq LinesUpTo(r, Len(r))
    <2>1. \A i \in 1 .. Len(q) : i \in 1 .. Len(r) /\ r[i] = q[i]
      BY <1>1
    <2> QED BY <2>1 DEF LinesUpTo
  <1>6. \A i \in 1 .. Len(r) : r[i] = x \/ \E j \in 1 .. Len(q) : r[i] = q[j]
    BY <1>1
  <1> QED BY <1>1, <1>3, <1>4, <1>5, <1>6 DEF r

-----------------------------------------------------------------------------
(* What one read sends.                                                     *)

\* The recursive definition of SentUpTo has a solution, so SentUpTo obeys it.
SentStep(f, d, from, prev, n) ==
    IF Fresh(f, d, from, n) THEN Append(prev, Item("line", f, d.gen, n)) ELSE prev

LEMMA SentUpToDef ==
    ASSUME NEW f, NEW d \in Rollouts, NEW from
    PROVE  /\ SentUpTo(f, d, from)[0] = <<>>
           /\ \A n \in 1 .. Len(d.lines) :
                 SentUpTo(f, d, from)[n] = SentStep(f, d, from, SentUpTo(f, d, from)[n - 1], n)
  <1> DEFINE N == Len(d.lines)
             Val(g, k) == IF k = 0 THEN <<>> ELSE SentStep(f, d, from, g[k - 1], k)
             Is(g, n) == \A k \in 0 .. n : g[k] = Val(g, k)
             S == {n \in Nat : \E g : Is(g, n)}
  <1>0. N \in Nat
    BY DEF Rollouts
  <1>1. 0 \in S
    <2>1. Is([k \in 0 .. 0 |-> <<>>], 0)
      OBVIOUS
    <2> QED BY <2>1
  <1>2. ASSUME NEW n \in Nat, n \in S PROVE n + 1 \in S
    <2>1. PICK g : Is(g, n)
      BY <1>2
    <2> DEFINE h == [k \in 0 .. n + 1 |-> IF k <= n THEN g[k] ELSE Val(g, k)]
    <2>2. \A k \in 0 .. n + 1 : Val(h, k) = Val(g, k)
      OBVIOUS
    <2>3. Is(h, n + 1)
      <3> HIDE DEF Val
      <3> QED BY <2>1, <2>2
    <2> HIDE DEF Is, h
    <2> QED BY <2>3
  <1>3. PICK g : Is(g, N)
    <2> HIDE DEF Is
    <2>1. Nat \subseteq S
      <3> HIDE DEF S
      <3> QED BY <1>1, <1>2, SetInduction
    <2> QED BY <1>0, <2>1
  <1> DEFINE h == [k \in 0 .. N |-> g[k]]
             Table(t) == t = [k \in 0 .. N |-> Val(t, k)]
  <1>4. Table(h)
    <2>1. \A k \in 0 .. N : Val(h, k) = Val(g, k)
      BY <1>0
    <2> HIDE DEF Val
    <2> QED BY <1>3, <2>1
  <1>5. SentUpTo(f, d, from) = CHOOSE t : Table(t)
    BY DEF SentUpTo, SentStep
  <1>6. Table(SentUpTo(f, d, from))
    <2> HIDE DEF Table, h
    <2> QED BY <1>4, <1>5
  <1>7. \A k \in 0 .. N : SentUpTo(f, d, from)[k] = Val(SentUpTo(f, d, from), k)
    <2> HIDE DEF Val
    <2> QED BY <1>6, Zenon
  <1>8. 0 \in 0 .. N /\ \A k \in 1 .. N : k \in 0 .. N /\ k # 0
    BY <1>0
  <1> QED BY <1>7, <1>8, Zenon

\* A read sends every line from its offset on that was not delivered before.
LEMMA SentIs ==
    ASSUME NEW f \in Files, NEW d \in Rollouts, NEW from
    PROVE  /\ Sent(f, d, from) \in Seq(Events)
           /\ \A i \in 1 .. Len(Sent(f, d, from)) : Sent(f, d, from)[i].tag = "line"
           /\ \A n \in Emitted(d, from) : <<f, d.gen, n>> \in Delivered \cup Lines(Sent(f, d, from))
  <1> DEFINE N == Len(d.lines)
             up(k) == SentUpTo(f, d, from)[k]
             Good(q, k) == /\ q \in Seq(Events) /\ \A i \in 1 .. Len(q) : q[i].tag = "line"
                           /\ \A n \in 1 .. k : Fresh(f, d, from, n) => <<f, d.gen, n>> \in Lines(q)
             S == {k \in 0 .. N : Good(up(k), k)}
  <1>0. N \in Nat /\ d.gen \in Nat /\ DOMAIN d.lines = 1 .. N
    BY DEF Rollouts
  <1>1. 0 \in S
    <2>1. up(0) = <<>>
      BY SentUpToDef
    <2>2. Good(<<>>, 0)
      OBVIOUS
    <2> HIDE DEF Good, up
    <2> QED BY <1>0, <2>1, <2>2
  <1>2. ASSUME NEW k \in 1 .. N, k - 1 \in S PROVE k \in S
    <2> DEFINE q == up(k - 1)
               x == Item("line", f, d.gen, k)
    <2>0. k \in Nat /\ k \in 0 .. N
      BY <1>0
    <2>1. Good(q, k - 1)
      BY <1>2
    <2>2. up(k) = IF Fresh(f, d, from, k) THEN Append(q, x) ELSE q
      <3>1. up(k) = SentStep(f, d, from, q, k)
        BY SentUpToDef
      <3> QED BY <3>1 DEF SentStep
    <2>3. x \in Events /\ x.tag = "line" /\ LineOf(x) = <<f, d.gen, k>>
      BY <1>0, <2>0 DEF Item, Events, LineOf
    <2> HIDE DEF q, x
    <2>4. CASE Fresh(f, d, from, k)
      <3> DEFINE r == Append(q, x)
      <3>1. /\ r \in Seq(Events) /\ Lines(q) \subseteq Lines(r) /\ <<f, d.gen, k>> \in Lines(r)
            /\ \A i \in 1 .. Len(r) : r[i] = x \/ \E j \in 1 .. Len(q) : r[i] = q[j]
        BY <2>1, <2>3, AppendLine
      <3> HIDE DEF r
      <3>2. \A i \in 1 .. Len(r) : r[i].tag = "line"
        BY <2>1, <2>3, <3>1
      <3>3. \A n \in 1 .. k : n = k \/ n \in 1 .. k - 1
        BY <2>0
      <3>4. \A n \in 1 .. k : Fresh(f, d, from, n) => <<f, d.gen, n>> \in Lines(r)
        BY <2>1, <3>1, <3>3
      <3>5. Good(r, k)
        BY <3>1, <3>2, <3>4
      <3>6. up(k) = r
        BY <2>2, <2>4 DEF r
      <3> HIDE DEF Good, up
      <3> QED BY <2>0, <3>5, <3>6
    <2>5. CASE ~Fresh(f, d, from, k)
      <3>3. \A n \in 1 .. k : n = k \/ n \in 1 .. k - 1
        BY <2>0
      <3>4. Good(q, k)
        BY <2>1, <2>5, <3>3
      <3>5. up(k) = q
        BY <2>2, <2>5
      <3> HIDE DEF Good, up
      <3> QED BY <2>0, <3>4, <3>5
    <2> QED BY <2>4, <2>5
  <1>3. Good(up(N), N)
    <2>1. 0 .. N \subseteq S
      <3> HIDE DEF S
      <3> QED BY <1>0, <1>1, <1>2, UpToInduction
    <2> HIDE DEF Good, up
    <2> QED BY <1>0, <2>1
  <1>4. up(N) = Sent(f, d, from)
    BY DEF Sent
  <1>5. \A n \in Emitted(d, from) : n \in 1 .. N /\ (Fresh(f, d, from, n) \/ <<f, d.gen, n>> \in Delivered)
    BY <1>0 DEF Emitted, Fresh
  <1> HIDE DEF up
  <1> QED BY <1>3, <1>4, <1>5

\* The cursor of a read that sent what it had to is sound.
From(c, f, size) ==
    LET fc == AfterTruncation(c[f], size) IN IF fc.off > size THEN size ELSE fc.off
LEMMA ReadSound ==
    ASSUME NEW d \in [Files -> Rollouts], NEW c \in Cursors, NEW f \in Files, NEW size \in Nat,
           NEW gen \in Nat, gen <= d[f].gen, NEW D, NEW T, D \subseteq T, NEW sp, NEW sq, sp \subseteq sq,
           Sound(d, sp, c, D), NEW x \in FileCursors, x.off = Advanced(d[f]), x.mt = gen,
           LET fc == AfterTruncation(c[f], size)
           IN  gen # d[f].gen \/ (fc.off > 0 /\ fc.mt # d[f].gen) => f \in sq,
           \A n \in Emitted(d[f], From(c, f, size)) : <<f, d[f].gen, n>> \in T
    PROVE  [c EXCEPT ![f] = x] \in Cursors /\ Sound(d, sq, [c EXCEPT ![f] = x], T)
  <1> DEFINE e == [c EXCEPT ![f] = x]
             l == d[f].lines
  <1>0. e \in Cursors /\ e[f] = x /\ \A g \in Files \ {f} : e[g] = c[g]
    BY DEF Cursors
  <1>1. l \in Seq(Kinds) /\ Len(l) \in Nat /\ DOMAIN l = 1 .. Len(l) /\ d[f].gen \in Nat
    BY DEF Rollouts
  <1>2. Sound(d, sq, c, T)
    <2>1. Grows(d, d)
      <3>1. \A g \in Files : Len(d[g].lines) \in Nat
        BY DEF Rollouts
      <3> QED BY <3>1 DEF Grows
    <2> QED BY <2>1, SoundGrows
  <1>3. SoundFor(d, sq, e, T, f)
    <2>1. e[f].off = 2 * Len(l) /\ e[f].mt = gen
      BY <1>0 DEF Advanced
    <2>2. ASSUME f \notin sq, gen = d[f].gen, NEW n \in 1 .. Len(l), l[n] # "quiet"
          PROVE  <<f, d[f].gen, n>> \in T
      <3> DEFINE fc == AfterTruncation(c[f], size)
      <3>0. n \in Nat /\ c[f].off \in Nat
        BY <1>1 DEF Cursors, FileCursors
      <3>1. CASE 2 * (n - 1) >= From(c, f, size)
        <4>1. n \in Emitted(d[f], From(c, f, size))
          BY <1>1, <2>2, <3>1 DEF Emitted
        <4> QED BY <4>1
      <3>2. CASE ~(2 * (n - 1) >= From(c, f, size))
        <4>1. fc = c[f] \/ fc.off = 0
          BY DEF AfterTruncation, NewFileCursor
        <4>2. From(c, f, size) \in Nat /\ From(c, f, size) <= fc.off
          BY <3>0, <4>1 DEF From
        <4>3. fc = c[f] /\ fc.off > 2 * (n - 1)
          <5> HIDE DEF fc
          <5> QED BY <3>0, <3>2, <4>1, <4>2
        <4>4. c[f].mt = d[f].gen
          BY <2>2, <3>0, <4>3
        <4>5. PICK k \in Nat : c[f].off = 2 * k
          BY DEF Sound, SoundFor
        <4>6. 2 * n <= c[f].off
          BY <3>0, <4>3, <4>5
        <4> QED BY <1>1, <1>2, <2>2, <4>4, <4>6 DEF Sound, SoundFor
      <3> QED BY <3>1, <3>2
    <2>3. e[f].mt <= d[f].gen /\ \E k \in Nat : e[f].off = 2 * k
      BY <1>1, <2>1
    <2>4. e[f].off <= 2 * Len(l)
      BY <1>1, <2>1
    <2> HIDE DEF e
    <2> QED BY <1>1, <2>1, <2>2, <2>3, <2>4 DEF SoundFor
  <1>4. ASSUME NEW g \in Files \ {f} PROVE SoundFor(d, sq, e, T, g)
    <2>1. SoundFor(d, sq, c, T, g)
      BY <1>2 DEF Sound
    <2> HIDE DEF e
    <2> QED BY <1>0, <2>1, Zenon DEF SoundFor
  <1> QED BY <1>0, <1>3, <1>4 DEF Sound

-----------------------------------------------------------------------------
(* The inductive invariant of the cursors, action by action.                *)

LEMMA HInit == Init => HInv
  <1> SUFFICES ASSUME Init PROVE HInv
    OBVIOUS
  <1>1. disk \in [Files -> Rollouts]
    BY TailAssumption DEF Init, Rollouts
  <1>2. cur = NewCursor /\ db = [seen |-> {}, cur |-> NewCursor] /\ chan = <<>> /\ opened = NoFile
    BY DEF Init
  <1>3. NewCursor \in Cursors /\ \A S : Sound(disk, spliced, NewCursor, S)
    BY <1>1, NewCursorSound
  <1>4. Types
    BY <1>1, <1>2, <1>3 DEF Types, Queues
  <1>5. ReportsSound(disk, spliced, db.seen, chan)
    BY <1>2 DEF ReportsSound
  <1> QED BY <1>2, <1>3, <1>4, <1>5 DEF HInv, Honest

\* A queue that changes by what is sound keeps everything else as it is.
LEMMA DiskKept ==
    ASSUME disk \in [Files -> Rollouts] PROVE Grows(disk, disk)
  BY DEF Grows, Rollouts

\* The rollouts grow, or a pass drops a rollout.
LEMMA WorldKeeps ==
    ASSUME HInv, UNCHANGED <<cur, db, chan>>, disk' \in [Files -> Rollouts], Grows(disk, disk'),
           spliced \subseteq spliced', opened' \in {opened, NoFile}
    PROVE  HInv'
  <1>1. Types'
    <2>1. opened' # NoFile => /\ opened'.file \in Files /\ opened'.size \in Nat
                              /\ opened'.gen \in Nat /\ opened'.gen <= disk'[opened'.file].gen
      <3> SUFFICES ASSUME opened # NoFile, opened' = opened
                   PROVE  /\ opened.file \in Files /\ opened.size \in Nat
                          /\ opened.gen \in Nat /\ opened.gen <= disk'[opened.file].gen
        OBVIOUS
      <3>1. /\ opened.file \in Files /\ opened.size \in Nat
            /\ opened.gen \in Nat /\ opened.gen <= disk[opened.file].gen
        BY DEF HInv, Types
      <3>2. disk[opened.file].gen \in Nat /\ disk'[opened.file].gen \in Nat
        BY <3>1 DEF HInv, Types, Rollouts
      <3>3. disk[opened.file].gen <= disk'[opened.file].gen
        BY <3>1, <3>2 DEF Grows
      <3> QED BY <3>1, <3>2, <3>3
    <2> QED BY <2>1 DEF HInv, Types
  <1>2. Delivered' = Delivered
    BY DEF Delivered, Lines
  <1>3. Sound(disk', spliced', cur, Delivered) /\ Sound(disk', spliced', db.cur, db.seen)
    BY SoundGrows DEF HInv, Types, Honest
  <1>4. ReportsSound(disk', spliced', db.seen, chan)
    BY ReportsGrow DEF HInv, Types, Honest
  <1> QED BY <1>1, <1>2, <1>3, <1>4 DEF HInv, Honest

\* Nothing but notifications, lists and stages move.
LEMMA ListsKeep ==
    ASSUME HInv, UNCHANGED <<disk, cur, db, chan>>, spliced \subseteq spliced', opened' \in {opened, NoFile}
    PROVE  HInv'
  <1>1. disk \in [Files -> Rollouts]
    BY DEF HInv, Types
  <1> QED BY <1>1, DiskKept, WorldKeeps

\* One rollout is replaced by a longer one or by a new generation.
LEMMA ChangedKeeps ==
    ASSUME HInv, NEW f \in Files, NEW new \in Rollouts, Changed(f, new),
           \/ disk[f].gen < new.gen
           \/ /\ new.gen = disk[f].gen /\ Len(disk[f].lines) <= Len(new.lines)
              /\ \A n \in 1 .. Len(disk[f].lines) : new.lines[n] = disk[f].lines[n]
    PROVE  HInv'
  <1>1. disk \in [Files -> Rollouts] /\ disk' = [disk EXCEPT ![f] = new]
    BY DEF HInv, Types, Changed
  <1>2. disk' \in [Files -> Rollouts] /\ disk'[f] = new /\ \A g \in Files \ {f} : disk'[g] = disk[g]
    BY <1>1
  <1>3. Grows(disk, disk')
    <2>1. Grows(disk, disk)
      BY <1>1, DiskKept
    <2> SUFFICES ASSUME NEW g \in Files
                 PROVE  \/ disk[g].gen < disk'[g].gen
                        \/ /\ disk'[g].gen = disk[g].gen /\ Len(disk[g].lines) <= Len(disk'[g].lines)
                           /\ \A n \in 1 .. Len(disk[g].lines) : disk'[g].lines[n] = disk[g].lines[n]
      BY DEF Grows
    <2>2. CASE g = f
      BY <1>2, <2>2
    <2>3. CASE g # f
      BY <1>2, <2>1, <2>3 DEF Grows
    <2> QED BY <2>2, <2>3
  <1>4. UNCHANGED <<cur, db, chan, spliced, opened>>
    BY DEF Changed, tail
  <1> QED BY <1>2, <1>3, <1>4, WorldKeeps

\* A rollout is a record, and so is one changed field by field.
LEMMA RolloutIs ==
    ASSUME NEW d \in Rollouts
    PROVE  /\ d = [lines |-> d.lines, part |-> d.part, stale |-> d.stale, gen |-> d.gen,
                   written |-> d.written]
           /\ d.lines \in Seq(Kinds) /\ Len(d.lines) \in Nat /\ d.gen \in Nat \ {0} /\ d.written \in Nat
           /\ d.part \in BOOLEAN /\ d.stale \in BOOLEAN
  <1>1. d = [lines |-> d.lines, part |-> d.part, stale |-> d.stale, gen |-> d.gen,
             written |-> d.written]
    BY DEF Rollouts
  <1>2. d.part \in BOOLEAN /\ d.stale \in BOOLEAN
    BY Zenon DEF Rollouts
  <1>3. d.lines \in Seq(Kinds) /\ d.gen \in Nat \ {0} /\ d.written \in Nat
    BY DEF Rollouts
  <1> QED BY <1>1, <1>2, <1>3

\* What a truncation makes of a rollout.
CutTo(d, g) == [d EXCEPT !.lines = <<>>, !.part = FALSE, !.stale = FALSE, !.gen = g]
LEMMA RolloutCut ==
    ASSUME NEW d \in Rollouts, NEW g \in Nat \ {0}
    PROVE  CutTo(d, g) \in Rollouts /\ CutTo(d, g).gen = g /\ CutTo(d, g).lines = <<>>
  <1> DEFINE L == Seq(Kinds)
             l == <<>>
             new == CutTo(d, g)
  <1>1. d \in [lines : L, part : BOOLEAN, stale : BOOLEAN, gen : Nat \ {0}, written : Nat] /\ l \in L
    BY DEF Rollouts
  <1>2. new = [d EXCEPT !.lines = l, !.part = FALSE, !.stale = FALSE, !.gen = g]
    BY DEF CutTo
  <1>3. new \in [lines : L, part : BOOLEAN, stale : BOOLEAN, gen : Nat \ {0}, written : Nat]
    <2> HIDE DEF L, l, new
    <2> QED BY <1>1, <1>2
  <1>4. new.gen = g /\ new.lines = l
    <2> HIDE DEF L, l, new
    <2> QED BY <1>1, <1>2
  <1> QED BY <1>3, <1>4 DEF Rollouts

LEMMA WritesKeep ==
    ASSUME HInv, NEW f \in Files,
           (\E k \in Kinds : WriteLine(f, k)) \/ WritePart(f) \/ Truncate(f) \/ GoStale(f)
    PROVE  HInv'
  <1> DEFINE d == disk[f]
  <1>0. /\ d \in Rollouts /\ d.lines \in Seq(Kinds) /\ Len(d.lines) \in Nat /\ d.gen \in Nat \ {0}
        /\ d.written \in Nat
        /\ d = [lines |-> d.lines, part |-> d.part, stale |-> d.stale, gen |-> d.gen, written |-> d.written]
        /\ d.part \in BOOLEAN /\ d.stale \in BOOLEAN
    <2>1. d \in Rollouts
      BY DEF HInv, Types
    <2> HIDE DEF d
    <2> QED BY <2>1, RolloutIs
  <1>1. ASSUME NEW k \in Kinds, WriteLine(f, k) PROVE HInv'
    <2> DEFINE new == [d EXCEPT !.lines = Append(@, k), !.part = FALSE, !.stale = FALSE, !.written = @ + 1]
    <2>1. Changed(f, new)
      BY <1>1 DEF WriteLine
    <2>2. /\ Append(d.lines, k) \in Seq(Kinds) /\ Len(Append(d.lines, k)) = Len(d.lines) + 1
          /\ \A n \in 1 .. Len(d.lines) : Append(d.lines, k)[n] = d.lines[n]
      BY <1>0
    <2>3. new \in Rollouts /\ new.lines = Append(d.lines, k) /\ new.gen = d.gen
      <3>1. d.written + 1 \in Nat
        BY <1>0
      <3> DEFINE L == Seq(Kinds)
                 l == Append(d.lines, k)
                 w == d.written + 1
      <3>2. l \in L /\ w \in Nat
        BY <2>2, <3>1
      <3>3. d \in [lines : L, part : BOOLEAN, stale : BOOLEAN, gen : Nat \ {0}, written : Nat]
        BY <1>0, Zenon DEF Rollouts
      <3>4. new = [d EXCEPT !.lines = l, !.part = FALSE, !.stale = FALSE, !.written = w]
        OBVIOUS
      <3> HIDE DEF d, l, w, L, new
      <3>5. new \in [lines : L, part : BOOLEAN, stale : BOOLEAN, gen : Nat \ {0}, written : Nat]
        BY ONLY <3>2, <3>3, <3>4
      <3>6. new.lines = l /\ new.gen = d.gen
        BY ONLY <3>2, <3>3, <3>4
      <3> QED BY <3>5, <3>6 DEF L, l, Rollouts
    <2>4. Len(d.lines) <= Len(new.lines) /\ \A n \in 1 .. Len(d.lines) : new.lines[n] = d.lines[n]
      <3> HIDE DEF d, new
      <3> QED BY <1>0, <2>2, <2>3
    <2> HIDE DEF new
    <2> QED BY <2>1, <2>3, <2>4, ChangedKeeps
  <1>2. CASE WritePart(f)
    <2> DEFINE new == [d EXCEPT !.part = TRUE, !.stale = FALSE]
    <2>1. Changed(f, new)
      BY <1>2 DEF WritePart
    <2>2. new \in Rollouts /\ new.lines = d.lines /\ new.gen = d.gen
      <3> HIDE DEF d
      <3> QED BY <1>0 DEF Rollouts
    <2> HIDE DEF new
    <2> QED BY <1>0, <2>1, <2>2, ChangedKeeps
  <1>3. CASE Truncate(f)
    <2>1. Changed(f, CutTo(d, d.gen + 1))
      BY <1>3 DEF Truncate, CutTo
    <2>2. CutTo(d, d.gen + 1) \in Rollouts /\ d.gen < CutTo(d, d.gen + 1).gen
      <3>1. d.gen + 1 \in Nat \ {0} /\ d.gen < d.gen + 1
        BY <1>0
      <3> HIDE DEF d
      <3> QED BY <1>0, <3>1, RolloutCut
    <2> QED BY <2>1, <2>2, ChangedKeeps
  <1>4. CASE GoStale(f)
    <2> DEFINE new == [d EXCEPT !.stale = TRUE]
    <2>1. new \in Rollouts /\ new.lines = d.lines /\ new.gen = d.gen
      <3> HIDE DEF d
      <3> QED BY <1>0 DEF Rollouts
    <2>2. disk \in [Files -> Rollouts] /\ disk' = [disk EXCEPT ![f] = new]
      BY <1>4 DEF GoStale, HInv, Types
    <2> HIDE DEF new
    <2>3. disk' \in [Files -> Rollouts] /\ disk'[f] = new /\ \A g \in Files \ {f} : disk'[g] = disk[g]
      BY <2>1, <2>2
    <2>4. Grows(disk, disk)
      BY <2>2, DiskKept
    <2>5. Grows(disk, disk')
      <3>1. \A g \in Files : disk'[g].lines = disk[g].lines /\ disk'[g].gen = disk[g].gen
        BY <2>1, <2>3
      <3> QED BY <2>4, <3>1 DEF Grows
    <2>6. UNCHANGED <<cur, db, chan, spliced, opened>>
      BY <1>4 DEF GoStale, ghosts, tail
    <2> QED BY <2>3, <2>5, <2>6, WorldKeeps
  <1> QED BY <1>1, <1>2, <1>3, <1>4

\* The queue changes to one whose reports are sound and that has no fewer lines.
LEMMA ChanKeeps ==
    ASSUME HInv, UNCHANGED <<disk, db>>, cur' \in Cursors, chan' \in Queues,
           spliced \subseteq spliced', opened' \in {opened, NoFile},
           Sound(disk, spliced', cur', db.seen \cup Lines(chan')),
           ReportsSound(disk, spliced', db.seen, chan')
    PROVE  HInv'
  <1>1. Types'
    BY DEF HInv, Types
  <1>2. Delivered' = db.seen \cup Lines(chan')
    BY DEF Delivered, Lines
  <1>3. Sound(disk, spliced', db.cur, db.seen)
    <2>1. disk \in [Files -> Rollouts] /\ db.cur \in Cursors /\ Sound(disk, spliced, db.cur, db.seen)
      BY DEF HInv, Types, Honest
    <2> QED BY <2>1, DiskKept, SoundGrows
  <1> QED BY <1>1, <1>2, <1>3 DEF HInv, Honest

LEMMA ReportKeeps ==
    ASSUME HInv, UNCHANGED <<disk, db, cur, opened, spliced>>, chan' = Report(chan, cur)
    PROVE  HInv'
  <1>1. /\ chan \in Queues /\ cur \in Cursors /\ Sound(disk, spliced, cur, db.seen \cup Lines(chan))
        /\ ReportsSound(disk, spliced, db.seen, chan)
    BY DEF HInv, Types, Honest, Delivered
  <1>2. /\ chan' \in Queues /\ Lines(chan') = Lines(chan)
        /\ ReportsSound(disk, spliced, db.seen, chan')
    BY <1>1, ReportSound
  <1> QED BY <1>1, <1>2, ChanKeeps

LEMMA OpenKeeps ==
    ASSUME HInv, NEW f \in Files, Open(f) PROVE HInv'
  <1>0. UNCHANGED <<disk, cur, db, chan, spliced>> /\ disk \in [Files -> Rollouts]
    BY DEF Open, world, ghosts, HInv, Types
  <1>1. opened' = [file |-> f, size |-> Size(disk[f]), stale |-> disk[f].stale, gen |-> disk[f].gen]
    BY DEF Open
  <1>2. Size(disk[f]) \in Nat /\ disk[f].gen \in Nat
    <2>1. Len(disk[f].lines) \in Nat /\ disk[f].gen \in Nat
      BY <1>0 DEF Rollouts
    <2>2. \/ Size(disk[f]) = 2 * Len(disk[f].lines) + 1
          \/ Size(disk[f]) = 2 * Len(disk[f].lines) + 0
      BY Zenon DEF Size
    <2> QED BY <2>1, <2>2
  <1>3. Types'
    <2>1. opened'.file = f /\ opened'.size \in Nat /\ opened'.gen = disk[f].gen
      BY <1>1, <1>2
    <2>2. opened'.gen \in Nat /\ opened'.gen <= disk'[opened'.file].gen
      BY <1>0, <1>2, <2>1
    <2> QED BY <1>0, <2>1, <2>2 DEF HInv, Types
  <1>4. Delivered' = Delivered
    BY <1>0 DEF Delivered, Lines
  <1> QED BY <1>0, <1>3, <1>4 DEF HInv, Honest

\* The line that opened a turn has a position.
LEMMA OpenTurnIs ==
    ASSUME NEW l \in Seq(Kinds)
    PROVE  OpenTurn(l, Len(l)) \in 0 .. Len(l)
  <1> DEFINE I == {i \in 1 .. Len(l) : l[i] \in {"start", "ctx", "done"}}
             last == IF I # {} THEN Max(I) ELSE 0
  <1>1. OpenTurn(l, Len(l)) = IF last = 0 \/ l[last] = "done" THEN 0 ELSE last
    BY DEF OpenTurn, SelectLastInSubSeq
  <1>2. Len(l) \in Nat /\ I \subseteq 1 .. Len(l)
    OBVIOUS
  <1>3. ASSUME I # {} PROVE Max(I) \in I
    <2>1. I \subseteq Nat /\ \A x \in I : x <= Len(l)
      BY <1>2
    <2>2. \E x \in I : \A y \in I : y <= x
      <3> HIDE DEF I
      <3> QED BY <1>2, <1>3, <2>1, GreatestNatural
    <2>3. \E x \in I : \A y \in I : x >= y
      BY <2>2
    <2> HIDE DEF I
    <2> QED BY <2>3, Zenon DEF Max
  <1>4. last \in 0 .. Len(l)
    <2>1. CASE I = {}
      BY <1>2, <2>1
    <2>2. CASE I # {}
      <3>1. last = Max(I) /\ Max(I) \in 1 .. Len(l)
        BY <1>2, <1>3, <2>2, Zenon
      <3> HIDE DEF last
      <3> QED BY <1>2, <3>1
    <2> QED BY <2>1, <2>2
  <1> HIDE DEF last
  <1> QED BY <1>1, <1>2, <1>4

\* The decision at the end of a file is an event, or none.
LEMMA EofItemsAre ==
    ASSUME NEW f \in Files, NEW d \in Rollouts, NEW t
    PROVE  /\ EofItems(f, d, t) \in Queues
           /\ \A i \in 1 .. Len(EofItems(f, d, t)) : EofItems(f, d, t)[i].tag # "progress"
  <1> DEFINE n == OpenTurn(d.lines, Len(d.lines))
             x == Item("eof", f, d.gen, n)
  <1>0. d.lines \in Seq(Kinds) /\ Len(d.lines) \in Nat /\ n \in Nat
    <2>1. d.lines \in Seq(Kinds)
      BY DEF Rollouts
    <2> QED BY <2>1, OpenTurnIs
  <1>1. x \in Events /\ x.tag = "eof"
    BY <1>0 DEF Item, Events, Rollouts
  <1>2. EofItems(f, d, t) = <<>> \/ EofItems(f, d, t) = <<x>>
    BY DEF EofItems
  <1> HIDE DEF x
  <1>3. <<>> \in Queues /\ <<x>> \in Queues /\ <<x>>[1] = x /\ Len(<<x>>) = 1 /\ Len(<<>>) = 0
    BY <1>1 DEF Queues
  <1> QED BY <1>1, <1>2, <1>3

\* Events join the queue, and perhaps a report.
LEMMA SendKeeps ==
    ASSUME HInv, UNCHANGED <<disk, db>>, NEW q \in Queues, cur' \in Cursors,
           chan' = q \/ chan' = Report(q, cur'),
           spliced \subseteq spliced', opened' \in {opened, NoFile},
           Sound(disk, spliced', cur', db.seen \cup Lines(q)),
           ReportsSound(disk, spliced, db.seen, q)
    PROVE  HInv'
  <1>1. ReportsSound(disk, spliced', db.seen, q)
    BY DiskKept, ReportsGrow DEF HInv, Types
  <1>2. CASE chan' = q
    BY <1>1, <1>2, ChanKeeps
  <1>3. CASE chan' = Report(q, cur')
    <2>1. /\ chan' \in Queues /\ Lines(chan') = Lines(q)
          /\ ReportsSound(disk, spliced', db.seen, chan')
      BY <1>1, <1>3, ReportSound
    <2> QED BY <2>1, ChanKeeps
  <1> QED BY <1>2, <1>3

\* The marker a read leaves is a size.
LEMMA MarkerIs ==
    ASSUME NEW fc \in FileCursors, NEW size \in Nat, NEW adv, NEW emitted, NEW d, NEW stale
    PROVE  EofMarker(fc, EofMode(fc, size, adv, emitted), d, size, stale) \in Nat
  <1> DEFINE mode == EofMode(fc, size, adv, emitted)
             t == Decides(d, OpenTurn(d.lines, Len(d.lines)), stale)
  <1>1. fc.eof \in Nat
    BY DEF FileCursors
  <1>2. mode \in {"none", "suppress", "emit"}
    BY DEF EofMode
  <1> HIDE DEF mode, t
  <1>3. EofMarker(fc, mode, d, size, stale) \in {fc.eof, size}
    <2>1. CASE mode = "none"
      BY <2>1 DEF EofMarker
    <2>2. CASE mode = "suppress"
      BY <2>2 DEF EofMarker
    <2>3. CASE mode = "emit"
      <3>1. EofMarker(fc, mode, d, size, stale) = IF t THEN size ELSE fc.eof
        BY <2>3 DEF EofMarker, t
      <3> QED BY <3>1
    <2> QED BY <1>2, <2>1, <2>2, <2>3
  <1> QED BY <1>1, <1>3 DEF mode

LEMMA ReadKeeps ==
    ASSUME HInv, Read PROVE HInv'
  <1> DEFINE f     == opened.file
             d     == disk[f]
             size  == opened.size
             fc    == AfterTruncation(cur[f], size)
             from  == IF fc.off > size THEN size ELSE fc.off
             mode  == EofMode(fc, size, Advanced(d), Emitted(d, from) # {})
             next  == [off |-> Advanced(d), size |-> size, mt |-> opened.gen,
                       eof |-> EofMarker(fc, mode, d, size, opened.stale)]
             sent  == Sent(f, d, from) \o (IF mode = "emit" THEN EofItems(f, d, opened.stale) ELSE <<>>)
  <1>1. /\ UNCHANGED <<disk, db>> /\ opened' = NoFile
        /\ cur' = IF HasMeta(d) THEN [cur EXCEPT ![f] = next] ELSE cur
        /\ \E report \in IF phase = "scan" THEN BOOLEAN ELSE {FALSE} :
              LET all == IF HasMeta(d) THEN chan \o sent ELSE chan
              IN  chan' = IF report THEN Report(all, cur') ELSE all
        /\ spliced' = IF opened.gen # d.gen \/ (fc.off > 0 /\ fc.mt # d.gen)
                      THEN spliced \cup {f} ELSE spliced
    BY Zenon DEF Read, world
  <1>2. /\ f \in Files /\ size \in Nat /\ opened.gen \in Nat /\ opened.gen <= d.gen
        /\ disk \in [Files -> Rollouts] /\ cur \in Cursors /\ chan \in Queues
        /\ d \in Rollouts /\ cur[f] \in FileCursors
    <2>1. opened # NoFile
      BY DEF Read
    <2> QED BY <2>1 DEF HInv, Types, Cursors
  <1>3. spliced \subseteq spliced'
    BY <1>1
  <1>4. /\ Sound(disk, spliced, cur, Delivered) /\ Delivered = db.seen \cup Lines(chan)
        /\ ReportsSound(disk, spliced, db.seen, chan)
    BY DEF HInv, Honest, Delivered
  <1>5. CASE ~HasMeta(d)
    <2>1. cur' = cur /\ (chan' = chan \/ chan' = Report(chan, cur'))
      <3> HIDE DEF f, d, fc, from, mode, next, sent
      <3> QED BY <1>1, <1>5
    <2>2. Sound(disk, spliced', cur', db.seen \cup Lines(chan))
      BY <1>2, <1>3, <1>4, <2>1, DiskKept, SoundGrows
    <2> HIDE DEF f, d, fc, from, mode, next, sent
    <2> QED BY <1>1, <1>2, <1>3, <1>4, <2>1, <2>2, SendKeeps
  <1>6. CASE HasMeta(d)
    <2> DEFINE end == IF mode = "emit" THEN EofItems(f, d, opened.stale) ELSE <<>>
               lines == Sent(f, d, from)
               q == chan \o sent
    <2>1. /\ lines \in Queues /\ \A i \in 1 .. Len(lines) : lines[i].tag # "progress"
          /\ \A n \in Emitted(d, from) : <<f, d.gen, n>> \in Delivered \cup Lines(lines)
      <3> HIDE DEF f, d, from
      <3>1. /\ lines \in Seq(Events) /\ \A i \in 1 .. Len(lines) : lines[i].tag = "line"
            /\ \A n \in Emitted(d, from) : <<f, d.gen, n>> \in Delivered \cup Lines(lines)
        BY <1>2, SentIs
      <3> HIDE DEF lines
      <3> QED BY <3>1 DEF Queues
    <2>2. end \in Queues /\ \A i \in 1 .. Len(end) : end[i].tag # "progress"
      <3> DEFINE none == <<>>
                 items == EofItems(f, d, opened.stale)
      <3>1. none \in Queues /\ Len(none) = 0
        BY DEF Queues
      <3>2. items \in Queues /\ \A i \in 1 .. Len(items) : items[i].tag # "progress"
        <4> HIDE DEF f, d
        <4> QED BY <1>2, EofItemsAre
      <3>3. end = items \/ end = none
        BY Zenon
      <3> HIDE DEF end, items, none
      <3> QED BY <3>1, <3>2, <3>3
    <2>3. sent = lines \o end
      OBVIOUS
    <2> HIDE DEF f, d, size, fc, from, mode, lines, end, sent
    <2>4. /\ sent \in Queues /\ \A i \in 1 .. Len(sent) : sent[i].tag # "progress"
          /\ Lines(sent) = Lines(lines) \cup Lines(end)
      <3>1. /\ sent \in Queues /\ Len(sent) = Len(lines) + Len(end) /\ Len(lines) \in Nat /\ Len(end) \in Nat
            /\ \A i \in 1 .. Len(lines) : sent[i] = lines[i]
            /\ \A i \in 1 .. Len(end) : sent[Len(lines) + i] = end[i]
        BY <2>1, <2>2, <2>3, Joined DEF Queues
      <3>2. ASSUME NEW i \in 1 .. Len(sent) PROVE sent[i].tag # "progress"
        <4>1. CASE i \in 1 .. Len(lines)
          BY <2>1, <3>1, <4>1
        <4>2. CASE i \notin 1 .. Len(lines)
          <5>1. i - Len(lines) \in 1 .. Len(end) /\ Len(lines) + (i - Len(lines)) = i
            BY <3>1, <4>2
          <5> QED BY <2>2, <3>1, <5>1
        <4> QED BY <4>1, <4>2
      <3> QED BY <2>1, <2>2, <2>3, <3>1, <3>2, JoinedLines
    <2>5. /\ q \in Queues /\ Lines(q) = Lines(chan) \cup Lines(sent)
          /\ ReportsSound(disk, spliced, db.seen, q)
      BY <1>2, <1>4, <2>4, Joined, JoinedLines, ReportsKept
    <2>6. cur' = [cur EXCEPT ![f] = next] /\ (chan' = q \/ chan' = Report(q, cur'))
      <3> HIDE DEF next
      <3> QED BY <1>1, <1>6
    <2>7. fc \in FileCursors
      <3>1. NewFileCursor \in FileCursors
        BY DEF NewFileCursor, FileCursors
      <3> QED BY <1>2, <3>1 DEF fc, AfterTruncation
    <2>8. next \in FileCursors /\ next.off = Advanced(d) /\ next.mt = opened.gen
      <3> DEFINE eof == EofMarker(fc, mode, d, size, opened.stale)
      <3>1. eof \in Nat
        BY <1>2, <2>7, MarkerIs DEF mode
      <3>2. Advanced(d) \in Nat
        BY <1>2, RolloutIs DEF Advanced
      <3> QED BY <1>2, <3>1, <3>2 DEF FileCursors
    <2>9. cur' \in Cursors /\ Sound(disk, spliced', cur', db.seen \cup Lines(q))
      <3> DEFINE T == db.seen \cup Lines(q)
      <3>1. Delivered \subseteq T
        BY <1>4, <2>5
      <3>2. \A n \in Emitted(d, From(cur, f, size)) : <<f, d.gen, n>> \in T
        <4>1. from = From(cur, f, size)
          BY DEF from, fc, From
        <4> QED BY <1>4, <2>1, <2>4, <2>5, <4>1
      <3>3. opened.gen # d.gen \/ (fc.off > 0 /\ fc.mt # d.gen) => f \in spliced'
        BY <1>1
      <3> HIDE DEF next, T, q
      <3>4. [cur EXCEPT ![f] = next] \in Cursors /\ Sound(disk, spliced', [cur EXCEPT ![f] = next], T)
        BY <1>2, <1>3, <1>4, <2>8, <3>1, <3>2, <3>3, ReadSound DEF d, fc
      <3> QED BY <2>6, <3>4 DEF T
    <2> HIDE DEF q, next
    <2> QED BY <1>1, <1>3, <2>5, <2>6, <2>9, SendKeeps
  <1> QED BY <1>5, <1>6

\* The head of a queue, and what is left: committing the head changes nothing about what the
\* rest delivers.
Committed(x) == IF x.tag = "line" THEN {LineOf(x)} ELSE {}
LEMMA HeadTaken ==
    ASSUME NEW q \in Queues, q # <<>>
    PROVE  /\ Head(q) = q[1] /\ q[1] \in Reports \cup Events /\ 1 \in 1 .. Len(q)
           /\ Tail(q) \in Queues /\ Len(Tail(q)) = Len(q) - 1 /\ Len(q) \in Nat
           /\ \A i \in 1 .. Len(Tail(q)) : Tail(q)[i] = q[i + 1]
           /\ \A i \in 0 .. Len(Tail(q)) :
                 LinesUpTo(q, i + 1) = Committed(q[1]) \cup LinesUpTo(Tail(q), i)
  <1> DEFINE r == Tail(q)
             E == Reports \cup Events
  <1>1. /\ Head(q) = q[1] /\ q[1] \in E /\ 1 \in 1 .. Len(q) /\ Len(q) \in Nat
        /\ r \in Seq(E) /\ Len(r) = Len(q) - 1 /\ \A i \in 1 .. Len(r) : r[i] = q[i + 1]
    <2>1. q \in Seq(E)
      BY DEF Queues
    <2> HIDE DEF E
    <2>2. Len(q) \in Nat \ {0}
      BY <2>1, EmptySeq, LenProperties
    <2> QED BY <2>1, <2>2, HeadTailProperties, ElementOfSeq
  <1> HIDE DEF r
  <1>2. ASSUME NEW i \in 0 .. Len(r)
        PROVE  LinesUpTo(q, i + 1) = Committed(q[1]) \cup LinesUpTo(r, i)
    <2>1. ASSUME NEW j \in 1 .. i + 1, q[j].tag = "line"
          PROVE  LineOf(q[j]) \in Committed(q[1]) \cup LinesUpTo(r, i)
      <3>1. CASE j = 1
        BY <2>1, <3>1 DEF Committed
      <3>2. CASE j # 1
        <4>1. j - 1 \in 1 .. i /\ j - 1 \in 1 .. Len(r) /\ (j - 1) + 1 = j
          BY <1>1, <3>2
        <4>2. r[j - 1] = q[j]
          BY <1>1, <4>1
        <4> QED BY <2>1, <4>1, <4>2 DEF LinesUpTo
      <3> QED BY <3>1, <3>2
    <2>2. ASSUME NEW j \in 1 .. i, r[j].tag = "line" PROVE LineOf(r[j]) \in LinesUpTo(q, i + 1)
      <3>1. j + 1 \in 1 .. i + 1 /\ r[j] = q[j + 1]
        BY <1>1
      <3> QED BY <2>2, <3>1 DEF LinesUpTo
    <2>3. Committed(q[1]) \subseteq LinesUpTo(q, i + 1)
      <3>1. 1 \in 1 .. i + 1
        BY <1>1
      <3> QED BY <3>1 DEF LinesUpTo, Committed
    <2>4. LinesUpTo(q, i + 1) \subseteq Committed(q[1]) \cup LinesUpTo(r, i)
      BY <2>1 DEF LinesUpTo
    <2>5. LinesUpTo(r, i) \subseteq LinesUpTo(q, i + 1)
      BY <2>2 DEF LinesUpTo
    <2> QED BY <2>3, <2>4, <2>5
  <1> QED BY <1>1, <1>2 DEF r, Queues

LEMMA CommitKeeps ==
    ASSUME HInv, Commit PROVE HInv'
  <1> DEFINE x == chan[1]
             S == db.seen \cup Committed(x)
             r == Tail(chan)
  <1>1. /\ chan \in Queues /\ chan # <<>> /\ disk \in [Files -> Rollouts] /\ cur \in Cursors
        /\ db = [seen |-> db.seen, cur |-> db.cur] /\ db.cur \in Cursors
        /\ Sound(disk, spliced, cur, Delivered) /\ Sound(disk, spliced, db.cur, db.seen)
        /\ ReportsSound(disk, spliced, db.seen, chan)
    BY DEF HInv, Types, Honest, Commit
  <1>2. /\ Head(chan) = x /\ x \in Reports \cup Events /\ 1 \in 1 .. Len(chan) /\ Len(chan) \in Nat
        /\ r \in Queues /\ Len(r) = Len(chan) - 1
        /\ \A i \in 1 .. Len(r) : r[i] = chan[i + 1]
        /\ \A i \in 0 .. Len(r) : LinesUpTo(chan, i + 1) = Committed(x) \cup LinesUpTo(r, i)
    BY <1>1, HeadTaken
  <1>3. /\ UNCHANGED <<disk, cur, opened, spliced>> /\ chan' = r
        /\ db' = CASE x.tag = "progress" -> [db EXCEPT !.cur = x.cur]
                   [] x.tag = "line" -> [db EXCEPT !.seen = @ \cup {<<x.file, x.gen, x.line>>}]
                   [] x.tag = "eof" -> db
    BY <1>2 DEF Commit, world, tail, ghosts
  <1> HIDE DEF x, r
  <1>4. db'.seen = S /\ db'.cur \in Cursors /\ db' = [seen |-> db'.seen, cur |-> db'.cur]
        /\ Sound(disk, spliced, db'.cur, S)
    <2>1. CASE x.tag = "progress"
      <3>1. x \in Reports
        BY <1>2, <2>1 DEF Events
      <3>2. Committed(x) = {}
        BY <2>1 DEF Committed
      <3>3. x.cur \in Cursors /\ db' = [db EXCEPT !.cur = x.cur]
        BY <1>3, <2>1, <3>1 DEF Reports
      <3>4. db'.seen = db.seen /\ db'.cur = x.cur /\ db' = [seen |-> db'.seen, cur |-> db'.cur]
        BY <1>1, <3>3
      <3>5. Sound(disk, spliced, x.cur, db.seen \cup LinesUpTo(chan, 1))
        BY <1>1, <1>2, <2>1 DEF ReportsSound, x
      <3>6. LinesUpTo(chan, 1) = {}
        <4>1. \A j \in 1 .. 1 : chan[j] = x
          BY DEF x
        <4> QED BY <2>1, <4>1 DEF LinesUpTo
      <3> QED BY <3>2, <3>3, <3>4, <3>5, <3>6
    <2>2. CASE x.tag # "progress"
      <3>1. x \in Events
        BY <1>2, <2>2 DEF Reports
      <3>2. db'.seen = S /\ db'.cur = db.cur /\ db' = [seen |-> db'.seen, cur |-> db'.cur]
        <4>1. CASE x.tag = "line"
          BY <1>1, <1>3, <4>1 DEF Committed, LineOf
        <4>2. CASE x.tag = "eof"
          BY <1>1, <1>3, <4>2 DEF Committed
        <4> QED BY <3>1, <4>1, <4>2 DEF Events
      <3>3. Sound(disk, spliced, db.cur, S)
        BY <1>1, DiskKept, SoundGrows
      <3> QED BY <1>1, <3>2, <3>3
    <2> QED BY <2>1, <2>2
  <1>5. Types'
    BY <1>1, <1>2, <1>3, <1>4 DEF HInv, Types
  <1>6. Delivered' = Delivered
    <2>1. Delivered' = S \cup Lines(r)
      BY <1>3, <1>4 DEF Delivered, Lines
    <2>2. Lines(r) = LinesUpTo(r, Len(r)) /\ Lines(chan) = LinesUpTo(chan, Len(chan))
      BY <1>1, <1>2, LinesAre
    <2>3. LinesUpTo(chan, Len(chan)) = Committed(x) \cup LinesUpTo(r, Len(r))
      <3>1. Len(r) \in 0 .. Len(r) /\ Len(r) + 1 = Len(chan)
        BY <1>2
      <3> QED BY <1>2, <3>1
    <2> QED BY <2>1, <2>2, <2>3 DEF Delivered
  <1>7. ReportsSound(disk, spliced, S, r)
    <2> SUFFICES ASSUME NEW i \in 1 .. Len(r), r[i].tag = "progress"
                 PROVE  Sound(disk, spliced, r[i].cur, S \cup LinesUpTo(r, i))
      BY DEF ReportsSound
    <2>1. i \in 0 .. Len(r) /\ i + 1 \in 1 .. Len(chan) /\ r[i] = chan[i + 1]
      BY <1>2
    <2>2. Sound(disk, spliced, r[i].cur, db.seen \cup LinesUpTo(chan, i + 1))
      BY <1>1, <2>1 DEF ReportsSound
    <2>3. db.seen \cup LinesUpTo(chan, i + 1) = S \cup LinesUpTo(r, i)
      BY <1>2, <2>1
    <2> QED BY <2>2, <2>3
  <1> HIDE DEF S
  <1> QED BY <1>1, <1>3, <1>4, <1>5, <1>6, <1>7 DEF HInv, Honest

\* A start resumes from the committed cursor; a crash loses the channel and the cursor.
LEMMA StartScanKeeps ==
    ASSUME HInv, StartScan PROVE HInv'
  <1>1. UNCHANGED <<disk, db, chan, opened, spliced>> /\ cur' = db.cur
    BY DEF StartScan, world, ghosts
  <1>2. /\ disk \in [Files -> Rollouts] /\ db.cur \in Cursors /\ chan \in Queues
        /\ Sound(disk, spliced, db.cur, db.seen) /\ ReportsSound(disk, spliced, db.seen, chan)
    BY DEF HInv, Types, Honest
  <1>3. Sound(disk, spliced, db.cur, db.seen \cup Lines(chan))
    BY <1>2, DiskKept, SoundGrows
  <1> QED BY <1>1, <1>2, <1>3, ChanKeeps

LEMMA CrashKeeps ==
    ASSUME HInv, Crash PROVE HInv'
  <1>1. UNCHANGED <<disk, db, spliced>> /\ cur' = NewCursor /\ chan' = <<>> /\ opened' = NoFile
    BY DEF Crash, world
  <1>2. disk \in [Files -> Rollouts]
    BY DEF HInv, Types
  <1>3. NewCursor \in Cursors /\ Sound(disk, spliced, NewCursor, db.seen \cup Lines(<<>>))
    BY <1>2, NewCursorSound
  <1>4. <<>> \in Queues /\ ReportsSound(disk, spliced, db.seen, <<>>)
    BY DEF Queues, ReportsSound
  <1> QED BY <1>1, <1>3, <1>4, ChanKeeps

LEMMA HStep ==
    ASSUME HInv, [Next]_tvars PROVE HInv'
  <1>1. CASE \E d \in Days : MakeDay(d) \/ TakeDay(d)
    BY <1>1, ListsKeep DEF MakeDay, TakeDay, tail, ghosts, world
  <1>2. ASSUME NEW f \in Files, (\E k \in Kinds : WriteLine(f, k)) \/ WritePart(f) \/ Truncate(f) \/ GoStale(f)
        PROVE  HInv'
    BY <1>2, WritesKeep
  <1>3. ASSUME NEW f \in Files, Skip(f) \/ ReadFails(f) \/ TakeFile(f)
        PROVE  HInv'
    BY <1>3, ListsKeep DEF Skip, ReadFails, TakeFile, ghosts, world
  <1>4. ASSUME NEW f \in Files, Open(f) PROVE HInv'
    BY <1>4, OpenKeeps
  <1>5. CASE Flush \/ Overflow \/ RestartTail
    BY <1>5, ListsKeep DEF Flush, Overflow, RestartTail, tail, ghosts, world
  <1>6. CASE EndScan \/ EndFlush \/ Tick
    BY <1>6, ReportKeeps DEF EndScan, EndFlush, Tick, ghosts, world
  <1>7. CASE UNCHANGED tvars
    BY <1>7, ListsKeep DEF tvars
  <1>8. CASE Read \/ StartScan \/ Crash \/ Commit
    BY <1>8, ReadKeeps, StartScanKeeps, CrashKeeps, CommitKeeps
  <1> QED BY <1>1, <1>2, <1>3, <1>4, <1>5, <1>6, <1>7, <1>8 DEF Next

\* The cursor in memory and the committed one claim no line that was not sent or committed,
\* and none that was not committed: readRollout's cursor under growth, truncation, failed
\* reads, restarts and crashes, for any number of rollouts.
THEOREM CursorsStayHonest == Spec => []CursorsAreHonest
  <1>1. HInv => CursorsAreHonest
    <2> SUFFICES ASSUME HInv PROVE CursorsAreHonest
      OBVIOUS
    <2>1. ASSUME NEW c, NEW D, Sound(disk, spliced, c, D) PROVE Covered(c, D)
      BY <2>1 DEF Sound, SoundFor, Covered
    <2> QED BY <2>1 DEF HInv, Honest, CursorsAreHonest
  <1> QED BY <1>1, HInit, HStep, PTL DEF Spec

-----------------------------------------------------------------------------
(* A tail forgets nothing.                                                  *)

\* A rollout is on a list, or is announced, or lies in a directory nobody watches.
Listed(f) ==
    \/ f \in dirty \cup pending \cup todo
    \/ DayOf[f] \in pending \/ DayOf[f] \notin watched

\* Complete lines beyond the cursor are to be read.
Remembered(f) == HasMeta(disk[f]) /\ cur[f].off < 2 * Len(disk[f].lines) => Listed(f)

\* While a pass is under way the list of the pass remembers what NothingForgotten asks of an
\* idle tail; nothing is read outside a pass, and what is written lies in a directory.
RInv ==
    /\ phase \in {"down", "scan", "catchup", "loop", "flush"}
    /\ phase = "loop" => todo = {} /\ opened = NoFile
    /\ opened # NoFile => Reading /\ opened.file \in todo
    /\ \A f \in Files : disk[f].lines # <<>> => DayOf[f] \in days
    /\ Tailing => \A f \in Files \ lost : Remembered(f)

-----------------------------------------------------------------------------
(* The invariant of what is left to read, action by action.                 *)

\* A rollout with a header is found where it lies.
LEMMA FoundOnDisk ==
    ASSUME HInv, RInv, NEW f \in Files, HasMeta(disk[f])
    PROVE  f \in Discovered
  <1>1. disk[f] \in Rollouts /\ Len(disk[f].lines) \in Nat /\ disk[f].lines \in Seq(Kinds)
    BY RolloutIs DEF HInv, Types
  <1>2. Len(disk[f].lines) > 0 /\ disk[f].lines # <<>>
    BY <1>1 DEF HasMeta
  <1>3. DayOf[f] \in days
    BY <1>2 DEF RInv
  <1>4. Size(disk[f]) = 2 * Len(disk[f].lines) + 1 \/ Size(disk[f]) = 2 * Len(disk[f].lines) + 0
    BY Zenon DEF Size
  <1>5. Size(disk[f]) > 0
    BY <1>1, <1>2, <1>4
  <1> QED BY <1>3, <1>5 DEF Discovered, Exists

\* What the tail remembers it still remembers when the rollout, the cursor and the lists that
\* hold it stay.
LEMMA StillRemembered ==
    ASSUME NEW f, Remembered(f), disk'[f].lines = disk[f].lines, cur'[f] = cur[f],
           Listed(f) => Listed(f)'
    PROVE  Remembered(f)'
  <1>1. HasMeta(disk[f])' => HasMeta(disk[f])
    BY DEF HasMeta
  <1> QED BY <1>1 DEF Remembered

LEMMA RInit == Init => RInv
  <1> SUFFICES ASSUME Init PROVE RInv
    OBVIOUS
  <1>1. \A f \in Files : disk[f].lines = <<>>
    BY DEF Init
  <1> QED BY <1>1 DEF Init, RInv, Tailing

\* The program writes: what is watched is announced.
LEMMA ChangedRemembers ==
    ASSUME HInv, RInv, NEW f \in Files, NEW new, Changed(f, new),
           new.lines # <<>> => DayOf[f] \in days
    PROVE  RInv'
  <1>1. /\ UNCHANGED <<days, phase, todo, opened, cur, watched, dirty, lost>>
        /\ disk'[f] = new /\ \A g \in Files \ {f} : disk'[g] = disk[g]
        /\ pending' = IF Tailing /\ DayOf[f] \in watched THEN pending \cup {f} ELSE pending
    BY DEF Changed, tail, Notify, HInv, Types
  <1>2. \A g \in Files : disk'[g].lines # <<>> => DayOf[g] \in days'
    BY <1>1 DEF RInv
  <1>3. ASSUME Tailing', NEW g \in Files \ lost' PROVE Remembered(g)'
    <2>0. Tailing /\ g \in Files \ lost
      BY <1>1, <1>3 DEF Tailing
    <2>1. CASE g = f
      <3>1. g \in pending' \/ DayOf[g] \notin watched'
        BY <1>1, <2>0, <2>1
      <3> QED BY <3>1 DEF Remembered, Listed
    <2>2. CASE g # f
      <3>1. disk'[g].lines = disk[g].lines /\ cur'[g] = cur[g]
        BY <1>1, <2>0, <2>2
      <3>2. Listed(g) => Listed(g)'
        BY <1>1 DEF Listed
      <3>3. Remembered(g)
        BY <2>0 DEF RInv
      <3> QED BY <3>1, <3>2, <3>3, StillRemembered
    <2> QED BY <2>1, <2>2
  <1> QED BY <1>1, <1>2, <1>3 DEF RInv, Reading

LEMMA WritesRemember ==
    ASSUME HInv, RInv, NEW f \in Files,
           (\E k \in Kinds : WriteLine(f, k)) \/ WritePart(f) \/ Truncate(f) \/ GoStale(f)
    PROVE  RInv'
  <1> DEFINE d == disk[f]
  <1>0. d \in Rollouts
    BY DEF HInv, Types
  <1>1. CASE (\E k \in Kinds : WriteLine(f, k)) \/ WritePart(f)
    <2>1. DayOf[f] \in days /\ \E new : Changed(f, new)
      BY <1>1, Zenon DEF WriteLine, WritePart
    <2> QED BY <2>1, ChangedRemembers
  <1>2. CASE Truncate(f)
    <2>1. Changed(f, CutTo(d, d.gen + 1))
      BY <1>2 DEF Truncate, CutTo
    <2>2. d.gen + 1 \in Nat \ {0}
      BY <1>0, RolloutIs
    <2>3. CutTo(d, d.gen + 1).lines = <<>>
      <3> HIDE DEF d
      <3> QED BY <1>0, <2>2, RolloutCut
    <2> QED BY <2>1, <2>3, ChangedRemembers
  <1>3. CASE GoStale(f)
    <2> DEFINE new == [d EXCEPT !.stale = TRUE]
    <2>1. new.lines = d.lines
      BY <1>0, RolloutIs
    <2>2. disk \in [Files -> Rollouts] /\ disk' = [disk EXCEPT ![f] = new]
      BY <1>3 DEF GoStale, HInv, Types
    <2> HIDE DEF new
    <2>3. \A g \in Files : disk'[g].lines = disk[g].lines
      BY <2>1, <2>2
    <2>4. UNCHANGED <<days, phase, todo, opened, cur, watched, dirty, pending, lost>>
      BY <1>3 DEF GoStale, tail, ghosts
    <2>5. ASSUME Tailing', NEW g \in Files \ lost' PROVE Remembered(g)'
      <3>1. Remembered(g)
        BY <2>4, <2>5 DEF RInv, Tailing
      <3>2. Listed(g) => Listed(g)'
        BY <2>4 DEF Listed
      <3> QED BY <2>3, <2>4, <3>1, <3>2, StillRemembered
    <2> QED BY <2>3, <2>4, <2>5 DEF RInv, Reading
  <1> QED BY <1>1, <1>2, <1>3

\* The rollouts and the cursor stay; the lists hold what they held, or what was dropped is
\* known to be lost.
LEMMA ListsRemember ==
    ASSUME RInv, UNCHANGED <<disk, cur>>, days \subseteq days',
           phase' \in {"down", "scan", "catchup", "loop", "flush"},
           phase' = "loop" => todo' = {} /\ opened' = NoFile,
           opened' # NoFile => Reading' /\ opened'.file \in todo',
           Tailing' => Tailing /\ \A f \in Files \ lost' : f \notin lost /\ (Listed(f) => Listed(f)')
    PROVE  RInv'
  <1>1. ASSUME Tailing', NEW f \in Files \ lost' PROVE Remembered(f)'
    <2>1. Remembered(f) /\ (Listed(f) => Listed(f)')
      BY <1>1 DEF RInv
    <2> QED BY <2>1, StillRemembered
  <1>2. \A f \in Files : disk'[f].lines # <<>> => DayOf[f] \in days'
    BY DEF RInv
  <1> QED BY <1>1, <1>2 DEF RInv

\* A pass that starts with every rollout it finds has everything on its list.
LEMMA CatchUpRemembers ==
    ASSUME HInv, RInv, UNCHANGED <<disk, cur, days>>, phase' = "catchup", todo' = CatchUp,
           opened' = NoFile
    PROVE  RInv'
  <1>1. ASSUME NEW f \in Files PROVE Remembered(f)'
    <2> SUFFICES ASSUME HasMeta(disk'[f]) PROVE f \in todo'
      BY DEF Remembered, Listed
    <2>1. HasMeta(disk[f])
      OBVIOUS
    <2> QED BY <2>1, FoundOnDisk DEF CatchUp
  <1>2. \A f \in Files : disk'[f].lines # <<>> => DayOf[f] \in days'
    BY DEF RInv
  <1> QED BY <1>1, <1>2 DEF RInv

\* A pass ticks off what it read, what it need not read and what it failed to read.
LEMMA SkipRemembers ==
    ASSUME HInv, RInv, NEW f \in Files, Skip(f) \/ ReadFails(f)
    PROVE  RInv'
  <1>1. /\ UNCHANGED <<disk, days, phase, opened, cur, watched, dirty, pending>> /\ todo' = todo \ {f}
        /\ opened = NoFile /\ Reading
        /\ (lost' = lost /\ Skip(f)) \/ lost' = lost \cup {f}
    BY DEF Skip, ReadFails, world, ghosts
  <1>2. phase # "loop"
    BY <1>1 DEF Reading
  <1>3. \A g \in Files : disk'[g].lines # <<>> => DayOf[g] \in days'
    BY <1>1 DEF RInv
  <1>4. ASSUME Tailing', NEW g \in Files \ lost' PROVE Remembered(g)'
    <2>1. Tailing /\ g \in Files \ lost /\ Remembered(g)
      BY <1>1, <1>4 DEF Tailing, RInv
    <2>2. CASE g # f
      <3>1. Listed(g) => Listed(g)'
        BY <1>1, <2>2 DEF Listed
      <3> QED BY <1>1, <2>1, <3>1, StillRemembered
    <2>3. CASE g = f
      <3>1. Skip(f)
        BY <1>1, <1>4, <2>3
      <3>2. cur[f].off >= Size(disk[f])
        BY <2>1, <3>1 DEF Skip, TailSkips, Tailing
      <3>3. cur[f].off \in Nat /\ Len(disk[f].lines) \in Nat
        BY RolloutIs DEF HInv, Types, Cursors, FileCursors
      <3>4. Size(disk[f]) = 2 * Len(disk[f].lines) + 1 \/ Size(disk[f]) = 2 * Len(disk[f].lines) + 0
        BY Zenon DEF Size
      <3>5. ~(cur[f].off < 2 * Len(disk[f].lines))
        BY <3>2, <3>3, <3>4
      <3> QED BY <1>1, <2>3, <3>5 DEF Remembered
    <2> QED BY <2>2, <2>3
  <1> QED BY <1>1, <1>2, <1>3, <1>4 DEF RInv

\* A read ends at the last complete line.
LEMMA ReadRemembers ==
    ASSUME HInv, RInv, Read PROVE RInv'
  <1> DEFINE f == opened.file
  <1>1. /\ UNCHANGED <<disk, days, phase, watched, dirty, pending>> /\ todo' = todo \ {f}
        /\ lost' = lost \ {f} /\ opened' = NoFile /\ opened # NoFile
    BY DEF Read, world
  <1>2. PICK eof : cur' = IF HasMeta(disk[f])
                          THEN [cur EXCEPT ![f] = [off |-> Advanced(disk[f]), size |-> opened.size,
                                                   mt |-> opened.gen, eof |-> eof]]
                          ELSE cur
    BY Zenon DEF Read
  <1> DEFINE next == [off |-> Advanced(disk[f]), size |-> opened.size, mt |-> opened.gen, eof |-> eof]
  <1>3. f \in Files /\ cur \in Cursors /\ disk \in [Files -> Rollouts]
    BY <1>1 DEF HInv, Types
  <1>4. phase # "loop"
    BY <1>1 DEF RInv
  <1>5. \A g \in Files : disk'[g].lines # <<>> => DayOf[g] \in days'
    BY <1>1 DEF RInv
  <1> HIDE DEF f
  <1>6. ASSUME Tailing', NEW g \in Files \ lost' PROVE Remembered(g)'
    <2>1. CASE g # f
      <3>1. Tailing /\ g \in Files \ lost /\ Remembered(g)
        BY <1>1, <1>6, <2>1 DEF Tailing, RInv
      <3>2. Listed(g) => Listed(g)'
        BY <1>1, <2>1 DEF Listed
      <3>3. cur'[g] = cur[g]
        BY <1>2, <1>3, <2>1 DEF Cursors
      <3> QED BY <1>1, <3>1, <3>2, <3>3, StillRemembered
    <2>2. CASE g = f
      <3> SUFFICES ASSUME HasMeta(disk'[f]) PROVE ~(cur'[f].off < 2 * Len(disk'[f].lines))
        BY <2>2 DEF Remembered
      <3>1. cur'[f] = next /\ next.off = Advanced(disk[f])
        BY <1>1, <1>2, <1>3 DEF Cursors
      <3> HIDE DEF next
      <3>2. cur'[f].off = 2 * Len(disk[f].lines) /\ Len(disk[f].lines) \in Nat
        BY <1>3, <3>1, RolloutIs DEF Advanced
      <3> QED BY <1>1, <3>2
    <2> QED BY <2>1, <2>2
  <1> QED BY <1>1, <1>4, <1>5, <1>6 DEF RInv

\* A new directory is watched, and what lies in it is marked.
LEMMA TakeDayRemembers ==
    ASSUME HInv, RInv, NEW d \in Days, TakeDay(d)
    PROVE  RInv'
  <1>1. /\ UNCHANGED <<disk, days, phase, todo, opened, cur, lost>> /\ phase = "loop"
        /\ pending' = pending \ {d} /\ dirty' = dirty \cup {f \in Discovered : DayOf[f] = d}
        /\ watched' \subseteq watched \cup {d}
    BY DEF TakeDay, world, ghosts, AddWatches, MarkExisting
  <1>2. ASSUME NEW f \in Files \ lost PROVE Remembered(f)'
    <2>1. Remembered(f)
      BY <1>1, <1>2 DEF RInv, Tailing
    <2>2. CASE DayOf[f] = d
      <3> SUFFICES ASSUME HasMeta(disk'[f]) PROVE f \in dirty'
        BY DEF Remembered, Listed
      <3>1. f \in Discovered
        BY <1>1, FoundOnDisk
      <3> QED BY <1>1, <2>2, <3>1
    <2>3. CASE DayOf[f] # d
      <3>1. f # d
        BY TailAssumption
      <3>2. Listed(f) => Listed(f)'
        BY <1>1, <2>3, <3>1 DEF Listed
      <3> QED BY <1>1, <2>1, <3>2, StillRemembered
    <2> QED BY <2>2, <2>3
  <1>3. \A f \in Files : disk'[f].lines # <<>> => DayOf[f] \in days'
    BY <1>1 DEF RInv
  <1> QED BY <1>1, <1>2, <1>3 DEF RInv

\* The ticker watches what it can: what a directory gained unwatched is lost unless the
\* directory is still to be announced.
LEMMA TickRemembers ==
    ASSUME RInv, Tick PROVE RInv'
  <1>1. /\ UNCHANGED <<disk, days, phase, todo, opened, cur, dirty, pending>> /\ phase = "loop"
        /\ lost' = lost \cup Forgotten(watched, watched')
    BY DEF Tick, world
  <1>2. ASSUME NEW f \in Files \ lost' PROVE f \notin lost /\ (Listed(f) => Listed(f)')
    <2>1. f \notin Forgotten(watched, watched')
      BY <1>1, <1>2
    <2>2. DayOf[f] \in watched' => DayOf[f] \in watched \/ DayOf[f] \in pending
      BY <1>2, <2>1 DEF Forgotten
    <2> QED BY <1>1, <1>2, <2>2 DEF Listed
  <1>3. /\ days \subseteq days' /\ phase' \in {"down", "scan", "catchup", "loop", "flush"}
        /\ (phase' = "loop" => todo' = {} /\ opened' = NoFile)
        /\ (opened' # NoFile => Reading' /\ opened'.file \in todo')
        /\ Tailing
    BY <1>1 DEF RInv, Tailing, Reading
  <1> QED BY <1>1, <1>2, <1>3, ListsRemember

LEMMA RStep ==
    ASSUME HInv, RInv, [Next]_tvars PROVE RInv'
  <1>1. ASSUME NEW d \in Days, MakeDay(d) PROVE RInv'
    <2>1. /\ UNCHANGED <<disk, phase, todo, opened, cur, watched, dirty, lost>>
          /\ days \subseteq days' /\ pending \subseteq pending'
      BY <1>1 DEF MakeDay, tail, ghosts
    <2> QED BY <2>1, ListsRemember DEF RInv, Tailing, Reading, Listed
  <1>2. ASSUME NEW f \in Files, Open(f) PROVE RInv'
    <2>1. /\ UNCHANGED <<disk, days, phase, todo, cur, watched, dirty, pending, lost>>
          /\ Reading /\ f \in todo /\ opened'.file = f
      BY <1>2 DEF Open, world, ghosts
    <2>2. phase # "loop"
      BY <2>1 DEF Reading
    <2> QED BY <2>1, <2>2, ListsRemember DEF RInv, Tailing, Reading, Listed
  <1>3. ASSUME NEW f \in Files, TakeFile(f) PROVE RInv'
    <2>1. /\ UNCHANGED <<disk, days, phase, todo, opened, cur, watched, lost>>
          /\ pending' = pending \ {f} /\ dirty' = dirty \cup {f}
      BY <1>3 DEF TakeFile, world, ghosts
    <2>2. \A g \in Files : DayOf[g] # f
      BY <1>3, TailAssumption
    <2>3. \A g \in Files : Listed(g) => Listed(g)'
      BY <2>1, <2>2 DEF Listed
    <2> QED BY <2>1, <2>3, ListsRemember DEF RInv, Tailing, Reading
  <1>4. CASE StartScan \/ Crash
    <2>1. /\ UNCHANGED <<disk, days>> /\ phase' \in {"down", "scan"}
          /\ (opened' = opened /\ phase = "down") \/ opened' = NoFile
      BY <1>4 DEF StartScan, Crash, world
    <2>2. opened' = NoFile
      BY <2>1 DEF RInv, Reading
    <2> QED BY <2>1, <2>2 DEF RInv, Tailing
  <1>5. CASE EndScan \/ RestartTail
    <2>1. UNCHANGED <<disk, cur, days>> /\ phase' = "catchup" /\ todo' = CatchUp /\ opened' = NoFile
      BY <1>5 DEF EndScan, RestartTail, world
    <2> QED BY <2>1, CatchUpRemembers
  <1>6. CASE EndFlush
    <2>1. /\ UNCHANGED <<disk, days, todo, opened, cur, watched, dirty, pending, lost>>
          /\ phase' = "loop" /\ todo = {} /\ opened = NoFile /\ Tailing
      BY <1>6 DEF EndFlush, world, ghosts, Tailing
    <2> QED BY <2>1, ListsRemember DEF RInv, Listed
  <1>7. CASE Flush
    <2>1. /\ UNCHANGED <<disk, days, opened, cur, watched, pending, lost>>
          /\ phase = "loop" /\ phase' = "flush" /\ todo' = dirty /\ dirty' = {}
      BY <1>7 DEF Flush, world, ghosts
    <2>2. todo = {} /\ opened = NoFile
      BY <2>1 DEF RInv
    <2> QED BY <2>1, <2>2, ListsRemember DEF Listed, Tailing
  <1>8. CASE Overflow
    <2>1. /\ UNCHANGED <<disk, days, phase, todo, opened, cur, watched, dirty>>
          /\ pending' = {} /\ lost' = lost \cup {f \in Files : f \in pending \/ DayOf[f] \in pending}
      BY <1>8 DEF Overflow, world, tail
    <2>2. \A f \in Files \ lost' : f \notin lost /\ (Listed(f) => Listed(f)')
      BY <2>1 DEF Listed
    <2> QED BY <2>1, <2>2, ListsRemember DEF RInv, Tailing, Reading
  <1>9. CASE Commit \/ UNCHANGED tvars
    <2>1. UNCHANGED <<disk, days, phase, todo, opened, cur, watched, dirty, pending, lost>>
      BY <1>9 DEF Commit, world, tail, ghosts, tvars
    <2> QED BY <2>1, ListsRemember DEF RInv, Tailing, Reading, Listed
  <1>10. ASSUME NEW f \in Files,
                (\E k \in Kinds : WriteLine(f, k)) \/ WritePart(f) \/ Truncate(f) \/ GoStale(f)
         PROVE  RInv'
    BY <1>10, WritesRemember
  <1>11. CASE \E f \in Files : Skip(f) \/ ReadFails(f)
    BY <1>11, SkipRemembers
  <1>12. CASE \E d \in Days : TakeDay(d)
    BY <1>12, TakeDayRemembers
  <1> QED BY <1>1, <1>2, <1>3, <1>4, <1>5, <1>6, <1>7, <1>8, <1>9, <1>10, <1>11, <1>12,
             ReadRemembers, TickRemembers DEF Next

\* A quiet tail forgets nothing but what a fault made it forget: scan, catch-up, watches,
\* debounced flushes and restarts in any order, for any number of rollouts and directories.
THEOREM TailForgetsNothing == Spec => []NothingForgotten
  <1>1. RInv => NothingForgotten
    BY DEF RInv, NothingForgotten, Remembered, Listed, Tailing
  <1>2. Init => HInv /\ RInv
    BY HInit, RInit
  <1>3. HInv /\ RInv /\ [Next]_tvars => (HInv /\ RInv)'
    BY HStep, RStep
  <1> QED BY <1>1, <1>2, <1>3, PTL DEF Spec

-----------------------------------------------------------------------------
(* The end of a file is decided once.                                       *)

\* The cursors a queue reports.
ReportedIn(q) == {c \in Cursors : \E i \in 1 .. Len(q) : q[i].tag = "progress" /\ q[i].cur = c}

\* The marker of an end lies within what was read, and both within the file it is of.
Marked(d, sp, c) ==
    \A f \in Files :
       /\ c[f].eof <= c[f].size
       /\ f \notin sp => c[f].eof <= c[f].off /\ (c[f].mt = d[f].gen => c[f].size <= Size(d[f]))

\* A later cursor is of a later generation, or its marker is not behind.
Behind(sp, c, e) == \A f \in Files \ sp : c[f].mt <= e[f].mt /\ (c[f].mt = e[f].mt => c[f].eof <= e[f].eof)

EndsKept ==
    /\ phase = "down" => chan = <<>>
    /\ opened # NoFile =>
          LET f == opened.file
          IN  /\ opened.gen = disk[f].gen => opened.size <= Size(disk[f])
              /\ f \notin spliced /\ cur[f].mt = opened.gen => cur[f].size <= opened.size
    /\ Marked(disk, spliced, cur) /\ Marked(disk, spliced, db.cur)
    /\ \A c \in ReportedIn(chan) : Marked(disk, spliced, c)
    /\ phase # "down" => /\ Behind(spliced, db.cur, cur)
                         /\ \A c \in ReportedIn(chan) : Behind(spliced, c, cur)

\* Rollouts that grow in bytes.
Widens(d, e) == \A f \in Files : d[f].gen < e[f].gen \/ (e[f].gen = d[f].gen /\ Size(d[f]) <= Size(e[f]))

LEMMA SizeIs ==
    ASSUME NEW d \in Rollouts
    PROVE  /\ Size(d) \in Nat /\ Len(d.lines) \in Nat /\ 2 * Len(d.lines) <= Size(d) /\ Size(d) <= 2 * Len(d.lines) + 1
           /\ ~d.part => Size(d) = 2 * Len(d.lines)
  <1>1. Len(d.lines) \in Nat
    BY DEF Rollouts
  <1>2. /\ d.part => Size(d) = 2 * Len(d.lines) + 1
        /\ ~d.part => Size(d) = 2 * Len(d.lines) + 0
    BY Zenon DEF Size
  <1>3. d.part \/ ~d.part
    OBVIOUS
  <1> QED BY <1>1, <1>2, <1>3

LEMMA MarkedGrows ==
    ASSUME NEW d \in [Files -> Rollouts], NEW e \in [Files -> Rollouts], Widens(d, e), NEW sp, NEW sq, sp \subseteq sq,
           NEW c \in Cursors, Marked(d, sp, c), \A f \in Files : c[f].mt <= d[f].gen
    PROVE  Marked(e, sq, c)
  <1> SUFFICES ASSUME NEW f \in Files
               PROVE  /\ c[f].eof <= c[f].size
                      /\ f \notin sq => c[f].eof <= c[f].off /\ (c[f].mt = e[f].gen => c[f].size <= Size(e[f]))
    BY DEF Marked
  <1>1. /\ Size(d[f]) \in Nat /\ Size(e[f]) \in Nat /\ d[f].gen \in Nat /\ e[f].gen \in Nat
        /\ c[f].mt \in Nat /\ c[f].size \in Nat
    <2>1. d[f] \in Rollouts /\ e[f] \in Rollouts /\ c[f] \in FileCursors
      BY DEF Cursors
    <2> QED BY <2>1, SizeIs, RolloutIs DEF FileCursors
  <1>2. d[f].gen < e[f].gen \/ (e[f].gen = d[f].gen /\ Size(d[f]) <= Size(e[f]))
    BY DEF Widens
  <1>3. c[f].eof <= c[f].size /\ (f \notin sq => c[f].eof <= c[f].off)
        /\ (f \notin sq /\ c[f].mt = d[f].gen => c[f].size <= Size(d[f]))
    BY DEF Marked
  <1>4. c[f].mt <= d[f].gen
    OBVIOUS
  <1> QED BY <1>1, <1>2, <1>3, <1>4

LEMMA BehindKept ==
    ASSUME NEW sp, NEW sq, sp \subseteq sq, NEW c, NEW e, Behind(sp, c, e)
    PROVE  Behind(sq, c, e)
  BY DEF Behind

\* No cursor is of a generation that is still to come.
LEMMA NotAhead ==
    ASSUME HInv
    PROVE  /\ \A f \in Files : cur[f].mt <= disk[f].gen /\ db.cur[f].mt <= disk[f].gen
           /\ \A c \in ReportedIn(chan) : \A f \in Files : c[f].mt <= disk[f].gen
  <1>1. \A f \in Files : cur[f].mt <= disk[f].gen /\ db.cur[f].mt <= disk[f].gen
    BY DEF HInv, Honest, Sound, SoundFor
  <1>2. ASSUME NEW c \in ReportedIn(chan), NEW f \in Files PROVE c[f].mt <= disk[f].gen
    <2>1. PICK i \in 1 .. Len(chan) : chan[i].tag = "progress" /\ chan[i].cur = c
      BY DEF ReportedIn
    <2> QED BY <2>1 DEF HInv, Honest, ReportsSound, Sound, SoundFor
  <1> QED BY <1>1, <1>2

LEMMA WidensKeeps ==
    ASSUME HInv, EndsKept, UNCHANGED <<cur, db, chan>>, disk' \in [Files -> Rollouts], Widens(disk, disk'),
           spliced \subseteq spliced', opened' \in {opened, NoFile}, phase' = "down" <=> phase = "down"
    PROVE  EndsKept'
  <1>1. disk \in [Files -> Rollouts] /\ cur \in Cursors /\ db.cur \in Cursors /\ ReportedIn(chan) \subseteq Cursors
    BY DEF HInv, Types, ReportedIn
  <1>2. Marked(disk', spliced', cur) /\ Marked(disk', spliced', db.cur)
        /\ \A c \in ReportedIn(chan) : Marked(disk', spliced', c)
    BY <1>1, NotAhead, MarkedGrows DEF EndsKept
  <1>3. phase # "down" => /\ Behind(spliced', db.cur, cur)
                          /\ \A c \in ReportedIn(chan) : Behind(spliced', c, cur)
    BY BehindKept DEF EndsKept
  <1>4. ASSUME opened' # NoFile
        PROVE  LET f == opened.file
               IN  /\ opened.gen = disk'[f].gen => opened.size <= Size(disk'[f])
                   /\ f \notin spliced' /\ cur[f].mt = opened.gen => cur[f].size <= opened.size
    <2> DEFINE f == opened.file
    <2>1. opened # NoFile /\ f \in Files /\ opened.gen \in Nat /\ opened.gen <= disk[f].gen /\ opened.size \in Nat
      BY <1>4 DEF HInv, Types
    <2>2. /\ opened.gen = disk[f].gen => opened.size <= Size(disk[f])
          /\ f \notin spliced /\ cur[f].mt = opened.gen => cur[f].size <= opened.size
      BY <2>1 DEF EndsKept
    <2>3. disk[f] \in Rollouts /\ disk'[f] \in Rollouts
      BY <1>1, <2>1
    <2>4. Size(disk[f]) \in Nat /\ Size(disk'[f]) \in Nat /\ disk[f].gen \in Nat /\ disk'[f].gen \in Nat
      BY <2>3, SizeIs, RolloutIs
    <2>5. disk[f].gen < disk'[f].gen \/ (disk'[f].gen = disk[f].gen /\ Size(disk[f]) <= Size(disk'[f]))
      BY <2>1 DEF Widens
    <2> HIDE DEF f
    <2>6. /\ opened.gen = disk'[f].gen => opened.size <= Size(disk'[f])
          /\ f \notin spliced' /\ cur[f].mt = opened.gen => cur[f].size <= opened.size
      BY <2>1, <2>2, <2>4, <2>5
    <2> QED BY <2>6 DEF f
  <1>5. phase' = "down" => chan' = <<>>
    BY DEF EndsKept
  <1>6. (opened' # NoFile) => opened' = opened
    OBVIOUS
  <1> QED BY <1>2, <1>3, <1>4, <1>5, <1>6 DEF EndsKept

\* The rollouts stay as they are.
LEMMA SameKeeps ==
    ASSUME HInv, EndsKept, UNCHANGED <<disk, cur, db, chan>>,
           spliced \subseteq spliced', opened' \in {opened, NoFile}, phase' = "down" <=> phase = "down"
    PROVE  EndsKept'
  <1>1. disk \in [Files -> Rollouts]
    BY DEF HInv, Types
  <1>2. Widens(disk, disk')
    <2>1. \A f \in Files : Size(disk[f]) \in Nat
      BY <1>1, SizeIs
    <2> QED BY <2>1 DEF Widens
  <1> QED BY <1>1, <1>2, WidensKeeps

LEMMA WritesWiden ==
    ASSUME HInv, HInv', EndsKept, NEW f \in Files,
           (\E k \in Kinds : WriteLine(f, k)) \/ WritePart(f) \/ Truncate(f) \/ GoStale(f)
    PROVE  EndsKept'
  <1> DEFINE d == disk[f]
             e == disk'[f]
  <1>1. disk \in [Files -> Rollouts] /\ disk' \in [Files -> Rollouts] /\ d \in Rollouts /\ e \in Rollouts
    BY DEF HInv, Types
  <1>2. /\ UNCHANGED <<cur, db, chan, opened, spliced, phase>> /\ \A g \in Files \ {f} : disk'[g] = disk[g]
        /\ disk' = [disk EXCEPT ![f] = e]
    BY <1>1 DEF WriteLine, WritePart, Truncate, GoStale, Changed, tail, ghosts
  <1>3. d.gen < e.gen \/ (e.gen = d.gen /\ Size(d) <= Size(e))
    <2>1. ASSUME NEW k \in Kinds, WriteLine(f, k) PROVE e.gen = d.gen /\ Size(d) <= Size(e)
      <3>1. e = [d EXCEPT !.lines = Append(@, k), !.part = FALSE, !.stale = FALSE, !.written = @ + 1]
        BY <1>1, <2>1 DEF WriteLine, Changed
      <3>2. PICK l, w : l = Append(d.lines, k) /\ w = d.written + 1
        OBVIOUS
      <3>3. e = [d EXCEPT !.lines = l, !.part = FALSE, !.stale = FALSE, !.written = w]
        BY <3>1, <3>2
      <3>4. d = [lines |-> d.lines, part |-> d.part, stale |-> d.stale, gen |-> d.gen, written |-> d.written]
        BY <1>1, RolloutIs
      <3>5. e.lines = l /\ e.gen = d.gen
        <4> HIDE DEF d, e
        <4> QED BY <3>3, <3>4
      <3>6. d.lines \in Seq(Kinds) /\ Len(l) = Len(d.lines) + 1 /\ Len(d.lines) \in Nat
        BY <1>1, <3>2, RolloutIs
      <3> HIDE DEF d, e
      <3> QED BY <1>1, <3>5, <3>6, SizeIs
    <2>2. ASSUME WritePart(f) PROVE e.gen = d.gen /\ Size(d) <= Size(e)
      <3>1. e = [d EXCEPT !.part = TRUE, !.stale = FALSE] /\ ~d.part
        BY <1>1, <2>2 DEF WritePart, Changed
      <3>2. e.gen = d.gen /\ e.lines = d.lines
        <4>1. d = [lines |-> d.lines, part |-> d.part, stale |-> d.stale, gen |-> d.gen, written |-> d.written]
          BY <1>1, RolloutIs
        <4> HIDE DEF d, e
        <4> QED BY <3>1, <4>1
      <3> HIDE DEF d, e
      <3> QED BY <1>1, <3>1, <3>2, SizeIs
    <2>3. ASSUME Truncate(f) PROVE d.gen < e.gen
      <3>1. e = CutTo(d, d.gen + 1)
        BY <1>1, <2>3 DEF Truncate, Changed, CutTo
      <3>2. d.gen \in Nat /\ d.gen + 1 \in Nat \ {0} /\ d.gen < d.gen + 1
        BY <1>1, RolloutIs
      <3> HIDE DEF d, e
      <3> QED BY <1>1, <3>1, <3>2, RolloutCut
    <2>4. ASSUME GoStale(f) PROVE e.gen = d.gen /\ Size(d) <= Size(e)
      <3>1. e = [d EXCEPT !.stale = TRUE]
        BY <1>1, <2>4 DEF GoStale
      <3>2. e.gen = d.gen /\ e.lines = d.lines /\ e.part = d.part
        <4>1. d = [lines |-> d.lines, part |-> d.part, stale |-> d.stale, gen |-> d.gen, written |-> d.written]
          BY <1>1, RolloutIs
        <4> HIDE DEF d, e
        <4> QED BY <3>1, <4>1
      <3>3. Size(e) = Size(d)
        BY <3>2 DEF Size
      <3> HIDE DEF d, e
      <3> QED BY <1>1, <3>2, <3>3, SizeIs
    <2> QED BY <2>1, <2>2, <2>3, <2>4
  <1>4. Widens(disk, disk')
    <2>1. \A g \in Files : Size(disk[g]) \in Nat
      BY <1>1, SizeIs
    <2> SUFFICES ASSUME NEW g \in Files
                 PROVE  disk[g].gen < disk'[g].gen \/ (disk'[g].gen = disk[g].gen /\ Size(disk[g]) <= Size(disk'[g]))
      BY DEF Widens
    <2>2. CASE g = f
      BY <1>3, <2>2
    <2>3. CASE g # f
      BY <1>2, <2>1, <2>3
    <2> QED BY <2>2, <2>3
  <1> HIDE DEF d, e
  <1> QED BY <1>1, <1>2, <1>4, WidensKeeps

\* A queue's reports: events add none, a report at most itself.
LEMMA ReportedSent ==
    ASSUME NEW q \in Queues, NEW u \in Queues, \A i \in 1 .. Len(u) : u[i].tag # "progress"
    PROVE  ReportedIn(q \o u) \subseteq ReportedIn(q)
  <1> DEFINE r == q \o u
  <1>1. /\ Len(r) = Len(q) + Len(u) /\ Len(q) \in Nat /\ Len(u) \in Nat
        /\ \A i \in 1 .. Len(q) : r[i] = q[i]
        /\ \A i \in 1 .. Len(u) : r[Len(q) + i] = u[i]
    BY Joined DEF Queues
  <1> HIDE DEF r
  <1>2. ASSUME NEW i \in 1 .. Len(r), r[i].tag = "progress" PROVE i \in 1 .. Len(q)
    <2> SUFFICES ASSUME i \notin 1 .. Len(q) PROVE FALSE
      OBVIOUS
    <2>1. i - Len(q) \in 1 .. Len(u) /\ Len(q) + (i - Len(q)) = i
      BY <1>1
    <2> QED BY <1>1, <1>2, <2>1
  <1>3. ReportedIn(r) \subseteq ReportedIn(q)
    BY <1>1, <1>2 DEF ReportedIn
  <1> QED BY <1>3 DEF r

\* What Report makes of a queue.
Reporting(q, c, r) ==
    /\ r \in Queues /\ ReportedIn(r) \subseteq ReportedIn(q) \cup {c}
    /\ Len(q) <= Len(r) /\ \A i \in 1 .. Len(q) : r[i] = q[i]
    /\ \A i \in 1 .. Len(r) : i \in 1 .. Len(q) \/ r[i].tag = "progress"

LEMMA ReportIs ==
    ASSUME NEW q \in Queues, NEW c \in Cursors
    PROVE  Reporting(q, c, Report(q, c))
  <1>0. Len(q) \in Nat
    BY DEF Queues
  <1>1. CASE Report(q, c) = q
    BY <1>0, <1>1 DEF Reporting
  <1>2. CASE Report(q, c) = Append(q, Progress(c))
    <2> DEFINE p == Progress(c)
               r == Append(q, p)
    <2>1. p \in Reports /\ p.tag = "progress" /\ p.cur = c
      BY DEF Progress, Reports
    <2>2. /\ r \in Queues /\ Len(r) = Len(q) + 1 /\ r[Len(q) + 1] = p
          /\ \A i \in 1 .. Len(q) : r[i] = q[i]
      <3> HIDE DEF p
      <3> QED BY <2>1, AppendProperties DEF Queues
    <2> HIDE DEF p, r
    <2>3. \A i \in 1 .. Len(r) : i \in 1 .. Len(q) \/ (i = Len(q) + 1 /\ r[i] = p)
      BY <1>0, <2>2
    <2>4. ReportedIn(r) \subseteq ReportedIn(q) \cup {c}
      BY <2>1, <2>2, <2>3 DEF ReportedIn
    <2>5. Len(q) <= Len(r) /\ \A i \in 1 .. Len(r) : i \in 1 .. Len(q) \/ r[i].tag = "progress"
      BY <1>0, <2>1, <2>2, <2>3
    <2> QED BY <1>2, <2>2, <2>4, <2>5 DEF Reporting, p, r
  <1> QED BY <1>1, <1>2 DEF Report

\* The cursor in memory may be reported at any time.
LEMMA ReportsKeepEnds ==
    ASSUME HInv, EndsKept, UNCHANGED <<disk, db, cur, opened, spliced>>, chan' = Report(chan, cur),
           phase # "down", phase' # "down"
    PROVE  EndsKept'
  <1>1. chan \in Queues /\ cur \in Cursors
    BY DEF HInv, Types
  <1>2. ReportedIn(chan') \subseteq ReportedIn(chan) \cup {cur}
    BY <1>1, ReportIs DEF Reporting
  <1>3. Behind(spliced, cur, cur)
    <2>1. \A f \in Files : cur[f].mt \in Nat /\ cur[f].eof \in Nat
      BY <1>1 DEF Cursors, FileCursors
    <2> QED BY <2>1 DEF Behind
  <1> QED BY <1>2, <1>3 DEF EndsKept

LEMMA OpenKeepsEnds ==
    ASSUME HInv, RInv, EndsKept, NEW f \in Files, Open(f)
    PROVE  EndsKept'
  <1>1. /\ UNCHANGED <<disk, cur, db, chan, spliced, phase>>
        /\ opened' = [file |-> f, size |-> Size(disk[f]), stale |-> disk[f].stale, gen |-> disk[f].gen]
    BY DEF Open, world, ghosts
  <1>2. opened'.file = f /\ opened'.size = Size(disk[f]) /\ opened'.gen = disk[f].gen
    BY <1>1
  <1>3. Size(disk[f]) \in Nat
    BY SizeIs DEF HInv, Types
  <1>4. f \notin spliced /\ cur[f].mt = disk[f].gen => cur[f].size <= Size(disk[f])
    BY DEF EndsKept, Marked
  <1> QED BY <1>1, <1>2, <1>3, <1>4 DEF EndsKept

LEMMA StartScanKeepsEnds ==
    ASSUME HInv, RInv, EndsKept, StartScan
    PROVE  EndsKept'
  <1>1. /\ UNCHANGED <<disk, db, chan, opened, spliced>> /\ cur' = db.cur /\ phase = "down" /\ phase' = "scan"
    BY DEF StartScan, world, ghosts
  <1>2. chan = <<>> /\ opened = NoFile
    BY <1>1 DEF EndsKept, RInv, Reading
  <1>3. ReportedIn(<<>>) = {}
    BY DEF ReportedIn
  <1>4. Behind(spliced, db.cur, db.cur)
    <2>1. \A f \in Files : db.cur[f].mt \in Nat /\ db.cur[f].eof \in Nat
      BY DEF HInv, Types, Cursors, FileCursors
    <2> QED BY <2>1 DEF Behind
  <1> QED BY <1>1, <1>2, <1>3, <1>4 DEF EndsKept

LEMMA CrashKeepsEnds ==
    ASSUME HInv, EndsKept, Crash
    PROVE  EndsKept'
  <1>1. UNCHANGED <<disk, db, spliced>> /\ cur' = NewCursor /\ chan' = <<>> /\ opened' = NoFile /\ phase' = "down"
    BY DEF Crash, world
  <1>2. ReportedIn(<<>>) = {}
    BY DEF ReportedIn
  <1>3. Marked(disk, spliced, NewCursor)
    <2>1. \A f \in Files : Size(disk[f]) \in Nat /\ disk[f].gen \in Nat \ {0}
      BY SizeIs, RolloutIs DEF HInv, Types
    <2> QED BY <2>1 DEF Marked, NewCursor, NewFileCursor
  <1> QED BY <1>1, <1>2, <1>3 DEF EndsKept

LEMMA CommitKeepsEnds ==
    ASSUME HInv, EndsKept, Commit
    PROVE  EndsKept'
  <1> DEFINE x == chan[1]
             r == Tail(chan)
  <1>1. chan \in Queues /\ chan # <<>> /\ db = [seen |-> db.seen, cur |-> db.cur]
    BY DEF HInv, Types, Commit
  <1>2. /\ Head(chan) = x /\ x \in Reports \cup Events /\ 1 \in 1 .. Len(chan) /\ Len(chan) \in Nat
        /\ r \in Queues /\ Len(r) = Len(chan) - 1
        /\ \A i \in 1 .. Len(r) : r[i] = chan[i + 1]
    BY <1>1, HeadTaken
  <1>3. /\ UNCHANGED <<disk, cur, opened, spliced, phase>> /\ chan' = r
        /\ db' = CASE x.tag = "progress" -> [db EXCEPT !.cur = x.cur]
                   [] x.tag = "line" -> [db EXCEPT !.seen = @ \cup {<<x.file, x.gen, x.line>>}]
                   [] x.tag = "eof" -> db
    BY <1>2 DEF Commit, world, tail, ghosts
  <1> HIDE DEF x, r
  <1>4. db'.cur = db.cur \/ db'.cur \in ReportedIn(chan)
    <2>1. CASE x.tag = "progress"
      <3>1. x.cur \in ReportedIn(chan)
        BY <1>2, <2>1 DEF ReportedIn, Reports, Events, x
      <3> QED BY <1>1, <1>3, <2>1, <3>1
    <2>2. CASE x.tag = "line"
      BY <1>1, <1>3, <2>2
    <2>3. CASE x.tag = "eof"
      BY <1>3, <2>3
    <2> QED BY <1>2, <2>1, <2>2, <2>3 DEF Reports, Events
  <1>5. ReportedIn(r) \subseteq ReportedIn(chan)
    <2>1. \A i \in 1 .. Len(r) : i + 1 \in 1 .. Len(chan) /\ r[i] = chan[i + 1]
      BY <1>2
    <2> QED BY <2>1 DEF ReportedIn
  <1>6. phase # "down"
    BY <1>1 DEF EndsKept
  <1> QED BY <1>3, <1>4, <1>5, <1>6 DEF EndsKept

\* What a read makes of the rollout it has open.
ReadCursor == AfterTruncation(cur[opened.file], opened.size)
ReadMode == EofMode(ReadCursor, opened.size, Advanced(disk[opened.file]),
                    Emitted(disk[opened.file], From(cur, opened.file, opened.size)) # {})
ReadMarker == EofMarker(ReadCursor, ReadMode, disk[opened.file], opened.size, opened.stale)
ReadNext == [off |-> Advanced(disk[opened.file]), size |-> opened.size, mt |-> opened.gen, eof |-> ReadMarker]
ReadLines == Sent(opened.file, disk[opened.file], From(cur, opened.file, opened.size))
ReadEnd == IF ReadMode = "emit" THEN EofItems(opened.file, disk[opened.file], opened.stale) ELSE <<>>

LEMMA ReadIs ==
    ASSUME Read
    PROVE  /\ opened # NoFile /\ opened' = NoFile /\ UNCHANGED <<disk, db, phase>>
           /\ cur' = IF HasMeta(disk[opened.file]) THEN [cur EXCEPT ![opened.file] = ReadNext] ELSE cur
           /\ \E q \in {chan, chan \o (ReadLines \o ReadEnd)} : chan' = q \/ chan' = Report(q, cur')
           /\ spliced' = IF opened.gen # disk[opened.file].gen
                            \/ (ReadCursor.off > 0 /\ ReadCursor.mt # disk[opened.file].gen)
                         THEN spliced \cup {opened.file} ELSE spliced
  <1>1. /\ opened # NoFile /\ opened' = NoFile /\ UNCHANGED <<disk, db, phase>>
        /\ cur' = IF HasMeta(disk[opened.file]) THEN [cur EXCEPT ![opened.file] = ReadNext] ELSE cur
        /\ \E report \in IF phase = "scan" THEN BOOLEAN ELSE {FALSE} :
              LET all == IF HasMeta(disk[opened.file]) THEN chan \o (ReadLines \o ReadEnd) ELSE chan
              IN  chan' = IF report THEN Report(all, cur') ELSE all
        /\ spliced' = IF opened.gen # disk[opened.file].gen
                         \/ (ReadCursor.off > 0 /\ ReadCursor.mt # disk[opened.file].gen)
                      THEN spliced \cup {opened.file} ELSE spliced
    BY Zenon DEF Read, world, ReadCursor, ReadMode, ReadMarker, ReadNext, ReadLines, ReadEnd, From
  <1>2. PICK report \in IF phase = "scan" THEN BOOLEAN ELSE {FALSE} :
              LET all == IF HasMeta(disk[opened.file]) THEN chan \o (ReadLines \o ReadEnd) ELSE chan
              IN  chan' = IF report THEN Report(all, cur') ELSE all
    BY <1>1
  <1>3. \E q \in {chan, chan \o (ReadLines \o ReadEnd)} : chan' = q \/ chan' = Report(q, cur')
    <2>1. CASE HasMeta(disk[opened.file])
      BY <1>2, <2>1
    <2>2. CASE ~HasMeta(disk[opened.file])
      BY <1>2, <2>2
    <2> QED BY <2>1, <2>2
  <1> QED BY <1>1, <1>3

\* What is open is typed, and so is what a read sends.
LEMMA ReadTypes ==
    ASSUME HInv, opened # NoFile
    PROVE  /\ opened.file \in Files /\ opened.size \in Nat /\ opened.gen \in Nat
           /\ opened.gen <= disk[opened.file].gen /\ disk[opened.file] \in Rollouts
           /\ cur[opened.file] \in FileCursors /\ ReadCursor \in FileCursors
           /\ ReadLines \in Queues /\ \A i \in 1 .. Len(ReadLines) : ReadLines[i].tag = "line"
           /\ ReadEnd \in Queues /\ \A i \in 1 .. Len(ReadEnd) : ReadEnd[i].tag # "progress"
  <1> DEFINE f == opened.file
             d == disk[f]
  <1>1. /\ f \in Files /\ opened.size \in Nat /\ opened.gen \in Nat
        /\ opened.gen <= d.gen /\ d \in Rollouts /\ cur[f] \in FileCursors
    BY DEF HInv, Types, Cursors
  <1>2. ReadCursor \in FileCursors
    <2>1. NewFileCursor \in FileCursors
      BY DEF NewFileCursor, FileCursors
    <2> QED BY <1>1, <2>1 DEF ReadCursor, AfterTruncation
  <1>3. ReadLines \in Seq(Events) /\ \A i \in 1 .. Len(ReadLines) : ReadLines[i].tag = "line"
    <2> HIDE DEF f, d
    <2>1. PICK from : from = From(cur, f, opened.size)
      OBVIOUS
    <2>2. Sent(f, d, from) \in Seq(Events) /\ \A i \in 1 .. Len(Sent(f, d, from)) : Sent(f, d, from)[i].tag = "line"
      BY <1>1, SentIs
    <2> QED BY <2>1, <2>2 DEF ReadLines, f, d
  <1>4. ReadLines \in Queues
    <2> DEFINE q == ReadLines
    <2> HIDE DEF q
    <2>1. q \in Seq(Events)
      BY <1>3 DEF q
    <2>2. q \in Queues
      BY <2>1 DEF Queues
    <2> QED BY <2>2 DEF q
  <1>5. ReadEnd \in Queues /\ \A i \in 1 .. Len(ReadEnd) : ReadEnd[i].tag # "progress"
    <2>1. PICK e : e = EofItems(f, d, opened.stale)
      OBVIOUS
    <2>2. e \in Queues /\ \A i \in 1 .. Len(e) : e[i].tag # "progress"
      <3> HIDE DEF f, d
      <3> QED BY <1>1, <2>1, EofItemsAre
    <2>3. ReadEnd = e \/ ReadEnd = <<>>
      BY <2>1 DEF ReadEnd
    <2>4. <<>> \in Queues /\ Len(<<>>) = 0
      BY DEF Queues
    <2> QED BY <2>2, <2>3, <2>4
  <1> HIDE DEF d
  <1> QED BY <1>1, <1>2, <1>3, <1>4, <1>5 DEF d

\* Events follow one another.
LEMMA ReadSent ==
    ASSUME HInv, opened # NoFile
    PROVE  /\ ReadLines \o ReadEnd \in Queues
           /\ \A i \in 1 .. Len(ReadLines \o ReadEnd) : (ReadLines \o ReadEnd)[i].tag # "progress"
           /\ \A i \in 1 .. Len(ReadLines \o ReadEnd) :
                 \/ (ReadLines \o ReadEnd)[i].tag = "line"
                 \/ \E j \in 1 .. Len(ReadEnd) : (ReadLines \o ReadEnd)[i] = ReadEnd[j]
  <1>1. PICK l, e : l = ReadLines /\ e = ReadEnd
    OBVIOUS
  <1>2. /\ l \in Queues /\ \A i \in 1 .. Len(l) : l[i].tag = "line"
        /\ e \in Queues /\ \A i \in 1 .. Len(e) : e[i].tag # "progress"
    BY <1>1, ReadTypes
  <1>3. PICK s : s = l \o e
    OBVIOUS
  <1>4. /\ s \in Queues /\ Len(s) = Len(l) + Len(e) /\ Len(l) \in Nat /\ Len(e) \in Nat
        /\ \A i \in 1 .. Len(l) : s[i] = l[i]
        /\ \A i \in 1 .. Len(e) : s[Len(l) + i] = e[i]
    BY <1>2, <1>3, Joined DEF Queues
  <1>5. \A i \in 1 .. Len(s) : (i \in 1 .. Len(l) /\ s[i] = l[i]) \/ \E j \in 1 .. Len(e) : s[i] = e[j]
    <2> SUFFICES ASSUME NEW i \in 1 .. Len(s), i \notin 1 .. Len(l) PROVE \E j \in 1 .. Len(e) : s[i] = e[j]
      BY <1>4
    <2>1. i - Len(l) \in 1 .. Len(e) /\ Len(l) + (i - Len(l)) = i
      BY <1>4
    <2> QED BY <1>4, <2>1
  <1>6. \A i \in 1 .. Len(s) : s[i].tag = "line" \/ \E j \in 1 .. Len(e) : s[i] = e[j]
    BY <1>2, <1>5
  <1>7. \A i \in 1 .. Len(s) : s[i].tag # "progress"
    BY <1>2, <1>6
  <1> QED BY <1>1, <1>3, <1>4, <1>6, <1>7

\* The marker is kept or set to the size that was read to the end.
LEMMA ReadMarkerIs ==
    ASSUME HInv, opened # NoFile
    PROVE  ReadMarker = ReadCursor.eof \/ (ReadMarker = opened.size /\ Advanced(disk[opened.file]) >= opened.size)
  <1> DEFINE adv == Advanced(disk[opened.file])
  <1>0. adv \in Nat /\ opened.size \in Nat
    BY ReadTypes, SizeIs DEF Advanced
  <1> HIDE DEF adv
  <1>1. ReadMode \in {"none", "suppress", "emit"} /\ (ReadMode # "none" => adv >= opened.size)
    BY <1>0 DEF ReadMode, EofMode, adv
  <1>2. CASE ReadMode = "none"
    BY <1>2 DEF ReadMarker, EofMarker
  <1>3. CASE ReadMode = "suppress"
    BY <1>1, <1>3 DEF ReadMarker, EofMarker, adv
  <1>4. CASE ReadMode = "emit"
    BY <1>1, <1>4 DEF ReadMarker, EofMarker, adv
  <1> QED BY <1>1, <1>2, <1>3, <1>4 DEF adv

LEMMA ReadKeepsEnds ==
    ASSUME HInv, RInv, EndsKept, Read
    PROVE  EndsKept'
  <1> DEFINE f == opened.file
             d == disk[f]
  <1>1. /\ opened # NoFile /\ opened' = NoFile /\ UNCHANGED <<disk, db, phase>>
        /\ cur' = IF HasMeta(d) THEN [cur EXCEPT ![f] = ReadNext] ELSE cur
        /\ \E q \in {chan, chan \o (ReadLines \o ReadEnd)} : chan' = q \/ chan' = Report(q, cur')
        /\ spliced' = IF opened.gen # d.gen \/ (ReadCursor.off > 0 /\ ReadCursor.mt # d.gen)
                      THEN spliced \cup {f} ELSE spliced
    BY ReadIs
  <1>2. /\ f \in Files /\ opened.size \in Nat /\ opened.gen \in Nat /\ opened.gen <= d.gen /\ d \in Rollouts
        /\ cur[f] \in FileCursors /\ ReadCursor \in FileCursors
    BY <1>1, ReadTypes
  <1>3. /\ disk \in [Files -> Rollouts] /\ cur \in Cursors /\ db.cur \in Cursors /\ chan \in Queues
        /\ ReportedIn(chan) \subseteq Cursors /\ spliced \subseteq spliced' /\ phase # "down"
    BY <1>1 DEF HInv, Types, ReportedIn, RInv, Reading
  <1>4. /\ d.gen \in Nat \ {0} /\ Size(d) \in Nat /\ Advanced(d) = 2 * Len(d.lines) /\ Advanced(d) \in Nat
    BY <1>2, SizeIs, RolloutIs DEF Advanced
  <1>5. ReadMarker = ReadCursor.eof \/ (ReadMarker = opened.size /\ Advanced(d) >= opened.size)
    BY <1>1, ReadMarkerIs
  <1>6. /\ cur[f].eof <= cur[f].size /\ cur[f].mt <= d.gen
        /\ f \notin spliced => cur[f].eof <= cur[f].off
        /\ f \notin spliced /\ cur[f].mt = d.gen => cur[f].off <= Advanced(d)
        /\ f \notin spliced /\ cur[f].mt = opened.gen => cur[f].size <= opened.size
        /\ opened.gen = d.gen => opened.size <= Size(d)
    <2>1. SoundFor(disk, spliced, cur, Delivered, f)
      BY <1>2 DEF HInv, Honest, Sound
    <2>2. f \notin spliced /\ cur[f].mt = d.gen => cur[f].off <= Advanced(d)
      BY <1>4, <2>1 DEF SoundFor
    <2> QED BY <1>1, <1>2, <2>1, <2>2 DEF EndsKept, Marked, SoundFor
  <1>7. \/ ReadCursor = cur[f] /\ (cur[f].size = 0 \/ opened.size >= cur[f].size)
        \/ ReadCursor.eof = 0 /\ ReadCursor.off = 0 /\ cur[f].size > opened.size
    BY <1>2 DEF ReadCursor, AfterTruncation, NewFileCursor, FileCursors
  <1>8. ReadMarker \in Nat /\ ReadMarker <= opened.size
    BY <1>2, <1>5, <1>6, <1>7 DEF FileCursors
  <1>9. f \notin spliced' => opened.gen = d.gen /\ (ReadCursor.off = 0 \/ ReadCursor.mt = d.gen) /\ f \notin spliced
    <2>1. ReadCursor.off \in Nat
      BY <1>2 DEF FileCursors
    <2> QED BY <1>1, <2>1
  <1>10. f \notin spliced' => ReadMarker <= Advanced(d)
    <2> HIDE DEF d, f
    <2> QED BY <1>2, <1>4, <1>5, <1>6, <1>7, <1>9 DEF FileCursors
  <1>11. f \notin spliced' /\ cur[f].mt = d.gen => cur[f].eof <= ReadMarker
    <2> HIDE DEF d, f
    <2> QED BY <1>2, <1>4, <1>5, <1>6, <1>7, <1>9 DEF FileCursors
  <1>12. PICK n : n = ReadNext
    OBVIOUS
  <1>13. /\ n.off = Advanced(d) /\ n.size = opened.size /\ n.mt = opened.gen /\ n.eof = ReadMarker
         /\ n \in FileCursors
    BY <1>2, <1>4, <1>8, <1>12 DEF ReadNext, FileCursors
  <1>14. /\ cur' \in Cursors /\ (cur'[f] = cur[f] \/ cur'[f] = n) /\ \A g \in Files \ {f} : cur'[g] = cur[g]
    BY <1>1, <1>2, <1>3, <1>12, <1>13 DEF Cursors
  <1> HIDE DEF d, f
  <1>15. Marked(disk, spliced', cur')
    <2> SUFFICES ASSUME NEW g \in Files
                 PROVE  /\ cur'[g].eof <= cur'[g].size
                        /\ g \notin spliced' => /\ cur'[g].eof <= cur'[g].off
                                                /\ cur'[g].mt = disk[g].gen => cur'[g].size <= Size(disk[g])
      BY DEF Marked
    <2>1. CASE cur'[g] = cur[g]
      BY <1>3, <2>1 DEF EndsKept, Marked
    <2>2. CASE cur'[g] # cur[g]
      <3>1. g = f /\ cur'[g] = n
        BY <1>14, <2>2
      <3>2. n.mt = d.gen => n.size <= Size(d)
        BY <1>6, <1>13
      <3> QED BY <1>8, <1>10, <1>13, <3>1, <3>2 DEF d
    <2> QED BY <2>1, <2>2
  <1>16. \A c \in Cursors : Marked(disk, spliced, c) => Marked(disk, spliced', c)
    BY <1>3 DEF Marked
  <1>17. ASSUME NEW c \in Cursors, Behind(spliced, c, cur) PROVE Behind(spliced', c, cur')
    <2> SUFFICES ASSUME NEW g \in Files \ spliced'
                 PROVE  c[g].mt <= cur'[g].mt /\ (c[g].mt = cur'[g].mt => c[g].eof <= cur'[g].eof)
      BY DEF Behind
    <2>1. g \notin spliced /\ c[g].mt <= cur[g].mt /\ (c[g].mt = cur[g].mt => c[g].eof <= cur[g].eof)
      BY <1>3, <1>17 DEF Behind
    <2>2. CASE cur'[g] = cur[g]
      BY <2>1, <2>2
    <2>3. CASE cur'[g] # cur[g]
      <3>1. g = f /\ cur'[g] = n
        BY <1>14, <2>3
      <3>2. c[g].mt \in Nat /\ c[g].eof \in Nat /\ cur[g].mt \in Nat /\ cur[g].eof \in Nat
        BY <1>2, <3>1 DEF Cursors, FileCursors
      <3>3. n.mt = d.gen
        BY <1>9, <1>13, <3>1
      <3>4. cur[f].mt = d.gen => cur[f].eof <= n.eof
        BY <1>11, <1>13, <3>1
      <3>5. cur[f].mt <= d.gen /\ n.eof \in Nat
        BY <1>6, <1>8, <1>13
      <3> QED BY <1>4, <2>1, <3>1, <3>2, <3>3, <3>4, <3>5
    <2> QED BY <2>2, <2>3
  <1>18. ReportedIn(chan') \subseteq ReportedIn(chan) \cup {cur'}
    <2>1. PICK s : s = ReadLines \o ReadEnd
      OBVIOUS
    <2>2. s \in Queues /\ \A i \in 1 .. Len(s) : s[i].tag # "progress"
      BY <1>1, <2>1, ReadSent
    <2>3. PICK q \in {chan, chan \o s} : chan' = q \/ chan' = Report(q, cur')
      BY <1>1, <2>1
    <2>4. q \in Queues /\ ReportedIn(q) \subseteq ReportedIn(chan)
      BY <1>3, <2>2, <2>3, Joined, ReportedSent
    <2>5. ReportedIn(Report(q, cur')) \subseteq ReportedIn(q) \cup {cur'}
      BY <1>14, <2>4, ReportIs DEF Reporting
    <2> QED BY <2>3, <2>4, <2>5
  <1>19. Behind(spliced', cur', cur')
    <2>1. \A g \in Files : cur'[g].mt \in Nat /\ cur'[g].eof \in Nat
      BY <1>14 DEF Cursors, FileCursors
    <2> QED BY <2>1 DEF Behind
  <1>20. /\ Marked(disk, spliced', db.cur) /\ Behind(spliced', db.cur, cur')
         /\ \A c \in ReportedIn(chan') : Marked(disk, spliced', c) /\ Behind(spliced', c, cur')
    <2>1. Marked(disk, spliced, db.cur) /\ Behind(spliced, db.cur, cur)
          /\ \A c \in ReportedIn(chan) : Marked(disk, spliced, c) /\ Behind(spliced, c, cur)
      BY <1>3 DEF EndsKept
    <2> QED BY <1>3, <1>15, <1>16, <1>17, <1>18, <1>19, <2>1
  <1> QED BY <1>1, <1>3, <1>15, <1>20 DEF EndsKept

LEMMA EndsInit == Init => EndsKept
  <1> SUFFICES ASSUME Init PROVE EndsKept
    OBVIOUS
  <1>1. disk \in [Files -> Rollouts] /\ cur = NewCursor /\ db.cur = NewCursor /\ chan = <<>> /\ opened = NoFile
        /\ phase = "down"
    BY HInit DEF Init, HInv, Types
  <1>2. ReportedIn(<<>>) = {}
    BY DEF ReportedIn
  <1>3. Marked(disk, spliced, NewCursor)
    <2>1. \A f \in Files : Size(disk[f]) \in Nat /\ disk[f].gen \in Nat \ {0}
      BY <1>1, SizeIs, RolloutIs
    <2> QED BY <2>1 DEF Marked, NewCursor, NewFileCursor
  <1> QED BY <1>1, <1>2, <1>3 DEF EndsKept

LEMMA EndsStep ==
    ASSUME HInv, RInv, EndsKept, [Next]_tvars
    PROVE  EndsKept'
  <1>0. HInv'
    BY HStep
  <1>1. ASSUME NEW d \in Days, MakeDay(d) \/ TakeDay(d) PROVE EndsKept'
    BY <1>1, SameKeeps DEF MakeDay, TakeDay, tail, ghosts, world
  <1>2. ASSUME NEW f \in Files, (\E k \in Kinds : WriteLine(f, k)) \/ WritePart(f) \/ Truncate(f) \/ GoStale(f)
        PROVE  EndsKept'
    BY <1>0, <1>2, WritesWiden
  <1>3. ASSUME NEW f \in Files, Skip(f) \/ ReadFails(f) \/ TakeFile(f)
        PROVE  EndsKept'
    BY <1>3, SameKeeps DEF Skip, ReadFails, TakeFile, ghosts, world
  <1>4. ASSUME NEW f \in Files, Open(f) PROVE EndsKept'
    BY <1>4, OpenKeepsEnds
  <1>5. CASE Flush \/ Overflow \/ RestartTail
    <2>1. /\ UNCHANGED <<disk, cur, db, chan, spliced>> /\ opened' \in {opened, NoFile}
          /\ phase # "down" /\ phase' # "down"
      BY <1>5 DEF Flush, Overflow, RestartTail, tail, ghosts, world, Tailing
    <2> QED BY <2>1, SameKeeps
  <1>6. CASE EndScan \/ EndFlush \/ Tick
    <2>1. /\ UNCHANGED <<disk, db, cur, opened, spliced>> /\ chan' = Report(chan, cur)
          /\ phase # "down" /\ phase' # "down"
      BY <1>6 DEF EndScan, EndFlush, Tick, ghosts, world
    <2> QED BY <2>1, ReportsKeepEnds
  <1>7. CASE UNCHANGED tvars
    BY <1>7, SameKeeps DEF tvars
  <1>8. CASE Read \/ StartScan \/ Crash \/ Commit
    BY <1>8, ReadKeepsEnds, StartScanKeepsEnds, CrashKeepsEnds, CommitKeepsEnds
  <1> QED BY <1>1, <1>2, <1>3, <1>4, <1>5, <1>6, <1>7, <1>8 DEF Next

\* What EofNotRepeated says of a step.
DecidedOnce ==
    \A i \in DOMAIN chan' \ DOMAIN chan :
       LET x == chan'[i]
           c == db.cur[x.file]
           lines == disk[x.file].lines
       IN  x.tag = "eof" /\ x.file \notin spliced' /\ c.mt = x.gen /\ c.eof >= 2 * x.line =>
              \E n \in DOMAIN lines : 2 * n > c.eof /\ lines[n] # "quiet"

LEMMA NoneDecided ==
    ASSUME \A i \in DOMAIN chan' \ DOMAIN chan : chan'[i].tag # "eof"
    PROVE  DecidedOnce
  BY DEF DecidedOnce

LEMMA ReportDecidesNone ==
    ASSUME HInv, chan' = Report(chan, cur)
    PROVE  DecidedOnce
  <1>1. chan \in Queues /\ cur \in Cursors
    BY DEF HInv, Types
  <1>2. Reporting(chan, cur, chan')
    BY <1>1, ReportIs
  <1>3. DOMAIN chan = 1 .. Len(chan) /\ DOMAIN chan' = 1 .. Len(chan')
    BY <1>1, <1>2 DEF Reporting, Queues
  <1> QED BY <1>2, <1>3, NoneDecided DEF Reporting

LEMMA CommitDecidesNone ==
    ASSUME HInv, Commit
    PROVE  DecidedOnce
  <1>1. chan \in Queues /\ chan # <<>> /\ chan' = Tail(chan)
    BY DEF Commit, HInv, Types
  <1>2. chan' \in Queues /\ Len(chan') = Len(chan) - 1 /\ Len(chan) \in Nat
    BY <1>1, HeadTaken
  <1>3. DOMAIN chan = 1 .. Len(chan) /\ DOMAIN chan' = 1 .. Len(chan')
    BY <1>1, <1>2 DEF Queues
  <1>4. DOMAIN chan' \subseteq DOMAIN chan
    BY <1>2, <1>3
  <1> QED BY <1>4, NoneDecided

\* Only a read decides, and only in a rollout whose marker content has passed.
LEMMA ReadDecides ==
    ASSUME HInv, RInv, EndsKept, Read
    PROVE  DecidedOnce
  <1> DEFINE f == opened.file
             d == disk[f]
  <1>1. /\ opened # NoFile
        /\ \E q \in {chan, chan \o (ReadLines \o ReadEnd)} : chan' = q \/ chan' = Report(q, cur')
        /\ spliced' = IF opened.gen # d.gen \/ (ReadCursor.off > 0 /\ ReadCursor.mt # d.gen)
                      THEN spliced \cup {f} ELSE spliced
    BY ReadIs
  <1>2. /\ f \in Files /\ opened.size \in Nat /\ opened.gen \in Nat /\ d \in Rollouts
        /\ cur[f] \in FileCursors /\ ReadCursor \in FileCursors
    BY <1>1, ReadTypes
  <1>3. chan \in Queues /\ cur \in Cursors /\ cur' \in Cursors /\ db.cur \in Cursors /\ phase # "down"
    <2>1. HInv'
      BY HStep DEF Next
    <2> QED BY <1>1, <2>1 DEF HInv, Types, RInv, Reading
  <1>4. ASSUME NEW i \in DOMAIN chan' \ DOMAIN chan, chan'[i].tag = "eof"
        PROVE  \E j \in 1 .. Len(ReadEnd) : chan'[i] = ReadEnd[j]
    <2>1. PICK s : s = ReadLines \o ReadEnd
      OBVIOUS
    <2>2. /\ s \in Queues /\ \A k \in 1 .. Len(s) : s[k].tag # "progress"
          /\ \A k \in 1 .. Len(s) : s[k].tag = "line" \/ \E j \in 1 .. Len(ReadEnd) : s[k] = ReadEnd[j]
      BY <1>1, <2>1, ReadSent
    <2>3. PICK q \in {chan, chan \o s} : chan' = q \/ chan' = Report(q, cur')
      BY <1>1, <2>1
    <2>4. /\ q \in Queues /\ Len(q) \in Nat /\ Len(chan) \in Nat
          /\ \A k \in 1 .. Len(q) : k \in 1 .. Len(chan) \/ \E m \in 1 .. Len(s) : q[k] = s[m]
      <3>1. CASE q = chan
        BY <1>3, <3>1 DEF Queues
      <3>2. CASE q = chan \o s
        <4>1. /\ q \in Queues /\ Len(q) = Len(chan) + Len(s) /\ Len(chan) \in Nat /\ Len(s) \in Nat
              /\ \A k \in 1 .. Len(s) : q[Len(chan) + k] = s[k]
          BY <1>3, <2>2, <3>2, Joined DEF Queues
        <4>2. ASSUME NEW k \in 1 .. Len(q), k \notin 1 .. Len(chan) PROVE \E m \in 1 .. Len(s) : q[k] = s[m]
          <5>1. k - Len(chan) \in 1 .. Len(s) /\ Len(chan) + (k - Len(chan)) = k
            BY <4>1, <4>2
          <5> QED BY <4>1, <5>1
        <4> QED BY <4>1, <4>2
      <3> QED BY <2>3, <3>1, <3>2
    <2>5. DOMAIN chan = 1 .. Len(chan) /\ DOMAIN q = 1 .. Len(q)
      BY <1>3, <2>4 DEF Queues
    <2>6. i \in 1 .. Len(q) /\ chan'[i] = q[i]
      <3>1. CASE chan' = q
        BY <2>5, <3>1
      <3>2. CASE chan' = Report(q, cur')
        <4>1. Reporting(q, cur', chan')
          BY <1>3, <2>4, <3>2, ReportIs
        <4>2. DOMAIN chan' = 1 .. Len(chan')
          BY <4>1 DEF Reporting, Queues
        <4> QED BY <1>4, <4>1, <4>2 DEF Reporting
      <3> QED BY <2>3, <3>1, <3>2
    <2>7. PICK m \in 1 .. Len(s) : chan'[i] = s[m]
      BY <2>4, <2>5, <2>6
    <2> QED BY <1>4, <2>2, <2>7
  <1>5. PICK t : t = OpenTurn(d.lines, Len(d.lines))
    OBVIOUS
  <1>6. t \in Nat /\ Len(d.lines) \in Nat
    BY <1>2, <1>5, OpenTurnIs, RolloutIs
  <1>7. ASSUME NEW x, \E j \in 1 .. Len(ReadEnd) : x = ReadEnd[j]
        PROVE  ReadMode = "emit" /\ x.file = f /\ x.gen = d.gen /\ x.line = t /\ t > 0
    <2>1. ReadMode = "emit" /\ t # 0 /\ ReadEnd = <<Item("eof", f, d.gen, t)>>
      BY <1>5, <1>7 DEF ReadEnd, EofItems
    <2>2. x = Item("eof", f, d.gen, t)
      BY <1>7, <2>1
    <2> QED BY <1>6, <2>1, <2>2 DEF Item
  <1> DEFINE c == db.cur[f]
  <1>8. ASSUME ReadMode = "emit", t > 0, f \notin spliced', c.mt = d.gen, c.eof >= 2 * t
        PROVE  \E n \in DOMAIN d.lines : 2 * n > c.eof /\ d.lines[n] # "quiet"
    <2> DEFINE p == cur[f]
    <2>1. f \notin spliced /\ opened.gen = d.gen
      BY <1>1, <1>8
    <2>2. /\ p.off \in Nat /\ p.size \in Nat /\ p.eof \in Nat /\ p.mt \in Nat
          /\ c.eof \in Nat /\ c.mt \in Nat /\ d.gen \in Nat
      BY <1>2, <1>3, RolloutIs DEF Cursors, FileCursors
    <2>3. c.mt <= p.mt /\ (c.mt = p.mt => c.eof <= p.eof)
      BY <1>2, <1>3, <2>1 DEF EndsKept, Behind
    <2>4. p.mt <= d.gen
      BY <1>2, NotAhead
    <2>5. p.mt = d.gen /\ c.eof <= p.eof /\ p.eof > 0
      BY <1>6, <1>8, <2>2, <2>3, <2>4
    <2>6. p.eof <= p.size /\ p.eof <= p.off /\ p.size <= opened.size
      BY <1>1, <1>2, <2>1, <2>5 DEF EndsKept, Marked
    <2>7. ReadCursor = p
      BY <1>2, <2>2, <2>6 DEF ReadCursor, AfterTruncation
    <2>8. PICK from : from = From(cur, f, opened.size)
      OBVIOUS
    <2>9. from = p.off \/ from = opened.size
      BY <2>7, <2>8 DEF From, ReadCursor
    <2>10. Emitted(d, from) # {} /\ p.eof # opened.size
      <3> DEFINE adv == Advanced(d)
      <3>1. adv \in Nat
        BY <1>2, SizeIs DEF Advanced
      <3>2. EofMode(p, opened.size, adv, Emitted(d, from) # {}) = "emit"
        BY <1>8, <2>7, <2>8 DEF ReadMode
      <3> HIDE DEF adv, p, d
      <3>3. adv >= opened.size
        BY <1>2, <3>1, <3>2 DEF EofMode
      <3>4. ~(p.eof > 0 /\ (p.eof = opened.size \/ (opened.size > p.eof /\ ~(Emitted(d, from) # {}))))
        BY <1>2, <3>1, <3>2, <3>3 DEF EofMode
      <3> QED BY <1>2, <2>2, <2>5, <2>6, <3>4
    <2>11. PICK n \in DOMAIN d.lines : 2 * (n - 1) >= from /\ d.lines[n] # "quiet"
      BY <2>10 DEF Emitted
    <2>12. n \in Nat
      BY <1>2, RolloutIs
    <2>13. 2 * n > c.eof
      <3> HIDE DEF p, c, d
      <3> QED BY <1>2, <2>2, <2>5, <2>6, <2>9, <2>11, <2>12
    <2> QED BY <2>11, <2>13
  <1> SUFFICES ASSUME NEW i \in DOMAIN chan' \ DOMAIN chan, chan'[i].tag = "eof", chan'[i].file \notin spliced',
                      db.cur[chan'[i].file].mt = chan'[i].gen,
                      db.cur[chan'[i].file].eof >= 2 * chan'[i].line
               PROVE  \E n \in DOMAIN disk[chan'[i].file].lines :
                         2 * n > db.cur[chan'[i].file].eof /\ disk[chan'[i].file].lines[n] # "quiet"
    BY DEF DecidedOnce
  <1>9. ReadMode = "emit" /\ chan'[i].file = f /\ chan'[i].gen = d.gen /\ chan'[i].line = t /\ t > 0
    BY <1>4, <1>7
  <1> QED BY <1>8, <1>9

LEMMA StepDecides == HInv /\ RInv /\ EndsKept /\ [Next]_tvars => DecidedOnce
  <1> SUFFICES ASSUME HInv, RInv, EndsKept, [Next]_tvars PROVE DecidedOnce
    OBVIOUS
  <1>1. CASE Read
    BY <1>1, ReadDecides
  <1>2. CASE Commit
    BY <1>2, CommitDecidesNone
  <1>3. CASE EndScan \/ EndFlush \/ Tick
    BY <1>3, ReportDecidesNone DEF EndScan, EndFlush, Tick
  <1>4. CASE Crash
    <2>1. chan' = <<>>
      BY <1>4 DEF Crash
    <2> QED BY <2>1, NoneDecided
  <1>5. CASE chan' = chan
    BY <1>5, NoneDecided
  <1>6. ASSUME NEW d \in Days, MakeDay(d) \/ TakeDay(d) PROVE chan' = chan
    BY <1>6 DEF MakeDay, TakeDay
  <1>7. ASSUME NEW f \in Files,
               \/ (\E k \in Kinds : WriteLine(f, k)) \/ WritePart(f) \/ Truncate(f) \/ GoStale(f)
               \/ Skip(f) \/ Open(f) \/ ReadFails(f) \/ TakeFile(f)
        PROVE  chan' = chan
    BY <1>7 DEF WriteLine, WritePart, Truncate, GoStale, Changed, Skip, Open, ReadFails, TakeFile
  <1>8. CASE StartScan \/ Flush \/ Overflow \/ RestartTail \/ UNCHANGED tvars
    BY <1>5, <1>8 DEF StartScan, Flush, Overflow, RestartTail, tvars
  <1> QED BY <1>1, <1>2, <1>3, <1>4, <1>5, <1>6, <1>7, <1>8 DEF Next

\* What was decided at the end of a rollout is not decided again without new content, in this
\* process or after a restart (eofMode, eofAlreadyFinalized, advanceSuppressedEOFMarker), for
\* any number of rollouts.
THEOREM EndDecidedOnce == Spec => EofNotRepeated
  <1>1. Init => HInv /\ RInv /\ EndsKept
    BY HInit, RInit, EndsInit
  <1>2. HInv /\ RInv /\ EndsKept /\ [Next]_tvars => (HInv /\ RInv /\ EndsKept)'
    BY HStep, RStep, EndsStep
  <1>3. HInv /\ RInv /\ EndsKept /\ [Next]_tvars => [DecidedOnce]_chan
    BY StepDecides
  <1> QED BY <1>1, <1>2, <1>3, PTL DEF Spec, EofNotRepeated, DecidedOnce

-----------------------------------------------------------------------------
(* The invariant of ClaudeTail.                                            *)

Entries == {"call", "result", "text", "work"} \X Agents
Transcripts == [lines : Seq(Entries), part : BOOLEAN, gen : Nat \ {0}, written : Nat]
Positions == [off : Nat, size : Nat, gen : Nat \ {0}]
SessionCursors == [at : [Scripts -> Positions], meta : SUBSET Agents, parked : SUBSET Agents, fin : SUBSET Agents]
Deferrals == [pend : SUBSET Agents, compl : SUBSET Agents, fin : SUBSET Agents]
Sendings == [tag : {"rows"}, lines : SUBSET (Scripts \X Nat \X Nat), rows : SUBSET Scripts,
             named : SUBSET Agents, closed : SUBSET Agents]
Savings == [tag : {"progress"}, cur : SessionCursors]
Wires == Seq(Sendings \cup Savings)
Stages == {"off", "scan", "scanned", "watching", "idle", "flush"}

SessionTypes ==
    /\ scripts \in [Scripts -> Transcripts] /\ scripts[Main].gen = 1
    /\ sidecars \subseteq Agents /\ stage \in Stages /\ left \subseteq Scripts
    /\ cache = NotRead \/ \E s \in SUBSET sidecars : cache = <<s>>
    /\ ccur \in SessionCursors /\ scanCur \in SessionCursors /\ def \in Deferrals
    /\ eyes \in BOOLEAN /\ news \in BOOLEAN /\ rewound \in BOOLEAN
    /\ marks \in [scripts : SUBSET Scripts, metas : SUBSET sidecars]
    /\ store = [seen |-> store.seen, rows |-> store.rows, named |-> store.named, closed |-> store.closed, cur |-> store.cur]
    /\ store.cur \in SessionCursors /\ wire \in Wires /\ torn \subseteq Agents

\* A report ends what one step sends.
ReportsEnd(q) == \A i \in 1 .. Len(q) : q[i].tag = "progress" => i = Len(q)

\* The cursor is at the end of a finished sub-agent.
Ended(d, c, a) ==
    /\ c.at[a].gen = d[a].gen /\ c.at[a].off > 0 /\ c.at[a].off >= c.at[a].size
    /\ d[a].lines[c.at[a].off \div 2][1] = "text"

\* What a cursor's position p in transcript x says of it: everything before it was delivered.
PositionSound(d, tn, p, seen, x) ==
    /\ p.gen <= d[x].gen /\ p.off <= p.size
    /\ \E k \in Nat : p.off = 2 * k
    /\ p.gen = d[x].gen =>
         /\ p.size <= Bytes(d[x])
         /\ x \notin tn => \A n \in DOMAIN d[x].lines : 2 * n <= p.off => <<x, d[x].gen, n>> \in seen

ResultShown(d, seen, a) ==
    \E n \in DOMAIN d[Main].lines : d[Main].lines[n] = <<"result", a>> /\ <<Main, d[Main].gen, n>> \in seen

\* What cursor c, with completions parked and spent, says of the transcripts d, of what was
\* delivered and of the faults.
Kept(d, tn, c, all) == \A a \in Agents \ tn : Ended(d, c, a) => a \in all
Owed(d, tn, c, open) == \A a \in open : Ended(d, c, a) \/ a \in tn \/ c.at[a].gen # d[a].gen
Spent(d, fin, had) == \A a \in fin : a \in had.closed \/ ResultShown(d, had.seen, a)
Carries(d, tn, dm, c, parked, fin, had) ==
    /\ \A x \in Scripts : PositionSound(d, tn, c.at[x], had.seen, x)
    /\ Kept(d, tn, c, parked \cup fin) /\ Owed(d, tn, c, parked \ fin) /\ Spent(d, fin, had)
    /\ c.meta \ dm \subseteq had.named

\* What is delivered once a queue is committed.
In(q, field) == UNION {q[i][field] : i \in SentRows(q)}
Had(st, q) == [seen |-> st.seen \cup In(q, "lines"), named |-> st.named \cup In(q, "named"),
               closed |-> st.closed \cup In(q, "closed")]
NoLess(h, k) == h.seen \subseteq k.seen /\ h.named \subseteq k.named /\ h.closed \subseteq k.closed

SavingsIn(q) == {c \in SessionCursors : \E i \in 1 .. Len(q) : q[i].tag = "progress" /\ q[i].cur = c}
RowsIn(q) == {m \in Sendings : \E i \in 1 .. Len(q) : q[i] = m}

Carried ==
    /\ Carries(scripts, torn, dim, store.cur, store.cur.parked, store.cur.fin, store)
    /\ \A c \in SavingsIn(wire) : Carries(scripts, torn, dim, c, c.parked, c.fin, Had(store, wire))
    /\ Carries(scripts, torn, dim, scanCur, scanCur.parked, scanCur.fin, Had(store, wire))
    /\ Carries(scripts, torn, dim, ccur, def.compl, def.fin, Had(store, wire))

\* The cursor and the deferral in memory agree while no pass runs.
InStep ==
    /\ stage \in {"watching", "idle"} => ccur.fin = def.fin /\ ccur.parked \ ccur.fin = def.compl \ def.fin
    /\ stage = "watching" => def.pend = {}
    /\ stage = "idle" => ccur.parked \cap def.pend = {}

\* What a cursor has as spent is not forgotten, unless the tail is replaced.
SpentOnce ==
    ~rewound /\ stage # "off" =>
       /\ store.cur.fin \subseteq def.fin
       /\ \A c \in SavingsIn(wire) : c.fin \subseteq def.fin
       /\ stage = "scanned" => def.fin = scanCur.fin

\* A sub-agent with a row has a transcript or a name; a flush knows the sidecars it is not
\* told of, and who has a row then has a name.
RowsFounded(there, st, q) ==
    /\ \A a \in Agents \cap st.rows : a \in there \cup st.named
    /\ \A m \in RowsIn(q) : \A a \in Agents \cap m.rows : a \in there \cup st.named \cup m.named
Told(a) == a \in marks.metas \/ news \/ ~eyes \/ a \in dim
Naming ==
    /\ RowsFounded(OnDisk, store, wire)
    /\ stage \in {"idle", "flush"} =>
          \A a \in sidecars : a \in Rows => a \in Named \/ Told(a)
    /\ stage = "flush" /\ cache # NotRead => \A a \in sidecars : a \in cache[1] \/ Told(a)

\* A line not read yet is in the pass, or the tail is told of it or will be.
Awaited(x) == x \in marks.scripts \/ (x # Main /\ (news \/ ~eyes))
Following ==
    /\ stage \notin {"scan", "flush"} => left = {}
    /\ stage \in {"idle", "flush"} =>
          \A x \in Scripts \ missed :
             ccur.at[x].off < 2 * Len(scripts[x].lines) => x \in left \/ Awaited(x)

SInv == SessionTypes /\ ReportsEnd(wire) /\ Carried /\ InStep /\ SpentOnce /\ Naming /\ Following

-----------------------------------------------------------------------------
(* Transcripts that grow.                                                   *)

Lengthens(d, e) ==
    /\ e[Main].gen = d[Main].gen
    /\ \A x \in Scripts :
        \/ d[x].gen < e[x].gen
        \/ /\ e[x].gen = d[x].gen /\ Len(d[x].lines) <= Len(e[x].lines) /\ Bytes(d[x]) <= Bytes(e[x])
           /\ \A n \in 1 .. Len(d[x].lines) : e[x].lines[n] = d[x].lines[n]

LEMMA TranscriptIs ==
    ASSUME NEW t \in Transcripts
    PROVE  /\ t.lines \in Seq(Entries) /\ Len(t.lines) \in Nat /\ DOMAIN t.lines = 1 .. Len(t.lines)
           /\ t.gen \in Nat \ {0} /\ Bytes(t) \in Nat /\ t.part \in BOOLEAN /\ t.written \in Nat
           /\ 2 * Len(t.lines) <= Bytes(t) /\ Bytes(t) <= 2 * Len(t.lines) + 1
           /\ ~t.part => Bytes(t) = 2 * Len(t.lines)
  <1>1. t.lines \in Seq(Entries) /\ t.part \in BOOLEAN /\ t.gen \in Nat \ {0} /\ t.written \in Nat
    BY DEF Transcripts
  <1>2. Len(t.lines) \in Nat /\ DOMAIN t.lines = 1 .. Len(t.lines)
    BY <1>1
  <1>3. CASE t.part
    <2>1. Bytes(t) = 2 * Len(t.lines) + 1
      BY <1>3 DEF Bytes
    <2> QED BY <1>1, <1>2, <1>3, <2>1
  <1>4. CASE ~t.part
    <2>1. Bytes(t) = 2 * Len(t.lines)
      BY <1>2, <1>4 DEF Bytes
    <2> QED BY <1>1, <1>2, <1>4, <2>1
  <1> QED BY <1>3, <1>4

\* Half an even number, and what it bounds.
LEMMA Halves ==
    /\ \A o \in Nat : \A k \in Nat : o = 2 * k => o \div 2 = k
    /\ \A k \in Nat : (2 * k) \div 2 = k
  OBVIOUS

LEMMA PositionGrows ==
    ASSUME NEW d \in [Scripts -> Transcripts], NEW e \in [Scripts -> Transcripts], Lengthens(d, e),
           NEW tn, NEW tm, tn \subseteq tm, NEW S, NEW T, S \subseteq T,
           NEW x \in Scripts, NEW p \in Positions, PositionSound(d, tn, p, S, x)
    PROVE  PositionSound(e, tm, p, T, x)
  <1>1. /\ d[x].gen \in Nat /\ e[x].gen \in Nat /\ p.gen \in Nat /\ p.off \in Nat /\ p.size \in Nat
        /\ Len(d[x].lines) \in Nat /\ Len(e[x].lines) \in Nat /\ Bytes(d[x]) \in Nat /\ Bytes(e[x]) \in Nat
        /\ DOMAIN d[x].lines = 1 .. Len(d[x].lines) /\ DOMAIN e[x].lines = 1 .. Len(e[x].lines)
        /\ Bytes(d[x]) <= 2 * Len(d[x].lines) + 1
    BY TranscriptIs DEF Positions
  <1>2. /\ p.gen <= d[x].gen /\ p.off <= p.size /\ \E k \in Nat : p.off = 2 * k
        /\ p.gen = d[x].gen =>
             /\ p.size <= Bytes(d[x])
             /\ x \notin tn => \A n \in DOMAIN d[x].lines : 2 * n <= p.off => <<x, d[x].gen, n>> \in S
    BY DEF PositionSound
  <1>3. CASE d[x].gen < e[x].gen
    <2>1. p.gen <= e[x].gen /\ p.gen # e[x].gen
      BY <1>1, <1>2, <1>3
    <2> QED BY <1>2, <2>1 DEF PositionSound
  <1>4. CASE /\ e[x].gen = d[x].gen /\ Len(d[x].lines) <= Len(e[x].lines) /\ Bytes(d[x]) <= Bytes(e[x])
    <2>1. ASSUME p.gen = e[x].gen, x \notin tm, NEW n \in DOMAIN e[x].lines, 2 * n <= p.off
          PROVE  <<x, e[x].gen, n>> \in T
      <3>1. p.off <= Bytes(d[x])
        BY <1>1, <1>2, <1>4, <2>1
      <3>2. n \in DOMAIN d[x].lines
        BY <1>1, <2>1, <3>1
      <3> QED BY <1>2, <1>4, <2>1, <3>2
    <2>2. ASSUME p.gen = e[x].gen PROVE p.size <= Bytes(e[x])
      <3>1. p.size <= Bytes(d[x])
        BY <1>2, <1>4, <2>2
      <3> QED BY <1>1, <1>4, <3>1
    <2> QED BY <1>2, <1>4, <2>1, <2>2 DEF PositionSound
  <1> QED BY <1>3, <1>4 DEF Lengthens

\* A finished sub-agent stays finished, and was so before, unless its transcript was cut.
LEMMA EndedGrows ==
    ASSUME NEW d \in [Scripts -> Transcripts], NEW e \in [Scripts -> Transcripts], Lengthens(d, e),
           NEW c \in SessionCursors, NEW a \in Agents, NEW tn, NEW S, PositionSound(d, tn, c.at[a], S, a)
    PROVE  /\ Ended(e, c, a) => Ended(d, c, a)
           /\ Ended(d, c, a) => Ended(e, c, a) \/ c.at[a].gen # e[a].gen
           /\ c.at[a].gen # d[a].gen => c.at[a].gen # e[a].gen
  <1> DEFINE p == c.at[a]
  <1>0. a \in Scripts
    BY DEF Scripts
  <1>1. /\ d[a].gen \in Nat /\ e[a].gen \in Nat /\ p.gen \in Nat /\ p.off \in Nat /\ p.size \in Nat
        /\ Len(d[a].lines) \in Nat /\ Len(e[a].lines) \in Nat /\ Bytes(d[a]) \in Nat
        /\ Bytes(d[a]) <= 2 * Len(d[a].lines) + 1
    BY <1>0, TranscriptIs DEF Positions, SessionCursors
  <1>2. /\ p.gen <= d[a].gen /\ p.off <= p.size
        /\ p.gen = d[a].gen => p.size <= Bytes(d[a])
    BY DEF PositionSound
  <1>3. PICK k \in Nat : p.off = 2 * k
    BY DEF PositionSound
  <1>4. CASE d[a].gen < e[a].gen
    <2>1. p.gen # e[a].gen
      BY <1>1, <1>2, <1>4
    <2> QED BY <2>1 DEF Ended
  <1>5. CASE /\ e[a].gen = d[a].gen /\ \A n \in 1 .. Len(d[a].lines) : e[a].lines[n] = d[a].lines[n]
    <2>1. CASE p.gen = d[a].gen /\ p.off > 0
      <3>1. p.off \div 2 = k
        BY <1>1, <1>3, Halves
      <3>2. k \in 1 .. Len(d[a].lines)
        <4> HIDE DEF p
        <4> QED BY <1>1, <1>2, <1>3, <2>1
      <3>3. e[a].lines[p.off \div 2] = d[a].lines[p.off \div 2]
        BY <1>5, <3>1, <3>2
      <3> QED BY <1>5, <3>3 DEF Ended
    <2>2. CASE p.gen # d[a].gen \/ ~(p.off > 0)
      BY <1>5, <2>2 DEF Ended
    <2> QED BY <2>1, <2>2
  <1> QED BY <1>0, <1>4, <1>5 DEF Lengthens

LEMMA CarriesGrows ==
    ASSUME NEW d \in [Scripts -> Transcripts], NEW e \in [Scripts -> Transcripts], Lengthens(d, e),
           NEW tn, NEW tm, tn \subseteq tm, NEW dm, NEW dn, dm \subseteq dn,
           NEW h, NEW k, NoLess(h, k), NEW c \in SessionCursors,
           NEW parked \in SUBSET Agents, NEW fin \in SUBSET Agents, Carries(d, tn, dm, c, parked, fin, h)
    PROVE  Carries(e, tm, dn, c, parked, fin, k)
  <1>1. \A x \in Scripts : PositionSound(e, tm, c.at[x], k.seen, x)
    <2> TAKE x \in Scripts
    <2>1. c.at[x] \in Positions /\ PositionSound(d, tn, c.at[x], h.seen, x) /\ h.seen \subseteq k.seen
      BY DEF Carries, SessionCursors, NoLess
    <2> QED BY <2>1, PositionGrows
  <1>2. ASSUME NEW a \in Agents
        PROVE  /\ Ended(e, c, a) => Ended(d, c, a)
               /\ Ended(d, c, a) => Ended(e, c, a) \/ c.at[a].gen # e[a].gen
               /\ c.at[a].gen # d[a].gen => c.at[a].gen # e[a].gen
    <2>1. PositionSound(d, tn, c.at[a], h.seen, a)
      BY DEF Carries, Scripts
    <2> QED BY <2>1, EndedGrows
  <1>3. Kept(e, tm, c, parked \cup fin)
    BY <1>2 DEF Carries, Kept
  <1>4. Owed(e, tm, c, parked \ fin)
    <2> SUFFICES ASSUME NEW a \in parked \ fin PROVE Ended(e, c, a) \/ a \in tm \/ c.at[a].gen # e[a].gen
      BY DEF Owed
    <2>1. Ended(d, c, a) \/ a \in tn \/ c.at[a].gen # d[a].gen
      BY DEF Carries, Owed
    <2> QED BY <1>2, <2>1
  <1>5. Spent(e, fin, k)
    <2> SUFFICES ASSUME NEW a \in fin PROVE a \in k.closed \/ ResultShown(e, k.seen, a)
      BY DEF Spent
    <2>1. a \in h.closed \/ ResultShown(d, h.seen, a)
      BY DEF Carries, Spent
    <2>2. ASSUME ResultShown(d, h.seen, a) PROVE ResultShown(e, k.seen, a)
      <3>1. PICK n \in DOMAIN d[Main].lines : d[Main].lines[n] = <<"result", a>> /\ <<Main, d[Main].gen, n>> \in h.seen
        BY <2>2 DEF ResultShown
      <3>2. /\ Main \in Scripts /\ d[Main].gen \in Nat /\ Len(d[Main].lines) \in Nat /\ Len(e[Main].lines) \in Nat
            /\ DOMAIN d[Main].lines = 1 .. Len(d[Main].lines) /\ DOMAIN e[Main].lines = 1 .. Len(e[Main].lines)
        BY TranscriptIs DEF Scripts
      <3>3. /\ e[Main].gen = d[Main].gen /\ Len(d[Main].lines) <= Len(e[Main].lines)
            /\ \A m \in 1 .. Len(d[Main].lines) : e[Main].lines[m] = d[Main].lines[m]
        BY <3>2 DEF Lengthens
      <3>4. n \in DOMAIN e[Main].lines /\ e[Main].lines[n] = <<"result", a>>
        BY <3>1, <3>2, <3>3
      <3>5. <<Main, e[Main].gen, n>> \in k.seen
        BY <3>1, <3>3 DEF NoLess
      <3> QED BY <3>4, <3>5 DEF ResultShown
    <2> QED BY <2>1, <2>2 DEF NoLess
  <1>6. c.meta \ dn \subseteq k.named
    BY DEF Carries, NoLess
  <1> QED BY <1>1, <1>3, <1>4, <1>5, <1>6 DEF Carries

\* A cursor at the start of every transcript says nothing.
LEMMA EmptyCarries ==
    ASSUME NEW d \in [Scripts -> Transcripts], NEW tn, NEW dm, NEW h
    PROVE  EmptyCursor \in SessionCursors /\ Carries(d, tn, dm, EmptyCursor, {}, {}, h)
  <1>1. EmptyCursor \in SessionCursors
    BY DEF EmptyCursor, SessionCursors, Positions, Unread
  <1>2. /\ \A x \in Scripts : EmptyCursor.at[x] = Unread
        /\ EmptyCursor.meta = {} /\ Unread.off = 0 /\ Unread.size = 0 /\ Unread.gen = 1
    BY DEF EmptyCursor, Unread
  <1>3. ASSUME NEW x \in Scripts PROVE PositionSound(d, tn, Unread, h.seen, x)
    <2>1. /\ d[x].gen \in Nat \ {0} /\ Bytes(d[x]) \in Nat
          /\ DOMAIN d[x].lines = 1 .. Len(d[x].lines) /\ Len(d[x].lines) \in Nat
      BY TranscriptIs
    <2> QED BY <1>2, <2>1 DEF PositionSound
  <1>4. \A a \in Agents : ~Ended(d, EmptyCursor, a)
    BY <1>2 DEF Ended, Scripts
  <1> QED BY <1>1, <1>2, <1>3, <1>4 DEF Carries, Kept, Owed, Spent

-----------------------------------------------------------------------------
(* What is sent.                                                            *)

LEMMA NothingSent ==
    /\ <<>> \in Wires /\ <<>> \in Seq(Sendings) /\ ReportsEnd(<<>>) /\ SavingsIn(<<>>) = {} /\ RowsIn(<<>>) = {}
    /\ \A f : In(<<>>, f) = {}
    /\ \A st : NoLess(st, Had(st, <<>>)) /\ NoLess(Had(st, <<>>), st)
  <1>1. <<>> \in Wires /\ <<>> \in Seq(Sendings) /\ ReportsEnd(<<>>) /\ SavingsIn(<<>>) = {} /\ RowsIn(<<>>) = {}
    BY DEF Wires, ReportsEnd, SavingsIn, RowsIn
  <1>2. \A f : In(<<>>, f) = {}
    BY DEF In, SentRows
  <1> QED BY <1>1, <1>2 DEF Had, NoLess

\* What a batch is, named.
IsBatch(b, l, r, n, c) ==
    /\ b \in Seq(Sendings)
    /\ In(b, "lines") = l /\ In(b, "rows") = r /\ In(b, "named") = n /\ In(b, "closed") = c
    /\ \A m \in RowsIn(b) : m.rows = r /\ m.named = n /\ m.closed = c

LEMMA BatchIs ==
    ASSUME NEW l \in SUBSET (Scripts \X Nat \X Nat), NEW r \in SUBSET Scripts, NEW n \in SUBSET Agents,
           NEW c \in SUBSET Agents
    PROVE  IsBatch(Batch(l, r, n, c), l, r, n, c)
  <1> DEFINE b == Batch(l, r, n, c)
  <1>1. CASE l = {} /\ r = {} /\ n = {} /\ c = {}
    <2>1. b = <<>>
      BY <1>1 DEF Batch
    <2> QED BY <1>1, <2>1, NothingSent DEF IsBatch
  <1>2. CASE ~(l = {} /\ r = {} /\ n = {} /\ c = {})
    <2> DEFINE m == [tag |-> "rows", lines |-> l, rows |-> r, named |-> n, closed |-> c]
    <2>1. b = <<m>>
      BY <1>2 DEF Batch
    <2>2. /\ m \in Sendings /\ m.tag = "rows" /\ m["lines"] = l /\ m["rows"] = r /\ m["named"] = n /\ m["closed"] = c
          /\ m.rows = r /\ m.named = n /\ m.closed = c
      BY DEF Sendings
    <2> HIDE DEF m
    <2>3. b \in Seq(Sendings) /\ Len(b) = 1 /\ b[1] = m /\ DOMAIN b = {1}
      BY <2>1, <2>2
    <2> HIDE DEF b
    <2>4. SentRows(b) = {1}
      BY <2>2, <2>3 DEF SentRows
    <2>5. \A f : In(b, f) = m[f]
      BY <2>3, <2>4 DEF In
    <2>6. \A x \in RowsIn(b) : x = m
      BY <2>3 DEF RowsIn
    <2> QED BY <2>2, <2>3, <2>5, <2>6 DEF b, IsBatch
  <1> QED BY <1>1, <1>2

LEMMA BothSent ==
    ASSUME NEW q \in Seq(Sendings), NEW u \in Seq(Sendings)
    PROVE  /\ q \o u \in Seq(Sendings)
           /\ \A f : In(q \o u, f) = In(q, f) \cup In(u, f)
           /\ RowsIn(q \o u) = RowsIn(q) \cup RowsIn(u)
  <1> DEFINE r == q \o u
  <1>1. /\ r \in Seq(Sendings) /\ Len(r) = Len(q) + Len(u) /\ Len(q) \in Nat /\ Len(u) \in Nat
        /\ \A i \in 1 .. Len(q) : r[i] = q[i]
        /\ \A i \in 1 .. Len(u) : r[Len(q) + i] = u[i]
    BY ConcatProperties
  <1>2. DOMAIN q = 1 .. Len(q) /\ DOMAIN u = 1 .. Len(u) /\ DOMAIN r = 1 .. Len(r)
    BY <1>1
  <1> HIDE DEF r
  <1>3. ASSUME NEW i \in 1 .. Len(r)
        PROVE  (\E j \in 1 .. Len(q) : r[i] = q[j]) \/ (\E j \in 1 .. Len(u) : r[i] = u[j])
    <2>1. CASE i <= Len(q)
      BY <1>1, <2>1
    <2>2. CASE i > Len(q)
      <3>1. i - Len(q) \in 1 .. Len(u) /\ Len(q) + (i - Len(q)) = i
        BY <1>1, <2>2
      <3> QED BY <1>1, <3>1
    <2> QED BY <1>1, <2>1, <2>2
  <1>4. \A j \in 1 .. Len(q) : j \in 1 .. Len(r) /\ r[j] = q[j]
    BY <1>1
  <1>5. \A j \in 1 .. Len(u) : Len(q) + j \in 1 .. Len(r) /\ r[Len(q) + j] = u[j]
    BY <1>1
  <1>6. ASSUME NEW f PROVE In(r, f) = In(q, f) \cup In(u, f)
    <2>1. In(r, f) \subseteq In(q, f) \cup In(u, f)
      BY <1>2, <1>3 DEF In, SentRows
    <2>2. In(q, f) \subseteq In(r, f)
      BY <1>2, <1>4 DEF In, SentRows
    <2>3. In(u, f) \subseteq In(r, f)
      BY <1>2, <1>5 DEF In, SentRows
    <2> QED BY <2>1, <2>2, <2>3
  <1>7. RowsIn(r) = RowsIn(q) \cup RowsIn(u)
    BY <1>3, <1>4, <1>5 DEF RowsIn
  <1> QED BY <1>1, <1>6, <1>7 DEF r

LEMMA SendingsOnly ==
    ASSUME NEW q \in Seq(Sendings)
    PROVE  q \in Wires /\ ReportsEnd(q) /\ SavingsIn(q) = {}
  <1>1. \A i \in 1 .. Len(q) : q[i] \in Sendings /\ q[i].tag # "progress"
    <2>1. \A m \in Sendings : m.tag # "progress"
      BY DEF Sendings
    <2> HIDE DEF Sendings
    <2> QED BY <2>1
  <1>2. q \in Wires
    BY <1>1 DEF Wires
  <1> QED BY <1>1, <1>2 DEF ReportsEnd, SavingsIn

\* A report adds at most itself.
LEMMA SavedIs ==
    ASSUME NEW q \in Seq(Sendings), NEW c \in SessionCursors
    PROVE  /\ Saved(q, c) \in Wires /\ ReportsEnd(Saved(q, c)) /\ SavingsIn(Saved(q, c)) \subseteq {c}
           /\ \A f : In(Saved(q, c), f) = In(q, f)
           /\ RowsIn(Saved(q, c)) = RowsIn(q)
  <1>1. CASE Saved(q, c) = q
    BY <1>1, SendingsOnly
  <1>2. CASE Saved(q, c) = Append(q, [tag |-> "progress", cur |-> c])
    <2> DEFINE p == [tag |-> "progress", cur |-> c]
               r == Append(q, p)
    <2>1. p \in Savings /\ p.tag = "progress" /\ p.cur = c /\ p \notin Sendings
      BY DEF Savings, Sendings
    <2>2. q \in Wires /\ DOMAIN q = 1 .. Len(q) /\ Len(q) \in Nat /\ \A i \in 1 .. Len(q) : q[i].tag # "progress"
      <3>1. \A m \in Sendings : m.tag # "progress"
        BY DEF Sendings
      <3>2. q \in Wires /\ \A i \in 1 .. Len(q) : q[i] \in Sendings
        BY SendingsOnly
      <3> QED BY <3>1, <3>2
    <2> HIDE DEF p
    <2>3. /\ r \in Wires /\ Len(r) = Len(q) + 1 /\ r[Len(q) + 1] = p
          /\ \A i \in 1 .. Len(q) : r[i] = q[i]
      BY <2>1, <2>2, AppendProperties DEF Wires
    <2> HIDE DEF r
    <2>4. DOMAIN r = 1 .. Len(r)
      BY <2>3 DEF Wires
    <2>5. \A i \in 1 .. Len(r) : i \in 1 .. Len(q) \/ (i = Len(r) /\ r[i] = p)
      BY <2>2, <2>3
    <2>6. ReportsEnd(r) /\ SavingsIn(r) \subseteq {c}
      BY <2>1, <2>2, <2>3, <2>5 DEF ReportsEnd, SavingsIn
    <2>7. RowsIn(r) = RowsIn(q)
      BY <2>1, <2>2, <2>3, <2>5 DEF RowsIn
    <2>8. SentRows(r) = SentRows(q)
      <3>1. \A i \in 1 .. Len(r) : r[i].tag = "rows" => i \in 1 .. Len(q)
        BY <2>1, <2>5
      <3>2. \A i \in 1 .. Len(q) : i \in 1 .. Len(r) /\ r[i] = q[i]
        BY <2>2, <2>3
      <3> QED BY <2>2, <2>4, <3>1, <3>2 DEF SentRows
    <2>9. \A f : In(r, f) = In(q, f)
      BY <2>2, <2>3, <2>8 DEF In, SentRows
    <2> QED BY <1>2, <2>3, <2>6, <2>7, <2>9 DEF r, p
  <1> QED BY <1>1, <1>2 DEF Saved

\* The first of what is sent is committed.
LEMMA HeadIs ==
    ASSUME NEW q \in Wires, q # <<>>, ReportsEnd(q)
    PROVE  /\ Tail(q) \in Wires /\ ReportsEnd(Tail(q))
           /\ SavingsIn(Tail(q)) \subseteq SavingsIn(q) /\ RowsIn(Tail(q)) \subseteq RowsIn(q)
           /\ Head(q).tag = "progress" =>
                /\ Head(q).cur \in SavingsIn(q) /\ SavingsIn(Tail(q)) = {} /\ RowsIn(Tail(q)) = {}
                /\ \A f : In(q, f) = {} /\ In(Tail(q), f) = {}
           /\ Head(q).tag # "progress" =>
                /\ Head(q) \in RowsIn(q)
                /\ \A f : In(q, f) = Head(q)[f] \cup In(Tail(q), f)
  <1> DEFINE r == Tail(q)
             m == Head(q)
  <1>1. /\ r \in Wires /\ Len(r) = Len(q) - 1 /\ Len(q) \in Nat \ {0} /\ m = q[1]
        /\ \A i \in 1 .. Len(r) : r[i] = q[i + 1]
    <2> DEFINE E == Sendings \cup Savings
    <2>1. q \in Seq(E)
      BY DEF Wires
    <2> HIDE DEF E
    <2>2. Len(q) \in Nat \ {0}
      BY <2>1, EmptySeq, LenProperties
    <2>3. r \in Seq(E) /\ Len(r) = Len(q) - 1 /\ m = q[1] /\ \A i \in 1 .. Len(r) : r[i] = q[i + 1]
      BY <2>1, <2>2, HeadTailProperties, ElementOfSeq
    <2> QED BY <2>2, <2>3 DEF E, Wires
  <1> HIDE DEF r, m
  <1>2. /\ q[1] \in Sendings \cup Savings /\ DOMAIN q = 1 .. Len(q) /\ DOMAIN r = 1 .. Len(r) /\ Len(r) \in Nat
        /\ 1 \in 1 .. Len(q)
    BY <1>1 DEF Wires
  <1>3. ReportsEnd(r) /\ SavingsIn(r) \subseteq SavingsIn(q) /\ RowsIn(r) \subseteq RowsIn(q)
    <2>1. \A i \in 1 .. Len(r) : i + 1 \in 1 .. Len(q) /\ (i + 1 = Len(q) <=> i = Len(r))
      BY <1>1, <1>2
    <2> QED BY <1>1, <2>1 DEF ReportsEnd, SavingsIn, RowsIn
  <1>4. ASSUME m.tag = "progress"
        PROVE  /\ m.cur \in SavingsIn(q) /\ SavingsIn(r) = {} /\ RowsIn(r) = {}
               /\ \A f : In(q, f) = {} /\ In(r, f) = {}
    <2>1. Len(q) = 1 /\ m \in Savings
      BY <1>1, <1>2, <1>4 DEF ReportsEnd, Sendings
    <2>2. m.cur \in SavingsIn(q)
      BY <1>1, <1>2, <1>4, <2>1 DEF SavingsIn, Savings
    <2>3. 1 .. Len(r) = {} /\ 1 .. Len(q) = {1}
      BY <1>1, <2>1
    <2>4. SentRows(q) = {} /\ SentRows(r) = {}
      BY <1>1, <1>2, <1>4, <2>3 DEF SentRows
    <2> QED BY <2>2, <2>3, <2>4 DEF SavingsIn, RowsIn, In
  <1>5. ASSUME m.tag # "progress"
        PROVE  m \in RowsIn(q) /\ \A f : In(q, f) = m[f] \cup In(r, f)
    <2>1. m \in Sendings /\ m.tag = "rows"
      BY <1>1, <1>2, <1>5 DEF Savings, Sendings
    <2>2. m \in RowsIn(q)
      BY <1>1, <1>2, <2>1 DEF RowsIn
    <2>3. ASSUME NEW f PROVE In(q, f) = m[f] \cup In(r, f)
      <3>1. 1 \in SentRows(q) /\ q[1][f] = m[f]
        BY <1>1, <1>2, <2>1 DEF SentRows
      <3>2. \A i \in 1 .. Len(r) : i + 1 \in 1 .. Len(q) /\ r[i] = q[i + 1]
        BY <1>1
      <3>3. \A i \in 1 .. Len(q) : i = 1 \/ (i - 1 \in 1 .. Len(r) /\ r[i - 1] = q[i])
        BY <1>1
      <3>4. \A i \in SentRows(r) : i + 1 \in SentRows(q) /\ r[i][f] = q[i + 1][f]
        BY <1>2, <3>2 DEF SentRows
      <3>5. \A i \in SentRows(q) : i = 1 \/ (i - 1 \in SentRows(r) /\ r[i - 1][f] = q[i][f])
        BY <1>2, <3>3 DEF SentRows
      <3>6. In(q, f) \subseteq m[f] \cup In(r, f)
        BY <3>1, <3>5 DEF In
      <3>7. m[f] \subseteq In(q, f) /\ In(r, f) \subseteq In(q, f)
        BY <3>1, <3>4 DEF In
      <3> QED BY <3>6, <3>7
    <2> QED BY <2>2, <2>3
  <1> QED BY <1>1, <1>3, <1>4, <1>5 DEF r, m

LEMMA WireIs ==
    /\ \A f : OnWire(f) = In(wire, f)
    /\ Shown = Had(store, wire).seen /\ Named = Had(store, wire).named
    /\ wire = <<>> => Shown = store.seen /\ Named = store.named /\ Rows = store.rows
  <1>1. \A f : OnWire(f) = In(wire, f)
    BY DEF OnWire, In
  <1>2. Shown = Had(store, wire).seen /\ Named = Had(store, wire).named
    BY <1>1 DEF Shown, Named, Had
  <1>3. ASSUME wire = <<>> PROVE Shown = store.seen /\ Named = store.named /\ Rows = store.rows
    <2>1. \A f : OnWire(f) = {}
      BY <1>1, <1>3, NothingSent
    <2> QED BY <2>1 DEF Shown, Named, Rows
  <1> QED BY <1>1, <1>2, <1>3

-----------------------------------------------------------------------------
(* Init, and what happens beside the reader.                                *)

LEMMA SInit == CInit => SInv
  <1> SUFFICES ASSUME CInit PROVE SInv
    OBVIOUS
  <1> DEFINE t0 == [lines |-> <<>>, part |-> FALSE, gen |-> 1, written |-> 0]
  <1>0. Main \in Scripts
    BY DEF Scripts
  <1>1. t0 \in Transcripts /\ t0.gen = 1 /\ t0.lines = <<>>
    <2>1. <<>> \in Seq(Entries)
      OBVIOUS
    <2> HIDE DEF Entries
    <2> QED BY <2>1 DEF Transcripts
  <1>2. scripts \in [Scripts -> Transcripts] /\ scripts = [x \in Scripts |-> t0]
    <2> HIDE DEF t0
    <2>1. scripts = [x \in Scripts |-> t0]
      BY DEF CInit, t0
    <2> QED BY <1>1, <2>1
  <1>3. EmptyCursor \in SessionCursors /\ Carries(scripts, torn, dim, EmptyCursor, {}, {}, Had(store, wire))
        /\ Carries(scripts, torn, dim, EmptyCursor, {}, {}, store)
    BY <1>2, EmptyCarries
  <1>4. /\ EmptyCursor.parked = {} /\ EmptyCursor.fin = {} /\ EmptyCursor.meta = {}
        /\ def = [pend |-> {}, compl |-> {}, fin |-> {}] /\ ccur = EmptyCursor /\ scanCur = EmptyCursor
    BY DEF CInit, EmptyCursor, Restored
  <1>5. /\ wire = <<>> /\ stage = "off" /\ sidecars = {} /\ left = {} /\ cache = NotRead
        /\ eyes = FALSE /\ news = FALSE /\ rewound = FALSE /\ torn = {} /\ marks = [scripts |-> {}, metas |-> {}]
        /\ store = [seen |-> {}, rows |-> {}, named |-> {}, closed |-> {}, cur |-> EmptyCursor]
    BY DEF CInit, NoMarks
  <1>6. SessionTypes
    <2>1. scripts[Main].gen = 1
      <3> HIDE DEF t0
      <3> QED BY <1>0, <1>1, <1>2
    <2>2. def \in Deferrals /\ eyes \in BOOLEAN /\ news \in BOOLEAN /\ rewound \in BOOLEAN /\ stage \in Stages
          /\ marks \in [scripts : SUBSET Scripts, metas : SUBSET sidecars]
      BY <1>4, <1>5 DEF Deferrals, Stages
    <2> QED BY <1>2, <1>3, <1>4, <1>5, <2>1, <2>2, NothingSent DEF SessionTypes
  <1>7. Carried
    BY <1>3, <1>4, <1>5, NothingSent DEF Carried
  <1>8. Naming
    BY <1>5, NothingSent DEF Naming, RowsFounded
  <1> QED BY <1>4, <1>5, <1>6, <1>7, <1>8, NothingSent DEF SInv, InStep, SpentOnce, Following

LEMMA DiskGrows ==
    ASSUME SessionTypes, SessionTypes', Lengthens(scripts, scripts')
    PROVE  OnDisk \subseteq OnDisk'
  <1> SUFFICES ASSUME NEW x \in Scripts, Bytes(scripts[x]) > 0 \/ scripts[x].gen > 1
               PROVE  Bytes(scripts'[x]) > 0 \/ scripts'[x].gen > 1
    BY DEF OnDisk
  <1>1. scripts[x] \in Transcripts /\ scripts'[x] \in Transcripts
    BY DEF SessionTypes
  <1>2. /\ Bytes(scripts[x]) \in Nat /\ Bytes(scripts'[x]) \in Nat
        /\ scripts[x].gen \in Nat \ {0} /\ scripts'[x].gen \in Nat \ {0}
    BY <1>1, TranscriptIs
  <1> QED BY <1>2 DEF Lengthens

\* What is left alone outside the reader.
Beside == UNCHANGED <<stage, left, cache, ccur, scanCur, def, eyes, wire, store, missed, dim, torn, rewound>>

LEMMA BesideKeeps ==
    ASSUME SInv, SessionTypes', Beside, Lengthens(scripts, scripts'), sidecars \subseteq sidecars',
           \A a \in Agents : Watching /\ (Told(a) \/ a \in sidecars' \ sidecars) => Told(a)',
           \A x \in Scripts : Watching /\ (Awaited(x) \/ scripts'[x] # scripts[x]) => Awaited(x)'
    PROVE  SInv'
  <1> USE DEF Beside
  <1>1. /\ Had(store, wire)' = Had(store, wire) /\ SavingsIn(wire') = SavingsIn(wire) /\ RowsIn(wire') = RowsIn(wire)
        /\ Rows' = Rows /\ Named' = Named
    BY DEF Rows, Named, OnWire
  <1>2. SessionTypes
    BY DEF SInv
  <1>3. ReportsEnd(wire)'
    BY DEF SInv
  <1>4. Carried'
    <2>1. scripts \in [Scripts -> Transcripts] /\ scripts' \in [Scripts -> Transcripts]
      BY <1>2 DEF SessionTypes
    <2>2. ASSUME NEW c \in SessionCursors, NEW p \in SUBSET Agents, NEW f \in SUBSET Agents, NEW h,
                 Carries(scripts, torn, dim, c, p, f, h)
          PROVE  Carries(scripts', torn, dim, c, p, f, h)
      <3>1. NoLess(h, h)
        BY DEF NoLess
      <3> QED BY <2>1, <2>2, <3>1, CarriesGrows
    <2>3. /\ store.cur \in SessionCursors /\ scanCur \in SessionCursors /\ ccur \in SessionCursors
          /\ \A c \in SessionCursors : c.parked \in SUBSET Agents /\ c.fin \in SUBSET Agents
          /\ def.compl \in SUBSET Agents /\ def.fin \in SUBSET Agents /\ SavingsIn(wire) \subseteq SessionCursors
      BY <1>2 DEF SessionTypes, SessionCursors, Deferrals, SavingsIn
    <2>4. Carries(scripts', torn, dim, store.cur, store.cur.parked, store.cur.fin, store)
      BY <2>2, <2>3 DEF SInv, Carried
    <2>5. \A c \in SavingsIn(wire) : Carries(scripts', torn, dim, c, c.parked, c.fin, Had(store, wire))
      BY <2>2, <2>3 DEF SInv, Carried
    <2>6. Carries(scripts', torn, dim, scanCur, scanCur.parked, scanCur.fin, Had(store, wire))
      BY <2>2, <2>3 DEF SInv, Carried
    <2>7. Carries(scripts', torn, dim, ccur, def.compl, def.fin, Had(store, wire))
      BY <2>2, <2>3 DEF SInv, Carried
    <2> QED BY <1>1, <2>4, <2>5, <2>6, <2>7 DEF Carried
  <1>5. InStep' /\ SpentOnce'
    BY <1>1 DEF SInv, InStep, SpentOnce
  <1>6. Naming'
    <2>1. OnDisk \subseteq OnDisk'
      BY <1>2, DiskGrows
    <2>2. RowsFounded(OnDisk', store, wire)
      BY <2>1 DEF SInv, Naming, RowsFounded
    <2>3. sidecars' \subseteq Agents
      BY DEF SessionTypes
    <2>4. ASSUME stage \in {"idle", "flush"}, NEW a \in sidecars', a \in Rows PROVE a \in Named \/ Told(a)'
      <3>1. Watching
        BY <2>4 DEF Watching
      <3> QED BY <2>3, <2>4, <3>1 DEF SInv, Naming
    <2>5. ASSUME stage = "flush", cache # NotRead, NEW a \in sidecars' PROVE a \in cache[1] \/ Told(a)'
      <3>1. Watching
        BY <2>5 DEF Watching
      <3> QED BY <2>3, <2>5, <3>1 DEF SInv, Naming
    <2>6. RowsFounded(OnDisk, store, wire)'
      BY <2>2
    <2> QED BY <1>1, <2>4, <2>5, <2>6 DEF Naming
  <1>7. Following'
    <2>1. ASSUME stage \in {"idle", "flush"}, NEW x \in Scripts \ missed,
                 ccur.at[x].off < 2 * Len(scripts'[x].lines)
          PROVE  x \in left \/ Awaited(x)'
      <3>1. Watching
        BY <2>1 DEF Watching
      <3>2. CASE scripts'[x] = scripts[x]
        <4>1. x \in left \/ Awaited(x)
          BY <2>1, <3>2 DEF SInv, Following
        <4> QED BY <3>1, <4>1
      <3>3. CASE scripts'[x] # scripts[x]
        BY <3>1, <3>3
      <3> QED BY <3>2, <3>3
    <2> QED BY <2>1 DEF SInv, Following
  <1> QED BY <1>3, <1>4, <1>5, <1>6, <1>7 DEF SInv

\* One transcript is replaced by a longer one, or one cut since.
LEMMA PutKeeps ==
    ASSUME SInv, NEW x \in Scripts, NEW t \in Transcripts, Put(x, t), UNCHANGED torn,
           \/ /\ x # Main /\ scripts[x].gen < t.gen
           \/ /\ t.gen = scripts[x].gen /\ Len(scripts[x].lines) <= Len(t.lines) /\ Bytes(scripts[x]) <= Bytes(t)
              /\ \A n \in 1 .. Len(scripts[x].lines) : t.lines[n] = scripts[x].lines[n]
    PROVE  SInv'
  <1>1. /\ SessionTypes /\ scripts \in [Scripts -> Transcripts] /\ scripts' = [scripts EXCEPT ![x] = t]
        /\ marks' = IF Announced(x) THEN [marks EXCEPT !.scripts = @ \cup {x}] ELSE marks
        /\ Beside /\ UNCHANGED <<sidecars, news>>
    BY DEF SInv, SessionTypes, Put, Beside, reader, memory, record
  <1>2. scripts' \in [Scripts -> Transcripts] /\ scripts'[x] = t /\ \A y \in Scripts \ {x} : scripts'[y] = scripts[y]
    BY <1>1
  <1>3. \A y \in Scripts : Len(scripts[y].lines) <= Len(scripts[y].lines) /\ Bytes(scripts[y]) <= Bytes(scripts[y])
    <2> TAKE y \in Scripts
    <2>1. Len(scripts[y].lines) \in Nat /\ Bytes(scripts[y]) \in Nat
      BY <1>1, TranscriptIs
    <2> QED BY <2>1
  <1>4. Lengthens(scripts, scripts')
    <2>1. scripts'[Main].gen = scripts[Main].gen
      <3>1. CASE x = Main
        <4>1. scripts[Main].gen = 1 /\ t.gen = scripts[Main].gen
          BY <1>1, <3>1 DEF SessionTypes
        <4> QED BY <1>2, <3>1, <4>1
      <3>2. CASE x # Main
        BY <1>2, <3>2 DEF Scripts
      <3> QED BY <3>1, <3>2
    <2>2. ASSUME NEW y \in Scripts
          PROVE  \/ scripts[y].gen < scripts'[y].gen
                 \/ /\ scripts'[y].gen = scripts[y].gen /\ Len(scripts[y].lines) <= Len(scripts'[y].lines)
                    /\ Bytes(scripts[y]) <= Bytes(scripts'[y])
                    /\ \A n \in 1 .. Len(scripts[y].lines) : scripts'[y].lines[n] = scripts[y].lines[n]
      <3>1. CASE y = x
        BY <1>2, <3>1
      <3>2. CASE y # x
        <4>1. scripts'[y] = scripts[y]
          BY <1>2, <3>2
        <4> QED BY <1>3, <4>1
      <3> QED BY <3>1, <3>2
    <2> QED BY <2>1, <2>2 DEF Lengthens
  <1>5. /\ marks' \in [scripts : SUBSET Scripts, metas : SUBSET sidecars] /\ marks'.metas = marks.metas
        /\ marks.scripts \subseteq marks'.scripts /\ Announced(x) => x \in marks'.scripts
    <2>1. marks \in [scripts : SUBSET Scripts, metas : SUBSET sidecars]
      BY <1>1 DEF SessionTypes
    <2>2. CASE Announced(x)
      <3>1. marks' = [marks EXCEPT !.scripts = @ \cup {x}]
        BY <1>1, <2>2
      <3> QED BY <2>1, <3>1
    <2>3. CASE ~Announced(x)
      BY <1>1, <2>1, <2>3
    <2> QED BY <2>2, <2>3
  <1>6. SessionTypes'
    BY <1>1, <1>2, <1>4, <1>5 DEF SessionTypes, Beside, Lengthens
  <1>7. \A a \in Agents : Watching /\ (Told(a) \/ a \in sidecars' \ sidecars) => Told(a)'
    BY <1>1, <1>5 DEF Told, Beside
  <1>8. ASSUME NEW y \in Scripts, Watching, Awaited(y) \/ scripts'[y] # scripts[y] PROVE Awaited(y)'
    <2>1. CASE Awaited(y)
      BY <1>1, <1>5, <2>1 DEF Awaited, Beside
    <2>2. CASE scripts'[y] # scripts[y]
      <3>1. y = x
        BY <1>2, <2>2
      <3> QED BY <1>1, <1>5, <1>8, <3>1 DEF Awaited, Beside, Announced
    <2> QED BY <1>8, <2>1, <2>2
  <1> QED BY <1>1, <1>4, <1>6, <1>7, <1>8, BesideKeeps

LEMMA WriteKeeps ==
    ASSUME SInv, NEW x \in Scripts, NEW r \in Entries, Write(x, r)
    PROVE  SInv'
  <1> DEFINE o == scripts[x]
             t == [o EXCEPT !.lines = Append(@, r), !.part = FALSE, !.written = @ + 1]
  <1>1. o \in Transcripts
    BY DEF SInv, SessionTypes
  <1>2. /\ t \in Transcripts /\ t.gen = o.gen /\ t.lines = Append(o.lines, r) /\ t.part = FALSE
    <2> DEFINE L == Seq(Entries)
               l == Append(o.lines, r)
               w == o.written + 1
    <2>1. o \in [lines : L, part : BOOLEAN, gen : Nat \ {0}, written : Nat] /\ l \in L /\ w \in Nat /\ o.gen \in Nat \ {0}
      BY <1>1 DEF Transcripts
    <2>2. t = [o EXCEPT !.lines = l, !.part = FALSE, !.written = w]
      OBVIOUS
    <2>3. t \in [lines : L, part : BOOLEAN, gen : Nat \ {0}, written : Nat] /\ t.gen = o.gen /\ t.lines = l /\ t.part = FALSE
      <3> HIDE DEF o, t, L, l, w
      <3> QED BY <2>1, <2>2
    <2> HIDE DEF o, t
    <2> QED BY <2>1, <2>3 DEF Transcripts
  <1>3. Len(o.lines) <= Len(t.lines) /\ Bytes(o) <= Bytes(t) /\ \A n \in 1 .. Len(o.lines) : t.lines[n] = o.lines[n]
    <2> HIDE DEF o, t
    <2>1. o.lines \in Seq(Entries) /\ Bytes(o) \in Nat /\ Bytes(o) <= 2 * Len(o.lines) + 1 /\ Len(o.lines) \in Nat
      BY <1>1, TranscriptIs
    <2>2. Len(t.lines) = Len(o.lines) + 1 /\ \A n \in 1 .. Len(o.lines) : t.lines[n] = o.lines[n]
      BY <1>2, <2>1
    <2>3. Bytes(t) = 2 * Len(t.lines)
      BY <1>2, TranscriptIs
    <2> QED BY <2>1, <2>2, <2>3
  <1>4. Put(x, t) /\ UNCHANGED torn
    BY DEF Write, Put, record
  <1> HIDE DEF t
  <1> QED BY <1>2, <1>3, <1>4, PutKeeps

LEMMA WritePartialKeeps ==
    ASSUME SInv, NEW a \in Agents, WritePartial(a)
    PROVE  SInv'
  <1> DEFINE o == scripts[a]
             t == [o EXCEPT !.part = TRUE]
  <1>0. a \in Scripts
    BY DEF Scripts
  <1>1. o \in Transcripts /\ ~o.part
    BY <1>0 DEF SInv, SessionTypes, WritePartial
  <1>2. t \in Transcripts /\ t.gen = o.gen /\ t.lines = o.lines
    <2> DEFINE L == Seq(Entries)
               l == o.lines
               w == o.written
    <2>1. o \in [lines : L, part : BOOLEAN, gen : Nat \ {0}, written : Nat] /\ l \in L /\ w \in Nat /\ o.gen \in Nat \ {0}
      BY <1>1 DEF Transcripts
    <2>2. t = [o EXCEPT !.part = TRUE]
      OBVIOUS
    <2>3. t \in [lines : L, part : BOOLEAN, gen : Nat \ {0}, written : Nat] /\ t.gen = o.gen /\ t.lines = o.lines
      <3> HIDE DEF o, t, L, l, w
      <3> QED BY <2>1, <2>2
    <2> HIDE DEF o, t
    <2> QED BY <2>1, <2>3 DEF Transcripts
  <1>3. Len(o.lines) <= Len(t.lines) /\ Bytes(o) <= Bytes(t) /\ \A n \in 1 .. Len(o.lines) : t.lines[n] = o.lines[n]
    <2> HIDE DEF o, t
    <2>1. Len(o.lines) \in Nat /\ Bytes(o) = 2 * Len(o.lines)
      BY <1>1, TranscriptIs
    <2>2. 2 * Len(t.lines) <= Bytes(t)
      BY <1>2, TranscriptIs
    <2> QED BY <1>2, <2>1, <2>2
  <1>4. Put(a, t) /\ UNCHANGED torn
    BY DEF WritePartial, Put, record
  <1> HIDE DEF t
  <1> QED BY <1>0, <1>2, <1>3, <1>4, PutKeeps

LEMMA CutKeeps ==
    ASSUME SInv, NEW a \in Agents, Cut(a)
    PROVE  SInv'
  <1> DEFINE o == scripts[a]
             t == [o EXCEPT !.lines = <<>>, !.part = FALSE, !.gen = @ + 1]
  <1>0. a \in Scripts /\ a # Main
    BY ClaudeTailAssumption DEF Scripts
  <1>1. o \in Transcripts
    BY <1>0 DEF SInv, SessionTypes
  <1>2. t \in Transcripts /\ o.gen < t.gen
    <2> DEFINE L == Seq(Entries)
               l == <<>>
               w == o.gen + 1
    <2>1. o \in [lines : L, part : BOOLEAN, gen : Nat \ {0}, written : Nat] /\ l \in L /\ w \in Nat \ {0} /\ o.gen \in Nat \ {0}
      BY <1>1 DEF Transcripts
    <2>2. t = [o EXCEPT !.lines = l, !.part = FALSE, !.gen = w]
      OBVIOUS
    <2>3. t \in [lines : L, part : BOOLEAN, gen : Nat \ {0}, written : Nat] /\ t.gen = w
      <3> HIDE DEF o, t, L, l, w
      <3> QED BY <2>1, <2>2
    <2>4. o.gen < w
      BY <2>1
    <2> QED BY <2>3, <2>4 DEF Transcripts
  <1>3. Put(a, t) /\ UNCHANGED torn
    BY DEF Cut, Put, record
  <1> HIDE DEF t
  <1> QED BY <1>0, <1>2, <1>3, PutKeeps

LEMMA SameLength == \A d \in [Scripts -> Transcripts] : Lengthens(d, d)
  <1> SUFFICES ASSUME NEW d \in [Scripts -> Transcripts] PROVE Lengthens(d, d)
    OBVIOUS
  <1>1. \A x \in Scripts : Len(d[x].lines) \in Nat /\ Bytes(d[x]) \in Nat
    BY TranscriptIs
  <1> QED BY <1>1 DEF Lengthens

LEMMA WriteSidecarKeeps ==
    ASSUME SInv, NEW a \in Agents, WriteSidecar(a)
    PROVE  SInv'
  <1>1. /\ SessionTypes /\ scripts \in [Scripts -> Transcripts] /\ scripts' = scripts
        /\ marks' = IF Announced(a) THEN [marks EXCEPT !.metas = @ \cup {a}] ELSE marks
        /\ Beside /\ sidecars' = sidecars \cup {a} /\ news' = news
    BY DEF SInv, SessionTypes, WriteSidecar, Beside, reader, memory, record
  <1>2. /\ marks' \in [scripts : SUBSET Scripts, metas : SUBSET sidecars'] /\ marks'.scripts = marks.scripts
        /\ marks.metas \subseteq marks'.metas /\ Announced(a) => a \in marks'.metas
    <2>1. marks \in [scripts : SUBSET Scripts, metas : SUBSET sidecars]
      BY <1>1 DEF SessionTypes
    <2>2. CASE Announced(a)
      <3>1. marks' = [marks EXCEPT !.metas = @ \cup {a}]
        BY <1>1, <2>2
      <3> QED BY <1>1, <2>1, <3>1
    <2>3. CASE ~Announced(a)
      BY <1>1, <2>1, <2>3
    <2> QED BY <2>2, <2>3
  <1>3. SessionTypes'
    <2>1. cache = NotRead \/ \E s \in SUBSET sidecars' : cache = <<s>>
      BY <1>1 DEF SessionTypes
    <2> QED BY <1>1, <1>2, <2>1 DEF SessionTypes, Beside
  <1>4. \A b \in Agents : Watching /\ (Told(b) \/ b \in sidecars' \ sidecars) => Told(b)'
    BY <1>1, <1>2 DEF Told, Beside, Announced
  <1>5. \A x \in Scripts : Watching /\ (Awaited(x) \/ scripts'[x] # scripts[x]) => Awaited(x)'
    BY <1>1, <1>2 DEF Awaited, Beside
  <1>6. Lengthens(scripts, scripts') /\ sidecars \subseteq sidecars'
    BY <1>1, SameLength
  <1> QED BY <1>1, <1>3, <1>4, <1>5, <1>6, BesideKeeps

LEMMA MakeSubsKeeps ==
    ASSUME SInv, MakeSubs
    PROVE  SInv'
  <1>1. /\ SessionTypes /\ scripts \in [Scripts -> Transcripts] /\ scripts' = scripts
        /\ Beside /\ sidecars' = sidecars /\ news' = Watching /\ marks' = marks
    BY DEF SInv, SessionTypes, MakeSubs, Beside, reader, memory, record
  <1>2. SessionTypes'
    <2>1. news' \in BOOLEAN
      BY <1>1 DEF Watching
    <2> QED BY <1>1, <2>1 DEF SessionTypes, Beside
  <1>3. \A b \in Agents : Watching /\ (Told(b) \/ b \in sidecars' \ sidecars) => Told(b)'
    BY <1>1 DEF Told, Beside
  <1>4. \A x \in Scripts : Watching /\ (Awaited(x) \/ scripts'[x] # scripts[x]) => Awaited(x)'
    BY <1>1 DEF Awaited, Beside
  <1>5. Lengthens(scripts, scripts') /\ sidecars \subseteq sidecars'
    BY <1>1, SameLength
  <1> QED BY <1>1, <1>2, <1>3, <1>4, <1>5, BesideKeeps

-----------------------------------------------------------------------------
(* Reading one transcript.                                                  *)

ReadTo(t) == [off |-> Consumed(t), size |-> Bytes(t), gen |-> t.gen]
Complete(t) == ~t.part /\ Len(t.lines) > 0 /\ t.lines[Len(t.lines)][1] = "text"

\* What a read up to the end says of a position p, of the f it was taken for and of the
\* offset from which lines were sent.
PositionsSound(d, tm, T, x, p, f, from) ==
    /\ ReadTo(d[x]) \in Positions /\ PositionSound(d, tm, ReadTo(d[x]), T, x)
    /\ Complete(d[x]) /\ x \notin tm /\ ~(2 * (Len(d[x].lines) - 1) >= from) =>
          p.gen = d[x].gen /\ p.off = 2 * Len(d[x].lines) /\ p.off >= p.size
    /\ f.gen = 1 \/ f = p

LEMMA PositionRead ==
    ASSUME NEW d \in [Scripts -> Transcripts], NEW tn, NEW S, NEW x \in Scripts,
           NEW p \in Positions, PositionSound(d, tn, p, S, x),
           NEW fc, fc = CursorForSize(p, Bytes(d[x])), NEW from, from = EmitFrom(fc, Bytes(d[x])),
           NEW tm, tn \subseteq tm, fc.off > 0 /\ fc.gen # d[x].gen => x \in tm,
           NEW T, S \subseteq T, \A n \in SentLines(d[x], from) : <<x, d[x].gen, n>> \in T
    PROVE  PositionsSound(d, tm, T, x, p, fc, from)
  <1> DEFINE t == d[x]
             l == t.lines
             N == Len(l)
             b == Bytes(t)
             g == t.gen
  <1>1. /\ N \in Nat /\ DOMAIN l = 1 .. N /\ g \in Nat \ {0} /\ b \in Nat
        /\ 2 * N <= b /\ b <= 2 * N + 1 /\ (~t.part => b = 2 * N)
    BY TranscriptIs
  <1>2. p.gen \in Nat /\ p.off \in Nat /\ p.size \in Nat
    BY DEF Positions
  <1>3. PICK k \in Nat : p.off = 2 * k
    BY DEF PositionSound
  <1>4. p.gen <= g /\ p.off <= p.size /\ (p.gen = g => p.size <= b)
    BY DEF PositionSound
  <1>5. p.gen = g /\ x \notin tn => \A n \in DOMAIN l : 2 * n <= p.off => <<x, g, n>> \in S
    BY DEF PositionSound
  <1>6. ReadTo(t).off = 2 * N /\ ReadTo(t).size = b /\ ReadTo(t).gen = g
    BY DEF ReadTo, Consumed
  <1>7. ReadTo(t) \in Positions
    <2> HIDE DEF b, g
    <2>1. 2 * N \in Nat
      BY <1>1
    <2>2. ReadTo(t) = [off |-> 2 * N, size |-> b, gen |-> g]
      BY DEF ReadTo, Consumed, b, g
    <2> HIDE DEF t
    <2> QED BY <1>1, <2>1, <2>2 DEF Positions
  <1>8. Unread.off = 0 /\ Unread.gen = 1
    BY DEF Unread
  <1>9. fc = Unread \/ fc = p
    BY DEF CursorForSize
  <1>10. SentLines(t, from) = {n \in DOMAIN l : 2 * (n - 1) >= from}
    BY DEF SentLines
  <1>11. from = IF fc.off > b THEN b ELSE fc.off
    BY DEF EmitFrom
  <1> HIDE DEF t, l, N, b, g
  <1>16. ASSUME x \notin tm => \A n \in DOMAIN l : <<x, g, n>> \in T
        PROVE  PositionSound(d, tm, ReadTo(t), T, x)
    <2>1. ReadTo(t).gen <= d[x].gen /\ ReadTo(t).off <= ReadTo(t).size /\ ReadTo(t).gen = d[x].gen
      BY <1>1, <1>6 DEF g, t
    <2>2. \E j \in Nat : ReadTo(t).off = 2 * j
      BY <1>1, <1>6
    <2>3. ReadTo(t).size <= Bytes(d[x])
      BY <1>1, <1>6 DEF b, t
    <2>4. x \notin tm => \A n \in DOMAIN d[x].lines : 2 * n <= ReadTo(t).off => <<x, d[x].gen, n>> \in T
      BY <1>16 DEF t, l, g
    <2> HIDE DEF ReadTo
    <2> QED BY <2>1, <2>2, <2>3, <2>4 DEF PositionSound
  <1>12. CASE fc = Unread
    <2>1. from = 0
      BY <1>1, <1>8, <1>11, <1>12
    <2>2. \A n \in DOMAIN l : <<x, g, n>> \in T
      BY <1>1, <1>10, <2>1 DEF t, g
    <2>3. PositionSound(d, tm, ReadTo(t), T, x)
      BY <1>16, <2>2
    <2>4. Complete(t) => 2 * (N - 1) >= from
      BY <1>1, <2>1 DEF Complete, N, l
    <2> QED BY <1>7, <1>8, <1>12, <2>3, <2>4 DEF t, N, l, PositionsSound
  <1>13. CASE fc = p /\ p.off = 0
    <2>1. from = 0
      BY <1>1, <1>11, <1>13
    <2>2. \A n \in DOMAIN l : <<x, g, n>> \in T
      BY <1>1, <1>10, <2>1 DEF t, g
    <2>3. PositionSound(d, tm, ReadTo(t), T, x)
      BY <1>16, <2>2
    <2>4. Complete(t) => 2 * (N - 1) >= from
      BY <1>1, <2>1 DEF Complete, N, l
    <2> QED BY <1>7, <1>13, <2>3, <2>4 DEF t, N, l, PositionsSound
  <1>14. CASE fc = p /\ p.off > 0 /\ p.gen # g
    <2>1. x \in tm
      BY <1>14 DEF g, t
    <2>2. PositionSound(d, tm, ReadTo(t), T, x)
      BY <1>16, <2>1
    <2> QED BY <1>7, <1>14, <2>1, <2>2 DEF t, PositionsSound
  <1>15. CASE fc = p /\ p.off > 0 /\ p.gen = g
    <2>1. from = 2 * k /\ p.off <= b
      BY <1>1, <1>2, <1>3, <1>4, <1>11, <1>15
    <2>2. ASSUME x \notin tm, NEW n \in DOMAIN l PROVE <<x, g, n>> \in T
      <3>1. CASE 2 * (n - 1) >= from
        <4>1. n \in SentLines(t, from)
          BY <1>10, <3>1
        <4> QED BY <4>1 DEF t, g
      <3>2. CASE ~(2 * (n - 1) >= from)
        <4>1. n <= k
          BY <1>1, <2>1, <3>2
        <4>2. 2 * n <= p.off
          BY <1>1, <1>3, <4>1
        <4> QED BY <1>5, <1>15, <2>2, <4>2
      <3> QED BY <3>1, <3>2
    <2>3. PositionSound(d, tm, ReadTo(t), T, x)
      BY <1>16, <2>2
    <2>4. ASSUME Complete(t), ~(2 * (N - 1) >= from) PROVE p.off = 2 * N /\ p.off >= p.size
      <3>1. b = 2 * N /\ N > 0
        BY <1>1, <2>4 DEF Complete, N, l
      <3>2. k = N
        BY <1>1, <1>3, <2>1, <2>4, <3>1
      <3> QED BY <1>1, <1>2, <1>3, <1>4, <1>15, <3>1, <3>2
    <2> QED BY <1>7, <1>15, <2>3, <2>4 DEF t, N, l, g, PositionsSound
  <1> QED BY <1>2, <1>9, <1>12, <1>13, <1>14, <1>15

\* What is said of a cursor depends on its positions and its hashes.
LEMMA CarriesSame ==
    ASSUME NEW d, NEW tn, NEW dm, NEW c, NEW e, c.at = e.at, c.meta = e.meta, NEW p, NEW f, NEW h,
           Carries(d, tn, dm, c, p, f, h)
    PROVE  Carries(d, tn, dm, e, p, f, h)
  BY DEF Carries, Kept, Owed, Ended

\* The cursor after the read.
MovedTo(c, x, p) == [c EXCEPT !.at[x] = p]

LEMMA MovedIs ==
    ASSUME NEW c \in SessionCursors, NEW x \in Scripts, NEW p \in Positions
    PROVE  /\ MovedTo(c, x, p) \in SessionCursors /\ MovedTo(c, x, p).meta = c.meta
           /\ MovedTo(c, x, p).parked = c.parked /\ MovedTo(c, x, p).fin = c.fin
           /\ MovedTo(c, x, p).at[x] = p /\ \A y \in Scripts \ {x} : MovedTo(c, x, p).at[y] = c.at[y]
  <1> DEFINE at == [c.at EXCEPT ![x] = p]
  <1>1. MovedTo(c, x, p) = [c EXCEPT !.at = at]
    BY DEF MovedTo
  <1>2. at \in [Scripts -> Positions] /\ at[x] = p /\ \A y \in Scripts \ {x} : at[y] = c.at[y]
    BY DEF SessionCursors
  <1> HIDE DEF at
  <1>3. MovedTo(c, x, p) \in SessionCursors
    BY <1>1, <1>2 DEF SessionCursors
  <1>4. MovedTo(c, x, p).at = at /\ MovedTo(c, x, p).meta = c.meta
        /\ MovedTo(c, x, p).parked = c.parked /\ MovedTo(c, x, p).fin = c.fin
    BY <1>1 DEF SessionCursors
  <1> QED BY <1>2, <1>3, <1>4

\* Reading a sub-agent's transcript: its completion is added, retracted or left alone.
LEMMA ChildRead ==
    ASSUME NEW d \in [Scripts -> Transcripts], NEW c \in SessionCursors, NEW e \in SessionCursors,
           NEW x \in Agents, e.at[x] = ReadTo(d[x]), \A y \in Scripts \ {x} : e.at[y] = c.at[y], e.meta = c.meta,
           NEW tn, NEW tm, tn \subseteq tm, NEW dm, NEW h, NEW k, NoLess(h, k),
           NEW from, NEW dfr \in Deferrals, Carries(d, tn, dm, c, dfr.compl, dfr.fin, h),
           PositionSound(d, tm, ReadTo(d[x]), k.seen, x),
           Complete(d[x]) /\ x \notin tm /\ ~(2 * (Len(d[x].lines) - 1) >= from) =>
             c.at[x].gen = d[x].gen /\ c.at[x].off = 2 * Len(d[x].lines) /\ c.at[x].off >= c.at[x].size
    PROVE  /\ FoldChild(x, d[x], from, dfr) \in Deferrals /\ FoldChild(x, d[x], from, dfr).fin = dfr.fin
           /\ Carries(d, tm, dm, e, FoldChild(x, d[x], from, dfr).compl, dfr.fin, k)
  <1> DEFINE t == d[x]
             N == Len(t.lines)
             f == FoldChild(x, t, from, dfr)
             R(a) == Ended(d, c, a)
  <1>0. x \in Scripts /\ t \in Transcripts /\ N \in Nat /\ Bytes(t) \in Nat /\ 2 * N <= Bytes(t)
        /\ (t.part => Bytes(t) = 2 * N + 1) /\ (~t.part => Bytes(t) = 2 * N)
    <2>1. x \in Scripts
      BY DEF Scripts
    <2> QED BY <2>1, TranscriptIs DEF Bytes
  <1>1. /\ f \in Deferrals /\ f.fin = dfr.fin
        /\ \/ Complete(t) /\ 2 * (N - 1) >= from /\ f.compl = dfr.compl \cup {x}
           \/ ~Complete(t) /\ f.compl = dfr.compl \ {x}
           \/ Complete(t) /\ ~(2 * (N - 1) >= from) /\ f.compl = dfr.compl
    <2>1. CASE Complete(t) /\ 2 * (N - 1) >= from
      <3>1. f = [dfr EXCEPT !.compl = @ \cup {x}]
        BY <2>1, Zenon DEF FoldChild, Complete
      <3> HIDE DEF f
      <3> QED BY <2>1, <3>1 DEF Deferrals
    <2>2. CASE ~Complete(t)
      <3>1. f = [dfr EXCEPT !.compl = @ \ {x}]
        BY <2>2 DEF FoldChild, Complete
      <3> HIDE DEF f
      <3> QED BY <2>2, <3>1 DEF Deferrals
    <2>3. CASE Complete(t) /\ ~(2 * (N - 1) >= from)
      <3>1. f = dfr
        BY <2>3 DEF FoldChild, Complete
      <3> HIDE DEF f
      <3> QED BY <2>3, <3>1
    <2> QED BY <2>1, <2>2, <2>3
  <1>2. \A a \in Agents \ {x} : /\ e.at[a] = c.at[a] /\ (Ended(d, e, a) <=> Ended(d, c, a))
                                /\ (a \in f.compl <=> a \in dfr.compl)
    BY <1>1 DEF Ended, Scripts
  <1>3. Ended(d, e, x) <=> Complete(t)
    <2>1. ReadTo(t).off = 2 * N /\ ReadTo(t).size = Bytes(t) /\ ReadTo(t).gen = t.gen
      BY DEF ReadTo, Consumed
    <2>2. (2 * N) \div 2 = N
      BY <1>0, Halves
    <2>3. Ended(d, e, x) <=> 2 * N > 0 /\ 2 * N >= Bytes(t) /\ t.lines[N][1] = "text"
      BY <2>1, <2>2 DEF Ended
    <2>4. 2 * N > 0 /\ 2 * N >= Bytes(t) <=> N > 0 /\ ~t.part
      BY <1>0
    <2> QED BY <2>3, <2>4 DEF Complete
  <1>4. ASSUME Complete(t), ~(2 * (N - 1) >= from), x \notin tm PROVE Ended(d, c, x)
    <2>0. N > 0
      BY <1>4 DEF Complete
    <2>1. (2 * N) \div 2 = N /\ 2 * N > 0
      <3> HIDE DEF N
      <3> QED BY <1>0, <2>0, Halves
    <2> QED BY <1>4, <2>1 DEF Ended, Complete
  <1>5. Kept(d, tm, e, f.compl \cup dfr.fin)
    <2> SUFFICES ASSUME NEW a \in Agents \ tm, Ended(d, e, a) PROVE a \in f.compl \cup dfr.fin
      BY DEF Kept
    <2>1. Ended(d, c, a) => a \in dfr.compl \cup dfr.fin
      BY DEF Carries, Kept
    <2>2. CASE a = x
      BY <1>1, <1>3, <1>4, <2>1, <2>2
    <2>3. CASE a # x
      BY <1>2, <2>1, <2>3
    <2> QED BY <2>2, <2>3
  <1>6. Owed(d, tm, e, f.compl \ dfr.fin)
    <2> SUFFICES ASSUME NEW a \in f.compl \ dfr.fin PROVE Ended(d, e, a) \/ a \in tm \/ e.at[a].gen # d[a].gen
      BY DEF Owed
    <2>0. a \in Agents
      BY <1>1 DEF Deferrals
    <2>1. CASE a = x
      BY <1>1, <1>3, <2>1
    <2>2. CASE a # x
      <3>1. Ended(d, c, a) \/ a \in tn \/ c.at[a].gen # d[a].gen
        BY <1>2, <2>0, <2>2 DEF Carries, Owed
      <3> QED BY <1>2, <2>0, <2>2, <3>1
    <2> QED BY <2>1, <2>2
  <1>7. Spent(d, dfr.fin, k)
    <2> SUFFICES ASSUME NEW a \in dfr.fin PROVE a \in k.closed \/ ResultShown(d, k.seen, a)
      BY DEF Spent
    <2>1. a \in h.closed \/ ResultShown(d, h.seen, a)
      BY DEF Carries, Spent
    <2> QED BY <2>1 DEF NoLess, ResultShown
  <1>8. ASSUME NEW y \in Scripts PROVE PositionSound(d, tm, e.at[y], k.seen, y)
    <2>1. CASE y = x
      BY <2>1
    <2>2. CASE y # x
      <3>1. e.at[y] = c.at[y] /\ PositionSound(d, tn, c.at[y], h.seen, y)
        BY <2>2 DEF Carries
      <3> QED BY <3>1 DEF PositionSound, NoLess
    <2> QED BY <2>1, <2>2
  <1>9. e.meta \ dm \subseteq k.named
    BY DEF Carries, NoLess
  <1> HIDE DEF f
  <1>10. Carries(d, tm, dm, e, f.compl, dfr.fin, k)
    BY <1>5, <1>6, <1>7, <1>8, <1>9 DEF Carries
  <1> QED BY <1>1, <1>10 DEF f

\* Reading the session's transcript: calls with a result are spent.
LEMMA MainRead ==
    ASSUME NEW d \in [Scripts -> Transcripts], NEW c \in SessionCursors, NEW e \in SessionCursors,
           e.at[Main] = ReadTo(d[Main]), \A y \in Agents : e.at[y] = c.at[y], e.meta = c.meta,
           NEW tn, NEW tm, tn \subseteq tm, Main \notin tm, NEW dm, NEW h, NEW k, NoLess(h, k),
           NEW known \in SUBSET Agents, NEW dfr \in Deferrals, Carries(d, tn, dm, c, dfr.compl, dfr.fin, h),
           PositionSound(d, tm, ReadTo(d[Main]), k.seen, Main)
    PROVE  /\ FoldCalls(d[Main], known, dfr) \in Deferrals /\ dfr.fin \subseteq FoldCalls(d[Main], known, dfr).fin
           /\ Carries(d, tm, dm, e, FoldCalls(d[Main], known, dfr).compl, FoldCalls(d[Main], known, dfr).fin, k)
  <1> DEFINE t == d[Main]
             res == {a \in known : Said(t, <<"result", a>>)}
             f == FoldCalls(t, known, dfr)
  <1>0. Main \in Scripts /\ t \in Transcripts /\ Len(t.lines) \in Nat /\ DOMAIN t.lines = 1 .. Len(t.lines)
        /\ t.gen \in Nat
    <2>1. Main \in Scripts
      BY DEF Scripts
    <2> QED BY <2>1, TranscriptIs
  <1>1. f \in Deferrals /\ f.compl = dfr.compl \ res /\ f.fin = dfr.fin \cup res /\ res \subseteq Agents
    BY DEF FoldCalls, Deferrals
  <1> HIDE DEF f
  <1>2. \A a \in Agents : Ended(d, e, a) <=> Ended(d, c, a)
    BY DEF Ended
  <1>3. Kept(d, tm, e, f.compl \cup f.fin)
    BY <1>1, <1>2 DEF Carries, Kept
  <1>4. Owed(d, tm, e, f.compl \ f.fin)
    <2> SUFFICES ASSUME NEW a \in f.compl \ f.fin PROVE Ended(d, e, a) \/ a \in tm \/ e.at[a].gen # d[a].gen
      BY DEF Owed
    <2>1. a \in Agents /\ a \in dfr.compl \ dfr.fin
      BY <1>1 DEF Deferrals
    <2>2. Ended(d, c, a) \/ a \in tn \/ c.at[a].gen # d[a].gen
      BY <2>1 DEF Carries, Owed
    <2> QED BY <1>2, <2>1, <2>2
  <1>5. Spent(d, f.fin, k)
    <2> SUFFICES ASSUME NEW a \in f.fin PROVE a \in k.closed \/ ResultShown(d, k.seen, a)
      BY DEF Spent
    <2>1. CASE a \in dfr.fin
      <3>1. a \in h.closed \/ ResultShown(d, h.seen, a)
        BY <2>1 DEF Carries, Spent
      <3> QED BY <3>1 DEF NoLess, ResultShown
    <2>2. CASE a \in res
      <3>1. PICK n \in DOMAIN t.lines : t.lines[n] = <<"result", a>>
        BY <2>2 DEF Said
      <3>2. ReadTo(t).gen = t.gen /\ ReadTo(t).off = 2 * Len(t.lines)
        BY DEF ReadTo, Consumed
      <3>3. 2 * n <= ReadTo(t).off
        BY <1>0, <3>1, <3>2
      <3>4. <<Main, t.gen, n>> \in k.seen
        BY <3>1, <3>2, <3>3 DEF PositionSound
      <3> QED BY <3>1, <3>4 DEF ResultShown
    <2> QED BY <1>1, <2>1, <2>2
  <1>6. ASSUME NEW y \in Scripts PROVE PositionSound(d, tm, e.at[y], k.seen, y)
    <2>1. CASE y = Main
      BY <2>1
    <2>2. CASE y # Main
      <3>1. e.at[y] = c.at[y] /\ PositionSound(d, tn, c.at[y], h.seen, y)
        BY <2>2 DEF Carries, Scripts
      <3> QED BY <3>1 DEF PositionSound, NoLess
    <2> QED BY <2>1, <2>2
  <1>7. e.meta \ dm \subseteq k.named
    BY DEF Carries, NoLess
  <1>8. Carries(d, tm, dm, e, f.compl, f.fin, k)
    BY <1>3, <1>4, <1>5, <1>6, <1>7 DEF Carries
  <1> QED BY <1>1, <1>8 DEF f

\* Persist keeps the positions.
LEMMA PersistIs ==
    ASSUME NEW c \in SessionCursors, NEW dfr \in Deferrals
    PROVE  /\ Persist(c, dfr) \in SessionCursors /\ Persist(c, dfr).at = c.at /\ Persist(c, dfr).meta = c.meta
           /\ Persist(c, dfr).parked = dfr.compl /\ Persist(c, dfr).fin = dfr.fin
  BY DEF Persist, SessionCursors, Deferrals

\* What a step that sends q, and possibly reports e, makes of a queue that was empty.
Sends(q, e) == wire' = q \/ (wire' = Saved(q, e))

LEMMA SendsIs ==
    ASSUME wire = <<>>, NEW q \in Seq(Sendings), NEW e \in SessionCursors, Sends(q, e), store' = store
    PROVE  /\ wire' \in Wires /\ ReportsEnd(wire') /\ SavingsIn(wire') \subseteq {e} /\ RowsIn(wire') = RowsIn(q)
           /\ \A f : In(wire', f) = In(q, f)
           /\ Had(store', wire') = Had(store, q) /\ NoLess(Had(store, wire), Had(store, q))
           /\ Named' = store.named \cup In(q, "named") /\ Rows' = store.rows \cup In(q, "rows")
  <1>1. /\ wire' \in Wires /\ ReportsEnd(wire') /\ SavingsIn(wire') \subseteq {e} /\ RowsIn(wire') = RowsIn(q)
        /\ \A f : In(wire', f) = In(q, f)
    BY SendingsOnly, SavedIs DEF Sends
  <1>2. Had(store', wire') = Had(store, q)
    BY <1>1 DEF Had
  <1>3. NoLess(Had(store, wire), Had(store, q))
    <2>1. \A f : In(wire, f) = {}
      BY NothingSent
    <2> QED BY <2>1 DEF Had, NoLess
  <1>4. \A f : OnWire(f)' = In(wire', f)
    BY DEF OnWire, In
  <1>5. Named' = store.named \cup In(q, "named") /\ Rows' = store.rows \cup In(q, "rows")
    BY <1>1, <1>4 DEF Named, Rows
  <1> QED BY <1>1, <1>2, <1>3, <1>5

\* Nothing is said of a cursor less than before when transcripts stay and more is delivered.
LEMMA CarriesMore ==
    ASSUME NEW d \in [Scripts -> Transcripts], NEW tn, NEW tm, tn \subseteq tm, NEW dm, NEW dn, dm \subseteq dn,
           NEW h, NEW k, NoLess(h, k)
    PROVE  \A c \in SessionCursors : \A p, f \in SUBSET Agents :
              Carries(d, tn, dm, c, p, f, h) => Carries(d, tm, dn, c, p, f, k)
  BY SameLength, CarriesGrows

LEMMA CursorParts ==
    ASSUME SessionTypes
    PROVE  /\ store.cur \in SessionCursors /\ scanCur \in SessionCursors /\ ccur \in SessionCursors
           /\ \A c \in SessionCursors : c.parked \in SUBSET Agents /\ c.fin \in SUBSET Agents /\ c.meta \in SUBSET Agents
           /\ def.compl \in SUBSET Agents /\ def.fin \in SUBSET Agents /\ def.pend \in SUBSET Agents
           /\ SavingsIn(wire) \subseteq SessionCursors
           /\ scripts \in [Scripts -> Transcripts] /\ NoLess(store, store)
  BY DEF SessionTypes, SessionCursors, Deferrals, SavingsIn, NoLess

\* A step of the reader leaves what is committed, and what the scan ended with, as sound.
LEMMA OthersCarried ==
    ASSUME SInv, UNCHANGED <<scripts, store>>, torn \subseteq torn', dim \subseteq dim',
           NEW h, NoLess(Had(store, wire), h)
    PROVE  /\ Carries(scripts, torn', dim', store.cur, store.cur.parked, store.cur.fin, store)
           /\ Carries(scripts, torn', dim', scanCur, scanCur.parked, scanCur.fin, h)
           /\ Carries(scripts, torn', dim', ccur, def.compl, def.fin, h)
  <1>1. SessionTypes /\ Carried
    BY DEF SInv
  <1>2. Carries(scripts, torn', dim', store.cur, store.cur.parked, store.cur.fin, store)
    BY <1>1, CursorParts, CarriesMore DEF Carried
  <1>3. Carries(scripts, torn', dim', scanCur, scanCur.parked, scanCur.fin, h)
    BY <1>1, CursorParts, CarriesMore DEF Carried
  <1>4. Carries(scripts, torn', dim', ccur, def.compl, def.fin, h)
    BY <1>1, CursorParts, CarriesMore DEF Carried
  <1> QED BY <1>2, <1>3, <1>4

LEMMA ReadScriptKeeps ==
    ASSUME SInv, NEW x \in Scripts, ReadScript(x)
    PROVE  SInv'
  <1> DEFINE t == scripts[x]
             fc == CursorForSize(ccur.at[x], Bytes(t))
             from == EmitFrom(fc, Bytes(t))
             sent == SentLines(t, from)
             start == IF 1 \in sent THEN {x} ELSE {}
             ls == {<<x, t.gen, n>> : n \in sent}
             batch(k) == Batch(ls \ Shown, start \ Rows, (start \cap k) \ Named, {})
             next == MovedTo(ccur, x, ReadTo(t))
             fold(k) == IF x = Main THEN FoldCalls(t, k, def) ELSE FoldChild(x, t, from, def)
  <1>1. PICK known : known = cache'[1]
    OBVIOUS
  <1>2. /\ Busy /\ Settled /\ cache' = Cached /\ def' = fold(known) /\ left' = left \ {x} /\ missed' = missed \ {x}
        /\ torn' = (IF fc.off > 0 /\ fc.gen # t.gen THEN torn \cup {x} ELSE torn)
        /\ UNCHANGED <<scripts, sidecars, stage, scanCur, eyes, news, marks, store, dim, rewound>>
    BY <1>1 DEF ReadScript, files
  <1>3. \/ ccur' = next /\ wire' = wire \o batch(known)
        \/ ccur' = Persist(next, def') /\ wire' = Saved(wire \o batch(known), ccur')
    BY <1>1, Zenon DEF ReadScript, MovedTo, ReadTo
  <1>4. /\ SessionTypes /\ wire = <<>> /\ t \in Transcripts /\ ccur \in SessionCursors /\ ccur.at[x] \in Positions
        /\ def \in Deferrals /\ torn \subseteq Agents
    BY <1>2 DEF SInv, SessionTypes, Settled, SessionCursors
  <1>5. known \in SUBSET sidecars /\ known \in SUBSET Agents
        /\ cache' # NotRead /\ cache' = <<known>> /\ cache'[1] = known
        /\ (cache = NotRead => known = sidecars) /\ (cache # NotRead => cache[1] = known)
    <2>1. sidecars \subseteq Agents /\ (cache = NotRead \/ \E s \in SUBSET sidecars : cache = <<s>>)
      BY <1>4 DEF SessionTypes
    <2>2. CASE cache = NotRead
      <3>1. cache' = <<sidecars>>
        BY <1>2, <2>2 DEF Cached
      <3> QED BY <1>1, <2>1, <2>2, <3>1 DEF NotRead
    <2>3. CASE cache # NotRead
      <3>1. PICK s \in SUBSET sidecars : cache = <<s>>
        BY <2>1, <2>3
      <3>2. cache' = <<s>>
        BY <1>2, <2>3, <3>1 DEF Cached
      <3> QED BY <1>1, <2>1, <2>3, <3>1, <3>2 DEF NotRead
    <2> QED BY <2>2, <2>3
  <1>6. PositionSound(scripts, torn, ccur.at[x], Had(store, wire).seen, x)
    BY DEF SInv, Carried, Carries
  <1>7. torn \subseteq torn' /\ (fc.off > 0 /\ fc.gen # t.gen => x \in torn')
    BY <1>2
  <1> DEFINE h == Had(store, batch(known))
  <1>8. sent \subseteq DOMAIN t.lines /\ (1 \in sent => x \in OnDisk) /\ ls \subseteq Scripts \X Nat \X Nat
    <2>1. /\ DOMAIN t.lines = 1 .. Len(t.lines) /\ Len(t.lines) \in Nat /\ Bytes(t) \in Nat /\ 2 * Len(t.lines) <= Bytes(t)
          /\ t.gen \in Nat
      BY <1>4, TranscriptIs
    <2>2. sent \subseteq DOMAIN t.lines
      BY DEF SentLines
    <2>3. ASSUME 1 \in sent PROVE x \in OnDisk
      <3>1. Bytes(t) > 0
        <4> HIDE DEF t, sent
        <4> QED BY <2>1, <2>2, <2>3
      <3> QED BY <3>1 DEF OnDisk
    <2>4. ls \subseteq Scripts \X Nat \X Nat
      <3> HIDE DEF t, sent
      <3> QED BY <2>1, <2>2
    <2> QED BY <2>2, <2>3, <2>4
  <1>9. start \subseteq {x} /\ start \subseteq OnDisk
    BY <1>8
  <1>10. /\ batch(known) \in Seq(Sendings) /\ In(batch(known), "lines") = ls \ Shown
         /\ In(batch(known), "rows") = start \ Rows /\ In(batch(known), "named") = (start \cap known) \ Named
         /\ \A m \in RowsIn(batch(known)) : m.rows = start \ Rows /\ m.named = (start \cap known) \ Named
    <2>1. ls \ Shown \in SUBSET (Scripts \X Nat \X Nat) /\ start \ Rows \in SUBSET Scripts
          /\ (start \cap known) \ Named \in SUBSET Agents
      BY <1>5, <1>8, <1>9
    <2>2. PICK L, R, N, B : L = ls \ Shown /\ R = start \ Rows /\ N = (start \cap known) \ Named /\ B = batch(known)
      OBVIOUS
    <2>3. B = Batch(L, R, N, {}) /\ {} \in SUBSET Agents
      BY <2>2
    <2> HIDE DEF ls, start, batch
    <2>4. L \in SUBSET (Scripts \X Nat \X Nat) /\ R \in SUBSET Scripts /\ N \in SUBSET Agents
      BY <2>1, <2>2
    <2>5. /\ B \in Seq(Sendings) /\ In(B, "lines") = L /\ In(B, "rows") = R /\ In(B, "named") = N
          /\ \A m \in RowsIn(B) : m.rows = R /\ m.named = N
      <3>1. IsBatch(B, L, R, N, {})
        BY <2>3, <2>4, BatchIs, Zenon
      <3> QED BY <3>1 DEF IsBatch
    <2> QED BY <2>2, <2>5
  <1> HIDE DEF batch, ls, start
  <1>11. wire \o batch(known) = batch(known)
    BY <1>4, <1>10, ConcatEmptySeq
  <1>12. ls \subseteq h.seen
    <2>1. Shown = store.seen
      BY <1>4, WireIs
    <2> QED BY <1>10, <2>1 DEF Had
  <1>13. /\ ReadTo(t) \in Positions /\ PositionSound(scripts, torn', ReadTo(t), h.seen, x)
         /\ Complete(t) /\ x \notin torn' /\ ~(2 * (Len(t.lines) - 1) >= from) =>
              ccur.at[x].gen = t.gen /\ ccur.at[x].off = 2 * Len(t.lines) /\ ccur.at[x].off >= ccur.at[x].size
         /\ (fc.gen = 1 \/ fc = ccur.at[x])
    <2>1. scripts \in [Scripts -> Transcripts]
      BY <1>4 DEF SessionTypes
    <2>2. Had(store, wire).seen \subseteq h.seen
      BY <1>4, NothingSent DEF Had
    <2>3. \A n \in SentLines(t, from) : <<x, t.gen, n>> \in h.seen
      BY <1>12 DEF ls
    <2>4. PICK d, tn, tm, S, T, p, f, fr :
             /\ d = scripts /\ tn = torn /\ tm = torn' /\ S = Had(store, wire).seen /\ T = h.seen /\ p = ccur.at[x]
             /\ f = fc /\ fr = from
      OBVIOUS
    <2>5. f = CursorForSize(p, Bytes(d[x])) /\ fr = EmitFrom(f, Bytes(d[x])) /\ t = d[x]
      BY <2>4
    <2> HIDE DEF h, fc, from, t
    <2>6. PositionsSound(d, tm, T, x, p, f, fr)
      <3>1. /\ d \in [Scripts -> Transcripts] /\ p \in Positions /\ PositionSound(d, tn, p, S, x)
            /\ tn \subseteq tm /\ (f.off > 0 /\ f.gen # d[x].gen => x \in tm) /\ S \subseteq T
            /\ \A n \in SentLines(d[x], fr) : <<x, d[x].gen, n>> \in T
        BY <1>4, <1>6, <1>7, <2>1, <2>2, <2>3, <2>4, <2>5
      <3> QED BY <2>5, <3>1, PositionRead, Zenon
    <2> QED BY <2>4, <2>5, <2>6 DEF PositionsSound
  <1>14. next \in SessionCursors /\ next.meta = ccur.meta /\ next.at[x] = ReadTo(t)
         /\ \A y \in Scripts \ {x} : next.at[y] = ccur.at[y]
    BY <1>4, <1>13, MovedIs
  <1>15. torn' \subseteq Agents
    <2>1. CASE x = Main
      <3>1. t.gen = 1 /\ ccur.at[x].gen = 1
        <4>1. t.gen = 1 /\ ccur.at[x].gen \in Nat \ {0} /\ ccur.at[x].gen <= t.gen
          BY <1>4, <1>6, <2>1 DEF SessionTypes, Positions, PositionSound
        <4> QED BY <4>1
      <3>2. fc.gen = t.gen
        BY <1>13, <3>1
      <3> QED BY <1>2, <1>4, <3>2
    <2>2. CASE x # Main
      BY <1>2, <1>4, <2>2 DEF Scripts
    <2> QED BY <2>1, <2>2
  <1>16. def' \in Deferrals /\ def.fin \subseteq def'.fin
         /\ Carries(scripts, torn', dim, next, def'.compl, def'.fin, h)
    <2>1. /\ scripts \in [Scripts -> Transcripts] /\ NoLess(Had(store, wire), h) /\ Main \notin torn'
          /\ Carries(scripts, torn, dim, ccur, def.compl, def.fin, Had(store, wire))
      BY <1>4, <1>15, NothingSent, ClaudeTailAssumption DEF SInv, SessionTypes, Carried, Had, NoLess
    <2> HIDE DEF h, next, fc, from
    <2>2. CASE x = Main
      <3>1. \A y \in Agents : next.at[y] = ccur.at[y]
        BY <1>14, <2>2, ClaudeTailAssumption DEF Scripts
      <3> DEFINE g == FoldCalls(scripts[Main], known, def)
      <3>2. /\ g \in Deferrals /\ def.fin \subseteq g.fin
            /\ Carries(scripts, torn', dim, next, g.compl, g.fin, h)
        BY <1>4, <1>5, <1>7, <1>13, <1>14, <2>1, <2>2, <3>1, MainRead
      <3>3. def' = g
        BY <1>2, <2>2
      <3> QED BY <3>2, <3>3
    <2>3. CASE x # Main
      <3>1. x \in Agents
        BY <2>3 DEF Scripts
      <3> DEFINE g == FoldChild(x, scripts[x], from, def)
      <3>2. /\ g \in Deferrals /\ g.fin = def.fin
            /\ Carries(scripts, torn', dim, next, g.compl, def.fin, h)
        BY <1>4, <1>7, <1>13, <1>14, <2>1, <3>1, ChildRead
      <3>3. def' = g
        BY <1>2, <2>3
      <3> QED BY <3>2, <3>3
    <2> QED BY <2>2, <2>3
  <1>17. /\ ccur' \in SessionCursors /\ ccur'.at = next.at /\ ccur'.meta = next.meta
         /\ (wire' = batch(known) \/ (wire' = Saved(batch(known), ccur') /\ ccur'.parked = def'.compl /\ ccur'.fin = def'.fin))
    BY <1>3, <1>11, <1>14, <1>16, PersistIs
  <1> HIDE DEF next
  <1>18. /\ wire' \in Wires /\ ReportsEnd(wire') /\ SavingsIn(wire') \subseteq {ccur'} /\ RowsIn(wire') = RowsIn(batch(known))
         /\ Had(store', wire') = h /\ NoLess(Had(store, wire), h)
         /\ Named' = store.named \cup ((start \cap known) \ Named) /\ Rows' = store.rows \cup (start \ Rows)
    <2>1. Sends(batch(known), ccur')
      BY <1>17 DEF Sends
    <2> QED BY <1>2, <1>4, <1>10, <1>17, <2>1, SendsIs
  <1>19. \A c \in SavingsIn(wire') : c = ccur' /\ ccur'.parked = def'.compl /\ ccur'.fin = def'.fin
    <2>1. CASE wire' = batch(known)
      BY <1>10, <2>1, SendingsOnly
    <2>2. CASE wire' # batch(known)
      BY <1>17, <1>18, <2>2
    <2> QED BY <2>1, <2>2
  <1>20. SessionTypes'
    <2>1. cache' = NotRead \/ \E s \in SUBSET sidecars' : cache' = <<s>>
      BY <1>2, <1>5
    <2>2. left' \subseteq Scripts
      BY <1>2, <1>4 DEF SessionTypes
    <2> HIDE DEF h, fc, from, sent
    <2> QED BY <1>2, <1>4, <1>15, <1>16, <1>17, <1>18, <2>1, <2>2 DEF SessionTypes
  <1>21. Carried'
    <2>1. /\ Carries(scripts, torn', dim', store.cur, store.cur.parked, store.cur.fin, store)
          /\ Carries(scripts, torn', dim', scanCur, scanCur.parked, scanCur.fin, h)
      <3> HIDE DEF h
      <3> QED BY <1>2, <1>7, <1>18, OthersCarried
    <2>2. Carries(scripts, torn', dim', ccur', def'.compl, def'.fin, h)
      <3> HIDE DEF h
      <3> QED BY <1>2, <1>16, <1>17, CarriesSame
    <2>3. \A c \in SavingsIn(wire') : Carries(scripts, torn', dim', c, c.parked, c.fin, h)
      BY <1>19, <2>2
    <2> HIDE DEF h
    <2> QED BY <1>2, <1>18, <2>1, <2>2, <2>3 DEF Carried
  <1>22. InStep' /\ SpentOnce'
    <2>1. stage' \notin {"off", "scanned", "watching", "idle"} /\ stage \notin {"off", "scanned"} /\ rewound' = rewound
      BY <1>2 DEF Busy
    <2>2. InStep'
      BY <2>1 DEF InStep
    <2>3. SpentOnce'
      BY <1>2, <1>16, <1>19, <2>1 DEF SInv, SpentOnce
    <2> QED BY <2>2, <2>3
  <1>23. Naming'
    <2>1. OnDisk' = OnDisk
      BY <1>2 DEF OnDisk
    <2>2. Named = store.named /\ Rows = store.rows
      BY <1>4, WireIs
    <2>3. RowsFounded(OnDisk, store, wire')
      BY <1>9, <1>10, <1>18 DEF SInv, Naming, RowsFounded
    <2>4. \A a \in Agents : Told(a)' <=> Told(a)
      BY <1>2 DEF Told
    <2>5. ASSUME stage = "flush", NEW a \in sidecars PROVE a \in known \/ Told(a)
      BY <1>5, <2>5 DEF SInv, Naming
    <2>6. ASSUME stage \in {"idle", "flush"}, NEW a \in sidecars, a \in Rows' PROVE a \in Named' \/ Told(a)
      <3>1. stage = "flush"
        BY <1>2, <2>6 DEF Busy
      <3>2. CASE a \in Rows
        BY <1>18, <2>2, <2>6, <3>2 DEF SInv, Naming
      <3>3. CASE a \notin Rows
        <4>1. a \in start
          BY <1>18, <2>2, <2>6, <3>3
        <4> QED BY <1>18, <2>2, <2>5, <2>6, <3>1, <4>1
      <3> QED BY <3>2, <3>3
    <2>7. sidecars' = sidecars /\ sidecars \subseteq Agents /\ stage' = stage /\ store' = store
      BY <1>2, <1>4 DEF SessionTypes
    <2>8. RowsFounded(OnDisk, store, wire)'
      BY <2>1, <2>3, <2>7
    <2> HIDE DEF h, fc, from, sent
    <2> QED BY <1>5, <2>4, <2>5, <2>6, <2>7, <2>8 DEF Naming
  <1>24. Following'
    <2>1. ReadTo(t).off = 2 * Len(t.lines) /\ Len(t.lines) \in Nat
      BY <1>4, TranscriptIs DEF ReadTo, Consumed
    <2>2. ASSUME stage' \in {"idle", "flush"}, NEW y \in Scripts \ missed',
                 ccur'.at[y].off < 2 * Len(scripts'[y].lines)
          PROVE  y \in left' \/ Awaited(y)'
      <3>1. y # x
        <4> SUFFICES ASSUME y = x PROVE FALSE
          OBVIOUS
        <4>1. ccur'.at[x].off = 2 * Len(t.lines) /\ scripts'[x] = t
          BY <1>2, <1>14, <1>17, <2>1
        <4> HIDE DEF t
        <4> QED BY <2>1, <2>2, <4>1
      <3>2. ccur'.at[y] = ccur.at[y] /\ scripts' = scripts /\ y \in Scripts \ missed /\ stage \in {"idle", "flush"}
        BY <1>2, <1>14, <1>17, <2>2, <3>1
      <3>3. y \in left \/ Awaited(y)
        BY <2>2, <3>2 DEF SInv, Following
      <3> QED BY <1>2, <3>1, <3>3 DEF Awaited
    <2>3. stage' \in {"scan", "flush"}
      BY <1>2 DEF Busy
    <2> QED BY <2>2, <2>3 DEF Following
  <1> QED BY <1>18, <1>20, <1>21, <1>22, <1>23, <1>24 DEF SInv

-----------------------------------------------------------------------------
(* The other steps of the reader.                                           *)

\* What a pass that reads nothing leaves alone.
Still == UNCHANGED <<scripts, sidecars, ccur, scanCur, def, wire, store, dim, torn>>

LEMMA StillCarried ==
    ASSUME SInv, Still
    PROVE  /\ ReportsEnd(wire)' /\ Carried' /\ RowsFounded(OnDisk, store, wire)' /\ OnDisk' = OnDisk
           /\ Rows' = Rows /\ Named' = Named /\ SavingsIn(wire)' = SavingsIn(wire)
  <1> USE DEF Still
  <1>1. OnDisk' = OnDisk /\ Rows' = Rows /\ Named' = Named
    BY DEF OnDisk, Rows, Named, OnWire
  <1>2. Had(store, wire)' = Had(store, wire) /\ SavingsIn(wire)' = SavingsIn(wire)
    OBVIOUS
  <1>3. Carried'
    BY <1>2 DEF SInv, Carried
  <1>4. RowsFounded(OnDisk, store, wire)'
    BY <1>1 DEF SInv, Naming
  <1> QED BY <1>1, <1>2, <1>3, <1>4 DEF SInv

LEMMA ReadScriptFailsKeeps ==
    ASSUME SInv, NEW x \in Scripts, ReadScriptFails(x)
    PROVE  SInv'
  <1>1. /\ Still /\ Busy /\ left' = left \ {x} /\ missed' = missed \cup {x}
        /\ UNCHANGED <<stage, cache, eyes, news, marks, rewound>>
    BY DEF ReadScriptFails, files, memory, Still
  <1>2. SessionTypes'
    BY <1>1 DEF SInv, SessionTypes, Still
  <1>3. InStep' /\ SpentOnce'
    BY <1>1, StillCarried DEF SInv, InStep, SpentOnce, Still
  <1>4. Naming'
    BY <1>1, StillCarried DEF SInv, Naming, Still, Told
  <1>5. Following'
    BY <1>1 DEF SInv, Following, Still, Awaited, Busy
  <1> QED BY <1>1, <1>2, <1>3, <1>4, <1>5, StillCarried DEF SInv

LEMMA CatchUpNothingKeeps ==
    ASSUME SInv, CatchUpNothing
    PROVE  SInv'
  <1>1. /\ Still /\ stage = "watching" /\ stage' = "idle" /\ OnDisk = {}
        /\ UNCHANGED <<left, missed, cache, eyes, news, marks, rewound>>
    BY DEF CatchUpNothing, files, reader, memory, record, Still
  <1>2. SessionTypes'
    BY <1>1 DEF SInv, SessionTypes, Still, Stages
  <1>3. InStep' /\ SpentOnce'
    BY <1>1, StillCarried DEF SInv, InStep, SpentOnce, Still
  <1>4. Naming'
    <2>1. ASSUME NEW a \in sidecars', a \in Rows' PROVE a \in Named'
      <3>1. a \in Agents /\ a \in Rows /\ Named' = Named
        BY <1>1, <2>1, StillCarried DEF SInv, SessionTypes, Still
      <3>2. wire = <<>>
        BY DEF CatchUpNothing, Settled
      <3>3. a \in store.rows /\ Named = store.named
        BY <3>1, <3>2, WireIs
      <3> QED BY <1>1, <3>1, <3>3 DEF SInv, Naming, RowsFounded
    <2> QED BY <1>1, <2>1, StillCarried DEF Naming
  <1>5. Following'
    <2>1. ASSUME NEW x \in Scripts, ccur'.at[x].off < 2 * Len(scripts'[x].lines) PROVE FALSE
      <3>1. scripts[x] \in Transcripts /\ ccur.at[x].off \in Nat /\ ccur' = ccur /\ scripts' = scripts
        BY <1>1 DEF SInv, SessionTypes, SessionCursors, Positions, Still
      <3>2. Bytes(scripts[x]) \in Nat /\ 2 * Len(scripts[x].lines) <= Bytes(scripts[x]) /\ Len(scripts[x].lines) \in Nat
        BY <3>1, TranscriptIs
      <3>3. Bytes(scripts[x]) > 0
        BY <2>1, <3>1, <3>2
      <3> QED BY <1>1, <3>3 DEF OnDisk
    <2> QED BY <1>1, <2>1 DEF SInv, Following
  <1> QED BY <1>1, <1>2, <1>3, <1>4, <1>5, StillCarried DEF SInv

LEMMA TakeDirectoryKeeps ==
    ASSUME SInv, TakeDirectory
    PROVE  SInv'
  <1>1. /\ Still /\ stage = "idle" /\ news /\ eyes' \in {eyes, eyes \/ subs} /\ news' = FALSE /\ marks' = Found
        /\ UNCHANGED <<stage, left, missed, cache, rewound>>
    BY DEF TakeDirectory, AddEyes, files, reader, memory, record, Still
  <1>2. marks' \in [scripts : SUBSET Scripts, metas : SUBSET sidecars] /\ marks'.metas = marks.metas \cup sidecars
        /\ marks'.scripts = marks.scripts \cup (OnDisk \cap Agents)
    <2>1. marks \in [scripts : SUBSET Scripts, metas : SUBSET sidecars]
      BY DEF SInv, SessionTypes
    <2> QED BY <1>1, <2>1 DEF Found, Scripts
  <1>3. SessionTypes'
    <2>1. eyes' \in BOOLEAN
      BY DEF TakeDirectory, AddEyes, SInv, SessionTypes
    <2> QED BY <1>1, <1>2, <2>1 DEF SInv, SessionTypes, Still
  <1>4. InStep' /\ SpentOnce'
    BY <1>1, StillCarried DEF SInv, InStep, SpentOnce, Still
  <1>5. Naming'
    <2>1. \A a \in sidecars' : Told(a)'
      BY <1>1, <1>2 DEF Told, Still
    <2> QED BY <1>1, <2>1, StillCarried DEF Naming
  <1>6. Following'
    <2>1. ASSUME NEW x \in Scripts \ missed, ccur.at[x].off < 2 * Len(scripts[x].lines) PROVE x \in left \/ Awaited(x)'
      <3>1. x \in left \/ Awaited(x)
        BY <1>1, <2>1 DEF SInv, Following
      <3>2. CASE x = Main
        BY <1>2, <3>1, <3>2 DEF Awaited
      <3>3. CASE x # Main
        <4>1. scripts[x] \in Transcripts /\ ccur.at[x].off \in Nat
          BY DEF SInv, SessionTypes, SessionCursors, Positions
        <4>2. Bytes(scripts[x]) \in Nat /\ 2 * Len(scripts[x].lines) <= Bytes(scripts[x]) /\ Len(scripts[x].lines) \in Nat
          BY <4>1, TranscriptIs
        <4>3. Bytes(scripts[x]) > 0
          BY <2>1, <4>1, <4>2
        <4>4. x \in OnDisk \cap Agents
          BY <3>3, <4>3 DEF OnDisk, Scripts
        <4> QED BY <1>2, <4>4 DEF Awaited
      <3> QED BY <3>2, <3>3
    <2> QED BY <1>1, <2>1 DEF SInv, Following, Still
  <1> QED BY <1>3, <1>4, <1>5, <1>6, <1>1, StillCarried DEF SInv

LEMMA RetailKeeps ==
    ASSUME SInv, Retail
    PROVE  SInv'
  <1>1. /\ Still /\ stage' = "scanned" /\ rewound' = TRUE /\ left' = {} /\ eyes' = FALSE /\ news' = FALSE
        /\ marks' = NoMarks /\ UNCHANGED <<cache, missed>>
    BY DEF Retail, files, memory, Still
  <1>2. SessionTypes'
    BY <1>1 DEF SInv, SessionTypes, Still, Stages, NoMarks
  <1>3. InStep' /\ SpentOnce' /\ Following'
    BY <1>1 DEF InStep, SpentOnce, Following
  <1>4. Naming'
    BY <1>1, StillCarried DEF Naming
  <1> QED BY <1>1, <1>2, <1>3, <1>4, StillCarried DEF SInv

LEMMA RestoredIs ==
    ASSUME NEW c \in SessionCursors
    PROVE  /\ Restored(c) \in Deferrals /\ Restored(c).pend = {} /\ Restored(c).compl = c.parked \ c.fin
           /\ Restored(c).fin = c.fin
           /\ \A d, tn, dm, h : Carries(d, tn, dm, c, c.parked, c.fin, h) =>
                 Carries(d, tn, dm, c, Restored(c).compl, Restored(c).fin, h)
  <1>1. /\ Restored(c) \in Deferrals /\ Restored(c).pend = {} /\ Restored(c).compl = c.parked \ c.fin
        /\ Restored(c).fin = c.fin
    BY DEF Restored, Deferrals, SessionCursors
  <1> DEFINE p == c.parked
             f == c.fin
  <1>2. (p \ f) \cup f = p \cup f /\ (p \ f) \ f = p \ f
    OBVIOUS
  <1>3. ASSUME NEW d, NEW tn, NEW dm, NEW h, Carries(d, tn, dm, c, p, f, h) PROVE Carries(d, tn, dm, c, p \ f, f, h)
    <2> HIDE DEF p, f
    <2> QED BY <1>2, <1>3 DEF Carries
  <1> QED BY <1>1, <1>3

LEMMA StartTailKeeps ==
    ASSUME SInv, StartTail
    PROVE  SInv'
  <1>1. /\ stage = "scanned" /\ wire = <<>> /\ stage' = "watching" /\ ccur' = scanCur /\ def' = Restored(scanCur)
        /\ UNCHANGED <<scripts, sidecars, left, cache, scanCur, news, marks, wire, store, missed, dim, torn, rewound>>
    BY DEF StartTail, Settled, files, reader, record
  <1>2. SessionTypes /\ scanCur \in SessionCursors /\ eyes' \in BOOLEAN
    BY DEF SInv, SessionTypes, StartTail, AddEyes
  <1>3. SessionTypes'
    BY <1>1, <1>2, RestoredIs DEF SessionTypes, Stages
  <1>4. Carried'
    BY <1>1, <1>2, RestoredIs DEF SInv, Carried
  <1>5. ReportsEnd(wire)' /\ Following'
    BY <1>1 DEF SInv, Following
  <1>6. InStep' /\ SpentOnce'
    <2>1. scanCur.parked \ scanCur.fin = (scanCur.parked \ scanCur.fin) \ scanCur.fin
      OBVIOUS
    <2>2. InStep'
      BY <1>1, <1>2, <2>1, RestoredIs DEF InStep
    <2>3. SpentOnce'
      BY <1>1, <1>2, RestoredIs DEF SInv, SpentOnce
    <2> QED BY <2>2, <2>3
  <1>7. Naming'
    <2>1. OnDisk' = OnDisk
      BY <1>1 DEF OnDisk
    <2> QED BY <1>1, <2>1 DEF SInv, Naming
  <1> QED BY <1>3, <1>4, <1>5, <1>6, <1>7 DEF SInv

LEMMA StartScanAllKeeps ==
    ASSUME SInv, StartScanAll
    PROVE  SInv'
  <1>1. /\ stage = "off" /\ wire = <<>> /\ stage' = "scan" /\ left' = OnDisk /\ cache' = NotRead
        /\ ccur' = store.cur /\ def' = Restored(store.cur) /\ wire' = wire \o OrphanRoot
        /\ UNCHANGED <<scripts, sidecars, scanCur, eyes, news, marks, store, missed, dim, torn, rewound>>
    BY DEF StartScanAll, Settled, files, record
  <1>2. SessionTypes /\ store.cur \in SessionCursors /\ scripts \in [Scripts -> Transcripts]
    BY DEF SInv, SessionTypes
  <1>3. PICK q : q = OrphanRoot
    OBVIOUS
  <1>4. q \in Seq(Sendings) /\ \A m \in RowsIn(q) : m.rows \cap Agents = {}
    <2>1. CASE q = <<>>
      BY <2>1, NothingSent
    <2>2. CASE q # <<>>
      <3>1. PICK R : R = {Main} \ Rows
        OBVIOUS
      <3>2. q = Batch({}, R, {}, {})
        BY <1>3, <2>2, <3>1 DEF OrphanRoot
      <3>3. R \in SUBSET Scripts /\ R \cap Agents = {}
        BY <3>1, ClaudeTailAssumption DEF Scripts
      <3>4. IsBatch(q, {}, R, {}, {})
        <4>1. {} \in SUBSET (Scripts \X Nat \X Nat) /\ {} \in SUBSET Agents
          OBVIOUS
        <4> QED BY <3>2, <3>3, <4>1, BatchIs, Zenon
      <3> QED BY <3>3, <3>4 DEF IsBatch
    <2> QED BY <2>1, <2>2
  <1>5. wire' = q
    BY <1>1, <1>3, <1>4, ConcatEmptySeq
  <1>6. wire' \in Wires /\ ReportsEnd(wire') /\ SavingsIn(wire') = {} /\ NoLess(Had(store, wire), Had(store', wire'))
        /\ NoLess(store, Had(store', wire'))
    <2>1. Sends(q, store.cur)
      BY <1>5 DEF Sends
    <2>2. NoLess(Had(store, wire), Had(store', wire'))
      BY <1>1, <1>2, <1>4, <2>1, SendsIs
    <2> QED BY <1>1, <1>4, <1>5, <2>2, SendingsOnly DEF Had, NoLess
  <1>7. SessionTypes'
    <2>1. left' \subseteq Scripts
      BY <1>1 DEF OnDisk
    <2> QED BY <1>1, <1>2, <1>6, <2>1, RestoredIs DEF SessionTypes, Stages
  <1>8. Carried'
    <2>1. /\ Carries(scripts, torn', dim', store.cur, store.cur.parked, store.cur.fin, store)
          /\ Carries(scripts, torn', dim', scanCur, scanCur.parked, scanCur.fin, Had(store', wire'))
      BY <1>1, <1>6, OthersCarried
    <2>2. Carries(scripts, torn', dim', store.cur, store.cur.parked, store.cur.fin, Had(store', wire'))
      BY <1>1, <1>2, <1>6, <2>1, CursorParts, CarriesMore
    <2> QED BY <1>1, <1>2, <1>6, <2>1, <2>2, RestoredIs DEF Carried
  <1>9. InStep' /\ Following' /\ SpentOnce'
    BY <1>1, <1>2, <1>6, RestoredIs DEF InStep, Following, SpentOnce
  <1>10. Naming'
    <2>1. OnDisk' = OnDisk
      BY <1>1 DEF OnDisk
    <2>2. RowsFounded(OnDisk, store, wire')
      BY <1>4, <1>5 DEF SInv, Naming, RowsFounded
    <2> QED BY <1>1, <2>1, <2>2 DEF Naming
  <1> QED BY <1>6, <1>7, <1>8, <1>9, <1>10 DEF SInv

LEMMA DieKeeps ==
    ASSUME SInv, Die
    PROVE  SInv'
  <1>1. /\ stage' = "off" /\ rewound' = FALSE /\ left' = {} /\ cache' = NotRead /\ eyes' = FALSE /\ news' = FALSE
        /\ marks' = NoMarks /\ wire' = <<>> /\ ccur' = EmptyCursor /\ scanCur' = EmptyCursor
        /\ def' = Restored(EmptyCursor) /\ UNCHANGED <<scripts, sidecars, store, missed, dim, torn>>
    BY DEF Die, files
  <1>2. SessionTypes /\ scripts \in [Scripts -> Transcripts] /\ EmptyCursor \in SessionCursors
    BY EmptyCarries DEF SInv, SessionTypes
  <1>3. SessionTypes'
    BY <1>1, <1>2, RestoredIs, NothingSent DEF SessionTypes, Stages, NoMarks
  <1>4. Carried'
    <2>1. EmptyCursor.parked = {} /\ EmptyCursor.fin = {}
      BY DEF EmptyCursor
    <2>2. \A h : Carries(scripts, torn, dim, EmptyCursor, {}, {}, h)
      BY <1>2, EmptyCarries
    <2>3. Restored(EmptyCursor).compl = {} /\ Restored(EmptyCursor).fin = {}
      BY <1>2, <2>1, RestoredIs
    <2> QED BY <1>1, <2>1, <2>2, <2>3, NothingSent DEF SInv, Carried
  <1>5. InStep' /\ SpentOnce' /\ Following'
    BY <1>1 DEF InStep, SpentOnce, Following
  <1>6. Naming'
    <2>1. OnDisk' = OnDisk
      BY <1>1 DEF OnDisk
    <2> QED BY <1>1, <2>1, NothingSent DEF SInv, Naming, RowsFounded
  <1> QED BY <1>1, <1>3, <1>4, <1>5, <1>6, NothingSent DEF SInv

LEMMA ApplyKeeps ==
    ASSUME SInv, Apply
    PROVE  SInv'
  <1> DEFINE m == Head(wire)
             h == Had(store, wire)
             k == Had(store', wire')
  <1>1. /\ wire # <<>> /\ wire' = Tail(wire)
        /\ store' = (IF m.tag = "progress" THEN [store EXCEPT !.cur = m.cur]
                     ELSE [store EXCEPT !.seen = @ \cup m.lines, !.rows = @ \cup m.rows,
                                        !.named = @ \cup m.named, !.closed = @ \cup m.closed])
        /\ UNCHANGED <<scripts, sidecars, stage, left, cache, ccur, scanCur, def, eyes, news, marks, missed, dim, torn, rewound>>
    BY DEF Apply, files, reader, memory, record
  <1>2. /\ SessionTypes /\ wire \in Wires /\ ReportsEnd(wire) /\ scripts \in [Scripts -> Transcripts]
        /\ store = [seen |-> store.seen, rows |-> store.rows, named |-> store.named, closed |-> store.closed, cur |-> store.cur]
        /\ store.cur \in SessionCursors
    BY DEF SInv, SessionTypes
  <1>3. /\ wire' \in Wires /\ ReportsEnd(wire')
        /\ SavingsIn(wire') \subseteq SavingsIn(wire) /\ RowsIn(wire') \subseteq RowsIn(wire)
        /\ m.tag = "progress" =>
             /\ m.cur \in SavingsIn(wire) /\ SavingsIn(wire') = {} /\ RowsIn(wire') = {}
             /\ \A f : In(wire, f) = {} /\ In(wire', f) = {}
        /\ m.tag # "progress" =>
             /\ m \in RowsIn(wire)
             /\ \A f : In(wire, f) = m[f] \cup In(wire', f)
    BY <1>1, <1>2, HeadIs
  <1>4. (\A f : OnWire(f) = In(wire, f)) /\ \A f : OnWire(f)' = In(wire', f)
    BY DEF OnWire, In
  <1>5. CASE m.tag = "progress"
    <2>1. store' = [seen |-> store.seen, rows |-> store.rows, named |-> store.named, closed |-> store.closed, cur |-> m.cur]
      BY <1>1, <1>2, <1>5
    <2>2. m.cur \in SavingsIn(wire) /\ m.cur \in SessionCursors /\ SavingsIn(wire') = {} /\ RowsIn(wire') = {}
          /\ \A f : In(wire, f) = {} /\ In(wire', f) = {}
      BY <1>3, <1>5 DEF SavingsIn
    <2> HIDE DEF m
    <2>3. NoLess(h, k) /\ NoLess(h, store') /\ NoLess(store, store')
      BY <2>1, <2>2 DEF Had, NoLess
    <2>4. Rows' = Rows /\ Named' = Named
      BY <1>4, <2>1, <2>2 DEF Rows, Named
    <2> HIDE DEF h, k
    <2>5. Carries(scripts, torn, dim, m.cur, m.cur.parked, m.cur.fin, h)
      BY <2>2 DEF SInv, Carried, h
    <2>6. Carries(scripts, torn, dim, m.cur, m.cur.parked, m.cur.fin, store')
      BY <1>2, <2>2, <2>3, <2>5, CursorParts, CarriesMore
    <2>7. Carried'
      <3>1. /\ Carries(scripts, torn, dim, scanCur, scanCur.parked, scanCur.fin, k)
            /\ Carries(scripts, torn, dim, ccur, def.compl, def.fin, k)
        BY <1>2, <2>3, CursorParts, CarriesMore DEF SInv, Carried, h
      <3>2. store'.cur = m.cur
        BY <2>1
      <3>3. Carries(scripts', torn', dim', store'.cur, store'.cur.parked, store'.cur.fin, store')
        BY <1>1, <2>6, <3>2
      <3>4. /\ Carries(scripts', torn', dim', scanCur', scanCur'.parked, scanCur'.fin, Had(store', wire'))
            /\ Carries(scripts', torn', dim', ccur', def'.compl, def'.fin, Had(store', wire'))
        BY <1>1, <3>1 DEF k
      <3> QED BY <2>2, <3>3, <3>4 DEF Carried
    <2>8. SessionTypes'
      BY <1>1, <1>2, <1>3, <2>1, <2>2 DEF SessionTypes
    <2>9. InStep' /\ Following'
      BY <1>1 DEF SInv, InStep, Following, Awaited
    <2>10. SpentOnce'
      BY <1>1, <2>1, <2>2 DEF SInv, SpentOnce
    <2>11. Naming'
      <3>1. OnDisk' = OnDisk /\ \A a : Told(a)' <=> Told(a)
        BY <1>1 DEF OnDisk, Told
      <3>2. RowsFounded(OnDisk, store', wire')
        BY <2>1, <2>2 DEF SInv, Naming, RowsFounded
      <3> QED BY <1>1, <2>4, <3>1, <3>2 DEF SInv, Naming
    <2> QED BY <1>3, <2>7, <2>8, <2>9, <2>10, <2>11 DEF SInv
  <1>6. CASE m.tag # "progress"
    <2>1. store' = [seen |-> store.seen \cup m.lines, rows |-> store.rows \cup m.rows, named |-> store.named \cup m.named,
                    closed |-> store.closed \cup m.closed, cur |-> store.cur]
      <3> HIDE DEF m
      <3> QED BY <1>1, <1>2, <1>6
    <2>2. m \in RowsIn(wire) /\ \A f : In(wire, f) = m[f] \cup In(wire', f)
      BY <1>3, <1>6
    <2> HIDE DEF m
    <2>3. /\ In(wire, "lines") = m.lines \cup In(wire', "lines") /\ In(wire, "named") = m.named \cup In(wire', "named")
          /\ In(wire, "closed") = m.closed \cup In(wire', "closed") /\ In(wire, "rows") = m.rows \cup In(wire', "rows")
      BY <2>2
    <2>4. NoLess(h, k) /\ NoLess(store, store')
      BY <2>1, <2>3 DEF Had, NoLess
    <2>5. Rows' = Rows /\ Named' = Named
      BY <1>4, <2>1, <2>3 DEF Rows, Named
    <2> HIDE DEF h, k
    <2>6. Carried'
      <3>1. /\ Carries(scripts, torn, dim, scanCur, scanCur.parked, scanCur.fin, k)
            /\ Carries(scripts, torn, dim, ccur, def.compl, def.fin, k)
        BY <1>2, <2>4, CursorParts, CarriesMore DEF SInv, Carried, h
      <3>2. Carries(scripts, torn, dim, store.cur, store.cur.parked, store.cur.fin, store')
        BY <1>2, <2>4, CursorParts, CarriesMore DEF SInv, Carried
      <3>3. \A c \in SavingsIn(wire') : Carries(scripts, torn, dim, c, c.parked, c.fin, k)
        BY <1>2, <1>3, <2>4, CursorParts, CarriesMore DEF SInv, Carried, h
      <3> QED BY <1>1, <2>1, <3>1, <3>2, <3>3 DEF Carried, k
    <2>7. SessionTypes'
      <3>1. store' = [seen |-> store'.seen, rows |-> store'.rows, named |-> store'.named, closed |-> store'.closed,
                      cur |-> store'.cur]
        BY <2>1
      <3>2. store'.cur \in SessionCursors
        BY <1>2, <2>1
      <3> QED BY <1>1, <1>2, <1>3, <3>1, <3>2 DEF SessionTypes
    <2>8. InStep' /\ Following'
      BY <1>1 DEF SInv, InStep, Following, Awaited
    <2>9. SpentOnce'
      BY <1>1, <1>3, <2>1 DEF SInv, SpentOnce
    <2>10. Naming'
      <3>1. OnDisk' = OnDisk /\ \A a : Told(a)' <=> Told(a)
        BY <1>1 DEF OnDisk, Told
      <3>2. RowsFounded(OnDisk, store', wire')
        BY <1>3, <2>1, <2>2 DEF SInv, Naming, RowsFounded
      <3> QED BY <1>1, <2>5, <3>1, <3>2 DEF SInv, Naming
    <2> QED BY <1>3, <2>6, <2>7, <2>8, <2>9, <2>10 DEF SInv
  <1> QED BY <1>5, <1>6

\* What an idle or watching tail has in memory may be reported as it is.
LEMMA MemoryReportable ==
    ASSUME InStep, stage \in {"watching", "idle"}
    PROVE  \A d, tn, dm, h : Carries(d, tn, dm, ccur, def.compl, def.fin, h) =>
              Carries(d, tn, dm, ccur, ccur.parked, ccur.fin, h)
  <1>1. ccur.fin = def.fin /\ ccur.parked \ ccur.fin = def.compl \ def.fin
    BY DEF InStep
  <1>2. ccur.parked \cup ccur.fin = def.compl \cup def.fin
    BY <1>1
  <1> QED BY <1>1, <1>2 DEF Carries

LEMMA OnTickKeeps ==
    ASSUME SInv, OnTick
    PROVE  SInv'
  <1>1. /\ stage = "idle" /\ wire = <<>> /\ eyes' \in BOOLEAN /\ (eyes => eyes') /\ wire' = Saved(wire, ccur)
        /\ (eyes' /\ ~eyes /\ ~news => missed' = missed \cup Agents /\ dim' = dim \cup Agents)
        /\ missed \subseteq missed' /\ dim \subseteq dim'
        /\ UNCHANGED <<scripts, sidecars, stage, left, cache, ccur, scanCur, def, news, marks, store, torn, rewound>>
    <2>1. eyes' \in BOOLEAN /\ (eyes => eyes')
      BY DEF OnTick, AddEyes, SInv, SessionTypes
    <2> QED BY <2>1 DEF OnTick, Settled, files, reader, memory
  <1>2. SessionTypes /\ scripts \in [Scripts -> Transcripts] /\ ccur \in SessionCursors /\ InStep
    BY DEF SInv, SessionTypes
  <1>3. /\ wire' \in Wires /\ ReportsEnd(wire') /\ SavingsIn(wire') \subseteq {ccur} /\ RowsIn(wire') = {}
        /\ NoLess(Had(store, wire), Had(store', wire')) /\ Named' = store.named /\ Rows' = store.rows
    <2>1. Sends(<<>>, ccur)
      BY <1>1 DEF Sends
    <2>2. <<>> \in Seq(Sendings) /\ RowsIn(<<>>) = {} /\ \A f : In(<<>>, f) = {}
      BY NothingSent
    <2>3. /\ wire' \in Wires /\ ReportsEnd(wire') /\ SavingsIn(wire') \subseteq {ccur} /\ RowsIn(wire') = RowsIn(<<>>)
          /\ Had(store', wire') = Had(store, <<>>) /\ NoLess(Had(store, wire), Had(store, <<>>))
          /\ Named' = store.named \cup In(<<>>, "named") /\ Rows' = store.rows \cup In(<<>>, "rows")
      BY <1>1, <1>2, <2>1, <2>2, SendsIs
    <2> QED BY <2>2, <2>3
  <1>4. SessionTypes'
    BY <1>1, <1>2, <1>3 DEF SessionTypes
  <1>5. Carried'
    <2>1. /\ Carries(scripts, torn', dim', store.cur, store.cur.parked, store.cur.fin, store)
          /\ Carries(scripts, torn', dim', scanCur, scanCur.parked, scanCur.fin, Had(store', wire'))
          /\ Carries(scripts, torn', dim', ccur, def.compl, def.fin, Had(store', wire'))
      BY <1>1, <1>3, OthersCarried
    <2>2. Carries(scripts, torn', dim', ccur, ccur.parked, ccur.fin, Had(store', wire'))
      BY <1>1, <1>2, <2>1, MemoryReportable
    <2> QED BY <1>1, <1>3, <2>1, <2>2 DEF Carried
  <1>6. InStep' /\ SpentOnce'
    BY <1>1, <1>3 DEF SInv, InStep, SpentOnce
  <1>7. Naming'
    <2>1. OnDisk' = OnDisk
      BY <1>1 DEF OnDisk
    <2>2. RowsFounded(OnDisk, store, wire')
      BY <1>3 DEF SInv, Naming, RowsFounded
    <2>3. ASSUME NEW a \in sidecars, a \in store.rows PROVE a \in store.named \/ Told(a)'
      <3>1. a \in Named \/ Told(a)
        BY <1>1, <2>3, WireIs DEF SInv, Naming
      <3>2. Named = store.named /\ a \in Agents
        BY <1>1, <1>2, WireIs DEF SessionTypes
      <3> QED BY <1>1, <3>1, <3>2 DEF Told
    <2> QED BY <1>1, <1>3, <2>1, <2>2, <2>3 DEF Naming
  <1>8. Following'
    <2>1. ASSUME NEW x \in Scripts \ missed', ccur.at[x].off < 2 * Len(scripts[x].lines) PROVE x \in left \/ Awaited(x)'
      <3>1. x \in left \/ Awaited(x)
        BY <1>1, <2>1 DEF SInv, Following
      <3>2. x = Main \/ x \in Agents
        BY DEF Scripts
      <3> QED BY <1>1, <2>1, <3>1, <3>2 DEF Awaited
    <2> QED BY <1>1, <2>1 DEF SInv, Following
  <1> QED BY <1>3, <1>4, <1>5, <1>6, <1>7, <1>8 DEF SInv

-----------------------------------------------------------------------------
(* Calls that are paired, and sidecars that are recorded.                   *)

LEMMA PairedIs ==
    ASSUME NEW dfr \in Deferrals
    PROVE  /\ Paired(dfr) \in Deferrals /\ Due(dfr) \subseteq Agents /\ Paired(dfr).pend = dfr.pend
           /\ Paired(dfr).compl = dfr.compl \ (dfr.fin \cup Due(dfr)) /\ Paired(dfr).fin = dfr.fin \cup Due(dfr)
           /\ Paired(dfr).compl \cap dfr.pend = {}
  <1>1. Due(dfr) \subseteq Agents /\ (dfr.compl \ (dfr.fin \cup Due(dfr))) \cap dfr.pend = {}
    BY DEF Due, Deferrals
  <1>2. /\ Paired(dfr) \in Deferrals /\ Paired(dfr).pend = dfr.pend
        /\ Paired(dfr).compl = dfr.compl \ (dfr.fin \cup Due(dfr)) /\ Paired(dfr).fin = dfr.fin \cup Due(dfr)
    BY <1>1 DEF Paired, Deferrals
  <1> QED BY <1>1, <1>2

LEMMA PairedCarries ==
    ASSUME NEW dfr \in Deferrals, NEW d, NEW tn, NEW dm, NEW c, NEW h,
           Carries(d, tn, dm, c, dfr.compl, dfr.fin, h), Due(dfr) \subseteq h.closed
    PROVE  Carries(d, tn, dm, c, Paired(dfr).compl, Paired(dfr).fin, h)
  <1> DEFINE p == Paired(dfr).compl
             f == Paired(dfr).fin
  <1>1. p = dfr.compl \ (dfr.fin \cup Due(dfr)) /\ f = dfr.fin \cup Due(dfr)
    BY PairedIs
  <1> HIDE DEF p, f
  <1>2. p \cup f = dfr.compl \cup f /\ p \ f \subseteq dfr.compl \ dfr.fin
    BY <1>1
  <1>3. Kept(d, tn, c, p \cup f)
    BY <1>1, <1>2 DEF Carries, Kept
  <1>4. Owed(d, tn, c, p \ f)
    BY <1>2 DEF Carries, Owed
  <1>5. Spent(d, f, h)
    BY <1>1 DEF Carries, Spent
  <1>6. Carries(d, tn, dm, c, p, f, h)
    BY <1>3, <1>4, <1>5 DEF Carries
  <1> QED BY <1>6 DEF p, f

\* Hashes are recorded of sidecars that were announced or could not be read.
LEMMA RecordedIs ==
    ASSUME SessionTypes, NEW c \in SessionCursors, NEW metas \in SUBSET Agents
    PROVE  /\ RecordMetas(c, metas) \in SessionCursors /\ RecordMetas(c, metas).at = c.at
           /\ RecordMetas(c, metas).meta = c.meta \cup (metas \cap sidecars)
           /\ RecordMetas(c, metas).parked = c.parked /\ RecordMetas(c, metas).fin = c.fin
  BY DEF SessionTypes, RecordMetas, SessionCursors

LEMMA RecordedCarries ==
    ASSUME NEW c, NEW e, e.at = c.at, NEW ms, e.meta \subseteq c.meta \cup ms, NEW d, NEW tn, NEW dm, NEW p, NEW f, NEW h,
           Carries(d, tn, dm, c, p, f, h), ms \ dm \subseteq h.named
    PROVE  Carries(d, tn, dm, e, p, f, h)
  BY DEF Carries, Kept, Owed, Ended

\* What a pass announces of the sidecars metas, except those it cannot read.
RepairsMade(q, ms, unread) ==
    /\ In(q, "closed") = {} /\ In(q, "named") \subseteq ms /\ In(q, "rows") \subseteq ms
    /\ RowsFounded(OnDisk, store, q)
    /\ (ms \cap sidecars) \ (dim \cup unread) \subseteq store.named \cup In(q, "named")

LEMMA RepairsIs ==
    ASSUME SInv, wire = <<>>, NEW metas \in SUBSET Agents, NEW unread \in SUBSET NewMetas(metas),
           NEW q \in Seq(Sendings), q = Repairs(metas, unread)
    PROVE  RepairsMade(q, metas, unread)
  <1> DEFINE fresh == Repaired(metas, unread)
  <1>1. fresh = ((metas \cap sidecars) \ ccur.meta) \ unread /\ fresh \in SUBSET Agents /\ fresh \subseteq metas
    BY DEF Repaired, NewMetas
  <1>2. PICK R, N : R = fresh \ Rows /\ N = fresh \ Named
    OBVIOUS
  <1>3. q = Batch({}, R, N, {})
    BY <1>2 DEF Repairs
  <1>4. Named = store.named /\ Rows = store.rows
    BY WireIs
  <1>5. IsBatch(q, {}, R, N, {})
    <2>1. {} \in SUBSET (Scripts \X Nat \X Nat) /\ R \in SUBSET Scripts /\ N \in SUBSET Agents /\ {} \in SUBSET Agents
      BY <1>1, <1>2 DEF Scripts
    <2> HIDE DEF fresh
    <2> QED BY <1>3, <2>1, BatchIs, Zenon
  <1> HIDE DEF fresh
  <1>6. In(q, "closed") = {} /\ In(q, "named") = N /\ In(q, "rows") = R
        /\ \A m \in RowsIn(q) : m.rows = R /\ m.named = N
    BY <1>5 DEF IsBatch
  <1>7. RowsFounded(OnDisk, store, q)
    BY <1>2, <1>4, <1>6 DEF SInv, Naming, RowsFounded
  <1>8. (metas \cap sidecars) \ (dim \cup unread) \subseteq store.named \cup N
    <2>1. ccur.meta \ dim \subseteq store.named
      <3>1. ccur.meta \ dim \subseteq Had(store, wire).named
        BY DEF SInv, Carried, Carries
      <3> QED BY <3>1, <1>4, WireIs
    <2> QED BY <1>1, <1>2, <1>4, <2>1
  <1> QED BY <1>1, <1>2, <1>6, <1>7, <1>8 DEF RepairsMade

LEMMA RepairsSent ==
    ASSUME SInv, wire = <<>>, NEW metas \in SUBSET Agents, NEW unread
    PROVE  Repairs(metas, unread) \in Seq(Sendings)
  <1> DEFINE fresh == Repaired(metas, unread)
  <1>1. fresh \in SUBSET Agents
    BY DEF Repaired, NewMetas
  <1>2. PICK R, N : R = fresh \ Rows /\ N = fresh \ Named
    OBVIOUS
  <1>3. Repairs(metas, unread) = Batch({}, R, N, {})
    BY <1>2 DEF Repairs
  <1>4. {} \in SUBSET (Scripts \X Nat \X Nat) /\ R \in SUBSET Scripts /\ N \in SUBSET Agents /\ {} \in SUBSET Agents
    BY <1>1, <1>2 DEF Scripts
  <1>5. IsBatch(Batch({}, R, N, {}), {}, R, N, {})
    BY <1>4, BatchIs, Zenon
  <1> QED BY <1>3, <1>5 DEF IsBatch

\* The calls a pass closes.
LEMMA ClosesIs ==
    ASSUME NEW C \in SUBSET Agents
    PROVE  /\ Batch({}, {}, {}, C) \in Seq(Sendings) /\ In(Batch({}, {}, {}, C), "closed") = C
           /\ In(Batch({}, {}, {}, C), "rows") = {} /\ In(Batch({}, {}, {}, C), "named") = {}
           /\ \A m \in RowsIn(Batch({}, {}, {}, C)) : m.rows = {}
  <1>1. {} \in SUBSET (Scripts \X Nat \X Nat) /\ {} \in SUBSET Scripts /\ {} \in SUBSET Agents
    OBVIOUS
  <1>2. IsBatch(Batch({}, {}, {}, C), {}, {}, {}, C)
    BY <1>1, BatchIs, Zenon
  <1> QED BY <1>2 DEF IsBatch

LEMMA FinishFlushKeeps ==
    ASSUME SInv, FinishFlush
    PROVE  SInv'
  <1>1. /\ stage = "flush" /\ left = {} /\ wire = <<>> /\ def' = Paired(def) /\ ccur' = Persist(ccur, def')
        /\ wire' = Saved(wire \o Batch({}, {}, {}, Due(def)), ccur') /\ stage' = "idle"
        /\ UNCHANGED <<scripts, sidecars, left, cache, scanCur, eyes, news, marks, store, missed, dim, torn, rewound>>
    BY DEF FinishFlush, Settled, files, reader, record
  <1>2. SessionTypes /\ scripts \in [Scripts -> Transcripts] /\ ccur \in SessionCursors /\ def \in Deferrals
    BY DEF SInv, SessionTypes
  <1>3. /\ def' \in Deferrals /\ Due(def) \subseteq Agents /\ def'.pend = def.pend
        /\ def'.compl = def.compl \ (def.fin \cup Due(def)) /\ def'.fin = def.fin \cup Due(def)
        /\ def'.compl \cap def.pend = {}
    BY <1>1, <1>2, PairedIs
  <1>4. /\ ccur' \in SessionCursors /\ ccur'.at = ccur.at /\ ccur'.meta = ccur.meta
        /\ ccur'.parked = def'.compl /\ ccur'.fin = def'.fin
    BY <1>1, <1>2, <1>3, PersistIs
  <1>5. PICK q : q = Batch({}, {}, {}, Due(def))
    OBVIOUS
  <1>6. /\ q \in Seq(Sendings) /\ In(q, "closed") = Due(def) /\ In(q, "rows") = {} /\ In(q, "named") = {}
        /\ \A m \in RowsIn(q) : m.rows = {}
    BY <1>3, <1>5, ClosesIs
  <1>7. /\ wire' \in Wires /\ ReportsEnd(wire') /\ SavingsIn(wire') \subseteq {ccur'} /\ RowsIn(wire') = RowsIn(q)
        /\ Had(store', wire') = Had(store, q) /\ NoLess(Had(store, wire), Had(store, q))
        /\ Named' = store.named /\ Rows' = store.rows
    <2>1. Sends(q, ccur')
      BY <1>1, <1>5, <1>6, ConcatEmptySeq DEF Sends
    <2> QED BY <1>1, <1>4, <1>6, <2>1, SendsIs
  <1>8. SessionTypes'
    BY <1>1, <1>2, <1>3, <1>4, <1>7 DEF SessionTypes, Stages
  <1>9. Carried'
    <2> DEFINE h == Had(store, q)
    <2>0. Due(def) \subseteq h.closed
      BY <1>6 DEF Had
    <2> HIDE DEF h
    <2>1. /\ Carries(scripts, torn', dim', store.cur, store.cur.parked, store.cur.fin, store)
          /\ Carries(scripts, torn', dim', scanCur, scanCur.parked, scanCur.fin, h)
          /\ Carries(scripts, torn', dim', ccur, def.compl, def.fin, h)
      BY <1>1, <1>7, OthersCarried DEF h
    <2>2. Carries(scripts, torn', dim', ccur, def'.compl, def'.fin, h)
      BY <1>1, <1>2, <2>0, <2>1, PairedCarries
    <2>3. Carries(scripts, torn', dim', ccur', def'.compl, def'.fin, h)
      BY <1>4, <2>2, CarriesSame
    <2>4. \A c \in SavingsIn(wire') : Carries(scripts, torn', dim', c, c.parked, c.fin, h)
      BY <1>4, <1>7, <2>3
    <2> QED BY <1>1, <1>7, <2>1, <2>3, <2>4 DEF Carried, h
  <1>10. InStep' /\ SpentOnce'
    BY <1>1, <1>3, <1>4, <1>7 DEF SInv, InStep, SpentOnce
  <1>11. Naming'
    <2>1. OnDisk' = OnDisk /\ Named = store.named /\ Rows = store.rows /\ \A a : Told(a)' <=> Told(a)
      BY <1>1, WireIs DEF OnDisk, Told
    <2>2. RowsFounded(OnDisk, store, wire')
      BY <1>6, <1>7 DEF SInv, Naming, RowsFounded
    <2> QED BY <1>1, <1>7, <2>1, <2>2 DEF SInv, Naming
  <1>12. Following'
    BY <1>1, <1>4 DEF SInv, Following, Awaited
  <1> QED BY <1>7, <1>8, <1>9, <1>10, <1>11, <1>12 DEF SInv

LEMMA EndScanAllKeeps ==
    ASSUME SInv, EndScanAll
    PROVE  SInv'
  <1>1. PICK unread \in SUBSET NewMetas(Agents) :
          /\ Misread(unread)
          /\ def' = Paired(def)
          /\ ccur' = Persist(RecordMetas(ccur, Agents), def')
          /\ wire' = Saved(wire \o Batch({}, {}, {}, Due(def)) \o Repairs(Agents, unread), ccur')
    BY Zenon DEF EndScanAll
  <1>2. /\ stage = "scan" /\ left = {} /\ wire = <<>> /\ scanCur' = ccur' /\ stage' = "scanned" /\ dim' = dim \cup unread
        /\ UNCHANGED <<scripts, sidecars, left, cache, eyes, news, marks, store, missed, torn, rewound>>
    BY <1>1 DEF EndScanAll, Settled, files, reader, Misread
  <1>3. SessionTypes /\ scripts \in [Scripts -> Transcripts] /\ ccur \in SessionCursors /\ def \in Deferrals
    BY DEF SInv, SessionTypes
  <1>4. /\ def' \in Deferrals /\ Due(def) \subseteq Agents /\ def.fin \subseteq def'.fin
    BY <1>1, <1>3, PairedIs
  <1>5. PICK e : e = RecordMetas(ccur, Agents)
    OBVIOUS
  <1>6. e \in SessionCursors /\ e.at = ccur.at /\ e.meta = ccur.meta \cup (Agents \cap sidecars)
    BY <1>3, <1>5, RecordedIs
  <1>7. /\ ccur' \in SessionCursors /\ ccur'.at = e.at /\ ccur'.meta = e.meta
        /\ ccur'.parked = def'.compl /\ ccur'.fin = def'.fin
    BY <1>1, <1>4, <1>5, <1>6, PersistIs
  <1>8. PICK q, r : q = Batch({}, {}, {}, Due(def)) /\ r = Repairs(Agents, unread)
    OBVIOUS
  <1>9. /\ q \in Seq(Sendings) /\ In(q, "closed") = Due(def) /\ In(q, "named") = {}
        /\ \A m \in RowsIn(q) : m.rows = {}
    BY <1>4, <1>8, ClosesIs
  <1>10. /\ r \in Seq(Sendings) /\ RowsFounded(OnDisk, store, r)
         /\ (Agents \cap sidecars) \ (dim \cup unread) \subseteq store.named \cup In(r, "named")
    <2>1. r \in Seq(Sendings)
      BY <1>2, <1>8, RepairsSent
    <2>2. Agents \in SUBSET Agents
      OBVIOUS
    <2>3. RepairsMade(r, Agents, unread)
      BY <1>2, <1>8, <2>1, <2>2, RepairsIs, Zenon
    <2> QED BY <2>1, <2>3 DEF RepairsMade
  <1>11. PICK s : s = q \o r
    OBVIOUS
  <1>12. /\ s \in Seq(Sendings) /\ RowsIn(s) = RowsIn(q) \cup RowsIn(r)
         /\ Due(def) \subseteq In(s, "closed") /\ In(r, "named") \subseteq In(s, "named")
    <2>1. \A f : In(s, f) = In(q, f) \cup In(r, f)
      BY <1>9, <1>10, <1>11, BothSent
    <2>2. s \in Seq(Sendings) /\ RowsIn(s) = RowsIn(q) \cup RowsIn(r)
      BY <1>9, <1>10, <1>11, BothSent
    <2>3. In(s, "closed") = In(q, "closed") \cup In(r, "closed") /\ In(s, "named") = In(q, "named") \cup In(r, "named")
      BY <2>1
    <2> QED BY <1>9, <2>2, <2>3
  <1>13. /\ wire' \in Wires /\ ReportsEnd(wire') /\ SavingsIn(wire') \subseteq {ccur'} /\ RowsIn(wire') = RowsIn(s)
         /\ Had(store', wire') = Had(store, s) /\ NoLess(Had(store, wire), Had(store, s))
    <2>1. wire \o q = q
      BY <1>2, <1>9, ConcatEmptySeq
    <2>2. Sends(s, ccur')
      BY <1>1, <1>8, <1>11, <2>1 DEF Sends
    <2> QED BY <1>2, <1>7, <1>12, <2>2, SendsIs
  <1>14. SessionTypes'
    BY <1>2, <1>3, <1>4, <1>7, <1>13 DEF SessionTypes, Stages
  <1>15. Carried'
    <2> DEFINE h == Had(store, s)
    <2>0. Due(def) \subseteq h.closed /\ (Agents \cap sidecars) \ dim' \subseteq h.named
      BY <1>2, <1>10, <1>12 DEF Had
    <2> HIDE DEF h
    <2>1. /\ Carries(scripts, torn', dim', store.cur, store.cur.parked, store.cur.fin, store)
          /\ Carries(scripts, torn', dim', ccur, def.compl, def.fin, h)
      BY <1>2, <1>13, OthersCarried DEF h
    <2>2. Carries(scripts, torn', dim', ccur, def'.compl, def'.fin, h)
      BY <1>1, <1>3, <2>0, <2>1, PairedCarries
    <2>3. Carries(scripts, torn', dim', ccur', def'.compl, def'.fin, h)
      BY <1>6, <1>7, <2>0, <2>2, RecordedCarries
    <2>4. \A c \in SavingsIn(wire') : Carries(scripts, torn', dim', c, c.parked, c.fin, h)
      BY <1>7, <1>13, <2>3
    <2> QED BY <1>2, <1>7, <1>13, <2>1, <2>3, <2>4 DEF Carried, h
  <1>16. InStep' /\ SpentOnce'
    BY <1>2, <1>4, <1>7, <1>13 DEF SInv, InStep, SpentOnce
  <1>17. Naming'
    <2>1. OnDisk' = OnDisk
      BY <1>2 DEF OnDisk
    <2>2. RowsFounded(OnDisk, store, wire')
      BY <1>9, <1>10, <1>12, <1>13 DEF RowsFounded
    <2> QED BY <1>2, <2>1, <2>2 DEF Naming
  <1>18. Following'
    BY <1>2 DEF Following
  <1> QED BY <1>13, <1>14, <1>15, <1>16, <1>17, <1>18 DEF SInv

\* A flush, from the catch-up or from an idle tail, given what it takes is what the tail
\* was told of.
LEMMA FlushingKeeps ==
    ASSUME SInv, NEW taken \in SUBSET Scripts, NEW metas \in SUBSET Agents, Flushing(taken, metas),
           stage \in {"watching", "idle"}, taken = {} => stage = "idle",
           marks' \in [scripts : SUBSET Scripts, metas : SUBSET sidecars], news' = news,
           stage = "idle" => marks.metas \subseteq metas /\ marks.scripts \subseteq taken,
           stage = "watching" => metas = Agents /\ OnDisk \subseteq taken
    PROVE  SInv'
  <1>1. PICK unread \in SUBSET NewMetas(metas) :
          /\ Misread(unread)
          /\ ccur' = RecordMetas(ccur, metas)
          /\ \/ taken = {} /\ stage' = "idle" /\ left' = {} /\ wire' = Saved(wire \o Repairs(metas, unread), ccur')
             \/ taken # {} /\ stage' = "flush" /\ left' = taken /\ wire' = wire \o Repairs(metas, unread)
    BY Zenon DEF Flushing
  <1>2. /\ wire = <<>> /\ cache' = NotRead /\ dim' = dim \cup unread
        /\ UNCHANGED <<scripts, sidecars, scanCur, def, eyes, news, store, missed, torn, rewound>>
    BY <1>1 DEF Flushing, Settled, files, Misread
  <1>3. /\ SessionTypes /\ scripts \in [Scripts -> Transcripts] /\ ccur \in SessionCursors /\ def \in Deferrals
        /\ InStep /\ sidecars \subseteq Agents
    BY DEF SInv, SessionTypes
  <1>4. /\ ccur' \in SessionCursors /\ ccur'.at = ccur.at /\ ccur'.meta = ccur.meta \cup (metas \cap sidecars)
        /\ ccur'.parked = ccur.parked /\ ccur'.fin = ccur.fin
    BY <1>1, <1>3, RecordedIs
  <1>5. PICK r : r = Repairs(metas, unread)
    OBVIOUS
  <1>6. /\ r \in Seq(Sendings) /\ RowsFounded(OnDisk, store, r) /\ In(r, "rows") \subseteq metas
        /\ (metas \cap sidecars) \ (dim \cup unread) \subseteq store.named \cup In(r, "named")
    <2>1. r \in Seq(Sendings)
      BY <1>2, <1>5, RepairsSent
    <2>2. unread \in SUBSET NewMetas(metas) /\ metas \in SUBSET Agents
      BY <1>1
    <2>3. wire = <<>> /\ r = Repairs(metas, unread)
      BY <1>2, <1>5
    <2>4. RepairsMade(r, metas, unread)
      BY ONLY SInv, <2>1, <2>2, <2>3, RepairsIs, Zenon
    <2> QED BY <2>1, <2>4 DEF RepairsMade
  <1>7. /\ stage' \in {"idle", "flush"} /\ (stage' = "idle" => stage = "idle") /\ left' = taken
        /\ (wire' = r \/ (stage = "idle" /\ wire' = Saved(r, ccur')))
    <2>1. wire \o r = r
      BY <1>2, <1>6, ConcatEmptySeq
    <2> QED BY <1>1, <1>5, <2>1
  <1>8. /\ wire' \in Wires /\ ReportsEnd(wire') /\ SavingsIn(wire') \subseteq {ccur'} /\ RowsIn(wire') = RowsIn(r)
        /\ Had(store', wire') = Had(store, r) /\ NoLess(Had(store, wire), Had(store, r))
        /\ Named' = store.named \cup In(r, "named") /\ Rows' = store.rows \cup In(r, "rows")
    <2>1. Sends(r, ccur')
      BY <1>7 DEF Sends
    <2> QED BY <1>2, <1>4, <1>6, <2>1, SendsIs
  <1>9. \A c \in SavingsIn(wire') : c = ccur' /\ stage = "idle"
    <2>1. CASE wire' = r
      BY <1>6, <2>1, SendingsOnly
    <2>2. CASE wire' # r
      BY <1>7, <1>8, <2>2
    <2> QED BY <2>1, <2>2
  <1>10. SessionTypes'
    BY <1>2, <1>3, <1>4, <1>7, <1>8 DEF SessionTypes, Stages
  <1>11. Carried'
    <2> DEFINE h == Had(store, r)
    <2>0. (metas \cap sidecars) \ dim' \subseteq h.named
      BY <1>2, <1>6 DEF Had
    <2> HIDE DEF h
    <2>1. /\ Carries(scripts, torn', dim', store.cur, store.cur.parked, store.cur.fin, store)
          /\ Carries(scripts, torn', dim', scanCur, scanCur.parked, scanCur.fin, h)
          /\ Carries(scripts, torn', dim', ccur, def.compl, def.fin, h)
      BY <1>2, <1>8, OthersCarried DEF h
    <2>2. Carries(scripts, torn', dim', ccur', def.compl, def.fin, h)
      BY <1>4, <2>0, <2>1, RecordedCarries
    <2>3. Carries(scripts, torn', dim', ccur, ccur.parked, ccur.fin, h)
      BY <1>3, <2>1, MemoryReportable
    <2>4. Carries(scripts, torn', dim', ccur', ccur'.parked, ccur'.fin, h)
      BY <1>4, <2>0, <2>3, RecordedCarries
    <2>5. \A c \in SavingsIn(wire') : Carries(scripts, torn', dim', c, c.parked, c.fin, h)
      BY <1>9, <2>4
    <2> QED BY <1>2, <1>8, <2>1, <2>2, <2>5 DEF Carried, h
  <1>12. InStep'
    BY <1>2, <1>3, <1>4, <1>7 DEF InStep
  <1>13. SpentOnce'
    <2>1. ccur.fin = def.fin
      BY <1>3 DEF InStep
    <2>2. stage # "off" /\ stage' # "scanned"
      BY <1>7
    <2> QED BY <1>2, <1>4, <1>9, <2>1, <2>2 DEF SInv, SpentOnce
  <1>14. Naming'
    <2>1. OnDisk' = OnDisk /\ Named = store.named /\ Rows = store.rows
      BY <1>2, WireIs DEF OnDisk
    <2>2. RowsFounded(OnDisk, store, wire')
      BY <1>6, <1>8 DEF RowsFounded
    <2>3. ASSUME NEW a \in sidecars, a \in Rows' PROVE a \in Named' \/ Told(a)'
      <3>1. CASE a \in metas
        <4>1. a \in dim' \/ a \in Named'
          BY <1>2, <1>6, <1>8, <3>1
        <4> QED BY <4>1 DEF Told
      <3>2. CASE a \notin metas
        <4>1. a \in Agents /\ a \in Rows /\ stage = "idle"
          BY <1>3, <1>6, <1>8, <2>1, <2>3, <3>2
        <4>2. a \in Named \/ Told(a)
          BY <2>3, <4>1 DEF SInv, Naming
        <4>3. a \notin marks.metas
          BY <3>2, <4>1
        <4> QED BY <1>2, <1>8, <2>1, <4>2, <4>3 DEF Told
      <3> QED BY <3>1, <3>2
    <2> QED BY <1>2, <2>1, <2>2, <2>3 DEF Naming
  <1>15. Following'
    <2>1. ASSUME NEW x \in Scripts \ missed, ccur.at[x].off < 2 * Len(scripts[x].lines) PROVE x \in taken \/ Awaited(x)'
      <3>1. CASE stage = "idle"
        <4>1. x \in left \/ Awaited(x)
          BY <2>1, <3>1 DEF SInv, Following
        <4>2. left = {} /\ marks.scripts \subseteq taken
          BY <3>1 DEF SInv, Following
        <4> QED BY <1>2, <4>1, <4>2 DEF Awaited
      <3>2. CASE stage = "watching"
        <4>1. scripts[x] \in Transcripts /\ ccur.at[x].off \in Nat
          BY DEF SInv, SessionTypes, SessionCursors, Positions
        <4>2. Bytes(scripts[x]) \in Nat /\ 2 * Len(scripts[x].lines) <= Bytes(scripts[x]) /\ Len(scripts[x].lines) \in Nat
          BY <4>1, TranscriptIs
        <4>3. Bytes(scripts[x]) > 0
          BY <2>1, <4>1, <4>2
        <4> QED BY <3>2, <4>3 DEF OnDisk
      <3> QED BY <3>1, <3>2
    <2>2. stage' \notin {"scan", "flush"} => left' = {}
      BY <1>1
    <2> QED BY <1>2, <1>4, <1>7, <2>1, <2>2 DEF Following
  <1> QED BY <1>8, <1>10, <1>11, <1>12, <1>13, <1>14, <1>15 DEF SInv

LEMMA FlushesKeep ==
    ASSUME SInv, CatchUpAll \/ FlushNow
    PROVE  SInv'
  <1>1. marks \in [scripts : SUBSET Scripts, metas : SUBSET sidecars] /\ sidecars \subseteq Agents
    BY DEF SInv, SessionTypes
  <1>2. CASE CatchUpAll
    <2>1. OnDisk \in SUBSET Scripts /\ Agents \in SUBSET Agents
      BY DEF OnDisk
    <2>2. PICK D, M : D = OnDisk /\ M = Agents
      OBVIOUS
    <2>3. /\ Flushing(D, M) /\ stage = "watching" /\ D # {} /\ marks' = marks /\ news' = news
      BY <1>2, <2>2 DEF CatchUpAll
    <2> QED BY <1>1, <2>1, <2>2, <2>3, FlushingKeeps
  <1>3. CASE FlushNow
    <2>1. PICK D, M : D = marks.scripts /\ M = marks.metas
      OBVIOUS
    <2>2. D \in SUBSET Scripts /\ M \in SUBSET Agents
      BY <1>1, <2>1
    <2>3. /\ Flushing(D, M) /\ stage = "idle" /\ marks' = NoMarks /\ news' = news
      BY <1>3, <2>1 DEF FlushNow
    <2>4. marks' \in [scripts : SUBSET Scripts, metas : SUBSET sidecars]
      BY <2>3 DEF NoMarks
    <2> QED BY <2>1, <2>2, <2>3, <2>4, FlushingKeeps
  <1> QED BY <1>2, <1>3

-----------------------------------------------------------------------------
(* The theorems about ClaudeTail.                                           *)

LEMMA SStep == SInv /\ [CNext]_cvars => SInv'
  <1> SUFFICES ASSUME SInv, [CNext]_cvars PROVE SInv'
    OBVIOUS
  <1>0. \A a \in Agents : /\ <<"call", a>> \in Entries /\ <<"result", a>> \in Entries /\ <<"text", a>> \in Entries
                          /\ <<"work", a>> \in Entries /\ a \in Scripts /\ Main \in Scripts
    BY DEF Entries, Scripts
  <1>1. ASSUME NEW a \in Agents, WriteCall(a) \/ WriteResult(a) \/ WriteText(a) \/ WriteWork(a) PROVE SInv'
    BY <1>0, <1>1, WriteKeeps DEF WriteCall, WriteResult, WriteText, WriteWork
  <1>2. ASSUME NEW a \in Agents, WritePartial(a) \/ Cut(a) \/ WriteSidecar(a) PROVE SInv'
    BY <1>2, WritePartialKeeps, CutKeeps, WriteSidecarKeeps
  <1>3. ASSUME NEW x \in Scripts, ReadScript(x) \/ ReadScriptFails(x) PROVE SInv'
    BY <1>3, ReadScriptKeeps, ReadScriptFailsKeeps
  <1>4. CASE MakeSubs
    BY <1>4, MakeSubsKeeps
  <1>5. CASE StartScanAll \/ EndScanAll
    BY <1>5, StartScanAllKeeps, EndScanAllKeeps
  <1>6. CASE StartTail \/ CatchUpNothing \/ TakeDirectory
    BY <1>6, StartTailKeeps, CatchUpNothingKeeps, TakeDirectoryKeeps
  <1>7. CASE CatchUpAll \/ FlushNow
    BY <1>7, FlushesKeep
  <1>8. CASE FinishFlush \/ OnTick
    BY <1>8, FinishFlushKeeps, OnTickKeeps
  <1>9. CASE Retail \/ Die \/ Apply
    BY <1>9, RetailKeeps, DieKeeps, ApplyKeeps
  <1>10. CASE UNCHANGED cvars
    <2>1. Beside /\ UNCHANGED <<scripts, sidecars, news, marks>>
      BY <1>10 DEF cvars, Beside
    <2>2. scripts \in [Scripts -> Transcripts] /\ SessionTypes
      BY DEF SInv, SessionTypes
    <2>3. Lengthens(scripts, scripts')
      BY <2>1, <2>2, SameLength
    <2>4. SessionTypes'
      BY <2>1, <2>2 DEF SessionTypes, Beside
    <2>5. \A a \in Agents : Watching /\ (Told(a) \/ a \in sidecars' \ sidecars) => Told(a)'
      BY <2>1 DEF Told, Beside
    <2>6. \A x \in Scripts : Watching /\ (Awaited(x) \/ scripts'[x] # scripts[x]) => Awaited(x)'
      BY <2>1 DEF Awaited, Beside
    <2> QED BY <2>1, <2>3, <2>4, <2>5, <2>6, BesideKeeps
  <1> QED BY <1>1, <1>2, <1>3, <1>4, <1>5, <1>6, <1>7, <1>8, <1>9, <1>10 DEF CNext

\* What the cursors, the deferral and the rows of a session may claim holds throughout a
\* scan, a tail and any restart of either (Adapter.Scan, Adapter.Tail, flushDirty).
THEOREM SessionInvariant == CSpec => []SInv
  BY SInit, SStep, PTL DEF CSpec

\* The cursors of a claude-code session claim no line that was not delivered, and an idle
\* tail has read every line it was not told to read yet (readTranscript, markExistingDirty,
\* catchUpFromCursor).
THEOREM TranscriptsAreKeptUp == CSpec => []TranscriptsKeptUp
  <1>1. SInv => TranscriptsKeptUp
    <2> SUFFICES ASSUME SInv, NEW x \in Scripts
                 PROVE
       /\ \A n \in DOMAIN scripts[x].lines :
             /\ x \notin torn /\ ccur.at[x].gen = scripts[x].gen /\ 2 * n <= ccur.at[x].off =>
                   <<x, scripts[x].gen, n>> \in Shown
             /\ x \notin torn /\ store.cur.at[x].gen = scripts[x].gen /\ 2 * n <= store.cur.at[x].off =>
                   <<x, scripts[x].gen, n>> \in store.seen
       /\ stage = "idle" /\ x \notin missed /\ ccur.at[x].off < 2 * Len(scripts[x].lines) =>
             x \in marks.scripts \/ (x # Main /\ (news \/ ~eyes))
      BY DEF TranscriptsKeptUp
    <2>1. PositionSound(scripts, torn, ccur.at[x], Shown, x)
      BY WireIs DEF SInv, Carried, Carries
    <2>2. PositionSound(scripts, torn, store.cur.at[x], store.seen, x)
      BY DEF SInv, Carried, Carries
    <2>3. stage = "idle" /\ x \notin missed /\ ccur.at[x].off < 2 * Len(scripts[x].lines) =>
             x \in marks.scripts \/ (x # Main /\ (news \/ ~eyes))
      BY DEF SInv, Following, Awaited
    <2> QED BY <2>1, <2>2, <2>3 DEF PositionSound
  <1> QED BY <1>1, SessionInvariant, PTL

\* A late sidecar reaches its session: an idle tail has named every sub-agent whose sidecar
\* is complete, unless it is still to be told, and a recorded sidecar was announced
\* (readSessionMetas, repairChangedMetas, recordChangedMetaHashes).
THEOREM NamesDoCatchUp == CSpec => []NamesCatchUp
  <1>1. SInv => NamesCatchUp
    <2> SUFFICES ASSUME SInv, NEW a \in Agents \ dim
                 PROVE
       /\ stage = "idle" /\ a \in Rows \cap sidecars /\ eyes =>
             a \in Named \cup marks.metas \/ news
       /\ a \in store.cur.meta => a \in store.named
      BY DEF NamesCatchUp
    <2>1. stage = "idle" /\ a \in Rows \cap sidecars => a \in Named \/ Told(a)
      BY DEF SInv, Naming
    <2>2. store.cur.meta \ dim \subseteq store.named
      BY DEF SInv, Carried, Carries
    <2> QED BY <2>1, <2>2 DEF Told
  <1> QED BY <1>1, SessionInvariant, PTL

\* No completion is lost between the files of a session, and what is recorded as spent has
\* closed the call (recordChildCompletion, collectAgentDeferral, persistDeferral,
\* restoredTailDeferral).
THEOREM CompletionsAreKept == CSpec => []CompletionKept
  <1>1. SInv => CompletionKept
    <2> SUFFICES ASSUME SInv, NEW a \in Agents
                 PROVE
       /\ Finished(store.cur, a) /\ a \notin torn => a \in store.cur.parked \cup store.cur.fin
       /\ stage = "idle" /\ Finished(ccur, a) /\ a \notin torn => a \in ccur.parked \cup ccur.fin
       /\ a \in store.cur.fin => a \in store.closed \/ ClosedByResult(a)
       /\ stage = "idle" => a \notin ccur.parked \cap def.pend
      BY DEF CompletionKept
    <2>1. \A c : Finished(c, a) <=> Ended(scripts, c, a)
      BY DEF Finished, Ended
    <2>2. Ended(scripts, store.cur, a) /\ a \notin torn => a \in store.cur.parked \cup store.cur.fin
      BY DEF SInv, Carried, Carries, Kept
    <2>3. ASSUME stage = "idle", Ended(scripts, ccur, a), a \notin torn PROVE a \in ccur.parked \cup ccur.fin
      <3>1. Carries(scripts, torn, dim, ccur, ccur.parked, ccur.fin, Had(store, wire))
        BY <2>3, MemoryReportable DEF SInv, Carried
      <3> QED BY <2>3, <3>1 DEF Carries, Kept
    <2>4. a \in store.cur.fin => a \in store.closed \/ ResultShown(scripts, store.seen, a)
      BY DEF SInv, Carried, Carries, Spent
    <2>5. ResultShown(scripts, store.seen, a) => ClosedByResult(a)
      BY DEF ResultShown, ClosedByResult
    <2>6. stage = "idle" => a \notin ccur.parked \cap def.pend
      BY DEF SInv, InStep
    <2> QED BY <2>1, <2>2, <2>3, <2>4, <2>5, <2>6
  <1> QED BY <1>1, SessionInvariant, PTL

-----------------------------------------------------------------------------
(* What closes a call.                                                      *)

\* What ClosesAreDue says of a step.
DueCloses ==
    \A i \in DOMAIN wire' \ DOMAIN wire :
       wire'[i].tag = "rows" =>
          \A a \in wire'[i].closed :
             /\ Finished(ccur, a) \/ a \in torn \/ ccur.at[a].gen # scripts[a].gen
             /\ a \in store.cur.fin => rewound

\* A batch that closes nothing, and a report after it, close nothing.
LEMMA QuietBatch ==
    ASSUME NEW l, NEW r, NEW n, NEW c, NEW q, q = Batch(l, r, n, {})
    PROVE  In(<<>> \o q, "closed") = {} /\ In(Saved(<<>> \o q, c), "closed") = {}
  <1> DEFINE p == [tag |-> "progress", cur |-> c]
  <1>1. p.tag = "progress"
    OBVIOUS
  <1>2. \A u : Saved(u, c) = u \/ Saved(u, c) = Append(u, p)
    BY DEF Saved
  <1> HIDE DEF p
  <1>3. CASE q = <<>>
    <2>1. <<>> \o q = <<>> /\ Append(<<>>, p) = <<p>>
      BY <1>3
    <2>2. SentRows(<<p>>) = {}
      BY <1>1 DEF SentRows
    <2>3. In(<<p>>, "closed") = {}
      BY <2>2 DEF In
    <2> QED BY <1>2, <2>1, <2>3, NothingSent
  <1>4. CASE q # <<>>
    <2>1. PICK m : m = [tag |-> "rows", lines |-> l, rows |-> r, named |-> n, closed |-> {}]
      OBVIOUS
    <2>2. q = <<m>> /\ m["closed"] = {}
      BY <1>4, <2>1 DEF Batch
    <2>3. <<>> \o q = <<m>>
      <3>1. q \in Seq({m})
        BY <2>2
      <3> QED BY <2>2, <3>1, ConcatEmptySeq
    <2>4. Append(<<m>>, p) = <<m, p>>
      <3>1. <<m>> \in Seq({m, p}) /\ p \in {m, p} /\ Len(<<m>>) = 1 /\ <<m>>[1] = m
        OBVIOUS
      <3>2. PICK u : u = <<m>>
        OBVIOUS
      <3>3. PICK v : v = Append(u, p)
        OBVIOUS
      <3>4. v \in Seq({m, p}) /\ Len(v) = 2 /\ v[1] = m /\ v[2] = p
        BY <3>1, <3>2, <3>3, AppendProperties
      <3>5. v = <<m, p>>
        BY <3>4
      <3> QED BY <3>2, <3>3, <3>5
    <2>5. In(<<m>>, "closed") = {}
      BY <2>2 DEF In, SentRows
    <2>6. SentRows(<<m, p>>) \subseteq {1}
      BY <1>1 DEF SentRows
    <2>7. In(<<m, p>>, "closed") = {}
      BY <2>2, <2>6 DEF In
    <2> QED BY <1>2, <2>3, <2>4, <2>5, <2>7
  <1> QED BY <1>3, <1>4

LEMMA NothingClosed ==
    ASSUME In(wire', "closed") = {}
    PROVE  DueCloses
  BY DEF DueCloses, In, SentRows

\* Calls paired at the end of a pass.
LEMMA PairedClosed ==
    ASSUME SInv, stage \in {"scan", "flush"}, In(wire', "closed") \subseteq Due(def)
    PROVE  DueCloses
  <1> SUFFICES ASSUME NEW i \in DOMAIN wire' \ DOMAIN wire, wire'[i].tag = "rows", NEW a \in wire'[i].closed
               PROVE  /\ Finished(ccur, a) \/ a \in torn \/ ccur.at[a].gen # scripts[a].gen
                      /\ a \in store.cur.fin => rewound
    BY DEF DueCloses
  <1>1. a \in def.compl \ def.fin
    <2>1. a \in In(wire', "closed")
      BY DEF In, SentRows
    <2> QED BY <2>1 DEF Due
  <1>2. Ended(scripts, ccur, a) \/ a \in torn \/ ccur.at[a].gen # scripts[a].gen
    BY <1>1 DEF SInv, Carried, Carries, Owed
  <1>3. a \in store.cur.fin => rewound
    BY <1>1 DEF SInv, SpentOnce
  <1> QED BY <1>2, <1>3 DEF Finished, Ended

LEMMA FinishFlushCloses ==
    ASSUME SInv, FinishFlush
    PROVE  DueCloses
  <1>1. stage = "flush" /\ wire = <<>> /\ def' = Paired(def) /\ ccur' = Persist(ccur, def') /\ store' = store
        /\ wire' = Saved(wire \o Batch({}, {}, {}, Due(def)), ccur')
    BY DEF FinishFlush, Settled
  <1>2. ccur \in SessionCursors /\ def \in Deferrals
    BY DEF SInv, SessionTypes
  <1>3. ccur' \in SessionCursors /\ Due(def) \subseteq Agents
    BY <1>1, <1>2, PairedIs, PersistIs
  <1>4. PICK q : q = Batch({}, {}, {}, Due(def))
    OBVIOUS
  <1>5. q \in Seq(Sendings) /\ In(q, "closed") = Due(def)
    BY <1>3, <1>4, ClosesIs
  <1>6. Sends(q, ccur')
    BY <1>1, <1>4, <1>5, ConcatEmptySeq DEF Sends
  <1>7. \A f : In(wire', f) = In(q, f)
    BY <1>1, <1>3, <1>5, <1>6, SendsIs
  <1> QED BY <1>1, <1>5, <1>7, PairedClosed

LEMMA EndScanAllCloses ==
    ASSUME SInv, EndScanAll
    PROVE  DueCloses
  <1>1. PICK unread \in SUBSET NewMetas(Agents) :
          /\ Misread(unread)
          /\ def' = Paired(def)
          /\ ccur' = Persist(RecordMetas(ccur, Agents), def')
          /\ wire' = Saved(wire \o Batch({}, {}, {}, Due(def)) \o Repairs(Agents, unread), ccur')
    BY Zenon DEF EndScanAll
  <1>2. stage = "scan" /\ wire = <<>> /\ store' = store
    BY DEF EndScanAll, Settled
  <1>3. SessionTypes /\ ccur \in SessionCursors /\ def \in Deferrals
    BY DEF SInv, SessionTypes
  <1>4. def' \in Deferrals /\ Due(def) \subseteq Agents
    BY <1>1, <1>3, PairedIs
  <1>5. PICK e : e = RecordMetas(ccur, Agents)
    OBVIOUS
  <1>6. e \in SessionCursors
    BY <1>3, <1>5, RecordedIs
  <1>7. ccur' \in SessionCursors
    BY <1>1, <1>4, <1>5, <1>6, PersistIs
  <1>8. PICK q, r : q = Batch({}, {}, {}, Due(def)) /\ r = Repairs(Agents, unread)
    OBVIOUS
  <1>9. q \in Seq(Sendings) /\ In(q, "closed") = Due(def)
    BY <1>4, <1>8, ClosesIs
  <1>10. r \in Seq(Sendings) /\ In(r, "closed") = {}
    <2>1. r \in Seq(Sendings)
      BY <1>2, <1>8, RepairsSent
    <2>2. Agents \in SUBSET Agents
      OBVIOUS
    <2>3. RepairsMade(r, Agents, unread)
      BY <1>2, <1>8, <2>1, <2>2, RepairsIs, Zenon
    <2> QED BY <2>1, <2>3 DEF RepairsMade
  <1>11. PICK s : s = q \o r
    OBVIOUS
  <1>12. s \in Seq(Sendings) /\ In(s, "closed") = Due(def)
    <2>1. \A f : In(s, f) = In(q, f) \cup In(r, f)
      BY <1>9, <1>10, <1>11, BothSent
    <2>2. s \in Seq(Sendings)
      BY <1>9, <1>10, <1>11, BothSent
    <2>3. In(s, "closed") = In(q, "closed") \cup In(r, "closed")
      BY <2>1
    <2> QED BY <1>9, <1>10, <2>2, <2>3
  <1>13. Sends(s, ccur')
    <2>1. wire \o q = q
      BY <1>2, <1>9, ConcatEmptySeq
    <2> QED BY <1>1, <1>8, <1>11, <2>1 DEF Sends
  <1>14. \A f : In(wire', f) = In(s, f)
    BY <1>2, <1>7, <1>12, <1>13, SendsIs
  <1> QED BY <1>2, <1>12, <1>14, PairedClosed

LEMMA ReadScriptClosesNone ==
    ASSUME NEW x, ReadScript(x)
    PROVE  DueCloses
  <1>1. PICK l, r, n : wire' = wire \o Batch(l, r, n, {}) \/ wire' = Saved(wire \o Batch(l, r, n, {}), ccur')
    BY Zenon DEF ReadScript
  <1>2. wire = <<>>
    BY DEF ReadScript, Settled
  <1>3. PICK q : q = Batch(l, r, n, {})
    OBVIOUS
  <1>4. \A c : In(<<>> \o q, "closed") = {} /\ In(Saved(<<>> \o q, c), "closed") = {}
    BY <1>3, QuietBatch
  <1> QED BY <1>1, <1>2, <1>3, <1>4, NothingClosed

LEMMA OthersCloseNone ==
    ASSUME StartScanAll \/ CatchUpAll \/ FlushNow \/ OnTick
    PROVE  DueCloses
  <1>1. CASE StartScanAll
    <2>1. wire = <<>> /\ wire' = wire \o OrphanRoot
      BY <1>1 DEF StartScanAll, Settled
    <2>2. PICK r : r = {Main} \ Rows
      OBVIOUS
    <2>3. PICK q : q = OrphanRoot
      OBVIOUS
    <2>4. \E R : q = Batch({}, R, {}, {})
      <3>1. Batch({}, {}, {}, {}) = <<>>
        BY DEF Batch
      <3> QED BY <2>2, <2>3, <3>1 DEF OrphanRoot
    <2>5. In(<<>> \o q, "closed") = {}
      BY <2>4, QuietBatch
    <2> QED BY <2>1, <2>3, <2>5, NothingClosed
  <1>2. CASE CatchUpAll \/ FlushNow
    <2>1. PICK taken, metas : Flushing(taken, metas)
      BY <1>2 DEF CatchUpAll, FlushNow
    <2>2. PICK unread : wire' = Saved(wire \o Repairs(metas, unread), ccur') \/ wire' = wire \o Repairs(metas, unread)
      BY <2>1, Zenon DEF Flushing
    <2>3. wire = <<>>
      BY <2>1 DEF Flushing, Settled
    <2>4. PICK q : q = Repairs(metas, unread)
      OBVIOUS
    <2>5. \E R, N : q = Batch({}, R, N, {})
      BY <2>4 DEF Repairs
    <2>6. \A c : In(<<>> \o q, "closed") = {} /\ In(Saved(<<>> \o q, c), "closed") = {}
      BY <2>5, QuietBatch
    <2> QED BY <2>2, <2>3, <2>4, <2>6, NothingClosed
  <1>3. CASE OnTick
    <2>1. wire = <<>> /\ wire' = Saved(wire, ccur)
      BY <1>3 DEF OnTick, Settled
    <2>2. PICK q : q = Batch({}, {}, {}, {})
      OBVIOUS
    <2>3. <<>> \o q = <<>>
      BY <2>2 DEF Batch
    <2>4. In(Saved(<<>> \o q, ccur), "closed") = {}
      BY <2>2, QuietBatch
    <2> QED BY <2>1, <2>3, <2>4, NothingClosed
  <1> QED BY <1>1, <1>2, <1>3

\* What adds nothing to the queue.
LEMMA NothingAdded ==
    ASSUME DOMAIN wire' \subseteq DOMAIN wire
    PROVE  DueCloses
  BY DEF DueCloses

LEMMA StepCloses == SInv /\ [CNext]_cvars => DueCloses
  <1> SUFFICES ASSUME SInv, [CNext]_cvars PROVE DueCloses
    OBVIOUS
  <1>1. CASE EndScanAll \/ FinishFlush
    BY <1>1, EndScanAllCloses, FinishFlushCloses
  <1>2. ASSUME NEW x \in Scripts, ReadScript(x) PROVE DueCloses
    BY <1>2, ReadScriptClosesNone
  <1>3. CASE StartScanAll \/ CatchUpAll \/ FlushNow \/ OnTick
    BY <1>3, OthersCloseNone
  <1>4. CASE Apply
    <2>1. wire \in Wires /\ wire # <<>> /\ wire' = Tail(wire)
      BY <1>4 DEF Apply, SInv, SessionTypes
    <2>2. wire' \in Wires /\ Len(wire') = Len(wire) - 1 /\ Len(wire) \in Nat
      BY <2>1, HeadTailProperties DEF Wires
    <2>3. DOMAIN wire = 1 .. Len(wire) /\ DOMAIN wire' = 1 .. Len(wire')
      BY <2>1, <2>2 DEF Wires
    <2>4. DOMAIN wire' \subseteq DOMAIN wire
      BY <2>2, <2>3
    <2> QED BY <2>4, NothingAdded
  <1>5. CASE Die
    <2>1. wire' = <<>>
      BY <1>5 DEF Die
    <2> QED BY <2>1, NothingAdded
  <1>6. CASE wire' = wire
    BY <1>6, NothingAdded
  <1>7. ASSUME NEW a \in Agents,
               \/ WriteCall(a) \/ WriteResult(a) \/ WriteText(a) \/ WriteWork(a)
               \/ WritePartial(a) \/ Cut(a) \/ WriteSidecar(a)
        PROVE  wire' = wire
    BY <1>7 DEF WriteCall, WriteResult, WriteText, WriteWork, WritePartial, Cut, WriteSidecar, Write, Put
  <1>8. ASSUME NEW x \in Scripts, ReadScriptFails(x) PROVE wire' = wire
    BY <1>8 DEF ReadScriptFails
  <1>9. CASE MakeSubs \/ StartTail \/ CatchUpNothing \/ TakeDirectory \/ Retail \/ UNCHANGED cvars
    BY <1>6, <1>9 DEF MakeSubs, StartTail, CatchUpNothing, TakeDirectory, Retail, cvars
  <1> QED BY <1>1, <1>2, <1>3, <1>4, <1>5, <1>6, <1>7, <1>8, <1>9 DEF CNext

\* A call is closed for its sub-agent's sake only when the sub-agent ended with text as far
\* as it was read, and one that the stored cursor has as closed is not closed again, by this
\* process or by the next, unless the tail was replaced (pairCompletedFinalizations,
\* restoredTailDeferral).
THEOREM OnlyDueCloses == CSpec => ClosesAreDue
  <1>1. SInv /\ [CNext]_cvars => [DueCloses]_wire
    BY StepCloses
  <1> QED BY <1>1, SessionInvariant, PTL DEF CSpec, ClosesAreDue, DueCloses
==============================================================================
