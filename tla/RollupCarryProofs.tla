-------------------------- MODULE RollupCarryProofs --------------------------
(***************************************************************************)
(* Proofs about RollupCarry, for every number of sources, sessions, ops,   *)
(* hours and restarts.                                                     *)
(***************************************************************************)
EXTENDS RollupCarry, TLAPS

-----------------------------------------------------------------------------
(***************************************************************************)
(* Bucket arithmetic.                                                      *)
(***************************************************************************)
\* Floor division of a time by a positive span.
LEMMA DivFacts ==
    ASSUME NEW n \in Nat \ {0}, NEW t \in Nat
    PROVE  /\ t \div n \in Nat /\ t \div n <= t
           /\ n * (t \div n) <= t /\ t < n * (t \div n) + n
  <1>1. t \div n \in Int /\ n * (t \div n) <= t /\ t < n * (t \div n) + n
    BY Z3
  <1>2. t \div n >= 0
    BY Z3
  <1>3. t \div n <= t
    BY Z3
  <1> QED BY <1>1, <1>2, <1>3

\* Floor division is monotone.
LEMMA DivMonotone ==
    ASSUME NEW n \in Nat \ {0}, NEW t \in Nat, NEW u \in Nat, t <= u
    PROVE  t \div n <= u \div n
  BY DivFacts, Z3

\* BucketTS maps a time of the calendar to a bucket of it.
LEMMA BucketType ==
    ASSUME NEW g \in Grans, NEW t \in Times
    PROVE  BucketTS(t, g) \in Buckets
  <1>1. Span(g) \in Nat \ {0}
    BY ConstantsAssumption DEF Span
  <1>2. t \div Span(g) \in Nat /\ t \div Span(g) <= t
    BY <1>1, DivFacts DEF Times
  <1> QED BY <1>2, ConstantsAssumption DEF BucketTS, Buckets, Times

\* The buckets markDirtyRollupBucket marks are cells.
LEMMA CellsOfType ==
    ASSUME NEW t \in Times
    PROVE  CellsOf(t) \subseteq Cells
  BY BucketType DEF CellsOf, Cells, Grans

\* The buckets an agent or cwd fill marks are cells.
LEMMA SessionCellsType ==
    ASSUME NEW at \in [Items -> Times \cup {NoTs}], NEW x
    PROVE  SessionCells(at, x) \subseteq Cells
  <1>1. ASSUME NEW i \in Items, at[i] # NoTs
        PROVE  CellsOf(at[i]) \subseteq Cells
    BY <1>1, CellsOfType
  <1> QED BY <1>1 DEF SessionCells

\* A fold pairs items with versions.
LEMMA FoldType ==
    ASSUME NEW at, NEW ver \in [Items -> Nat], NEW c
    PROVE  Fold(at, ver, c) \subseteq Items \X Nat
  BY DEF Fold

\* A recompute keeps the shape of the rows.
LEMMA RecomputeType ==
    ASSUME NEW view \in View, NEW cells
    PROVE  Recompute(view, cells) \in View
  <1>1. ASSUME NEW c \in Cells
        PROVE  Fold(view.at, view.ver, c) \subseteq Items \X Nat
    BY FoldType DEF View
  <1> QED BY <1>1 DEF Recompute, View

\* What Mark keeps of the carried, missed and given up cells.
LEMMA MarkType ==
    ASSUME TypeOK, NEW s \in Sources, NEW marks \in SUBSET Cells, NEW changed \in SUBSET Cells,
           NEW cause \in Causes, Mark(s, marks, changed, cause)
    PROVE  /\ dirty' \in [Sources -> SUBSET Cells]
           /\ missed' \subseteq Cells \X Causes /\ gap' \subseteq Cells \X Causes
  <1>1. dirty' \in [Sources -> SUBSET Cells]
    BY DEF TypeOK, Mark
  <1>2. gap' \subseteq Cells \X Causes
    BY DEF TypeOK, Mark
  <1>3. missed' \subseteq Cells \X Causes
    BY DEF TypeOK, Mark
  <1> QED BY <1>1, <1>2, <1>3

\* A stub is a cause: the paths that miss no cell name it.
LEMMA StubCause == {} \in SUBSET Cells /\ "stub" \in Causes /\ "reemitted" \in Causes
  BY DEF Causes

\* Sessions and ops are the items.
LEMMA ItemsFacts == Sessions \subseteq Items /\ Ops \subseteq Items
  BY DEF Items

-----------------------------------------------------------------------------
(***************************************************************************)
(* Type correctness.                                                       *)
(***************************************************************************)
\* The first state of the daemon has the type of TypeOK.
LEMMA InitType == Init => TypeOK
  <1> SUFFICES ASSUME Init PROVE TypeOK
    OBVIOUS
  <1>1. 0 \in Times /\ 0 \in 0 .. MaxRestarts
    BY ConstantsAssumption DEF Times
  <1>2. EmptyDB \in View
    BY <1>1 DEF EmptyDB, View
  <1>3. NoRebuild \in Rebuild
    BY <1>1 DEF NoRebuild, Rebuild
  <1> QED BY <1>1, <1>2, <1>3 DEF Init, TypeOK

\* Every step keeps TypeOK.
LEMMA NextType == TypeOK /\ [Next]_vars => TypeOK'
  <1> SUFFICES ASSUME TypeOK, [Next]_vars PROVE TypeOK'
    OBVIOUS
  <1> USE DEF TypeOK
  <1>0. clock \in Nat /\ 0 .. clock \subseteq Times
    BY ConstantsAssumption DEF Times
  <1>1. CASE Tick
    BY <1>1, ConstantsAssumption DEF Tick, flushVars, writers, ghosts, Times
  <1>2. ASSUME NEW s \in Sources, NEW x \in Sessions, NEW t \in 0 .. clock, NEW fill \in BOOLEAN,
               ApplySessionStarted(s, x, t, fill)
        PROVE  TypeOK'
    <2> DEFINE old == tx.at[x]
               at == [tx.at EXCEPT ![x] = IF old # NoTs THEN EarlierOf(old, t) ELSE t]
    <2>1. t \in Times /\ x \in Items /\ old \in Times \cup {NoTs}
      BY <1>0, ItemsFacts DEF View
    <2>2. at \in [Items -> Times \cup {NoTs}]
      BY <2>1 DEF View, EarlierOf
    <2>3. tx' \in View
      <3>1. Refilled(tx.ver, x) \in [Items -> Nat]
        BY DEF Refilled, View
      <3> QED BY <1>2, <2>2, <3>1 DEF ApplySessionStarted, View
    <2>4. CellsOf(t) \subseteq Cells /\ SessionCells(at, x) \subseteq Cells
      BY <2>1, <2>2, CellsOfType, SessionCellsType
    <2>5. old # NoTs => CellsOf(old) \subseteq Cells
      BY <2>1, CellsOfType
    <2>6. /\ dirty' \in [Sources -> SUBSET Cells]
          /\ missed' \subseteq Cells \X Causes /\ gap' \subseteq Cells \X Causes
      <3> DEFINE marks == CellsOf(t) \cup (IF old # NoTs /\ fill THEN SessionCells(at, x) ELSE {})
                                    \cup (IF old # NoTs /\ t < old THEN CellsOf(old) ELSE {})
      <3>1. marks \in SUBSET Cells
        BY <2>4, <2>5
      <3>2. Mark(s, marks, {}, "stub")
        BY <1>2 DEF ApplySessionStarted, MarkAll
      <3> QED BY <3>1, <3>2, StubCause, MarkType
    <2> QED BY <1>2, <2>3, <2>6 DEF ApplySessionStarted, Applying
  <1>3. ASSUME NEW s \in Sources, NEW x \in Sessions, NEW t \in 0 .. clock,
               ApplySessionUpdated(s, x, t)
        PROVE  TypeOK'
    <2> DEFINE at == [tx.at EXCEPT ![x] = IF @ = NoTs THEN t ELSE @]
    <2>1. t \in Times /\ x \in Items
      BY <1>0, ItemsFacts
    <2>2. at \in [Items -> Times \cup {NoTs}]
      BY <2>1 DEF View
    <2>3. tx' \in View
      <3>1. Refilled(tx.ver, x) \in [Items -> Nat]
        BY DEF Refilled, View
      <3> QED BY <1>3, <2>2, <3>1 DEF ApplySessionUpdated, View
    <2>4. SessionCells(at, x) \subseteq Cells
      BY <2>2, SessionCellsType
    <2>6. /\ dirty' \in [Sources -> SUBSET Cells]
          /\ missed' \subseteq Cells \X Causes /\ gap' \subseteq Cells \X Causes
      <3>1. Mark(s, SessionCells(at, x), {}, "stub")
        BY <1>3 DEF ApplySessionUpdated, MarkAll
      <3> QED BY <2>4, <3>1, StubCause, MarkType
    <2> QED BY <1>3, <2>3, <2>6 DEF ApplySessionUpdated, Applying
  <1>4. ASSUME NEW s \in Sources, NEW x \in Sessions, NEW t \in 0 .. clock, ApplyOther(s, x, t)
        PROVE  TypeOK'
    <2>1. t \in Times /\ x \in Items /\ CellsOf(t) \subseteq Cells
      BY <1>0, ItemsFacts, CellsOfType
    <2>2. tx' \in View
      BY <1>4, <2>1 DEF ApplyOther, View
    <2>3. /\ dirty' \in [Sources -> SUBSET Cells]
          /\ missed' \subseteq Cells \X Causes /\ gap' \subseteq Cells \X Causes
      <3>1. Mark(s, {}, CellsOf(t), "stub")
        BY <1>4 DEF ApplyOther
      <3> QED BY <2>1, <3>1, StubCause, MarkType
    <2> QED BY <1>4, <2>2, <2>3 DEF ApplyOther, Applying
  <1>5. ASSUME NEW s \in Sources, NEW o \in Ops, NEW t \in 0 .. clock, NEW change \in BOOLEAN,
               ApplyOpStarted(s, o, t, change)
        PROVE  TypeOK'
    <2> DEFINE x == SessionOf[o]
               old == tx.at[o]
               at == [tx.at EXCEPT ![o] = IF old # NoTs THEN EarlierOf(old, t) ELSE t,
                                   ![x] = IF tx.at[x] = NoTs THEN t ELSE tx.at[x]]
               lost == IF old # NoTs /\ (change \/ t < old) THEN CellsOf(old) ELSE {}
    <2>1. /\ t \in Times /\ o \in Items /\ x \in Items /\ CellsOf(t) \subseteq Cells
          /\ old \in Times \cup {NoTs}
      BY <1>0, ItemsFacts, CellsOfType, ConstantsAssumption DEF View
    <2>2. tx' \in View
      <3>1. at \in [Items -> Times \cup {NoTs}]
        BY <2>1 DEF View, EarlierOf
      <3>2. [tx.ver EXCEPT ![o] = tx.ver[o] + 1] \in [Items -> Nat]
        BY <2>1 DEF View
      <3> QED BY <1>5, <3>1, <3>2 DEF ApplyOpStarted, View
    <2>3. /\ dirty' \in [Sources -> SUBSET Cells]
          /\ missed' \subseteq Cells \X Causes /\ gap' \subseteq Cells \X Causes
      <3>1. lost \in SUBSET Cells
        BY <2>1, CellsOfType
      <3>2. Mark(s, CellsOf(t), lost, "reemitted")
        BY <1>5 DEF ApplyOpStarted
      <3> QED BY <2>1, <3>1, <3>2, StubCause, MarkType
    <2> QED BY <1>5, <2>2, <2>3 DEF ApplyOpStarted, Applying
  <1>6. ASSUME NEW s \in Sources, NEW o \in Ops, ApplyOpFinalized(s, o)
        PROVE  TypeOK'
    <2>1. o \in Items /\ tx.at[o] \in Times
      BY <1>6, ItemsFacts DEF View, ApplyOpFinalized
    <2>2. tx' \in View
      BY <1>6, <2>1 DEF ApplyOpFinalized, View
    <2>3. /\ dirty' \in [Sources -> SUBSET Cells]
          /\ missed' \subseteq Cells \X Causes /\ gap' \subseteq Cells \X Causes
      <3>1. CellsOf(tx.at[o]) \in SUBSET Cells
        BY <2>1, CellsOfType
      <3>2. Mark(s, CellsOf(tx.at[o]), {}, "stub")
        BY <1>6 DEF ApplyOpFinalized, MarkAll
      <3> QED BY <3>1, <3>2, StubCause, MarkType
    <2> QED BY <1>6, <2>2, <2>3 DEF ApplyOpFinalized, Applying
  <1>7. ASSUME NEW s \in Sources, FinishSource(s)
        PROVE  TypeOK'
    <2>1. tx' \in View
      BY <1>7, RecomputeType DEF FinishSource
    <2>2. staged' \in [Sources -> SUBSET Cells]
      BY <1>7 DEF FinishSource, ClosedDirty
    <2> QED BY <1>7, <2>1, <2>2 DEF FinishSource, ghosts
  <1>8. ASSUME NEW s \in Sources, IdleCheck(s)
        PROVE  TypeOK'
    BY <1>8 DEF IdleCheck, flushVars, ghosts
  <1>9. ASSUME NEW s \in Sources, IdleRefresh(s)
        PROVE  TypeOK'
    <2>1. db' \in View /\ tx' \in View
      BY <1>9, RecomputeType DEF IdleRefresh
    <2>2. dirty' \in [Sources -> SUBSET Cells] /\ staged' \in [Sources -> SUBSET Cells]
      BY <1>9 DEF IdleRefresh
    <2> QED BY <1>9, <2>1, <2>2 DEF IdleRefresh, ghosts
  <1>10. ASSUME NEW s \in Sources, IdleFail(s)
         PROVE  TypeOK'
    BY <1>10 DEF IdleFail, flushVars, ghosts
  <1>11. ASSUME NEW s \in Sources, EndScan(s)
         PROVE  TypeOK'
    BY <1>11 DEF EndScan, flushVars, writers, ghosts
  <1>12. CASE Commit
    <2>1. dirty' \in [Sources -> SUBSET Cells] /\ staged' \in [Sources -> SUBSET Cells]
      BY <1>12 DEF Commit
    <2>2. Unmaterialized \subseteq Cells
      BY DEF Unmaterialized
    <2>3. gap' \subseteq Cells \X Causes
      BY <1>12 DEF Commit, Causes
    <2> QED BY <1>12, <2>1, <2>2, <2>3 DEF Commit
  <1>13. CASE Rollback
    BY <1>13 DEF Rollback, writers, ghosts
  <1>14. CASE RebuildStart
    <2>1. gap' \subseteq Cells \X Causes
      BY <1>14 DEF RebuildStart, Inherited, Causes
    <2>2. rb' \in Rebuild
      BY <1>14 DEF RebuildStart, Rebuild
    <2> QED BY <1>14, <2>1, <2>2 DEF RebuildStart, flushVars, writers
  <1>15. CASE RebuildTruncate
    <2>1. gap' \subseteq Cells \X Causes
      BY <1>15 DEF RebuildTruncate, Causes
    <2>2. db' \in View /\ tx' \in View
      BY <1>15 DEF RebuildTruncate, View
    <2>3. rb' \in Rebuild
      BY <1>15 DEF RebuildTruncate, Rebuild
    <2> QED BY <1>15, <2>1, <2>2, <2>3 DEF RebuildTruncate, writers
  <1>16. CASE RebuildLoadStarts
    <2>1. rb' \in Rebuild
      BY <1>16, ItemsFacts DEF RebuildLoadStarts, Rebuild, View
    <2> QED BY <1>16, <2>1 DEF RebuildLoadStarts, flushVars, writers, ghosts
  <1>17. CASE RebuildLoadDays
    <2>1. \A x \in Sessions : rb.at[x] # NoTs => BucketTS(rb.at[x], "day") \in Buckets
      BY BucketType DEF Rebuild, Grans
    <2>2. \A o \in Ops : db.at[o] # NoTs => BucketTS(db.at[o], "day") \in Buckets
      BY BucketType, ItemsFacts DEF View, Grans
    <2>3. rb'.days \subseteq Buckets
      BY <1>17, <2>1, <2>2 DEF RebuildLoadDays, Rebuild
    <2>4. rb' \in Rebuild
      BY <1>17, <2>3 DEF RebuildLoadDays, Rebuild
    <2> QED BY <1>17, <2>4 DEF RebuildLoadDays, flushVars, writers, ghosts
  <1>18. ASSUME NEW d \in Buckets, RebuildDay(d)
         PROVE  TypeOK'
    <2>1. DayVer \in [Items -> Nat]
      BY DEF DayVer, Rebuild, View
    <2>2. \A c \in Cells : Fold(DayAt, DayVer, c) \subseteq Items \X Nat
      BY <2>1, FoldType
    <2>3. db' \in View /\ tx' \in View
      BY <1>18, <2>2 DEF RebuildDay, View
    <2>4. rb' \in Rebuild
      BY <1>18 DEF RebuildDay, Rebuild
    <2> QED BY <1>18, <2>3, <2>4 DEF RebuildDay, writers, ghosts
  <1>19. CASE RebuildDone
    <2>1. rb' \in Rebuild
      BY <1>19, ConstantsAssumption DEF RebuildDone, Rebuild, NoRebuild, Times
    <2> QED BY <1>19, <2>1 DEF RebuildDone, flushVars, writers, ghosts
  <1>20. CASE RebuildFail
    <2>1. rb' \in Rebuild
      BY <1>20, ConstantsAssumption DEF RebuildFail, Rebuild, NoRebuild, Times
    <2>2. gap' \subseteq Cells \X Causes /\ owed' \subseteq Cells
      BY <1>20 DEF RebuildFail, Causes
    <2> QED BY <1>20, <2>1, <2>2 DEF RebuildFail, flushVars, writers
  <1>21. CASE Restart
    <2>1. rb' \in Rebuild
      BY <1>21, ConstantsAssumption DEF Restart, Rebuild, NoRebuild, Times
    <2>2. restarts' \in 0 .. MaxRestarts
      BY <1>21, ConstantsAssumption DEF Restart
    <2> QED BY <1>21, <2>1, <2>2 DEF Restart
  <1>22. CASE UNCHANGED vars
    BY <1>22 DEF vars
  <1> QED BY <1>1, <1>2, <1>3, <1>4, <1>5, <1>6, <1>7, <1>8, <1>9, <1>10, <1>11, <1>12, <1>13,
             <1>14, <1>15, <1>16, <1>17, <1>18, <1>19, <1>20, <1>21, <1>22 DEF Next

\* Spec keeps the shape of every variable: what the writers, the rebuild and a
\* restart do to rows, carried buckets and flags stays within their types,
\* for any number of sources, items and hours.
THEOREM TypeCorrect == Spec => []TypeOK
  BY InitType, NextType, PTL DEF Spec

-----------------------------------------------------------------------------
(***************************************************************************)
(* The inductive invariant.                                                *)
(***************************************************************************)
\* Without an open flush the transaction's view is the committed one, the
\* idle refresh excludes a flush, and a source is applied once in a flush.
FlushShape ==
    /\ ~TxOpen => tx = db /\ missed = {}
    /\ idle # NoSource => ~TxOpen
    /\ cur \notin applied

\* The rebuild's cutoff and the starts it loaded lie in the past.
CutoffPast ==
    /\ rb.now <= clock
    /\ \A x \in Sessions : rb.at[x] = NoTs \/ rb.at[x] < rb.now

\* No view has a row of an open bucket, and only closed ones are staged.
OnlyClosed ==
    /\ \A c \in Cells : db.cell[c] # {} \/ tx.cell[c] # {} => Closed(c, clock)
    /\ \A s \in Sources : \A c \in staged[s] : Closed(c, clock)

\* Cell c is carried by a writer that will keep it, or owe it, at the commit.
Kept(c) == \E s \in Sources : c \in dirty[s] /\ ~(s \in applied \ marked /\ c \in staged[s])

TxFold(c) == Fold(tx.at, tx.ver, c)
DbFold(c) == Fold(db.at, db.ver, c)

\* The open flush changed cell c and its writer does not carry it.
Missed(c) == \E k \in Causes : <<c, k>> \in missed

\* A cell the open transaction holds wrong is kept, is missed, or was wrong
\* before and not touched.
TxDelta ==
    \A c \in Cells : tx.cell[c] # TxFold(c) =>
        \/ Kept(c) \/ Missed(c)
        \/ tx.cell[c] = db.cell[c] /\ TxFold(c) = DbFold(c) /\ c \notin Carried

\* A cell whose items the open transaction changed is carried, or missed.
TxChanged == \A c \in Cells : TxFold(c) # DbFold(c) => c \in Carried \/ Missed(c)

\* Somebody other than the rebuild is left with the cell.
Left(c) == c \in Carried \/ c \in owed \/ GapOf(c) # {}

\* From the truncate on no flush refreshes rollups, and a row that is there
\* and wrong is left to somebody other than the rebuild.
AfterTruncate ==
    rb.phase \in {"truncated", "starts", "days"} =>
        /\ applied = marked /\ tx.cell = db.cell
        /\ \A c \in Cells : db.cell[c] # {} /\ Mismatch(c) => Left(c)

\* The sessions of a fold.
SessPart(at, ver, c) ==
    {<<x, ver[x]>> : x \in {y \in Sessions : at[y] # NoTs /\ BucketTS(at[y], c[1]) = c[2]}}

\* A cell whose sessions changed after the rebuild loaded them.
SnapDiff(c) ==
    /\ Closed(c, rb.now)
    /\ SessPart(rb.at, rb.ver, c) # SessPart(db.at, db.ver, c)

\* Such a cell is left to somebody else, and there is none while an idle
\* refresh is under way that passed its checks before the rebuild.
Snapshot ==
    rb.phase \in {"starts", "days"} =>
        /\ \A c \in Cells : SnapDiff(c) => Left(c)
        /\ idle # NoSource => \A c \in Cells : ~SnapDiff(c)

IInv ==
    /\ TypeOK /\ FlushShape /\ CutoffPast /\ OnlyClosed /\ TxDelta /\ TxChanged
    /\ AfterTruncate /\ Snapshot /\ MismatchCovered

-----------------------------------------------------------------------------
(***************************************************************************)
(* Buckets and folds.                                                      *)
(***************************************************************************)
\* A later time lies in the same or a later bucket.
LEMMA BucketMonotone ==
    ASSUME NEW g \in Grans, NEW t \in Times, NEW u \in Times, t <= u
    PROVE  BucketTS(t, g) <= BucketTS(u, g)
  <1>1. Span(g) \in Nat \ {0}
    BY ConstantsAssumption DEF Span
  <1> QED BY <1>1, DivMonotone DEF BucketTS, Times

\* A bucket that is closed stays closed as the clock goes on.
LEMMA ClosedMonotone ==
    ASSUME NEW c \in Cells, NEW n \in Times, NEW m \in Times, n <= m, Closed(c, n)
    PROVE  Closed(c, m)
  <1>1. c[1] \in Grans /\ c[2] \in Int
    BY ConstantsAssumption DEF Cells, Buckets, Times
  <1>2. BucketTS(n, c[1]) \in Int /\ BucketTS(m, c[1]) \in Int
    BY <1>1, BucketType, ConstantsAssumption DEF Buckets, Times
  <1>3. BucketTS(n, c[1]) <= BucketTS(m, c[1])
    BY <1>1, BucketMonotone
  <1> QED BY <1>1, <1>2, <1>3 DEF Closed

\* An item of a cell that is closed at n started before n.
LEMMA ClosedItem ==
    ASSUME NEW c \in Cells, NEW t \in Times, NEW n \in Times,
           BucketTS(t, c[1]) = c[2], Closed(c, n)
    PROVE  t < n
  <1>1. c[1] \in Grans
    BY DEF Cells
  <1>2. BucketTS(n, c[1]) \in Int /\ c[2] \in Int
    BY <1>1, BucketType, ConstantsAssumption DEF Buckets, Times, Cells
  <1>3. n <= t => BucketTS(n, c[1]) <= BucketTS(t, c[1])
    BY <1>1, BucketMonotone
  <1> QED BY <1>2, <1>3 DEF Closed, Times

\* Time is counted in hours, so that an hour's number is its start.
LEMMA HourBucket ==
    ASSUME NEW t \in Times
    PROVE  BucketTS(t, "hour") = t
  <1>1. t \div 1 = t
    BY ConstantsAssumption, Z3 DEF Times
  <1> QED BY <1>1 DEF BucketTS, Span

\* An input marks every cell it is folded into.
LEMMA CellOfItem ==
    ASSUME NEW c \in Cells, NEW t, BucketTS(t, c[1]) = c[2]
    PROVE  c \in CellsOf(t)
  BY DEF CellsOf, Cells

\* A fold only depends on the items of its cell.
LEMMA FoldSame ==
    ASSUME NEW at, NEW ver, NEW at2, NEW ver2, NEW c,
           \A i \in Items : /\ (at[i] # NoTs /\ BucketTS(at[i], c[1]) = c[2])
                               <=> (at2[i] # NoTs /\ BucketTS(at2[i], c[1]) = c[2])
                            /\ at[i] # NoTs /\ BucketTS(at[i], c[1]) = c[2] => ver[i] = ver2[i]
    PROVE  Fold(at, ver, c) = Fold(at2, ver2, c)
  <1>1. ASSUME NEW e \in Fold(at, ver, c) PROVE e \in Fold(at2, ver2, c)
    BY <1>1 DEF Fold
  <1>2. ASSUME NEW e \in Fold(at2, ver2, c) PROVE e \in Fold(at, ver, c)
    BY <1>2 DEF Fold
  <1> QED BY <1>1, <1>2

\* The sessions of a fold are its entries that are sessions.
LEMMA SessPartOfFold ==
    ASSUME NEW at, NEW ver, NEW c
    PROVE  SessPart(at, ver, c) = {e \in Fold(at, ver, c) : e[1] \in Sessions}
  <1>1. ASSUME NEW e \in SessPart(at, ver, c) PROVE e \in Fold(at, ver, c) /\ e[1] \in Sessions
    BY <1>1, ItemsFacts DEF Fold, SessPart
  <1>2. ASSUME NEW e \in Fold(at, ver, c), e[1] \in Sessions PROVE e \in SessPart(at, ver, c)
    BY <1>2, ItemsFacts DEF Fold, SessPart
  <1> QED BY <1>1, <1>2

\* Where the sessions are as they were loaded, flushDay folds the rows as they
\* are now.
LEMMA DayFoldSame ==
    ASSUME TypeOK, NEW c \in Cells, Closed(c, rb.now),
           SessPart(rb.at, rb.ver, c) = SessPart(db.at, db.ver, c)
    PROVE  Fold(DayAt, DayVer, c) = DbFold(c)
  <1> DEFINE in(at, i) == at[i] # NoTs /\ BucketTS(at[i], c[1]) = c[2]
  <1>0. db \in View /\ rb \in Rebuild
    BY DEF TypeOK
  <1>1. ASSUME NEW x \in Sessions
        PROVE  /\ in(DayAt, x) <=> in(rb.at, x)
               /\ DayVer[x] = rb.ver[x]
    BY ItemsFacts DEF DayAt, DayVer
  <1>2. ASSUME NEW x \in Sessions
        PROVE  /\ in(rb.at, x) <=> <<x, rb.ver[x]>> \in SessPart(rb.at, rb.ver, c)
               /\ in(db.at, x) <=> <<x, db.ver[x]>> \in SessPart(db.at, db.ver, c)
    BY DEF SessPart
  <1>3. ASSUME NEW x \in Sessions
        PROVE  /\ <<x, rb.ver[x]>> \in SessPart(db.at, db.ver, c) => in(db.at, x) /\ rb.ver[x] = db.ver[x]
               /\ <<x, db.ver[x]>> \in SessPart(rb.at, rb.ver, c) => in(rb.at, x) /\ rb.ver[x] = db.ver[x]
    BY DEF SessPart
  <1>4. ASSUME NEW i \in Ops
        PROVE  (in(DayAt, i) <=> in(db.at, i)) /\ DayVer[i] = db.ver[i]
    <2>1. i \in Items /\ i \notin Sessions
      BY ItemsFacts, ConstantsAssumption
    <2>2. db.at[i] \in Times \cup {NoTs} /\ rb.now \in Times
      BY <1>0, <2>1 DEF View, Rebuild
    <2>3. in(db.at, i) => db.at[i] < rb.now
      BY <2>2, ClosedItem
    <2> QED BY <2>1, <2>3 DEF DayAt, DayVer
  <1>5. ASSUME NEW i \in Items
        PROVE  (in(DayAt, i) <=> in(db.at, i)) /\ (in(DayAt, i) => DayVer[i] = db.ver[i])
    <2>1. CASE i \in Sessions
      BY <2>1, <1>1, <1>2, <1>3
    <2>2. CASE i \in Ops
      BY <2>2, <1>4
    <2> QED BY <2>1, <2>2 DEF Items
  <1> HIDE DEF in
  <1>6. \A i \in Items : (in(DayAt, i) <=> in(db.at, i)) /\ (in(DayAt, i) => DayVer[i] = db.ver[i])
    BY <1>5
  <1> USE DEF in
  <1> QED BY <1>6, FoldSame DEF DbFold

-----------------------------------------------------------------------------
(***************************************************************************)
(* Initial states, and what all apply paths have in common.                *)
(***************************************************************************)
\* No source is the placeholder of an idle writer.
LEMMA NoSourceFact == NoSource \notin Sources
  BY ConstantsAssumption DEF NoSource

\* The first state of the daemon satisfies the inductive invariant.
LEMMA InitIInv == Init => IInv
  <1> SUFFICES ASSUME Init PROVE IInv
    OBVIOUS
  <1>1. TypeOK
    BY InitType
  <1>2. \A c \in Cells : Fold(EmptyDB.at, EmptyDB.ver, c) = {}
    BY DEF EmptyDB, Fold
  <1>3. FlushShape /\ TxChanged
    BY DEF Init, FlushShape, TxOpen, TxChanged, TxFold, DbFold
  <1>4. CutoffPast
    BY DEF Init, CutoffPast, NoRebuild
  <1>5. OnlyClosed
    BY DEF Init, OnlyClosed, EmptyDB
  <1>6. TxDelta /\ MismatchCovered
    BY <1>2 DEF Init, TxDelta, MismatchCovered, TxFold, Mismatch, EmptyDB
  <1>7. AfterTruncate /\ Snapshot
    BY DEF Init, AfterTruncate, Snapshot, NoRebuild
  <1> QED BY <1>1, <1>3, <1>4, <1>5, <1>6, <1>7 DEF IInv

\* After the step each of the cells cs is carried by s, or missed.
Noted(s, cs) == \A c \in cs : c \in dirty'[s] \/ Missed(c)'

\* What Mark does: nothing carried is dropped, a missed cell stays missed and a
\* gap stays a gap unless the source carries it now, and every marked or
\* changed cell is carried or missed.
MarkResult(s) ==
    /\ \A r \in Sources : dirty[r] \subseteq dirty'[r]
    /\ \A r \in Sources : r # s => dirty'[r] = dirty[r]
    /\ \A c \in Cells : Missed(c) => Missed(c)' \/ c \in dirty'[s]
    /\ \A c \in Cells : GapOf(c) # {} => GapOf(c)' # {} \/ c \in dirty'[s]

LEMMA MarkFacts ==
    ASSUME TypeOK, NEW s \in Sources, NEW marks \in SUBSET Cells, NEW changed \in SUBSET Cells,
           NEW cause \in Causes, Mark(s, marks, changed, cause)
    PROVE  MarkResult(s) /\ Noted(s, marks) /\ Noted(s, changed)
  <1> DEFINE carried == dirty[s] \cup marks
  <1>1. /\ dirty'[s] = carried
        /\ \A r \in Sources : r # s => dirty'[r] = dirty[r]
    BY DEF Mark, TypeOK
  <1>2. ASSUME NEW c \in Cells, NEW k \in Causes, c \notin carried
        PROVE  /\ <<c, k>> \in missed => <<c, k>> \in missed'
               /\ <<c, k>> \in gap => <<c, k>> \in gap'
               /\ c \in changed /\ k = cause => <<c, k>> \in missed'
    BY <1>2 DEF Mark
  <1>3. \A c \in Cells : Missed(c) => Missed(c)' \/ c \in dirty'[s]
    BY <1>1, <1>2 DEF Missed
  <1>4. \A c \in Cells : GapOf(c) # {} => GapOf(c)' # {} \/ c \in dirty'[s]
    BY <1>1, <1>2 DEF GapOf
  <1>5. Noted(s, changed)
    BY <1>1, <1>2 DEF Noted, Missed
  <1> QED BY <1>1, <1>3, <1>4, <1>5 DEF MarkResult, Noted

\* An apply path after which every cell whose fold it changed is carried by
\* its source or missed keeps the invariant.
LEMMA ApplyPreserves ==
    ASSUME IInv, TypeOK', NEW s \in Sources, Applying(s), MarkResult(s),
           UNCHANGED <<clock, db, applied, marked, staged, idle, rb, owed>>,
           tx'.cell = tx.cell,
           \A c \in Cells : TxFold(c)' # TxFold(c) => c \in dirty'[s] \/ Missed(c)'
    PROVE  IInv'
  <1>0. s \notin applied /\ idle = NoSource /\ cur' = s
    BY DEF Applying
  <1>1. FlushShape'
    BY <1>0, NoSourceFact DEF FlushShape, TxOpen
  <1>2. CutoffPast' /\ OnlyClosed'
    BY DEF IInv, CutoffPast, OnlyClosed, Closed
  <1>3. /\ \A c \in Carried : c \in Carried'
        /\ \A c \in Cells : c \in dirty'[s] => c \in Carried' /\ Kept(c)'
    BY <1>0 DEF Carried, Kept, MarkResult
  <1>4. \A c \in Cells : Left(c) => Left(c)'
    BY <1>3 DEF Left, MarkResult
  <1>5. \A c : DbFold(c)' = DbFold(c) /\ Mismatch(c)' = Mismatch(c) /\ ToRebuild(c)' = ToRebuild(c)
    BY DEF DbFold, Mismatch, ToRebuild, Closed
  <1>6. TxDelta'
    <2> SUFFICES ASSUME NEW c \in Cells, tx'.cell[c] # TxFold(c)'
                 PROVE  \/ Kept(c)' \/ Missed(c)'
                        \/ tx'.cell[c] = db'.cell[c] /\ TxFold(c)' = DbFold(c)' /\ c \notin Carried'
      BY DEF TxDelta
    <2>2. CASE TxFold(c)' # TxFold(c)
      BY <1>3, <2>2
    <2>3. CASE TxFold(c)' = TxFold(c)
      <3>1. \/ Kept(c) \/ Missed(c)
            \/ tx.cell[c] = db.cell[c] /\ TxFold(c) = DbFold(c) /\ c \notin Carried
        BY <2>3 DEF IInv, TxDelta
      <3>2. Kept(c) => Kept(c)'
        BY DEF Kept, MarkResult
      <3>3. c \notin Carried /\ c \in Carried' => c \in dirty'[s]
        BY DEF Carried, MarkResult
      <3>4. Missed(c) => Missed(c)' \/ Kept(c)'
        BY <1>3 DEF MarkResult
      <3> QED BY <3>1, <3>2, <3>3, <3>4, <1>3, <2>3, <1>5
    <2> QED BY <2>2, <2>3
  <1>7. TxChanged'
    <2> SUFFICES ASSUME NEW c \in Cells, TxFold(c)' # DbFold(c)'
                 PROVE  c \in Carried' \/ Missed(c)'
      BY DEF TxChanged
    <2>1. TxFold(c) # DbFold(c) => c \in Carried \/ Missed(c)
      BY DEF IInv, TxChanged
    <2>2. Missed(c) => Missed(c)' \/ c \in Carried'
      BY <1>3 DEF MarkResult
    <2> QED BY <2>1, <2>2, <1>3, <1>5
  <1>8. AfterTruncate'
    BY <1>4, <1>5 DEF IInv, AfterTruncate
  <1>9. Snapshot'
    <2>1. \A c : SnapDiff(c)' = SnapDiff(c)
      BY DEF SnapDiff, Closed
    <2> QED BY <1>0, <1>4, <2>1 DEF IInv, Snapshot
  <1>10. MismatchCovered'
    <2>1. \A c \in Cells : Mismatch(c) => Left(c) \/ ToRebuild(c)
      BY DEF IInv, MismatchCovered, Left
    <2> QED BY <1>4, <1>5, <2>1 DEF MismatchCovered, Left
  <1> QED BY <1>1, <1>2, <1>6, <1>7, <1>8, <1>9, <1>10 DEF IInv

-----------------------------------------------------------------------------
(***************************************************************************)
(* The apply paths: each notes every cell whose fold it changes.           *)
(***************************************************************************)
\* A cell not among the marked ones holds none of the session's items.
LEMMA NotInSessionCells ==
    ASSUME NEW at, NEW x, NEW c \in Cells, c \notin SessionCells(at, x),
           NEW i \in Items, OwnerOf(i) = x, at[i] # NoTs
    PROVE  BucketTS(at[i], c[1]) # c[2]
  BY CellOfItem DEF SessionCells

\* applySessionStarted marks the new, the old and, on a fill, all buckets of the session.
LEMMA ApplySessionStartedIInv ==
    ASSUME IInv, TypeOK', NEW s \in Sources, NEW x \in Sessions, NEW t \in 0 .. clock,
           NEW fill \in BOOLEAN, ApplySessionStarted(s, x, t, fill)
    PROVE  IInv'
  <1> DEFINE old == tx.at[x]
             at == [tx.at EXCEPT ![x] = IF old # NoTs THEN EarlierOf(old, t) ELSE t]
             refill == old # NoTs /\ fill
             ver == IF refill THEN Refilled(tx.ver, x) ELSE tx.ver
             cells == CellsOf(t) \cup (IF refill THEN SessionCells(at, x) ELSE {})
                                \cup (IF old # NoTs /\ t < old THEN CellsOf(old) ELSE {})
  <1>0. TypeOK /\ tx \in View /\ tx.at \in [Items -> Times \cup {NoTs}] /\ x \in Items
    BY ItemsFacts DEF IInv, TypeOK, View
  <1>1. tx'.at = at /\ tx'.ver = ver /\ tx'.cell = tx.cell
    BY <1>0 DEF ApplySessionStarted, View
  <1>2. Mark(s, cells, {}, "stub") /\ cells \in SUBSET Cells
    <2>1. t \in Times /\ old \in Times \cup {NoTs}
      BY <1>0, ConstantsAssumption DEF TypeOK, Times
    <2>2. at \in [Items -> Times \cup {NoTs}]
      BY <1>0, <2>1 DEF EarlierOf
    <2>3. cells \in SUBSET Cells
      BY <2>1, <2>2, CellsOfType, SessionCellsType
    <2> QED BY <2>3 DEF ApplySessionStarted, MarkAll
  <1>3. MarkResult(s) /\ Noted(s, cells)
    BY <1>0, <1>2, StubCause, MarkFacts
  <1>4. ASSUME NEW c \in Cells, c \notin cells
        PROVE  Fold(tx.at, tx.ver, c) = Fold(at, ver, c)
    <2> DEFINE in(a, i) == a[i] # NoTs /\ BucketTS(a[i], c[1]) = c[2]
    <2>1. ASSUME NEW i \in Items
          PROVE  in(tx.at, i) <=> in(at, i)
      <3>1. CASE i # x
        BY <3>1, <1>0
      <3>2. CASE i = x
        <4>1. BucketTS(t, c[1]) # c[2]
          BY <1>4, CellOfItem
        <4>2. old # NoTs /\ t < old => BucketTS(old, c[1]) # c[2]
          BY <1>4, CellOfItem
        <4>3. at[x] = IF old # NoTs THEN EarlierOf(old, t) ELSE t
          BY <1>0
        <4>4. old # NoTs => old \in Int /\ t \in Int
          BY <1>0, ConstantsAssumption DEF Times
        <4> QED BY <3>2, <4>1, <4>2, <4>3, <4>4 DEF EarlierOf
      <3> QED BY <3>1, <3>2
    <2>2. ASSUME NEW i \in Items, in(at, i)
          PROVE  tx.ver[i] = ver[i]
      <3>1. CASE ~refill
        BY <3>1
      <3>2. CASE refill
        <4>1. OwnerOf(i) # x
          BY <3>2, <1>4, <2>2, NotInSessionCells
        <4> QED BY <3>2, <4>1 DEF Refilled
      <3> QED BY <3>1, <3>2
    <2>3. \A i \in Items : (in(tx.at, i) <=> in(at, i)) /\ (in(tx.at, i) => tx.ver[i] = ver[i])
      BY <2>1, <2>2
    <2> HIDE DEF at, ver
    <2> QED BY <2>3, FoldSame
  <1>5. \A c \in Cells : TxFold(c)' # TxFold(c) => c \in dirty'[s] \/ Missed(c)'
    BY <1>1, <1>3, <1>4 DEF TxFold, Noted
  <1>6. /\ Applying(s)
        /\ UNCHANGED <<clock, db, applied, marked, staged, idle, rb, owed>>
    BY DEF ApplySessionStarted
  <1> QED BY <1>1, <1>3, <1>5, <1>6, ApplyPreserves

\* applySessionUpdated marks the buckets of the session and of its ops.
LEMMA ApplySessionUpdatedIInv ==
    ASSUME IInv, TypeOK', NEW s \in Sources, NEW x \in Sessions, NEW t \in 0 .. clock,
           ApplySessionUpdated(s, x, t)
    PROVE  IInv'
  <1> DEFINE at == [tx.at EXCEPT ![x] = IF tx.at[x] = NoTs THEN t ELSE tx.at[x]]
             ver == Refilled(tx.ver, x)
             cells == SessionCells(at, x)
  <1>0. TypeOK /\ tx \in View /\ tx.at \in [Items -> Times \cup {NoTs}] /\ x \in Items
    BY ItemsFacts DEF IInv, TypeOK, View
  <1>1. tx'.at = at /\ tx'.ver = ver /\ tx'.cell = tx.cell
    BY <1>0 DEF ApplySessionUpdated, View
  <1>2. Mark(s, cells, {}, "stub") /\ cells \in SUBSET Cells
    <2>1. t \in Times
      BY <1>0, ConstantsAssumption DEF TypeOK, Times
    <2>2. at \in [Items -> Times \cup {NoTs}]
      BY <1>0, <2>1
    <2> QED BY <1>0, <2>2, SessionCellsType DEF ApplySessionUpdated, MarkAll
  <1>3. MarkResult(s) /\ Noted(s, cells)
    BY <1>0, <1>2, StubCause, MarkFacts
  <1>4. ASSUME NEW c \in Cells, c \notin cells
        PROVE  Fold(tx.at, tx.ver, c) = Fold(at, ver, c)
    <2> DEFINE in(a, i) == a[i] # NoTs /\ BucketTS(a[i], c[1]) = c[2]
    <2>0. OwnerOf(x) = x
      BY ConstantsAssumption DEF OwnerOf
    <2>1. ASSUME NEW i \in Items
          PROVE  in(tx.at, i) <=> in(at, i)
      <3>1. CASE i # x
        BY <3>1, <1>0
      <3>2. CASE i = x
        <4>1. at[x] = NoTs \/ BucketTS(at[x], c[1]) # c[2]
          BY <1>0, <1>4, <2>0, NotInSessionCells
        <4>2. tx.at[x] = NoTs \/ at[x] = tx.at[x]
          BY <1>0
        <4> QED BY <3>2, <4>1, <4>2
      <3> QED BY <3>1, <3>2
    <2>2. ASSUME NEW i \in Items, in(at, i)
          PROVE  tx.ver[i] = ver[i]
      <3>1. OwnerOf(i) # x
        BY <1>4, <2>2, NotInSessionCells
      <3> QED BY <3>1 DEF Refilled
    <2>3. \A i \in Items : (in(tx.at, i) <=> in(at, i)) /\ (in(tx.at, i) => tx.ver[i] = ver[i])
      BY <2>1, <2>2
    <2> HIDE DEF at, ver
    <2> QED BY <2>3, FoldSame
  <1>5. \A c \in Cells : TxFold(c)' # TxFold(c) => c \in dirty'[s] \/ Missed(c)'
    BY <1>1, <1>3, <1>4 DEF TxFold, Noted
  <1>6. /\ Applying(s)
        /\ UNCHANGED <<clock, db, applied, marked, staged, idle, rb, owed>>
    BY DEF ApplySessionUpdated
  <1> QED BY <1>1, <1>3, <1>5, <1>6, ApplyPreserves

\* applyOpStarted marks the bucket of its event, which is also its stub's;
\* the bucket a re-emission changes behind that one's back is missed.
LEMMA ApplyOpStartedIInv ==
    ASSUME IInv, TypeOK', NEW s \in Sources, NEW o \in Ops, NEW t \in 0 .. clock,
           NEW change \in BOOLEAN, ApplyOpStarted(s, o, t, change)
    PROVE  IInv'
  <1> DEFINE x == SessionOf[o]
             old == tx.at[o]
             at == [tx.at EXCEPT ![o] = IF old # NoTs THEN EarlierOf(old, t) ELSE t,
                                 ![x] = IF tx.at[x] = NoTs THEN t ELSE tx.at[x]]
             ver == IF change THEN [tx.ver EXCEPT ![o] = tx.ver[o] + 1] ELSE tx.ver
             lost == IF old # NoTs /\ (change \/ t < old) THEN CellsOf(old) ELSE {}
  <1>0. /\ TypeOK /\ tx \in View /\ tx.at \in [Items -> Times \cup {NoTs}]
        /\ tx.ver \in [Items -> Nat]
        /\ o \in Items /\ x \in Items /\ o # x
        /\ change => old # NoTs
    BY ItemsFacts, ConstantsAssumption DEF IInv, TypeOK, View, ApplyOpStarted
  <1>01. t \in Times /\ old \in Times \cup {NoTs} /\ t \in Int /\ old \in Int
    BY <1>0, ConstantsAssumption DEF TypeOK, Times, NoTs
  <1>1. tx'.at = at /\ tx'.ver = ver /\ tx'.cell = tx.cell
    BY <1>0 DEF ApplyOpStarted, View
  <1>2. /\ Mark(s, CellsOf(t), lost, "reemitted")
        /\ CellsOf(t) \in SUBSET Cells /\ lost \in SUBSET Cells
    BY <1>01, CellsOfType DEF ApplyOpStarted
  <1>3. MarkResult(s) /\ Noted(s, CellsOf(t)) /\ Noted(s, lost)
    BY <1>0, <1>2, StubCause, MarkFacts
  <1>4. ASSUME NEW c \in Cells, c \notin CellsOf(t), c \notin lost
        PROVE  Fold(tx.at, tx.ver, c) = Fold(at, ver, c)
    <2> DEFINE in(a, i) == a[i] # NoTs /\ BucketTS(a[i], c[1]) = c[2]
    <2>0. BucketTS(t, c[1]) # c[2]
      BY <1>4, CellOfItem
    <2>01. old # NoTs /\ (change \/ t < old) => BucketTS(old, c[1]) # c[2]
      BY <1>4, CellOfItem
    <2>1. ASSUME NEW i \in Items
          PROVE  in(tx.at, i) <=> in(at, i)
      <3>1. CASE i = x
        <4>1. at[x] = IF tx.at[x] = NoTs THEN t ELSE tx.at[x]
          BY <1>0
        <4> QED BY <3>1, <4>1, <2>0
      <3>2. CASE i = o
        <4>1. at[o] = IF old # NoTs /\ ~(t < old) THEN old ELSE t
          BY <1>0, <1>01 DEF EarlierOf
        <4> QED BY <3>2, <4>1, <2>0, <2>01
      <3>3. CASE i # x /\ i # o
        <4>1. at[i] = tx.at[i]
          BY <1>0, <3>3
        <4> QED BY <4>1
      <3> QED BY <3>1, <3>2, <3>3
    <2>2. ASSUME NEW i \in Items, in(tx.at, i)
          PROVE  tx.ver[i] = ver[i]
      <3>1. i = o => ~change
        BY <1>0, <2>01, <2>2
      <3> QED BY <1>0, <3>1
    <2>3. \A i \in Items : (in(tx.at, i) <=> in(at, i)) /\ (in(tx.at, i) => tx.ver[i] = ver[i])
      BY <2>1, <2>2
    <2> HIDE DEF at, ver
    <2> QED BY <2>3, FoldSame
  <1> HIDE DEF lost
  <1>5. \A c \in Cells : TxFold(c)' # TxFold(c) => c \in dirty'[s] \/ Missed(c)'
    BY <1>1, <1>3, <1>4 DEF TxFold, Noted
  <1>6. /\ Applying(s)
        /\ UNCHANGED <<clock, db, applied, marked, staged, idle, rb, owed>>
    BY DEF ApplyOpStarted
  <1> QED BY <1>1, <1>3, <1>5, <1>6, ApplyPreserves

\* applyOpFinalized marks the persisted start of the op.
LEMMA ApplyOpFinalizedIInv ==
    ASSUME IInv, TypeOK', NEW s \in Sources, NEW o \in Ops, ApplyOpFinalized(s, o)
    PROVE  IInv'
  <1> DEFINE ver == [tx.ver EXCEPT ![o] = tx.ver[o] + 1]
  <1>0. TypeOK /\ tx \in View /\ tx.ver \in [Items -> Nat] /\ o \in Items
    BY ItemsFacts DEF IInv, TypeOK, View
  <1>1. tx'.at = tx.at /\ tx'.ver = ver /\ tx'.cell = tx.cell
    BY <1>0 DEF ApplyOpFinalized, View
  <1>2. Mark(s, CellsOf(tx.at[o]), {}, "stub") /\ CellsOf(tx.at[o]) \in SUBSET Cells
    <2>1. tx.at[o] \in Times
      BY <1>0 DEF View, ApplyOpFinalized
    <2> QED BY <2>1, CellsOfType DEF ApplyOpFinalized, MarkAll
  <1>3. MarkResult(s) /\ Noted(s, CellsOf(tx.at[o]))
    BY <1>0, <1>2, StubCause, MarkFacts
  <1>4. ASSUME NEW c \in Cells, c \notin CellsOf(tx.at[o])
        PROVE  Fold(tx.at, tx.ver, c) = Fold(tx.at, ver, c)
    <2>1. BucketTS(tx.at[o], c[1]) # c[2]
      BY <1>4, CellOfItem
    <2>2. \A i \in Items : i # o => tx.ver[i] = ver[i]
      BY <1>0
    <2> HIDE DEF ver
    <2> QED BY <2>1, <2>2, FoldSame
  <1>5. \A c \in Cells : TxFold(c)' # TxFold(c) => c \in dirty'[s] \/ Missed(c)'
    BY <1>1, <1>3, <1>4 DEF TxFold, Noted
  <1>6. /\ Applying(s)
        /\ UNCHANGED <<clock, db, applied, marked, staged, idle, rb, owed>>
    BY DEF ApplyOpFinalized
  <1> QED BY <1>1, <1>3, <1>5, <1>6, ApplyPreserves

\* The other apply paths change only the cells of the stub they insert.
LEMMA ApplyOtherIInv ==
    ASSUME IInv, TypeOK', NEW s \in Sources, NEW x \in Sessions, NEW t \in 0 .. clock,
           ApplyOther(s, x, t)
    PROVE  IInv'
  <1> DEFINE at == [tx.at EXCEPT ![x] = t]
  <1>0. TypeOK /\ tx \in View /\ tx.at \in [Items -> Times \cup {NoTs}] /\ x \in Items /\ tx.at[x] = NoTs
    BY ItemsFacts DEF IInv, TypeOK, View, ApplyOther
  <1>1. tx'.at = at /\ tx'.ver = tx.ver /\ tx'.cell = tx.cell
    BY <1>0 DEF ApplyOther, View
  <1>2. Mark(s, {}, CellsOf(t), "stub") /\ CellsOf(t) \in SUBSET Cells
    <2>1. t \in Times
      BY <1>0, ConstantsAssumption DEF TypeOK, Times
    <2> QED BY <2>1, CellsOfType DEF ApplyOther
  <1>3. MarkResult(s) /\ Noted(s, CellsOf(t))
    BY <1>0, <1>2, StubCause, MarkFacts
  <1>4. ASSUME NEW c \in Cells, c \notin CellsOf(t)
        PROVE  Fold(tx.at, tx.ver, c) = Fold(at, tx.ver, c)
    <2>1. BucketTS(t, c[1]) # c[2]
      BY <1>4, CellOfItem
    <2>2. \A i \in Items : at[i] = IF i = x THEN t ELSE tx.at[i]
      BY <1>0
    <2> HIDE DEF at
    <2> QED BY <1>0, <2>1, <2>2, FoldSame
  <1>5. \A c \in Cells : TxFold(c)' # TxFold(c) => c \in dirty'[s] \/ Missed(c)'
    BY <1>1, <1>3, <1>4 DEF TxFold, Noted
  <1>6. /\ Applying(s)
        /\ UNCHANGED <<clock, db, applied, marked, staged, idle, rb, owed>>
    BY DEF ApplyOther
  <1> QED BY <1>1, <1>3, <1>5, <1>6, ApplyPreserves

-----------------------------------------------------------------------------
(***************************************************************************)
(* The end of a source's batch, the commit and the rollback.               *)
(***************************************************************************)
\* Once the transaction is over, what holds of it holds trivially.
LEMMA QuietNext ==
    ASSUME tx' = db', applied' = {}
    PROVE  TxDelta' /\ TxChanged'
  <1>1. \A c : TxFold(c)' = DbFold(c)'
    BY DEF TxFold, DbFold
  <1>2. \A c : c \in Carried' => Kept(c)'
    BY DEF Carried, Kept
  <1> QED BY <1>1, <1>2 DEF TxDelta, TxChanged

\* What a recompute of some cells changes.
LEMMA RecomputeFacts ==
    ASSUME NEW view \in View, NEW cells
    PROVE  /\ Recompute(view, cells).at = view.at /\ Recompute(view, cells).ver = view.ver
           /\ \A c \in Cells : Recompute(view, cells).cell[c] =
                 IF c \in cells THEN Fold(view.at, view.ver, c) ELSE view.cell[c]
  BY DEF Recompute, View

\* refreshBatchReadModels at the end of a source's events.
LEMMA FinishSourceIInv ==
    ASSUME IInv, TypeOK', NEW s \in Sources, FinishSource(s)
    PROVE  IInv'
  <1> DEFINE skip == deferred[s] \/ Rebuilding
  <1>0. TypeOK /\ tx \in View /\ clock \in Times
    BY DEF IInv, TypeOK
  <1>1. /\ cur = s /\ s \notin applied /\ cur' = NoSource /\ applied' = applied \cup {s}
        /\ idle = NoSource
    BY NoSourceFact DEF FinishSource, IInv, FlushShape, TxOpen
  <1>2. UNCHANGED <<clock, db, dirty, idle, rb, missed, owed, gap>>
    BY DEF FinishSource, ghosts
  <1>3. /\ tx'.at = tx.at /\ tx'.ver = tx.ver
        /\ \A c \in Cells : tx'.cell[c] = IF ~skip /\ c \in ClosedDirty(s) THEN TxFold(c) ELSE tx.cell[c]
    BY <1>0, RecomputeFacts DEF FinishSource, TxFold
  <1>4. /\ marked' = IF skip THEN marked \cup {s} ELSE marked
        /\ staged' = IF skip THEN staged ELSE [staged EXCEPT ![s] = @ \cup ClosedDirty(s)]
    BY DEF FinishSource
  <1>5. \A c \in Cells : TxFold(c)' = TxFold(c) /\ DbFold(c)' = DbFold(c)
    BY <1>2, <1>3 DEF TxFold, DbFold
  <1>6. FlushShape'
    BY <1>1, <1>2, NoSourceFact DEF FlushShape, TxOpen, TypeOK
  <1>7. CutoffPast'
    BY <1>2 DEF IInv, CutoffPast
  <1>8. OnlyClosed'
    <2>1. \A c \in ClosedDirty(s) : Closed(c, clock)
      BY DEF ClosedDirty
    <2>2. \A r \in Sources : staged'[r] \subseteq staged[r] \cup ClosedDirty(s)
      BY <1>0, <1>4 DEF TypeOK
    <2>3. \A r \in Sources : \A c \in staged'[r] : Closed(c, clock)
      BY <2>1, <2>2 DEF IInv, OnlyClosed
    <2>4. \A c \in Cells : db.cell[c] # {} \/ tx'.cell[c] # {} => Closed(c, clock)
      BY <1>3, <2>1 DEF IInv, OnlyClosed
    <2> QED BY <1>2, <2>3, <2>4 DEF OnlyClosed
  <1>9. TxDelta'
    <2> SUFFICES ASSUME NEW c \in Cells, tx'.cell[c] # TxFold(c)'
                 PROVE  \/ Kept(c)' \/ Missed(c)'
                        \/ tx'.cell[c] = db'.cell[c] /\ TxFold(c)' = DbFold(c)' /\ c \notin Carried'
      BY DEF TxDelta
    <2>1. skip \/ c \notin ClosedDirty(s)
      BY <1>3, <1>5
    <2>2. tx'.cell[c] = tx.cell[c] /\ tx.cell[c] # TxFold(c)
      BY <1>3, <1>5, <2>1
    <2>3. ASSUME Kept(c) PROVE Kept(c)'
      <3>1. PICK r \in Sources : c \in dirty[r] /\ ~(r \in applied \ marked /\ c \in staged[r])
        BY <2>3 DEF Kept
      <3>2. CASE r # s
        <4>1. staged'[r] = staged[r]
          BY <1>0, <1>4, <3>2 DEF TypeOK
        <4> QED BY <1>1, <1>2, <1>4, <3>1, <3>2, <4>1 DEF Kept
      <3>3. CASE r = s /\ skip
        BY <1>2, <1>4, <3>1, <3>3 DEF Kept
      <3>4. CASE r = s /\ ~skip
        <4>1. c \notin ClosedDirty(s) /\ c \in dirty[s]
          BY <2>1, <3>1, <3>4
        <4>2. c \notin staged[s]
          BY <4>1 DEF IInv, OnlyClosed, ClosedDirty
        <4>3. c \notin staged'[s]
          BY <1>0, <1>4, <3>4, <4>1, <4>2 DEF TypeOK
        <4> QED BY <1>2, <4>1, <4>3 DEF Kept
      <3> QED BY <3>2, <3>3, <3>4
    <2>4. \/ Kept(c) \/ Missed(c)
          \/ tx.cell[c] = db.cell[c] /\ TxFold(c) = DbFold(c) /\ c \notin Carried
      BY <2>2 DEF IInv, TxDelta
    <2>5. Carried' = Carried
      BY <1>2 DEF Carried
    <2>6. Missed(c)' <=> Missed(c)
      BY <1>2 DEF Missed
    <2> QED BY <1>2, <1>5, <2>2, <2>3, <2>4, <2>5, <2>6
  <1>10. TxChanged' /\ MismatchCovered'
    BY <1>2, <1>5 DEF IInv, TxChanged, Missed, Carried, MismatchCovered, Mismatch, ToRebuild, GapOf, Closed
  <1>11. AfterTruncate'
    <2>1. CASE rb.phase \in {"truncated", "starts", "days"}
      <3>1. skip
        BY <2>1 DEF Rebuilding
      <3>2. tx' = tx /\ marked' = marked \cup {s}
        BY <3>1 DEF FinishSource
      <3> QED BY <1>1, <1>2, <2>1, <3>2 DEF IInv, AfterTruncate, Mismatch, Left, Carried, GapOf
    <2>2. CASE rb.phase \notin {"truncated", "starts", "days"}
      BY <1>2, <2>2 DEF AfterTruncate
    <2> QED BY <2>1, <2>2
  <1>12. Snapshot'
    BY <1>2 DEF IInv, Snapshot, SnapDiff, Left, Carried, GapOf, Closed
  <1> QED BY <1>6, <1>7, <1>8, <1>9, <1>10, <1>11, <1>12 DEF IInv

\* The commit with its promotion forgets only what is right or owed.
LEMMA CommitIInv ==
    ASSUME IInv, TypeOK', Commit
    PROVE  IInv'
  <1>0. TypeOK /\ marked \subseteq applied
    BY DEF IInv, TypeOK
  <1>1. /\ db' = tx /\ tx' = tx /\ cur' = NoSource /\ applied' = {} /\ marked' = {} /\ missed' = {}
        /\ owed' = owed \cup Unmaterialized /\ gap' = gap \cup missed
        /\ UNCHANGED <<clock, idle, rb>>
    BY DEF Commit
  <1>2. idle = NoSource
    BY DEF Commit, IInv, FlushShape, TxOpen
  <1>3. \A s \in Sources : /\ dirty'[s] = IF s \in applied THEN dirty[s] \ staged[s] ELSE dirty[s]
                           /\ staged'[s] \subseteq staged[s]
    BY DEF Commit
  <1>4. ASSUME NEW c \in Cells, Kept(c)
        PROVE  c \in Carried' \/ c \in owed'
    <2>1. PICK s \in Sources : c \in dirty[s] /\ ~(s \in applied \ marked /\ c \in staged[s])
      BY <1>4 DEF Kept
    <2>2. CASE s \in applied /\ c \in staged[s]
      <3>1. c \in Unmaterialized
        BY <2>1, <2>2 DEF Unmaterialized
      <3> QED BY <1>1, <3>1
    <2>3. CASE ~(s \in applied /\ c \in staged[s])
      <3>1. c \in dirty'[s]
        BY <1>3, <2>1, <2>3
      <3> QED BY <3>1 DEF Carried
    <2> QED BY <2>2, <2>3
  <1>5. \A c : Missed(c) => GapOf(c)' # {}
    BY <1>1 DEF GapOf, Missed
  <1>6. \A c : (c \in owed => c \in owed') /\ (GapOf(c) # {} => GapOf(c)' # {})
    BY <1>1 DEF GapOf
  <1>7. \A c \in Cells : Kept(c) \/ Missed(c) \/ c \in owed \/ GapOf(c) # {} => Left(c)'
    BY <1>4, <1>5, <1>6 DEF Left
  <1>8. FlushShape' /\ CutoffPast'
    BY <1>1, <1>2 DEF IInv, FlushShape, TxOpen, CutoffPast
  <1>9. OnlyClosed'
    BY <1>1, <1>3 DEF IInv, OnlyClosed
  <1>10. TxDelta' /\ TxChanged'
    BY <1>1, QuietNext
  <1>11. \A c : DbFold(c)' = TxFold(c)
    BY <1>1 DEF DbFold, TxFold
  <1>12. AfterTruncate'
    <2> SUFFICES ASSUME rb.phase \in {"truncated", "starts", "days"},
                        NEW c \in Cells, db'.cell[c] # {}, Mismatch(c)'
                 PROVE  Left(c)'
      BY <1>1 DEF AfterTruncate
    <2>1. applied = marked /\ tx.cell = db.cell
      BY DEF IInv, AfterTruncate
    <2>2. c \in Carried => Kept(c)
      BY <2>1 DEF Carried, Kept
    <2>3. CASE TxFold(c) # DbFold(c)
      BY <1>7, <2>2, <2>3 DEF IInv, TxChanged
    <2>4. CASE TxFold(c) = DbFold(c)
      <3>1. db.cell[c] # {} /\ Mismatch(c)
        BY <1>1, <1>11, <2>1, <2>4 DEF Mismatch, DbFold
      <3>2. Left(c)
        BY <3>1 DEF IInv, AfterTruncate
      <3> QED BY <1>7, <2>2, <3>2 DEF Left
    <2> QED BY <2>3, <2>4
  <1>13. Snapshot'
    <2> SUFFICES ASSUME rb.phase \in {"starts", "days"}, NEW c \in Cells, SnapDiff(c)'
                 PROVE  Left(c)'
      BY <1>1, <1>2 DEF Snapshot
    <2>1. applied = marked
      BY DEF IInv, AfterTruncate
    <2>2. c \in Carried => Kept(c)
      BY <2>1 DEF Carried, Kept
    <2>3. CASE TxFold(c) # DbFold(c)
      BY <1>7, <2>2, <2>3 DEF IInv, TxChanged
    <2>4. CASE TxFold(c) = DbFold(c)
      <3>1. SessPart(tx.at, tx.ver, c) = SessPart(db.at, db.ver, c)
        BY <2>4, SessPartOfFold DEF TxFold, DbFold
      <3>2. SnapDiff(c)
        BY <1>1, <3>1 DEF SnapDiff, Closed
      <3>3. Left(c)
        BY <3>2 DEF IInv, Snapshot
      <3> QED BY <1>7, <2>2, <3>3 DEF Left
    <2> QED BY <2>3, <2>4
  <1>14. MismatchCovered'
    <2> SUFFICES ASSUME NEW c \in Cells, Mismatch(c)'
                 PROVE  c \in Carried' \/ ToRebuild(c)' \/ c \in owed' \/ GapOf(c)' # {}
      BY DEF MismatchCovered
    <2>1. tx.cell[c] # TxFold(c)
      BY <1>1, <1>11 DEF Mismatch, DbFold
    <2>2. \/ Kept(c) \/ Missed(c)
          \/ tx.cell[c] = db.cell[c] /\ TxFold(c) = DbFold(c) /\ c \notin Carried
      BY <2>1 DEF IInv, TxDelta
    <2>3. CASE Kept(c) \/ Missed(c)
      BY <1>7, <2>3 DEF Left
    <2>4. CASE tx.cell[c] = db.cell[c] /\ TxFold(c) = DbFold(c) /\ c \notin Carried
      <3>1. Mismatch(c)
        BY <2>1, <2>4 DEF Mismatch, DbFold
      <3>2. ToRebuild(c) \/ c \in owed \/ GapOf(c) # {}
        BY <2>4, <3>1 DEF IInv, MismatchCovered
      <3>3. ToRebuild(c)' = ToRebuild(c)
        BY <1>1 DEF ToRebuild, Closed
      <3> QED BY <1>6, <3>2, <3>3
    <2> QED BY <2>2, <2>3, <2>4
  <1> QED BY <1>8, <1>9, <1>10, <1>12, <1>13, <1>14 DEF IInv

\* A rollback keeps the marks of the rows it takes back.
LEMMA RollbackIInv ==
    ASSUME IInv, TypeOK', Rollback
    PROVE  IInv'
  <1>1. /\ tx' = db /\ cur' = NoSource /\ applied' = {} /\ marked' = {} /\ missed' = {}
        /\ UNCHANGED <<clock, db, dirty, staged, idle, rb, owed, gap>>
    BY DEF Rollback, writers, ghosts
  <1>2. idle = NoSource
    BY DEF Rollback, IInv, FlushShape
  <1>3. FlushShape' /\ CutoffPast' /\ OnlyClosed'
    BY <1>1, <1>2 DEF IInv, FlushShape, TxOpen, CutoffPast, OnlyClosed
  <1>4. TxDelta' /\ TxChanged'
    BY <1>1, QuietNext
  <1>5. AfterTruncate' /\ Snapshot'
    BY <1>1 DEF IInv, AfterTruncate, Snapshot, SnapDiff, Mismatch, Left, Carried, GapOf, Closed
  <1>6. MismatchCovered'
    BY <1>1 DEF IInv, MismatchCovered, Mismatch, ToRebuild, Carried, GapOf, Closed
  <1> QED BY <1>3, <1>4, <1>5, <1>6 DEF IInv

\* A restart leaves every cell to the rebuild of the next life.
LEMMA RestartIInv ==
    ASSUME IInv, TypeOK', Restart
    PROVE  IInv'
  <1>0. clock \in Nat
    BY DEF IInv, TypeOK, Times
  <1>1. /\ tx' = db /\ cur' = NoSource /\ applied' = {} /\ marked' = {} /\ missed' = {}
        /\ staged' = [s \in Sources |-> {}] /\ idle' = NoSource /\ rb' = NoRebuild
        /\ UNCHANGED <<clock, db>>
    BY DEF Restart
  <1>2. FlushShape' /\ CutoffPast' /\ OnlyClosed'
    BY <1>0, <1>1 DEF IInv, FlushShape, TxOpen, CutoffPast, OnlyClosed, NoRebuild
  <1>3. TxDelta' /\ TxChanged'
    BY <1>1, QuietNext
  <1>4. rb'.phase = "none"
    BY <1>1 DEF NoRebuild
  <1>5. AfterTruncate' /\ Snapshot' /\ MismatchCovered'
    BY <1>4 DEF AfterTruncate, Snapshot, MismatchCovered, ToRebuild
  <1> QED BY <1>2, <1>3, <1>5 DEF IInv

\* The clock closes buckets and opens none.
LEMMA TickIInv ==
    ASSUME IInv, TypeOK', Tick
    PROVE  IInv'
  <1>0. clock \in Times /\ clock' \in Times /\ clock <= clock' /\ rb.now \in Int /\ TypeOK
    BY ConstantsAssumption DEF IInv, TypeOK, Times, Rebuild, Tick
  <1>1. UNCHANGED <<db, tx, cur, applied, marked, missed, dirty, staged, idle, rb, owed, gap>>
    BY DEF Tick, flushVars, writers, ghosts
  <1>2. \A c \in Cells : Closed(c, clock) => Closed(c, clock')
    BY <1>0, ClosedMonotone
  <1>3. CutoffPast' /\ FlushShape'
    BY <1>0, <1>1 DEF IInv, CutoffPast, FlushShape, TxOpen, Times
  <1>4. OnlyClosed'
    BY <1>0, <1>1, <1>2 DEF IInv, OnlyClosed, TypeOK
  <1>5. TxDelta' /\ TxChanged'
    BY <1>1 DEF IInv, TxDelta, TxChanged, TxFold, DbFold, Kept, Missed, Carried
  <1>6. AfterTruncate' /\ Snapshot'
    BY <1>1 DEF IInv, AfterTruncate, Snapshot, SnapDiff, Mismatch, Left, Carried, GapOf, Closed
  <1>7. MismatchCovered'
    BY <1>1 DEF IInv, MismatchCovered, Mismatch, ToRebuild, Carried, GapOf, Closed
  <1> QED BY <1>3, <1>4, <1>5, <1>6, <1>7 DEF IInv

-----------------------------------------------------------------------------
(***************************************************************************)
(* The idle refresh.                                                       *)
(***************************************************************************)
\* The idle refresh reads its flags.
LEMMA IdleCheckIInv ==
    ASSUME IInv, TypeOK', NEW s \in Sources, IdleCheck(s)
    PROVE  IInv'
  <1>0. TypeOK /\ ~TxOpen /\ applied = {} /\ tx = db /\ missed = {}
    BY DEF IdleCheck, IInv, FlushShape, TxOpen
  <1>1. UNCHANGED <<clock, db, tx, cur, applied, marked, missed, dirty, rb, owed, gap>>
    BY DEF IdleCheck, flushVars, ghosts
  <1>2. \A r \in Sources : staged'[r] \subseteq staged[r]
    BY <1>0 DEF IdleCheck, TypeOK
  <1>3. rb.phase \in {"starts", "days"} => idle' = NoSource
    BY DEF IdleCheck, Rebuilding
  <1>4. FlushShape' /\ CutoffPast' /\ OnlyClosed'
    BY <1>0, <1>1, <1>2 DEF IInv, FlushShape, TxOpen, CutoffPast, OnlyClosed
  <1>5. TxDelta' /\ TxChanged'
    BY <1>0, <1>1, QuietNext
  <1>6. AfterTruncate' /\ Snapshot'
    BY <1>1, <1>3 DEF IInv, AfterTruncate, Snapshot, SnapDiff, Mismatch, Left, Carried, GapOf, Closed
  <1>7. MismatchCovered'
    BY <1>1 DEF IInv, MismatchCovered, Mismatch, ToRebuild, Carried, GapOf, Closed
  <1> QED BY <1>4, <1>5, <1>6, <1>7 DEF IInv

\* A failed idle refresh forgets no carried bucket.
LEMMA IdleFailIInv ==
    ASSUME IInv, TypeOK', NEW s \in Sources, IdleFail(s)
    PROVE  IInv'
  <1>0. TypeOK /\ ~TxOpen /\ applied = {} /\ tx = db /\ missed = {}
    BY NoSourceFact DEF IdleFail, IInv, FlushShape, TxOpen
  <1>1. UNCHANGED <<clock, db, tx, cur, applied, marked, missed, dirty, rb, owed, gap>>
    BY DEF IdleFail, flushVars, ghosts
  <1>2. \A r \in Sources : staged'[r] \subseteq staged[r]
    BY <1>0 DEF IdleFail, TypeOK
  <1>3. idle' = NoSource
    BY DEF IdleFail
  <1>4. FlushShape' /\ CutoffPast' /\ OnlyClosed'
    BY <1>0, <1>1, <1>2 DEF IInv, FlushShape, TxOpen, CutoffPast, OnlyClosed
  <1>5. TxDelta' /\ TxChanged'
    BY <1>0, <1>1, QuietNext
  <1>6. AfterTruncate' /\ Snapshot'
    BY <1>1, <1>3 DEF IInv, AfterTruncate, Snapshot, SnapDiff, Mismatch, Left, Carried, GapOf, Closed
  <1>7. MismatchCovered'
    BY <1>1 DEF IInv, MismatchCovered, Mismatch, ToRebuild, Carried, GapOf, Closed
  <1> QED BY <1>4, <1>5, <1>6, <1>7 DEF IInv

\* The idle refresh, which may run after the rebuild has begun.
LEMMA IdleRefreshIInv ==
    ASSUME IInv, TypeOK', NEW s \in Sources, IdleRefresh(s)
    PROVE  IInv'
  <1>0. TypeOK /\ db \in View /\ ~TxOpen /\ applied = {} /\ marked = {} /\ missed = {} /\ idle # NoSource
    BY NoSourceFact DEF IdleRefresh, IInv, FlushShape, TxOpen, TypeOK
  <1>1. /\ tx' = db' /\ idle' = NoSource
        /\ UNCHANGED <<clock, cur, applied, marked, missed, rb, owed, gap>>
    BY DEF IdleRefresh, ghosts
  <1>2. /\ db'.at = db.at /\ db'.ver = db.ver
        /\ \A c \in Cells : db'.cell[c] = IF c \in ClosedDirty(s) THEN DbFold(c) ELSE db.cell[c]
    BY <1>0, RecomputeFacts DEF IdleRefresh, DbFold
  <1>3. \A c \in Cells : Mismatch(c)' => Mismatch(c) /\ c \notin ClosedDirty(s) /\ db'.cell[c] = db.cell[c]
    BY <1>2 DEF Mismatch, DbFold
  <1>4. ASSUME NEW c \in Cells, c \in Carried, c \notin ClosedDirty(s)
        PROVE  c \in Carried'
    <2>1. PICK r \in Sources : c \in dirty[r]
      BY <1>4 DEF Carried
    <2>2. c \in dirty'[r]
      <3>1. CASE r # s
        BY <1>0, <2>1, <3>1 DEF IdleRefresh, TypeOK
      <3>2. CASE r = s
        <4>1. c \notin staged[s]
          BY <1>4, <2>1, <3>2 DEF IInv, OnlyClosed, ClosedDirty
        <4> QED BY <1>0, <1>4, <2>1, <3>2, <4>1 DEF IdleRefresh, TypeOK
      <3> QED BY <3>1, <3>2
    <2> QED BY <2>2 DEF Carried
  <1>5. FlushShape' /\ CutoffPast'
    BY <1>0, <1>1 DEF IInv, FlushShape, TxOpen, CutoffPast
  <1>6. OnlyClosed'
    <2>1. \A r \in Sources : staged'[r] \subseteq staged[r]
      BY <1>0 DEF IdleRefresh, TypeOK
    <2>2. \A c \in ClosedDirty(s) : Closed(c, clock)
      BY DEF ClosedDirty
    <2> QED BY <1>1, <1>2, <2>1, <2>2 DEF IInv, OnlyClosed
  <1>7. TxDelta' /\ TxChanged'
    BY <1>0, <1>1, QuietNext
  <1>8. AfterTruncate'
    <2> SUFFICES ASSUME rb.phase \in {"truncated", "starts", "days"},
                        NEW c \in Cells, db'.cell[c] # {}, Mismatch(c)'
                 PROVE  Left(c)'
      BY <1>0, <1>1 DEF AfterTruncate
    <2>1. Left(c) /\ c \notin ClosedDirty(s)
      BY <1>3 DEF IInv, AfterTruncate
    <2> QED BY <1>1, <1>4, <2>1 DEF Left, GapOf
  <1>9. Snapshot'
    <2>1. \A c : SnapDiff(c)' = SnapDiff(c)
      BY <1>1, <1>2 DEF SnapDiff, Closed
    <2> QED BY <1>0, <1>1, <2>1 DEF IInv, Snapshot
  <1>10. MismatchCovered'
    BY <1>1, <1>3, <1>4 DEF IInv, MismatchCovered, ToRebuild, GapOf, Closed
  <1> QED BY <1>5, <1>6, <1>7, <1>8, <1>9, <1>10 DEF IInv

-----------------------------------------------------------------------------
(***************************************************************************)
(* The rebuild.                                                            *)
(***************************************************************************)
\* The rebuild reads its cutoff: open buckets of an earlier life become gaps.
LEMMA RebuildStartIInv ==
    ASSUME IInv, TypeOK', RebuildStart
    PROVE  IInv'
  <1>0. /\ TypeOK /\ rb \in Rebuild /\ rb' = [rb EXCEPT !.phase = "fts", !.now = clock]
        /\ gap' = gap \cup (Inherited \X {"inherited"}) /\ rb.phase = "none"
    BY DEF RebuildStart, IInv, TypeOK
  <1>1. UNCHANGED <<clock, db, tx, cur, applied, marked, missed, dirty, staged, idle, owed>>
    BY DEF RebuildStart, flushVars, writers
  <1>2. rb'.phase = "fts" /\ rb'.now = clock /\ rb'.at = rb.at
    BY <1>0 DEF Rebuild
  <1>3. CutoffPast'
    <2>1. /\ clock \in Int /\ rb.now \in Int /\ rb.now <= clock
          /\ \A x \in Sessions : rb.at[x] \in Int
      BY <1>0, ConstantsAssumption DEF IInv, CutoffPast, TypeOK, Rebuild, Times, NoTs
    <2> QED BY <1>1, <1>2, <2>1 DEF IInv, CutoffPast
  <1>4. FlushShape' /\ OnlyClosed'
    BY <1>1 DEF IInv, FlushShape, TxOpen, OnlyClosed
  <1>5. TxDelta' /\ TxChanged'
    BY <1>1 DEF IInv, TxDelta, TxChanged, TxFold, DbFold, Kept, Missed, Carried
  <1>6. AfterTruncate' /\ Snapshot'
    BY <1>2 DEF AfterTruncate, Snapshot
  <1>7. MismatchCovered'
    <2> SUFFICES ASSUME NEW c \in Cells, Mismatch(c)
                 PROVE  c \in Carried \/ Closed(c, clock) \/ GapOf(c)' # {}
      BY <1>1, <1>2 DEF MismatchCovered, Mismatch, ToRebuild, Carried, Closed
    <2>1. c \in Inherited => GapOf(c)' # {}
      BY <1>0 DEF GapOf, Causes
    <2> QED BY <2>1 DEF Inherited, Mismatch
  <1> QED BY <1>3, <1>4, <1>5, <1>6, <1>7 DEF IInv

\* truncateRollups: rows past the cutoff become gaps.
LEMMA RebuildTruncateIInv ==
    ASSUME IInv, TypeOK', RebuildTruncate
    PROVE  IInv'
  <1>0. /\ TypeOK /\ db \in View /\ rb \in Rebuild /\ ~TxOpen /\ applied = {} /\ marked = {} /\ missed = {}
        /\ rb.phase = "fts" /\ rb' = [rb EXCEPT !.phase = "truncated"]
    BY DEF RebuildTruncate, IInv, FlushShape, TxOpen, TypeOK
  <1>1. /\ tx' = db' /\ UNCHANGED <<clock, cur, applied, marked, missed, dirty, staged, idle, owed>>
        /\ gap' = {g \in gap : ~Closed(g[1], rb.now)}
                  \cup ({c \in Cells : db.cell[c] # {} /\ ~Closed(c, rb.now)} \X {"truncated"})
    BY DEF RebuildTruncate, writers
  <1>2. rb'.phase = "truncated" /\ rb'.now = rb.now /\ rb'.at = rb.at
    BY <1>0 DEF Rebuild
  <1>3. db'.at = db.at /\ db'.ver = db.ver /\ \A c \in Cells : db'.cell[c] = {}
    BY <1>0 DEF RebuildTruncate, View
  <1>4. FlushShape' /\ CutoffPast' /\ OnlyClosed'
    BY <1>0, <1>1, <1>2, <1>3 DEF IInv, FlushShape, TxOpen, CutoffPast, OnlyClosed
  <1>5. TxDelta' /\ TxChanged'
    BY <1>0, <1>1, QuietNext
  <1>6. AfterTruncate' /\ Snapshot'
    BY <1>0, <1>1, <1>2, <1>3 DEF AfterTruncate, Snapshot
  <1>7. MismatchCovered'
    <2> SUFFICES ASSUME NEW c \in Cells, Mismatch(c)', ~Closed(c, rb.now)
                 PROVE  c \in Carried' \/ c \in owed' \/ GapOf(c)' # {}
      BY <1>2 DEF MismatchCovered, ToRebuild, Closed
    <2>1. CASE db.cell[c] # {}
      BY <1>1, <2>1 DEF GapOf, Causes
    <2>2. CASE db.cell[c] = {}
      <3>1. Mismatch(c)
        BY <1>3, <2>2 DEF Mismatch
      <3>2. c \in Carried \/ c \in owed \/ GapOf(c) # {}
        BY <1>0, <3>1 DEF IInv, MismatchCovered, ToRebuild
      <3> QED BY <1>1, <3>2 DEF Carried, GapOf
    <2> QED BY <2>1, <2>2
  <1> QED BY <1>4, <1>5, <1>6, <1>7 DEF IInv

\* loadSessionStarts: the snapshot is that of the committed rows.
LEMMA RebuildLoadStartsIInv ==
    ASSUME IInv, TypeOK', RebuildLoadStarts
    PROVE  IInv'
  <1>0. /\ TypeOK /\ db \in View /\ rb \in Rebuild /\ rb.now \in Times /\ rb.phase = "truncated"
        /\ ~TxOpen
    BY DEF RebuildLoadStarts, IInv, TypeOK, Rebuild
  <1>1. UNCHANGED <<clock, db, tx, cur, applied, marked, missed, dirty, staged, idle, owed, gap>>
    BY DEF RebuildLoadStarts, flushVars, writers, ghosts
  <1>2. rb'.phase = "starts" /\ rb'.now = rb.now
    BY <1>0 DEF RebuildLoadStarts, Rebuild
  <1>21. /\ rb'.at = [x \in Sessions |-> IF db.at[x] < rb.now THEN db.at[x] ELSE NoTs]
         /\ rb'.ver = [x \in Sessions |-> db.ver[x]]
    BY <1>0 DEF RebuildLoadStarts, Rebuild
  <1>3. FlushShape' /\ CutoffPast' /\ OnlyClosed'
    <2>1. FlushShape' /\ OnlyClosed'
      BY <1>1 DEF IInv, FlushShape, TxOpen, OnlyClosed, Closed
    <2>2. \A x \in Sessions : rb'.at[x] = NoTs \/ rb'.at[x] < rb'.now
      BY <1>2, <1>21
    <2> QED BY <1>1, <1>2, <2>1, <2>2 DEF IInv, CutoffPast
  <1>4. TxDelta' /\ TxChanged'
    BY <1>1 DEF IInv, TxDelta, TxChanged, TxFold, DbFold, Kept, Missed, Carried
  <1>5. AfterTruncate'
    BY <1>0, <1>1, <1>2 DEF IInv, AfterTruncate, Mismatch, Left, Carried, GapOf
  <1>6. ASSUME NEW c \in Cells PROVE ~SnapDiff(c)'
    <2> SUFFICES ASSUME Closed(c, rb.now)
                 PROVE  SessPart(rb'.at, rb'.ver, c) = SessPart(db.at, db.ver, c)
      BY <1>1, <1>2 DEF SnapDiff, Closed
    <2>1. ASSUME NEW x \in Sessions
          PROVE  /\ rb'.ver[x] = db.ver[x]
                 /\ (rb'.at[x] # NoTs /\ BucketTS(rb'.at[x], c[1]) = c[2])
                        <=> (db.at[x] # NoTs /\ BucketTS(db.at[x], c[1]) = c[2])
      <3>1. db.at[x] \in Times \cup {NoTs}
        BY <1>0, ItemsFacts DEF View
      <3>2. db.at[x] # NoTs /\ BucketTS(db.at[x], c[1]) = c[2] => db.at[x] < rb.now
        BY <1>0, <3>1, ClosedItem
      <3> QED BY <1>21, <3>2
    <2>2. ASSUME NEW e \in SessPart(rb'.at, rb'.ver, c) PROVE e \in SessPart(db.at, db.ver, c)
      BY <2>1, <2>2 DEF SessPart
    <2>3. ASSUME NEW e \in SessPart(db.at, db.ver, c) PROVE e \in SessPart(rb'.at, rb'.ver, c)
      BY <2>1, <2>3 DEF SessPart
    <2> QED BY <2>2, <2>3
  <1>7. Snapshot'
    BY <1>6 DEF Snapshot
  <1>8. MismatchCovered'
    BY <1>0, <1>1, <1>2 DEF IInv, MismatchCovered, Mismatch, ToRebuild, Carried, GapOf, Closed
  <1> QED BY <1>3, <1>4, <1>5, <1>7, <1>8 DEF IInv

-----------------------------------------------------------------------------
(***************************************************************************)
(* The days of the rebuild.                                                *)
(***************************************************************************)
DayOf(c) == IF c[1] = "day" THEN c[2] ELSE BucketTS(c[2], "day")

\* The day of an item is the day of every cell it is folded into.
LEMMA DayOfItem ==
    ASSUME NEW c \in Cells, NEW t \in Times, BucketTS(t, c[1]) = c[2]
    PROVE  BucketTS(t, "day") = DayOf(c)
  <1>1. c[1] \in {"hour", "day"}
    BY DEF Cells, Grans
  <1> QED BY <1>1, HourBucket DEF DayOf

\* closedDays misses no day that has an item before the cutoff.
LEMMA RebuildLoadDaysIInv ==
    ASSUME IInv, TypeOK', RebuildLoadDays
    PROVE  IInv'
  <1>0. /\ TypeOK /\ db \in View /\ rb \in Rebuild /\ rb.now \in Times /\ rb.phase = "starts"
    BY DEF RebuildLoadDays, IInv, TypeOK, Rebuild
  <1>1. UNCHANGED <<clock, db, tx, cur, applied, marked, missed, dirty, staged, idle, owed, gap>>
    BY DEF RebuildLoadDays, flushVars, writers, ghosts
  <1>2. /\ rb'.phase = "days" /\ rb'.now = rb.now /\ rb'.at = rb.at /\ rb'.ver = rb.ver
    BY <1>0 DEF RebuildLoadDays, Rebuild
  <1>21. \A o \in Ops : db.at[o] # NoTs /\ db.at[o] < rb.now => BucketTS(db.at[o], "day") \in rb'.days
    BY <1>0 DEF RebuildLoadDays, Rebuild
  <1>22. \A x \in Sessions : rb.at[x] # NoTs => BucketTS(rb.at[x], "day") \in rb'.days
    BY <1>0 DEF RebuildLoadDays, Rebuild
  <1>3. FlushShape' /\ CutoffPast' /\ OnlyClosed'
    BY <1>1, <1>2 DEF IInv, FlushShape, TxOpen, CutoffPast, OnlyClosed, Closed
  <1>4. TxDelta' /\ TxChanged'
    BY <1>1 DEF IInv, TxDelta, TxChanged, TxFold, DbFold, Kept, Missed, Carried
  <1>5. AfterTruncate'
    BY <1>0, <1>1, <1>2 DEF IInv, AfterTruncate, Mismatch, Left, Carried, GapOf
  <1>6. Snapshot'
    BY <1>0, <1>1, <1>2 DEF IInv, Snapshot, SnapDiff, Left, Carried, GapOf, Closed
  <1>7. MismatchCovered'
    <2> SUFFICES ASSUME NEW c \in Cells, Mismatch(c), ~ToRebuild(c)'
                 PROVE  Left(c)
      BY <1>1 DEF MismatchCovered, Mismatch, Left, Carried, GapOf
    <2>1. CASE ~Closed(c, rb.now)
      BY <1>0, <2>1 DEF IInv, MismatchCovered, ToRebuild, Left
    <2>2. CASE Closed(c, rb.now) /\ db.cell[c] # {}
      BY <1>0, <2>2 DEF IInv, AfterTruncate
    <2>3. CASE Closed(c, rb.now) /\ db.cell[c] = {}
      <3>1. DayOf(c) \notin rb'.days
        BY <1>2, <2>3 DEF ToRebuild, Closed, DayOf
      <3>2. PICK i \in Items : db.at[i] # NoTs /\ BucketTS(db.at[i], c[1]) = c[2]
        BY <2>3 DEF Mismatch, Fold
      <3>3. db.at[i] \in Times
        BY <1>0, <3>2 DEF View
      <3>4. db.at[i] < rb.now /\ BucketTS(db.at[i], "day") = DayOf(c)
        BY <1>0, <2>3, <3>2, <3>3, ClosedItem, DayOfItem
      <3>5. i \in Sessions
        BY <1>21, <3>1, <3>2, <3>4 DEF Items
      <3>6. <<i, db.ver[i]>> \in SessPart(db.at, db.ver, c)
        BY <3>2, <3>5 DEF SessPart
      <3>7. SessPart(rb.at, rb.ver, c) = {}
        <4> SUFFICES ASSUME NEW y \in Sessions, rb.at[y] # NoTs, BucketTS(rb.at[y], c[1]) = c[2]
                     PROVE  FALSE
          BY DEF SessPart
        <4>1. rb.at[y] \in Times
          BY <1>0 DEF Rebuild
        <4> QED BY <1>22, <3>1, <4>1, DayOfItem
      <3>8. SnapDiff(c)
        BY <2>3, <3>6, <3>7 DEF SnapDiff
      <3> QED BY <1>0, <3>8 DEF IInv, Snapshot
    <2> QED BY <2>1, <2>2, <2>3
  <1> QED BY <1>3, <1>4, <1>5, <1>6, <1>7 DEF IInv

\* A cell that flushDay fills is closed at the rebuild's cutoff.
LEMMA DayCellClosed ==
    ASSUME TypeOK, CutoffPast, NEW c \in Cells, c[1] = "hour", Fold(DayAt, DayVer, c) # {}
    PROVE  Closed(c, rb.now)
  <1>0. db \in View /\ rb \in Rebuild /\ rb.now \in Times
    BY DEF TypeOK, Rebuild
  <1>1. PICK i \in Items : DayAt[i] # NoTs /\ BucketTS(DayAt[i], c[1]) = c[2]
    BY DEF Fold
  <1>2. DayAt[i] \in Times /\ DayAt[i] < rb.now
    <2>1. CASE i \in Sessions
      BY <1>0, <1>1, <2>1 DEF DayAt, Rebuild, CutoffPast
    <2>2. CASE i \notin Sessions
      BY <1>0, <1>1, <2>2 DEF DayAt, View
    <2> QED BY <2>1, <2>2
  <1>3. c[2] = DayAt[i]
    BY <1>1, <1>2, HourBucket
  <1> QED BY <1>0, <1>2, <1>3, HourBucket DEF Closed

\* flushDay leaves wrong only the cells whose sessions changed since the load.
LEMMA RebuildDayIInv ==
    ASSUME IInv, TypeOK', NEW d \in Buckets, RebuildDay(d)
    PROVE  IInv'
  <1> DEFINE mine == {c \in Cells : \/ c = <<"day", d>> /\ Closed(c, rb.now)
                                    \/ c[1] = "hour" /\ BucketTS(c[2], "day") = d}
             new(c) == Fold(DayAt, DayVer, c)
             written(c) == c \in mine /\ new(c) # {}
  <1>0. /\ TypeOK /\ db \in View /\ rb \in Rebuild /\ rb.now \in Times /\ clock \in Times
        /\ rb.now <= clock
        /\ rb.phase = "days" /\ ~TxOpen /\ applied = {} /\ marked = {} /\ missed = {}
    <2>1. TypeOK /\ rb.now <= clock /\ rb.phase = "days" /\ ~TxOpen
      BY DEF RebuildDay, IInv, CutoffPast
    <2>2. applied = {} /\ marked = {} /\ missed = {}
      BY <2>1 DEF IInv, FlushShape, TxOpen, TypeOK
    <2> QED BY <2>1, <2>2 DEF TypeOK, Rebuild
  <1>1. tx' = db' /\ UNCHANGED <<clock, cur, applied, marked, missed, dirty, staged, idle, owed, gap>>
    BY DEF RebuildDay, writers, ghosts
  <1>2. /\ rb'.phase = "days" /\ rb'.now = rb.now /\ rb'.at = rb.at /\ rb'.ver = rb.ver
        /\ rb'.days = rb.days \ {d}
    BY <1>0 DEF RebuildDay, Rebuild
  <1>3. /\ db'.at = db.at /\ db'.ver = db.ver
        /\ \A c \in Cells : db'.cell[c] = IF written(c) THEN new(c) ELSE db.cell[c]
    BY <1>0 DEF RebuildDay, View
  <1>4. ASSUME NEW c \in Cells, written(c) PROVE Closed(c, rb.now)
    BY <1>0, <1>4, DayCellClosed DEF IInv
  <1>5. \A c : Left(c)' <=> Left(c)
    BY <1>1 DEF Left, Carried, GapOf
  <1>6. \A c : SnapDiff(c)' <=> SnapDiff(c)
    BY <1>2, <1>3 DEF SnapDiff, Closed
  <1>7. FlushShape' /\ CutoffPast' /\ OnlyClosed'
    <2>1. FlushShape' /\ CutoffPast'
      BY <1>0, <1>1, <1>2 DEF IInv, FlushShape, TxOpen, CutoffPast
    <2>2. ASSUME NEW c \in Cells, db'.cell[c] # {} PROVE Closed(c, clock)
      <3>1. CASE written(c)
        BY <1>0, <1>4, <3>1, ClosedMonotone
      <3>2. CASE ~written(c)
        BY <1>3, <2>2, <3>2 DEF IInv, OnlyClosed
      <3> QED BY <3>1, <3>2
    <2> QED BY <1>1, <2>1, <2>2 DEF IInv, OnlyClosed, Closed
  <1>8. TxDelta' /\ TxChanged'
    BY <1>0, <1>1, QuietNext
  <1>9. ASSUME NEW c \in Cells, written(c), Mismatch(c)' PROVE Left(c)
    <2>1. new(c) # DbFold(c)
      BY <1>3, <1>9 DEF Mismatch, DbFold
    <2>2. SnapDiff(c)
      BY <1>0, <1>4, <1>9, <2>1, DayFoldSame DEF SnapDiff
    <2> QED BY <1>0, <2>2 DEF IInv, Snapshot
  <1>10. ASSUME NEW c \in Cells, ~written(c), Mismatch(c)' PROVE Mismatch(c)
    BY <1>3, <1>10 DEF Mismatch
  <1>11. AfterTruncate'
    <2>1. ASSUME NEW c \in Cells, db'.cell[c] # {}, Mismatch(c)' PROVE Left(c)
      <3>1. CASE written(c)
        BY <1>9, <2>1, <3>1
      <3>2. CASE ~written(c)
        <4>1. Mismatch(c) /\ db.cell[c] # {}
          BY <1>3, <1>10, <2>1, <3>2
        <4> QED BY <1>0, <4>1 DEF IInv, AfterTruncate
      <3> QED BY <3>1, <3>2
    <2> QED BY <1>0, <1>1, <1>5, <2>1 DEF AfterTruncate
  <1>12. Snapshot'
    BY <1>0, <1>1, <1>5, <1>6 DEF IInv, Snapshot
  <1>13. MismatchCovered'
    <2> SUFFICES ASSUME NEW c \in Cells, Mismatch(c)', ~ToRebuild(c)'
                 PROVE  Left(c)
      BY <1>5 DEF MismatchCovered, Left
    <2>1. CASE written(c)
      BY <1>9, <2>1
    <2>2. CASE ~written(c) /\ ~ToRebuild(c)
      BY <1>10, <2>2 DEF IInv, MismatchCovered, Left
    <2>3. CASE ~written(c) /\ ToRebuild(c)
      <3>1. Closed(c, rb.now) /\ DayOf(c) = d
        BY <1>0, <1>2, <2>3 DEF ToRebuild, DayOf, Closed
      <3>2. c \in mine
        BY <3>1 DEF DayOf, Cells, Grans
      <3>3. new(c) = {}
        BY <2>3, <3>2
      <3>4. Mismatch(c)
        BY <1>10, <2>3
      <3>5. CASE db.cell[c] # {}
        BY <1>0, <3>4, <3>5 DEF IInv, AfterTruncate
      <3>6. CASE db.cell[c] = {}
        <4>1. new(c) # DbFold(c)
          BY <3>3, <3>4, <3>6 DEF Mismatch, DbFold
        <4>2. SnapDiff(c)
          BY <1>0, <3>1, <4>1, DayFoldSame DEF SnapDiff
        <4> QED BY <1>0, <4>2 DEF IInv, Snapshot
      <3> QED BY <3>5, <3>6
    <2> QED BY <2>1, <2>2, <2>3
  <1> QED BY <1>7, <1>8, <1>11, <1>12, <1>13 DEF IInv

\* The rebuild ends with no day left.
LEMMA RebuildDoneIInv ==
    ASSUME IInv, TypeOK', RebuildDone
    PROVE  IInv'
  <1>0. TypeOK /\ clock \in Times /\ rb.phase = "days" /\ rb.days = {}
    BY DEF RebuildDone, IInv, TypeOK
  <1>1. UNCHANGED <<clock, db, tx, cur, applied, marked, missed, dirty, staged, idle, owed, gap>>
    BY DEF RebuildDone, flushVars, writers, ghosts
  <1>2. /\ rb'.phase = "done" /\ rb'.now = 0 /\ rb'.at = [x \in Sessions |-> NoTs]
    BY DEF RebuildDone, NoRebuild
  <1>3. FlushShape' /\ CutoffPast' /\ OnlyClosed'
    BY <1>0, <1>1, <1>2 DEF IInv, FlushShape, TxOpen, CutoffPast, OnlyClosed, Closed, Times
  <1>4. TxDelta' /\ TxChanged'
    BY <1>1 DEF IInv, TxDelta, TxChanged, TxFold, DbFold, Kept, Missed, Carried
  <1>5. AfterTruncate' /\ Snapshot'
    BY <1>2 DEF AfterTruncate, Snapshot
  <1>6. MismatchCovered'
    BY <1>0, <1>1 DEF IInv, MismatchCovered, Mismatch, ToRebuild, Carried, GapOf
  <1> QED BY <1>3, <1>4, <1>5, <1>6 DEF IInv

\* A failed rebuild leaves the closed cells to the repairs it marks.
LEMMA RebuildFailIInv ==
    ASSUME IInv, TypeOK', RebuildFail
    PROVE  IInv'
  <1> DEFINE left == {c \in Cells : Closed(c, rb.now)}
             kept == {c \in left : Fold(db.at, db.ver, c) = {} /\ db.cell[c] # {}}
  <1>0. TypeOK /\ clock \in Times /\ Rebuilding
    BY DEF RebuildFail, IInv, TypeOK
  <1>1. /\ UNCHANGED <<clock, db, tx, cur, applied, marked, missed, dirty, staged, idle>>
        /\ owed' = owed \cup (left \ kept)
        /\ gap' = gap \cup (kept \X {"kept"})
    BY DEF RebuildFail, flushVars, writers
  <1>2. /\ rb'.phase = "failed" /\ rb'.now = 0 /\ rb'.at = [x \in Sessions |-> NoTs]
    BY DEF RebuildFail, NoRebuild
  <1>3. FlushShape' /\ CutoffPast' /\ OnlyClosed'
    BY <1>0, <1>1, <1>2 DEF IInv, FlushShape, TxOpen, CutoffPast, OnlyClosed, Closed, Times
  <1>4. TxDelta' /\ TxChanged'
    BY <1>1 DEF IInv, TxDelta, TxChanged, TxFold, DbFold, Kept, Missed, Carried
  <1>5. AfterTruncate' /\ Snapshot'
    BY <1>2 DEF AfterTruncate, Snapshot
  <1>6. MismatchCovered'
    <2> SUFFICES ASSUME NEW c \in Cells, Mismatch(c)
                 PROVE  c \in Carried \/ c \in owed' \/ GapOf(c)' # {}
      BY <1>1 DEF MismatchCovered, Mismatch, Carried
    <2>1. CASE c \in kept
      BY <1>1, <2>1 DEF GapOf, Causes
    <2>2. CASE c \in left \ kept
      BY <1>1, <2>2
    <2>3. CASE c \notin left
      <3>1. ~ToRebuild(c)
        BY <1>0, <2>3 DEF ToRebuild, Rebuilding
      <3> QED BY <1>1, <3>1 DEF IInv, MismatchCovered, GapOf
    <2> QED BY <2>1, <2>2, <2>3
  <1> QED BY <1>3, <1>4, <1>5, <1>6 DEF IInv

\* EndScan and a stuttering step leave alone everything IInv reads.
LEMMA QuietIInv ==
    ASSUME IInv, TypeOK',
           UNCHANGED <<clock, db, tx, cur, applied, marked, missed, dirty, staged, idle, rb, owed, gap>>
    PROVE  IInv'
  <1>1. FlushShape' /\ CutoffPast' /\ OnlyClosed'
    BY DEF IInv, FlushShape, TxOpen, CutoffPast, OnlyClosed, Closed
  <1>2. TxDelta' /\ TxChanged'
    BY DEF IInv, TxDelta, TxChanged, TxFold, DbFold, Kept, Missed, Carried
  <1>3. AfterTruncate'
    BY DEF IInv, AfterTruncate, Mismatch, Left, Carried, GapOf
  <1>4. Snapshot'
    BY DEF IInv, Snapshot, SnapDiff, Left, Carried, GapOf
  <1>5. MismatchCovered'
    BY DEF IInv, MismatchCovered, Mismatch, ToRebuild, Carried, GapOf
  <1> QED BY <1>1, <1>2, <1>3, <1>4, <1>5 DEF IInv

-----------------------------------------------------------------------------
\* Every step keeps the inductive invariant.
LEMMA NextIInv == IInv /\ [Next]_vars => IInv'
  <1> SUFFICES ASSUME IInv, [Next]_vars PROVE IInv'
    OBVIOUS
  <1>0. TypeOK'
    BY NextType DEF IInv
  <1>1. ASSUME NEW s \in Sources, NEW x \in Sessions, NEW t \in 0 .. clock,
               \/ \E fill \in BOOLEAN : ApplySessionStarted(s, x, t, fill)
               \/ ApplySessionUpdated(s, x, t)
               \/ ApplyOther(s, x, t)
        PROVE  IInv'
    BY <1>0, <1>1, ApplySessionStartedIInv, ApplySessionUpdatedIInv, ApplyOtherIInv
  <1>2. ASSUME NEW s \in Sources, NEW o \in Ops,
               \/ \E t \in 0 .. clock, change \in BOOLEAN : ApplyOpStarted(s, o, t, change)
               \/ ApplyOpFinalized(s, o)
        PROVE  IInv'
    BY <1>0, <1>2, ApplyOpStartedIInv, ApplyOpFinalizedIInv
  <1>3. ASSUME NEW s \in Sources,
               FinishSource(s) \/ IdleCheck(s) \/ IdleRefresh(s) \/ IdleFail(s)
        PROVE  IInv'
    BY <1>0, <1>3, FinishSourceIInv, IdleCheckIInv, IdleRefreshIInv, IdleFailIInv
  <1>4. ASSUME NEW s \in Sources, EndScan(s) PROVE IInv'
    BY <1>0, <1>4, QuietIInv DEF EndScan, flushVars, writers, ghosts
  <1>5. CASE Tick \/ Commit \/ Rollback \/ Restart
    BY <1>0, <1>5, TickIInv, CommitIInv, RollbackIInv, RestartIInv
  <1>6. CASE \/ RebuildStart \/ RebuildTruncate \/ RebuildLoadStarts \/ RebuildLoadDays
             \/ (\E d \in Buckets : RebuildDay(d)) \/ RebuildDone \/ RebuildFail
    BY <1>0, <1>6, RebuildStartIInv, RebuildTruncateIInv, RebuildLoadStartsIInv,
       RebuildLoadDaysIInv, RebuildDayIInv, RebuildDoneIInv, RebuildFailIInv
  <1>7. CASE UNCHANGED vars
    BY <1>0, <1>7, QuietIInv DEF vars
  <1> QED BY <1>1, <1>2, <1>3, <1>4, <1>5, <1>6, <1>7 DEF Next

\* The inductive invariant holds in every state, with whatever number of
\* sources, sessions, ops, hours and restarts.
THEOREM Invariance == Spec => []IInv
  BY InitIInv, NextIInv, PTL DEF Spec

\* Every rollup row that differs from a fold of the committed rows is carried
\* by a writer, still to be reached by the rebuild, left to a source-scoped
\* repair, or one of the five named gaps: the writers' dirty sets, promotion
\* after the commit and the rebuild lose no bucket silently, whatever the
\* interleaving of flushes, rollbacks, idle refreshes, rebuild steps, ticks
\* and restarts.
THEOREM MismatchAlwaysCovered == Spec => []MismatchCovered
  <1>1. IInv => MismatchCovered
    BY DEF IInv
  <1> QED BY <1>1, Invariance, PTL

\* No committed row ever belongs to the open hour or the open day: the query
\* layer's live fold of the open buckets never counts an op twice.
THEOREM OpenBucketsNeverMaterialized == Spec => []OpenNeverMaterialized
  <1>1. IInv => OpenNeverMaterialized
    BY DEF IInv, OnlyClosed, OpenNeverMaterialized
  <1> QED BY <1>1, Invariance, PTL
=============================================================================
