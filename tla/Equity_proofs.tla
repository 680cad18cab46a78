--------------------------- MODULE Equity_proofs ---------------------------
(***************************************************************************)
(* The figures of an equity curve mean what Equity says they mean for      *)
(* every book, every opening balance and every length of day: the passes   *)
(* find over all pairs of points what they look at one point at a time.    *)
(***************************************************************************)
EXTENDS Equity, TLAPS

Point == [balance: Int, closeAt: Nat]
Dates == Nat \cup {Undated}

TypeOK ==
  /\ curve \in Seq(Point)
  /\ dd \in [peak: Int, peakAt: Dates, worst: Int, of: Int, from: Dates, to: Dates]
  /\ ru \in [trough: Int, troughAt: Dates, best: Int, of: Int, from: Dates, to: Dates]
  /\ uw \in [peak: Int, peakAt: Dates, dipped: BOOLEAN, longestDays: Int,
             from: Dates, recoveredAt: Dates]

(***************************************************************************)
(* What the invariants rest on.  Closing a trade adds a point and leaves   *)
(* the others as they were.                                                *)
(***************************************************************************)
LEMMA PointsTyped ==
  ASSUME TypeOK
  PROVE  /\ N \in Nat /\ Now \in Nat
         /\ \A i \in 0 .. N: Balance(i) \in Int /\ At(i) \in Dates
         /\ \A i \in 1 .. N: At(i) \in Nat
<1>1. N \in Nat
  BY DEF TypeOK, N
<1>2. ASSUME NEW i \in 1 .. N PROVE Balance(i) \in Int /\ At(i) \in Nat
  <2>1. curve[i] \in Point
    BY <1>2, <1>1 DEF TypeOK, N
  <2> QED BY <2>1, <1>2 DEF Point, Balance, At
<1>3. Balance(0) \in Int /\ At(0) \in Dates
  BY BalanceIsANumber DEF Balance, At, Dates
<1> QED BY <1>1, <1>2, <1>3 DEF Now, Dates

LEMMA CloseAppends ==
  ASSUME TypeOK, NEW profit \in Profits, NEW gap \in Gaps, Close(profit, gap)
  PROVE  /\ N' = N + 1
         /\ \A i \in 0 .. N: Balance(i)' = Balance(i) /\ At(i)' = At(i)
         /\ \A i \in {N + 1}: /\ Balance(i)' = Balance(N) + profit
                             /\ At(i)' = Now + gap
         /\ Balance(N) + profit \in Int /\ Now + gap \in Nat
         /\ curve' \in Seq(Point)
         /\ LET p == [balance |-> Balance(N) + profit, closeAt |-> Now + gap]
            IN dd' = DrawdownStep(dd, p) /\ ru' = RunUpStep(ru, p) /\ uw' = UnderwaterStep(uw, p)
<1> DEFINE p == [balance |-> Balance(N) + profit, closeAt |-> Now + gap]
<1>1. p \in Point /\ N \in Nat
  BY PointsTyped, ProfitsAreNumbers, GapsAreNumbers DEF Point
<1>2. curve' = Append(curve, p)
  BY DEF Close
<1> HIDE DEF p
<1>3. /\ Len(curve') = N + 1 /\ curve' \in Seq(Point) /\ curve'[N + 1] = p
      /\ \A i \in 1 .. N: curve'[i] = curve[i]
  BY <1>1, <1>2 DEF TypeOK, N
<1>4. N' = N + 1
  BY <1>3 DEF N
<1>5. ASSUME NEW i \in 0 .. N PROVE Balance(i)' = Balance(i) /\ At(i)' = At(i)
  BY <1>3, <1>1 DEF Balance, At
<1>6. ASSUME NEW i \in {N + 1} PROVE Balance(i)' = p.balance /\ At(i)' = p.closeAt
  BY <1>3, <1>1 DEF Balance, At
<1>7. p = [balance |-> Balance(N) + profit, closeAt |-> Now + gap]
  BY DEF p
<1>8. /\ dd' = DrawdownStep(dd, p) /\ ru' = RunUpStep(ru, p)
      /\ uw' = UnderwaterStep(uw, p)
  BY DEF Close, p
<1>9. p.balance = Balance(N) + profit /\ p.closeAt = Now + gap
  BY DEF p
<1>10. p.balance \in Int /\ p.closeAt \in Nat
  BY <1>1 DEF Point
<1> QED BY <1>3, <1>4, <1>5, <1>6, <1>7, <1>8, <1>9, <1>10

-----------------------------------------------------------------------------
\* Every variable keeps its type.
THEOREM TypeCorrect == Spec => []TypeOK
<1>1. Init => TypeOK
  BY BalanceIsANumber DEF Init, TypeOK, Dates, Undated, Point
<1>2. TypeOK /\ [Next]_vars => TypeOK'
  <2> SUFFICES ASSUME TypeOK, [Next]_vars PROVE TypeOK'
    OBVIOUS
  <2>1. ASSUME NEW profit \in Profits, NEW gap \in Gaps, Close(profit, gap)
        PROVE  TypeOK'
    <3> DEFINE b == Balance(N) + profit
               t == Now + gap
    <3>1. /\ b \in Int /\ t \in Nat /\ curve' \in Seq(Point)
          /\ dd' = DrawdownStep(dd, [balance |-> b, closeAt |-> t])
          /\ ru' = RunUpStep(ru, [balance |-> b, closeAt |-> t])
          /\ uw' = UnderwaterStep(uw, [balance |-> b, closeAt |-> t])
      BY <2>1, CloseAppends
    <3> HIDE DEF b, t
    <3>2. dd' \in [peak: Int, peakAt: Dates, worst: Int, of: Int, from: Dates, to: Dates]
      BY <3>1 DEF DrawdownStep, TypeOK, Dates
    <3>3. ru' \in [trough: Int, troughAt: Dates, best: Int, of: Int, from: Dates, to: Dates]
      BY <3>1 DEF RunUpStep, TypeOK, Dates
    <3>4. uw' \in [peak: Int, peakAt: Dates, dipped: BOOLEAN, longestDays: Int,
                   from: Dates, recoveredAt: Dates]
      <4> DEFINE u == uw
      <4>1. /\ u.peak \in Int /\ u.peakAt \in Dates /\ u.longestDays \in Int
            /\ u.from \in Dates /\ u.recoveredAt \in Dates
        BY DEF TypeOK
      <4>2. u.peakAt # Undated => Days(u.peakAt, t) \in Int
        BY <4>1, <3>1, DayIsALength DEF Days, Dates
      <4> DEFINE below == b < u.peak
                 longer == /\ ~below /\ u.dipped /\ u.peakAt # Undated
                           /\ Days(u.peakAt, t) > u.longestDays
      <4>3. below \in BOOLEAN
        OBVIOUS
      <4>4. uw' = [peak |-> IF below THEN u.peak ELSE b,
                   peakAt |-> IF below THEN u.peakAt ELSE t,
                   dipped |-> below,
                   longestDays |-> IF longer THEN Days(u.peakAt, t) ELSE u.longestDays,
                   from |-> IF longer THEN u.peakAt ELSE u.from,
                   recoveredAt |-> IF longer THEN t ELSE u.recoveredAt]
        BY <3>1 DEF UnderwaterStep
      <4>5. longer => u.peakAt # Undated
        OBVIOUS
      <4>6. t \in Dates
        BY <3>1 DEF Dates
      <4> HIDE DEF below, longer, u
      <4> QED BY <4>1, <4>2, <4>3, <4>4, <4>5, <4>6, <3>1
    <3> QED BY <3>1, <3>2, <3>3, <3>4 DEF TypeOK
  <2>2. CASE UNCHANGED vars
    BY <2>2 DEF vars, TypeOK
  <2> QED BY <2>1, <2>2 DEF Next
<1> QED BY <1>1, <1>2, PTL DEF Spec

-----------------------------------------------------------------------------
(***************************************************************************)
(* The swings.  While the pass runs, peak is the highest balance so far    *)
(* and peakAt the date of a point that had it; so the fall to the next     *)
(* point from the peak is the deepest fall to it from anywhere.            *)
(***************************************************************************)
PeakIsHighest ==
  /\ \A i \in Points: Balance(i) <= dd.peak
  /\ \E i \in Points: Balance(i) = dd.peak /\ At(i) = dd.peakAt

TroughIsLowest ==
  /\ \A i \in Points: Balance(i) >= ru.trough
  /\ \E i \in Points: Balance(i) = ru.trough /\ At(i) = ru.troughAt

FallsWithinWorst ==
  /\ dd.worst >= 0
  /\ \A i, j \in Points: i <= j => Balance(i) - Balance(j) <= dd.worst
  /\ dd.worst > 0 =>
       \E i, j \in Points:
         /\ i < j /\ Balance(i) - Balance(j) = dd.worst
         /\ dd.of = Balance(i) /\ dd.from = At(i) /\ dd.to = At(j)

RisesWithinBest ==
  /\ ru.best >= 0
  /\ \A i, j \in Points: i <= j => Balance(j) - Balance(i) <= ru.best
  /\ ru.best > 0 =>
       \E i, j \in Points:
         /\ i < j /\ Balance(j) - Balance(i) = ru.best
         /\ ru.of = Balance(i) /\ ru.from = At(i) /\ ru.to = At(j)

SwingsInv == PeakIsHighest /\ TroughIsLowest /\ FallsWithinWorst /\ RisesWithinBest

LEMMA DrawdownFollows ==
  ASSUME TypeOK, PeakIsHighest, FallsWithinWorst,
         NEW profit \in Profits, NEW gap \in Gaps, Close(profit, gap)
  PROVE  PeakIsHighest' /\ FallsWithinWorst'
<1> DEFINE b == Balance(N) + profit
           t == Now + gap
           higher == b > dd.peak
           top == IF higher THEN b ELSE dd.peak
           topAt == IF higher THEN t ELSE dd.peakAt
           deeper == top - b > dd.worst
<1>1. /\ N \in Nat /\ N' = N + 1 /\ b \in Int /\ t \in Nat
      /\ \A i \in 0 .. N: /\ Balance(i)' = Balance(i) /\ At(i)' = At(i)
                          /\ Balance(i) \in Int
      /\ \A i \in {N + 1}: Balance(i)' = b /\ At(i)' = t
  BY CloseAppends, PointsTyped
<1>2. /\ dd'.peak = top /\ dd'.peakAt = topAt
      /\ dd'.worst = (IF deeper THEN top - b ELSE dd.worst)
      /\ dd'.of = (IF deeper THEN top ELSE dd.of)
      /\ dd'.from = (IF deeper THEN topAt ELSE dd.from)
      /\ dd'.to = (IF deeper THEN t ELSE dd.to)
  <2>1. dd' = DrawdownStep(dd, [balance |-> b, closeAt |-> t])
    BY CloseAppends
  <2> QED BY <2>1 DEF DrawdownStep
<1>3. dd.peak \in Int /\ dd.worst \in Int
  BY DEF TypeOK
<1>4. Points = 0 .. N /\ Points' = 0 .. N + 1
  BY <1>1 DEF Points
<1> HIDE DEF b, t
<1>5. PeakIsHighest'
  <2>1. \A i \in Points': Balance(i)' <= dd'.peak
    BY <1>1, <1>2, <1>3, <1>4 DEF PeakIsHighest
  <2>2. \E i \in Points': Balance(i)' = dd'.peak /\ At(i)' = dd'.peakAt
    <3>1. CASE higher
      BY <3>1, <1>1, <1>2, <1>4
    <3>2. CASE ~higher
      <4>1. PICK i \in Points: Balance(i) = dd.peak /\ At(i) = dd.peakAt
        BY DEF PeakIsHighest
      <4> QED BY <4>1, <3>2, <1>1, <1>2, <1>4
    <3> QED BY <3>1, <3>2
  <2> QED BY <2>1, <2>2 DEF PeakIsHighest
<1>6. FallsWithinWorst'
  <2>1. dd'.worst \in Int /\ dd'.worst >= 0 /\ dd'.worst >= dd.worst /\ dd'.worst >= top - b
    BY <1>1, <1>2, <1>3 DEF FallsWithinWorst
  <2>2. ASSUME NEW i \in Points', NEW j \in Points', i <= j
        PROVE  Balance(i)' - Balance(j)' <= dd'.worst
    <3>1. CASE j \in Points
      <4>1. i \in Points /\ Balance(i) - Balance(j) <= dd.worst
        BY <3>1, <2>2, <1>1, <1>4 DEF FallsWithinWorst
      <4> QED BY <4>1, <3>1, <2>1, <1>1, <1>3, <1>4
    <3>2. CASE j = N + 1
      <4>1. Balance(i)' <= top
        BY <1>1, <1>2, <1>3, <1>4, <1>5 DEF PeakIsHighest
      <4>2. Balance(i)' \in Int
        BY <1>1, <1>4, <2>2
      <4> QED BY <4>1, <4>2, <3>2, <2>1, <1>1, <1>2, <1>3
    <3> QED BY <3>1, <3>2, <1>1, <1>4
  <2>3. ASSUME dd'.worst > 0
        PROVE  \E i, j \in Points':
                 /\ i < j /\ Balance(i)' - Balance(j)' = dd'.worst
                 /\ dd'.of = Balance(i)' /\ dd'.from = At(i)' /\ dd'.to = At(j)'
    <3>1. CASE deeper
      <4>1. ~higher
        BY <3>1, <1>1, <1>3 DEF FallsWithinWorst
      <4>2. PICK i \in Points: Balance(i) = dd.peak /\ At(i) = dd.peakAt
        BY DEF PeakIsHighest
      <4>3. /\ i \in Points' /\ N + 1 \in Points' /\ i < N + 1
            /\ Balance(i)' = top /\ At(i)' = topAt
        BY <4>1, <4>2, <1>1, <1>4
      <4>4. \A j \in {N + 1}: /\ Balance(i)' - Balance(j)' = dd'.worst
                             /\ dd'.to = At(j)'
        BY <4>3, <3>1, <1>1, <1>2
      <4>5. dd'.of = Balance(i)' /\ dd'.from = At(i)'
        BY <4>3, <3>1, <1>2
      <4> HIDE DEF top, topAt, deeper, higher
      <4> QED BY <4>3, <4>4, <4>5
    <3>2. CASE ~deeper
      <4>1. PICK i \in Points, j \in Points:
              /\ i < j /\ Balance(i) - Balance(j) = dd.worst
              /\ dd.of = Balance(i) /\ dd.from = At(i) /\ dd.to = At(j)
        BY <2>3, <3>2, <1>2 DEF FallsWithinWorst
      <4> QED BY <4>1, <3>2, <1>1, <1>2, <1>4
    <3> QED BY <3>1, <3>2
  <2> QED BY <2>1, <2>2, <2>3 DEF FallsWithinWorst
<1> QED BY <1>5, <1>6
LEMMA RunUpFollows ==
  ASSUME TypeOK, TroughIsLowest, RisesWithinBest,
         NEW profit \in Profits, NEW gap \in Gaps, Close(profit, gap)
  PROVE  TroughIsLowest' /\ RisesWithinBest'
<1> DEFINE b == Balance(N) + profit
           t == Now + gap
           lower == b < ru.trough
           low == IF lower THEN b ELSE ru.trough
           lowAt == IF lower THEN t ELSE ru.troughAt
           steeper == b - low > ru.best
<1>1. /\ N \in Nat /\ N' = N + 1 /\ b \in Int /\ t \in Nat
      /\ \A i \in 0 .. N: /\ Balance(i)' = Balance(i) /\ At(i)' = At(i)
                          /\ Balance(i) \in Int
      /\ \A i \in {N + 1}: Balance(i)' = b /\ At(i)' = t
  BY CloseAppends, PointsTyped
<1>2. /\ ru'.trough = low /\ ru'.troughAt = lowAt
      /\ ru'.best = (IF steeper THEN b - low ELSE ru.best)
      /\ ru'.of = (IF steeper THEN low ELSE ru.of)
      /\ ru'.from = (IF steeper THEN lowAt ELSE ru.from)
      /\ ru'.to = (IF steeper THEN t ELSE ru.to)
  <2>1. ru' = RunUpStep(ru, [balance |-> b, closeAt |-> t])
    BY CloseAppends
  <2> QED BY <2>1 DEF RunUpStep
<1>3. ru.trough \in Int /\ ru.best \in Int
  BY DEF TypeOK
<1>4. Points = 0 .. N /\ Points' = 0 .. N + 1
  BY <1>1 DEF Points
<1> HIDE DEF b, t
<1>5. TroughIsLowest'
  <2>1. \A i \in Points': Balance(i)' >= ru'.trough
    BY <1>1, <1>2, <1>3, <1>4 DEF TroughIsLowest
  <2>2. \E i \in Points': Balance(i)' = ru'.trough /\ At(i)' = ru'.troughAt
    <3>1. CASE lower
      BY <3>1, <1>1, <1>2, <1>4
    <3>2. CASE ~lower
      <4>1. PICK i \in Points: Balance(i) = ru.trough /\ At(i) = ru.troughAt
        BY DEF TroughIsLowest
      <4> QED BY <4>1, <3>2, <1>1, <1>2, <1>4
    <3> QED BY <3>1, <3>2
  <2> QED BY <2>1, <2>2 DEF TroughIsLowest
<1>6. RisesWithinBest'
  <2>1. ru'.best \in Int /\ ru'.best >= 0 /\ ru'.best >= ru.best /\ ru'.best >= b - low
    BY <1>1, <1>2, <1>3 DEF RisesWithinBest
  <2>2. ASSUME NEW i \in Points', NEW j \in Points', i <= j
        PROVE  Balance(j)' - Balance(i)' <= ru'.best
    <3>1. CASE j \in Points
      <4>1. i \in Points /\ Balance(j) - Balance(i) <= ru.best
        BY <3>1, <2>2, <1>1, <1>4 DEF RisesWithinBest
      <4> QED BY <4>1, <3>1, <2>1, <1>1, <1>3, <1>4
    <3>2. CASE j = N + 1
      <4>1. Balance(i)' >= low
        BY <1>1, <1>2, <1>3, <1>4, <1>5 DEF TroughIsLowest
      <4>2. Balance(i)' \in Int
        BY <1>1, <1>4, <2>2
      <4> QED BY <4>1, <4>2, <3>2, <2>1, <1>1, <1>2, <1>3
    <3> QED BY <3>1, <3>2, <1>1, <1>4
  <2>3. ASSUME ru'.best > 0
        PROVE  \E i, j \in Points':
                 /\ i < j /\ Balance(j)' - Balance(i)' = ru'.best
                 /\ ru'.of = Balance(i)' /\ ru'.from = At(i)' /\ ru'.to = At(j)'
    <3>1. CASE steeper
      <4>1. ~lower
        BY <3>1, <1>1, <1>3 DEF RisesWithinBest
      <4>2. PICK i \in Points: Balance(i) = ru.trough /\ At(i) = ru.troughAt
        BY DEF TroughIsLowest
      <4>3. /\ i \in Points' /\ N + 1 \in Points' /\ i < N + 1
            /\ Balance(i)' = low /\ At(i)' = lowAt
        BY <4>1, <4>2, <1>1, <1>4
      <4>4. \A j \in {N + 1}: /\ Balance(j)' - Balance(i)' = ru'.best
                             /\ ru'.to = At(j)'
        BY <4>3, <3>1, <1>1, <1>2
      <4>5. ru'.of = Balance(i)' /\ ru'.from = At(i)'
        BY <4>3, <3>1, <1>2
      <4> HIDE DEF low, lowAt, steeper, lower
      <4> QED BY <4>3, <4>4, <4>5
    <3>2. CASE ~steeper
      <4>1. PICK i \in Points, j \in Points:
              /\ i < j /\ Balance(j) - Balance(i) = ru.best
              /\ ru.of = Balance(i) /\ ru.from = At(i) /\ ru.to = At(j)
        BY <2>3, <3>2, <1>2 DEF RisesWithinBest
      <4> QED BY <4>1, <3>2, <1>1, <1>2, <1>4
    <3> QED BY <3>1, <3>2
  <2> QED BY <2>1, <2>2, <2>3 DEF RisesWithinBest
<1> QED BY <1>5, <1>6
-----------------------------------------------------------------------------
\* maxDrawdown and maxRunUp return the widest swing between any two points of
\* the curve, and points that swung so far.
THEOREM SwingsHold == Spec => []SwingsAreTheWidest
<1>1. Init => SwingsInv
  <2> SUFFICES ASSUME Init PROVE SwingsInv
    OBVIOUS
  <2>1. N = 0 /\ Points = {0} /\ Balance(0) = StartBalance /\ At(0) = Undated
    BY DEF Init, N, Points, Balance, At
  <2>2. /\ dd.peak = StartBalance /\ dd.peakAt = Undated /\ dd.worst = 0
        /\ ru.trough = StartBalance /\ ru.troughAt = Undated /\ ru.best = 0
    BY DEF Init
  <2> QED
    BY <2>1, <2>2, BalanceIsANumber
    DEF SwingsInv, PeakIsHighest, TroughIsLowest, FallsWithinWorst, RisesWithinBest
<1>2. TypeOK /\ SwingsInv /\ [Next]_vars => SwingsInv'
  <2> SUFFICES ASSUME TypeOK, SwingsInv, [Next]_vars PROVE SwingsInv'
    OBVIOUS
  <2>1. ASSUME NEW profit \in Profits, NEW gap \in Gaps, Close(profit, gap)
        PROVE  SwingsInv'
    BY <2>1, DrawdownFollows, RunUpFollows DEF SwingsInv
  <2>2. CASE UNCHANGED vars
    BY <2>2
    DEF vars, SwingsInv, PeakIsHighest, TroughIsLowest, FallsWithinWorst,
        RisesWithinBest, Points, Balance, At, N
  <2> QED BY <2>1, <2>2 DEF Next
<1>3. SwingsInv => SwingsAreTheWidest
  BY DEF SwingsInv, FallsWithinWorst, RisesWithinBest, SwingsAreTheWidest
<1> QED BY <1>1, <1>2, <1>3, TypeCorrect, PTL DEF Spec

-----------------------------------------------------------------------------
(***************************************************************************)
(* Under water.  peak is always the highest balance, and when it has a     *)
(* date it is the last high, below which the account has been since; so a  *)
(* new point ends the spell below that high, or none.                      *)
(***************************************************************************)
LastHigh(h) ==
  /\ High(h) /\ uw.peak = Balance(h) /\ uw.peakAt = At(h)
  /\ \A k \in h + 1 .. N: Balance(k) < Balance(h)
  /\ uw.dipped <=> h < N

NeverHigh ==
  /\ uw.peak = StartBalance /\ uw.peakAt = Undated
  /\ \A k \in 1 .. N: Balance(k) < StartBalance

SpellsWithinLongest ==
  \A i, j \in 1 .. N: Recovered(i, j) => Days(At(i), At(j)) <= uw.longestDays

LongestIsASpell ==
  /\ uw.longestDays >= 0
  /\ uw.longestDays > 0 =>
       \E i, j \in 1 .. N:
         /\ Recovered(i, j) /\ Days(At(i), At(j)) = uw.longestDays
         /\ uw.from = At(i) /\ uw.recoveredAt = At(j)

UnderwaterInv ==
  /\ NeverHigh \/ \E h \in 1 .. N: LastHigh(h)
  /\ SpellsWithinLongest
  /\ LongestIsASpell

LEMMA DaysTyped ==
  ASSUME TypeOK
  PROVE  \A i, j \in 1 .. N: Days(At(i), At(j)) \in Int
BY PointsTyped, DayIsALength DEF Days

\* The account is below one dated high at most.
LEMMA OneHighToReturnTo ==
  ASSUME TypeOK, NeverHigh \/ \E h \in 1 .. N: LastHigh(h),
         NEW i \in 1 .. N, High(i), \A k \in i + 1 .. N: Balance(k) < Balance(i)
  PROVE  LastHigh(i)
<1>1. N \in Nat /\ \A k \in 0 .. N: Balance(k) \in Int
  BY PointsTyped
<1>2. ~NeverHigh
  <2>1. Balance(0) <= Balance(i) /\ Balance(0) = StartBalance
    BY <1>1 DEF High, Balance
  <2> QED BY <2>1, <1>1 DEF NeverHigh
<1>3. PICK h \in 1 .. N: LastHigh(h)
  BY <1>2
<1>4. ~(h < i)
  BY <1>1, <1>3 DEF LastHigh, High
<1>5. ~(i < h)
  BY <1>1, <1>3 DEF LastHigh, High
<1>6. i = h
  BY <1>4, <1>5
<1> QED BY <1>3, <1>6

LEMMA UnderwaterFollows ==
  ASSUME TypeOK, UnderwaterInv,
         NEW profit \in Profits, NEW gap \in Gaps, Close(profit, gap)
  PROVE  UnderwaterInv'
<1> DEFINE b == Balance(N) + profit
           t == Now + gap
           below == b < uw.peak
           spell == Days(uw.peakAt, t)
           longer == /\ ~below /\ uw.dipped /\ uw.peakAt # Undated
                     /\ spell > uw.longestDays
<1>1. /\ N \in Nat /\ N' = N + 1 /\ b \in Int /\ t \in Nat
      /\ \A i \in 0 .. N: /\ Balance(i)' = Balance(i) /\ At(i)' = At(i)
                          /\ Balance(i) \in Int
      /\ \A i \in 1 .. N: At(i) \in Nat
      /\ \A i \in {N + 1}: Balance(i)' = b /\ At(i)' = t
  BY CloseAppends, PointsTyped
<1>2. /\ uw'.peak = (IF below THEN uw.peak ELSE b)
      /\ uw'.peakAt = (IF below THEN uw.peakAt ELSE t)
      /\ uw'.dipped <=> below
      /\ uw'.longestDays = (IF longer THEN spell ELSE uw.longestDays)
      /\ uw'.from = (IF longer THEN uw.peakAt ELSE uw.from)
      /\ uw'.recoveredAt = (IF longer THEN t ELSE uw.recoveredAt)
  <2>1. uw' = UnderwaterStep(uw, [balance |-> b, closeAt |-> t])
    BY CloseAppends
  <2> QED BY <2>1 DEF UnderwaterStep
<1>3. uw.peak \in Int /\ uw.longestDays \in Int
  BY DEF TypeOK
<1> HIDE DEF b, t
<1>4. \A i \in 1 .. N: High(i)' <=> High(i)
  BY <1>1 DEF High
<1>5. \A i, j \in 1 .. N: Recovered(i, j)' <=> Recovered(i, j)
  BY <1>1, <1>4 DEF Recovered
<1>6. ~(N + 1 <= N) /\ 1 .. N' = 1 .. N \cup {N + 1} /\ N + 1 \in 1 .. N'
  BY <1>1
<1>7. (NeverHigh \/ \E h \in 1 .. N: LastHigh(h))'
  <2>1. ASSUME ~below PROVE \E h \in 1 .. N': LastHigh(h)'
    <3>1. \A k \in 0 .. N: Balance(k) <= uw.peak
      <4>1. CASE NeverHigh
        BY <4>1, <1>1, <1>3 DEF NeverHigh, Balance
      <4>2. ASSUME NEW h \in 1 .. N, LastHigh(h) PROVE \A k \in 0 .. N: Balance(k) <= uw.peak
        BY <4>2, <1>1, <1>3 DEF LastHigh, High
      <4> QED BY <4>1, <4>2 DEF UnderwaterInv
    <3>2. ASSUME NEW h \in {N + 1} PROVE LastHigh(h)'
      <4>1. High(h)'
        BY <3>1, <3>2, <2>1, <1>1, <1>3, <1>6 DEF High
      <4>2. uw'.peak = Balance(h)' /\ uw'.peakAt = At(h)'
        BY <2>1, <1>1, <1>2
      <4>3. \A k \in h + 1 .. N': Balance(k)' < Balance(h)'
        BY <1>1
      <4>4. uw'.dipped <=> h < N'
        BY <2>1, <1>1, <1>2
      <4> QED BY <4>1, <4>2, <4>3, <4>4 DEF LastHigh
    <3> QED BY <3>2, <1>6
  <2>2. ASSUME below, NeverHigh PROVE NeverHigh'
    BY <2>2, <1>1, <1>2, <1>3 DEF NeverHigh
  <2>3. ASSUME below, NEW h \in 1 .. N, LastHigh(h) PROVE LastHigh(h)'
    <3>1. High(h)'
      BY <2>3, <1>4 DEF LastHigh
    <3>2. uw'.peak = Balance(h)' /\ uw'.peakAt = At(h)'
      BY <2>3, <1>1, <1>2 DEF LastHigh
    <3>3. \A k \in h + 1 .. N': Balance(k)' < Balance(h)'
      BY <2>3, <1>1, <1>3 DEF LastHigh
    <3>4. uw'.dipped <=> h < N'
      BY <2>3, <1>1, <1>2
    <3> QED BY <3>1, <3>2, <3>3, <3>4 DEF LastHigh
  <2>4. CASE ~below
    BY <2>1, <2>4
  <2>5. CASE below /\ NeverHigh
    BY <2>2, <2>5
  <2>6. CASE below /\ \E h \in 1 .. N: LastHigh(h)
    BY <2>3, <2>6, <1>6
  <2> QED BY <2>4, <2>5, <2>6 DEF UnderwaterInv
\* What a new point can end is the spell below the last high.
<1>8. ASSUME NEW i \in 1 .. N', NEW j \in {N + 1}, Recovered(i, j)'
      PROVE  i \in 1 .. N /\ LastHigh(i) /\ i < N /\ ~below
  <2>1. i \in 1 .. N /\ i < N
    BY <1>8, <1>1 DEF Recovered
  <2>2. High(i) /\ \A k \in i + 1 .. N: Balance(k) < Balance(i)
    BY <1>8, <2>1, <1>1, <1>4 DEF Recovered
  <2>3. LastHigh(i)
    BY <2>1, <2>2, OneHighToReturnTo DEF UnderwaterInv
  <2>4. Balance(i) <= b
    BY <1>8, <2>1, <1>1 DEF Recovered
  <2> QED BY <2>1, <2>3, <2>4, <1>1 DEF LastHigh
<1>9. \A i \in 1 .. N: Days(At(i), t) \in Int
  BY <1>1, DayIsALength DEF Days
<1>10. SpellsWithinLongest'
  <2> SUFFICES ASSUME NEW i \in 1 .. N', NEW j \in 1 .. N', Recovered(i, j)'
               PROVE  Days(At(i)', At(j)') <= uw'.longestDays
    BY DEF SpellsWithinLongest
  <2>1. CASE j = N + 1
    <3>1. i \in 1 .. N /\ LastHigh(i) /\ i < N /\ ~below
      BY <1>8, <2>1
    <3>2. uw.peakAt = At(i) /\ uw.dipped /\ uw.peakAt # Undated
      BY <3>1, <1>1 DEF LastHigh, Undated
    <3>3. At(i)' = At(i) /\ At(j)' = t
      BY <3>1, <2>1, <1>1
    <3>4. spell \in Int /\ spell = Days(At(i)', At(j)')
      BY <3>1, <3>2, <3>3, <1>9
    <3>5. spell <= uw'.longestDays
      BY <3>1, <3>2, <3>4, <1>2, <1>3
    <3> QED BY <3>4, <3>5
  <2>2. CASE i \in 1 .. N /\ j \in 1 .. N
    <3>1. Days(At(i), At(j)) <= uw.longestDays
      BY <2>2, <1>5 DEF UnderwaterInv, SpellsWithinLongest
    <3>2. At(i)' = At(i) /\ At(j)' = At(j) /\ Days(At(i), At(j)) \in Int
      BY <2>2, <1>1, DaysTyped
    <3>3. longer => spell \in Int
      BY <1>9, <1>1 DEF UnderwaterInv, NeverHigh, LastHigh
    <3>4. uw.longestDays <= uw'.longestDays /\ uw'.longestDays \in Int
      BY <3>3, <1>2, <1>3
    <3> QED BY <3>1, <3>2, <3>4, <1>3
  <2>3. i < j
    BY <1>1 DEF Recovered
  <2> QED BY <2>1, <2>2, <2>3, <1>1
<1>11. LongestIsASpell'
  <2>1. CASE longer
    <3>1. PICK h \in 1 .. N: LastHigh(h)
      BY <2>1 DEF UnderwaterInv, NeverHigh
    <3>2. h < N /\ uw.peakAt = At(h) /\ Balance(h) <= b
      BY <3>1, <2>1, <1>1 DEF LastHigh
    <3>3. spell \in Int /\ spell > 0 /\ uw'.longestDays = spell
      BY <3>2, <2>1, <1>2, <1>3, <1>9 DEF UnderwaterInv, LongestIsASpell
    <3>4. \A j \in {N + 1}: Recovered(h, j)'
      BY <3>1, <3>2, <1>1, <1>4 DEF LastHigh, Recovered
    <3>5. \A j \in {N + 1}: /\ Days(At(h)', At(j)') = uw'.longestDays
                            /\ uw'.from = At(h)' /\ uw'.recoveredAt = At(j)'
      BY <3>2, <3>3, <2>1, <1>1, <1>2
    <3> QED BY <3>3, <3>4, <3>5, <1>6 DEF LongestIsASpell
  <2>2. CASE ~longer
    <3>1. uw'.longestDays = uw.longestDays /\ uw'.from = uw.from
          /\ uw'.recoveredAt = uw.recoveredAt
      BY <2>2, <1>2
    <3>2. ASSUME uw.longestDays > 0
          PROVE  \E i, j \in 1 .. N':
                   /\ Recovered(i, j)' /\ Days(At(i)', At(j)') = uw'.longestDays
                   /\ uw'.from = At(i)' /\ uw'.recoveredAt = At(j)'
      <4>1. PICK i \in 1 .. N, j \in 1 .. N:
              /\ Recovered(i, j) /\ Days(At(i), At(j)) = uw.longestDays
              /\ uw.from = At(i) /\ uw.recoveredAt = At(j)
        BY <3>2 DEF UnderwaterInv, LongestIsASpell
      <4>2. At(i)' = At(i) /\ At(j)' = At(j) /\ Recovered(i, j)'
        BY <4>1, <1>1, <1>5
      <4> QED BY <4>1, <4>2, <3>1, <1>6
    <3> QED BY <3>1, <3>2 DEF UnderwaterInv, LongestIsASpell
  <2> QED BY <2>1, <2>2
<1> QED BY <1>7, <1>10, <1>11 DEF UnderwaterInv

\* underwater returns the longest spell below a dated high, ended or not, and
\* the dates of one that long.
THEOREM UnderwaterHolds == Spec => []UnderwaterIsTheLongest
<1>1. Init => UnderwaterInv
  <2> SUFFICES ASSUME Init PROVE UnderwaterInv
    OBVIOUS
  <2>1. N = 0 /\ 1 .. N = {}
    BY DEF Init, N
  <2> QED
    BY <2>1 DEF Init, UnderwaterInv, NeverHigh, SpellsWithinLongest, LongestIsASpell
<1>2. TypeOK /\ UnderwaterInv /\ [Next]_vars => UnderwaterInv'
  <2> SUFFICES ASSUME TypeOK, UnderwaterInv, [Next]_vars PROVE UnderwaterInv'
    OBVIOUS
  <2>1. ASSUME NEW profit \in Profits, NEW gap \in Gaps, Close(profit, gap)
        PROVE  UnderwaterInv'
    BY <2>1, UnderwaterFollows
  <2>2. CASE UNCHANGED vars
    BY <2>2
    DEF vars, UnderwaterInv, NeverHigh, LastHigh, SpellsWithinLongest,
        LongestIsASpell, Recovered, High, Balance, At, N
  <2> QED BY <2>1, <2>2 DEF Next
<1>3. TypeOK /\ UnderwaterInv => UnderwaterIsTheLongest
  <2> SUFFICES ASSUME TypeOK, UnderwaterInv PROVE UnderwaterIsTheLongest
    OBVIOUS
  <2>1. /\ N \in Nat /\ \A k \in 0 .. N: Balance(k) \in Int
        /\ \A k \in 1 .. N: At(k) \in Nat
        /\ uw.longestDays \in Int /\ uw.longestDays >= 0
        /\ \A i, j \in 1 .. N: Days(At(i), At(j)) \in Int
    BY PointsTyped, DaysTyped DEF TypeOK, UnderwaterInv, LongestIsASpell
  <2>2. ASSUME NEW i \in 1 .. N, Sunk(i)
        PROVE  OngoingDays = Days(At(i), At(N))
    <3>1. CASE High(i) /\ i < N /\ \A k \in i + 1 .. N: Balance(k) < Balance(i)
      <4>1. LastHigh(i)
        BY <3>1, OneHighToReturnTo DEF UnderwaterInv
      <4>2. uw.peakAt = At(i) /\ uw.peakAt # Undated /\ Balance(N) < uw.peak
        BY <4>1, <3>1, <2>1 DEF LastHigh, Undated
      <4> QED BY <4>2, <2>1 DEF OngoingDays, MeasuredFrom
    <3>2. CASE i = 1 /\ \A k \in 1 .. N: ~High(k)
      <4>1. NeverHigh
        BY <3>2 DEF UnderwaterInv, LastHigh
      <4> QED BY <4>1, <3>2, <2>1 DEF NeverHigh, OngoingDays, MeasuredFrom
    <3> QED BY <2>2, <3>1, <3>2 DEF Sunk
  <2>3. ASSUME OngoingDays > uw.longestDays
        PROVE  \E i \in 1 .. N: /\ Sunk(i) /\ Days(At(i), At(N)) = OngoingDays
                                /\ MeasuredFrom = At(i)
    <3>1. N > 0 /\ Balance(N) < uw.peak /\ OngoingDays = Days(MeasuredFrom, At(N))
      BY <2>3, <2>1 DEF OngoingDays
    <3>2. CASE NeverHigh
      <4>1. \A k \in 1 .. N: ~High(k)
        BY <3>2, <2>1 DEF NeverHigh, High, Balance
      <4> QED BY <4>1, <3>1, <3>2, <2>1 DEF NeverHigh, Sunk, MeasuredFrom
    <3>3. ASSUME NEW h \in 1 .. N, LastHigh(h)
          PROVE  Sunk(h) /\ MeasuredFrom = At(h)
      <4>1. h < N
        BY <3>1, <3>3, <2>1 DEF LastHigh
      <4> QED BY <4>1, <3>3, <2>1 DEF LastHigh, Sunk, MeasuredFrom, Undated
    <3> QED BY <3>1, <3>2, <3>3 DEF UnderwaterInv
  <2>4. /\ Underwater.longestDays =
             (IF OngoingDays > uw.longestDays THEN OngoingDays ELSE uw.longestDays)
        /\ Underwater.from =
             (IF OngoingDays > uw.longestDays THEN MeasuredFrom ELSE uw.from)
        /\ Underwater.recoveredAt =
             (IF OngoingDays > uw.longestDays THEN Undated ELSE uw.recoveredAt)
    BY DEF Underwater
  <2>5. OngoingDays \in Int
    <3>1. N > 0 => MeasuredFrom \in Int /\ At(N) \in Int
      BY <2>1 DEF MeasuredFrom, UnderwaterInv, NeverHigh, LastHigh
    <3> QED BY <3>1, <2>1, DayIsALength DEF OngoingDays, Days
  <2> QED
    BY <2>1, <2>2, <2>3, <2>4, <2>5
    DEF UnderwaterIsTheLongest, UnderwaterInv, SpellsWithinLongest, LongestIsASpell
<1> QED BY <1>1, <1>2, <1>3, TypeCorrect, PTL DEF Spec
=============================================================================
