------------------------------- MODULE Equity -------------------------------
(***************************************************************************)
(* What the analytics say of an equity curve: its deepest fall, its        *)
(* highest rise and its longest spell under water.  Each is one pass over  *)
(* the curve with a handful of local variables; here the passes go on in   *)
(* step as trades close, so that every state has what each function        *)
(* returns for the trades closed so far.                                   *)
(*                                                                         *)
(* The properties say what the figures mean with no pass at all, over      *)
(* every pair of points, the way the test suite searches by brute force.   *)
(*                                                                         *)
(* Source: src/lib/analytics/metrics.ts, consistency.ts.                   *)
(***************************************************************************)
EXTENDS Integers, Sequences

CONSTANTS
  Profits,       \* what a trade may earn, after costs
  Gaps,          \* the time from one close to the next; trades come in order
  StartBalance,  \* what the account opened with
  DayLength,     \* a day, in the units of time
  MaxTrades      \* bound on the length of the book

ASSUME ProfitsAreNumbers == Profits \subseteq Int
ASSUME GapsAreNumbers == Gaps \subseteq Nat
ASSUME BalanceIsANumber == StartBalance \in Int
ASSUME DayIsALength == DayLength \in Nat \ {0}
ASSUME BoundIsANumber == MaxTrades \in Nat

VARIABLES
  curve,   \* the equity curve: the balance after each trade
  dd,      \* the variables of maxDrawdown
  ru,      \* the variables of maxRunUp
  uw       \* the variables of underwater

vars == <<curve, dd, ru, uw>>

\* The opening balance is a peak and a trough, but it has no date.
Undated == -1

Days(from, to) == (to - from) \div DayLength

-----------------------------------------------------------------------------
(***************************************************************************)
(* The three passes: what each does with the next point.                   *)
(***************************************************************************)
\* As DrawdownStep, but it names the last peak, not the one of the deepest fall.
DrawdownStep_LastPeak(d, p) ==
  LET rises == p.balance > d.peak
      peak == IF rises THEN p.balance ELSE d.peak
      peakAt == IF rises THEN p.closeAt ELSE d.peakAt
      deeper == peak - p.balance > d.worst
  IN [peak |-> peak, peakAt |-> peakAt,
      worst |-> IF deeper THEN peak - p.balance ELSE d.worst,
      of |-> IF deeper THEN peak ELSE d.of,
      from |-> peakAt,
      to |-> IF deeper THEN p.closeAt ELSE d.to]

DrawdownStep(d, p) ==
  LET rises == p.balance > d.peak
      peak == IF rises THEN p.balance ELSE d.peak
      peakAt == IF rises THEN p.closeAt ELSE d.peakAt
      deeper == peak - p.balance > d.worst
  IN [peak |-> peak, peakAt |-> peakAt,
      worst |-> IF deeper THEN peak - p.balance ELSE d.worst,
      of |-> IF deeper THEN peak ELSE d.of,        \* what the percentage is of
      from |-> IF deeper THEN peakAt ELSE d.from,
      to |-> IF deeper THEN p.closeAt ELSE d.to]

RunUpStep(r, p) ==
  LET falls == p.balance < r.trough
      trough == IF falls THEN p.balance ELSE r.trough
      troughAt == IF falls THEN p.closeAt ELSE r.troughAt
      higher == p.balance - trough > r.best
  IN [trough |-> trough, troughAt |-> troughAt,
      best |-> IF higher THEN p.balance - trough ELSE r.best,
      of |-> IF higher THEN trough ELSE r.of,
      from |-> IF higher THEN troughAt ELSE r.from,
      to |-> IF higher THEN p.closeAt ELSE r.to]

\* As UnderwaterStep, but every pair of highs in a row counts as a spell.
UnderwaterStep_PeakToPeak(u, p) ==
  LET below == p.balance < u.peak
      longer == /\ ~below /\ u.peakAt # Undated
                /\ Days(u.peakAt, p.closeAt) > u.longestDays
  IN [peak |-> IF below THEN u.peak ELSE p.balance,
      peakAt |-> IF below THEN u.peakAt ELSE p.closeAt,
      dipped |-> below,
      longestDays |-> IF longer THEN Days(u.peakAt, p.closeAt) ELSE u.longestDays,
      from |-> IF longer THEN u.peakAt ELSE u.from,
      recoveredAt |-> IF longer THEN p.closeAt ELSE u.recoveredAt]

\* A stretch between two highs counts only if the account fell in between.
UnderwaterStep(u, p) ==
  LET below == p.balance < u.peak
      longer == /\ ~below /\ u.dipped /\ u.peakAt # Undated
                /\ Days(u.peakAt, p.closeAt) > u.longestDays
  IN [peak |-> IF below THEN u.peak ELSE p.balance,
      peakAt |-> IF below THEN u.peakAt ELSE p.closeAt,
      dipped |-> below,
      longestDays |-> IF longer THEN Days(u.peakAt, p.closeAt) ELSE u.longestDays,
      from |-> IF longer THEN u.peakAt ELSE u.from,
      recoveredAt |-> IF longer THEN p.closeAt ELSE u.recoveredAt]

-----------------------------------------------------------------------------
N == Len(curve)
Balance(i) == IF i = 0 THEN StartBalance ELSE curve[i].balance
At(i) == IF i = 0 THEN Undated ELSE curve[i].closeAt
Now == IF N = 0 THEN 0 ELSE At(N)

Init ==
  /\ curve = << >>
  /\ dd = [peak |-> StartBalance, peakAt |-> Undated, worst |-> 0,
           of |-> StartBalance, from |-> Undated, to |-> Undated]
  /\ ru = [trough |-> StartBalance, troughAt |-> Undated, best |-> 0,
           of |-> StartBalance, from |-> Undated, to |-> Undated]
  /\ uw = [peak |-> StartBalance, peakAt |-> Undated, dipped |-> FALSE,
           longestDays |-> 0, from |-> Undated, recoveredAt |-> Undated]

\* The next trade of the book, in the order the trades closed.
Close(profit, gap) ==
  LET p == [balance |-> Balance(N) + profit, closeAt |-> Now + gap]
  IN /\ N < MaxTrades
     /\ curve' = Append(curve, p)
     /\ dd' = DrawdownStep(dd, p)
     /\ ru' = RunUpStep(ru, p)
     /\ uw' = UnderwaterStep(uw, p)

Next == \E profit \in Profits, gap \in Gaps: Close(profit, gap)

Spec == Init /\ [][Next]_vars

-----------------------------------------------------------------------------
\* What underwater returns.  A spell that has not ended can be the longest.
\* An account that never was at a dated high is measured from the first point.
MeasuredFrom == IF uw.peakAt = Undated THEN At(1) ELSE uw.peakAt

OngoingDays ==
  IF N > 0 /\ Balance(N) < uw.peak THEN Days(MeasuredFrom, At(N)) ELSE 0

Underwater ==
  IF OngoingDays > uw.longestDays
  THEN [longestDays |-> OngoingDays, from |-> MeasuredFrom, recoveredAt |-> Undated]
  ELSE [longestDays |-> uw.longestDays, from |-> uw.from,
        recoveredAt |-> uw.recoveredAt]

-----------------------------------------------------------------------------
(***************************************************************************)
(* What the figures mean.                                                  *)
(***************************************************************************)
Points == 0 .. N

\* maxDrawdown is the deepest fall from any point to any later one, the
\* opening balance included, and names a pair of points that fell so far;
\* maxRunUp is the highest rise, likewise.
SwingsAreTheWidest ==
  /\ \A i, j \in Points: i <= j => /\ Balance(i) - Balance(j) <= dd.worst
                                   /\ Balance(j) - Balance(i) <= ru.best
  /\ dd.worst > 0 =>
       \E i, j \in Points:
         /\ i < j /\ Balance(i) - Balance(j) = dd.worst
         /\ dd.of = Balance(i) /\ dd.from = At(i) /\ dd.to = At(j)
  /\ ru.best > 0 =>
       \E i, j \in Points:
         /\ i < j /\ Balance(j) - Balance(i) = ru.best
         /\ ru.of = Balance(i) /\ ru.from = At(i) /\ ru.to = At(j)

\* A dated high: nothing before it was above it.
High(i) == i \in 1 .. N /\ \A k \in 0 .. i - 1: Balance(k) <= Balance(i)

\* The account fell below a high right after it, and j is the first point at
\* which it is back.
Recovered(i, j) ==
  /\ High(i) /\ j \in i + 2 .. N
  /\ \A k \in i + 1 .. j - 1: Balance(k) < Balance(i)
  /\ Balance(i) <= Balance(j)

\* The account has been below this high ever since, or below its opening
\* balance since the first trade.
Sunk(i) ==
  /\ i \in 1 .. N
  /\ \/ High(i) /\ i < N /\ \A k \in i + 1 .. N: Balance(k) < Balance(i)
     \/ i = 1 /\ \A k \in 1 .. N: ~High(k)

\* underwater returns the longest spell below a dated high, ended or not, and
\* the dates it names are those of such a spell.
UnderwaterIsTheLongest ==
  /\ \A i, j \in 1 .. N:
       Recovered(i, j) => Days(At(i), At(j)) <= Underwater.longestDays
  /\ \A i \in 1 .. N: Sunk(i) => Days(At(i), At(N)) <= Underwater.longestDays
  /\ Underwater.longestDays > 0 =>
       \/ \E i, j \in 1 .. N:
            /\ Recovered(i, j) /\ Days(At(i), At(j)) = Underwater.longestDays
            /\ Underwater.from = At(i) /\ Underwater.recoveredAt = At(j)
       \/ \E i \in 1 .. N:
            /\ Sunk(i) /\ Days(At(i), At(N)) = Underwater.longestDays
            /\ Underwater.from = At(i) /\ Underwater.recoveredAt = Undated
=============================================================================
