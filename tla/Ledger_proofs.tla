--------------------------- MODULE Ledger_proofs ---------------------------
(***************************************************************************)
(* Proofs about Ledger, for any rows, tabs, amounts and calendar: its      *)
(* types; that the months of a series change only where a tab ends it;     *)
(* that counting a row's occurrences by subtraction gives the number of    *)
(* months it falls in; and that the figures of the screens, counted,       *)
(* expanded and cut into windows, agree.                                   *)
(*                                                                         *)
(* A sum over a set is a fold. The lemmas about sums unfold its recursion  *)
(* once (SumIs, SumOfChosen), and every induction is the choice of a least *)
(* counterexample.                                                         *)
(***************************************************************************)
EXTENDS Ledger, FiniteSetTheorems, WellFoundedInduction, TLAPS

-----------------------------------------------------------------------------
(* The calendar. *)

LEMMA DateParts ==
  ASSUME NEW d \in Dates
  PROVE  d.month \in Months /\ d.day \in 1..DaysIn[d.month] /\ d.month \in Nat /\ d.day \in Nat
<1>1. PICK m \in Months : d \in {Date(m, x) : x \in 1..DaysIn[m]}
  BY DEF Dates
<1>2. PICK x \in 1..DaysIn[m] : d = Date(m, x)
  BY <1>1
<1>3. d.month = m /\ d.day = x
  BY <1>2 DEF Date
<1> QED BY <1>3, CalendarIsOne DEF Months

LEMMA MonthEnds ==
  ASSUME NEW m \in Months
  PROVE  /\ FirstOf(m) \in Dates /\ FirstOf(m).month = m /\ FirstOf(m).day = 1
         /\ LastOf(m) \in Dates /\ LastOf(m).month = m /\ LastOf(m).day = DaysIn[m]
         /\ m \in Nat /\ DaysIn[m] \in Nat \ {0}
<1>1. m \in Nat /\ DaysIn[m] \in Nat \ {0}
  BY CalendarIsOne DEF Months
<1>2. 1 \in 1..DaysIn[m] /\ DaysIn[m] \in 1..DaysIn[m]
  BY <1>1
<1>3. Date(m, 1) \in Dates /\ Date(m, DaysIn[m]) \in Dates
  BY <1>2 DEF Dates
<1> QED BY <1>1, <1>3 DEF FirstOf, LastOf, Date

\* A series falls in the months from its first to its last, and a one-off in its own.
LEMMA FallsInMonths ==
  ASSUME NEW row \in Row, NEW m \in Months
  PROVE  FallsIn(row, m) <=>
           IF row.isRecurring
           THEN /\ row.entryDate.month <= m
                /\ row.recurringUntil # None => m <= row.recurringUntil.month
           ELSE row.entryDate.month = m
<1>1. row.entryDate \in Dates /\ (row.recurringUntil # None => row.recurringUntil \in Dates)
  BY DEF Row
<1>2. /\ row.entryDate.month \in Nat /\ row.entryDate.day \in Nat
      /\ row.entryDate.day \in 1..DaysIn[row.entryDate.month]
      /\ row.entryDate.month \in Months
  BY <1>1, DateParts
<1>3. row.recurringUntil # None =>
        /\ row.recurringUntil.month \in Nat /\ row.recurringUntil.day \in Nat
        /\ row.recurringUntil.day \in 1..DaysIn[row.recurringUntil.month]
        /\ row.recurringUntil.month \in Months
  BY <1>1, DateParts
<1>4. /\ FirstOf(m).month = m /\ FirstOf(m).day = 1
      /\ LastOf(m).month = m /\ LastOf(m).day = DaysIn[m]
      /\ m \in Nat /\ DaysIn[m] \in Nat
  BY MonthEnds
<1>5. NotAfter(row.entryDate, LastOf(m)) <=> row.entryDate.month <= m
  BY <1>2, <1>4 DEF NotAfter
<1>6. NotAfter(FirstOf(m), row.entryDate) <=> m <= row.entryDate.month
  BY <1>2, <1>4, CalendarIsOne DEF NotAfter
<1>7. row.recurringUntil # None =>
        (NotAfter(FirstOf(m), row.recurringUntil) <=> m <= row.recurringUntil.month)
  BY <1>3, <1>4, CalendarIsOne DEF NotAfter
<1>8. CASE row.isRecurring
  BY <1>5, <1>7, <1>8 DEF FallsIn
<1>9. CASE ~row.isRecurring
  <2>1. FallsIn(row, m) <=> row.entryDate.month <= m /\ m <= row.entryDate.month
    BY <1>5, <1>6, <1>9 DEF FallsIn, Within
  <2> QED BY <1>2, <1>4, <1>9, <2>1
<1> QED BY <1>8, <1>9

-----------------------------------------------------------------------------
(* Types. *)

LEMMA CorrectedIsRow ==
  ASSUME NEW row \in Row, NEW type \in {"income", "expense"}, NEW amount \in Amounts,
         NEW date \in PostedDates(row)
  PROVE  /\ Corrected(row, type, amount, date) \in Row
         /\ Corrected(row, type, amount, date).isRecurring = row.isRecurring
         /\ Corrected(row, type, amount, date).recurringUntil = row.recurringUntil
         /\ row.isRecurring => Corrected(row, type, amount, date).entryDate = row.entryDate
<1>1. date \in Dates \/ date = None
  BY DEF PostedDates
<1>2. row.isRecurring => date = None
  BY DEF PostedDates
<1> QED BY <1>1, <1>2 DEF Corrected, Row

LEMMA EndedIsRow ==
  ASSUME NEW row \in Row, NEW m \in Months
  PROVE  /\ Ended(row, m) \in Row
         /\ Ended(row, m).isRecurring = row.isRecurring
         /\ Ended(row, m).recurringUntil = LastOf(m)
         /\ Ended(row, m).entryDate = row.entryDate
<1>1. LastOf(m) \in Dates
  BY MonthEnds
<1> QED BY <1>1 DEF Ended, Row

\* A created row is a row.
LEMMA NewIsRow ==
  ASSUME NEW row \in [type : {"income", "expense"}, amountIls : Amounts, entryDate : Dates,
                      isRecurring : BOOLEAN, recurringUntil : {None}]
  PROVE  row \in Row
BY DEF Row

\* What one step may do to a row that exists: nothing, a correction, an end, or a deletion.
LEMMA RowSteps ==
  ASSUME TypeOK, [Next]_vars, NEW e \in Live
  PROVE  \/ entry'[e] = entry[e]
         \/ entry'[e] = None
         \/ \E type \in {"income", "expense"}, amount \in Amounts, date \in PostedDates(entry[e]) :
               entry'[e] = Corrected(entry[e], type, amount, date)
         \/ \E t \in Tabs : /\ drawn[t] # None /\ drawn[t].id = e
                           /\ entry'[e] = Ended(entry[e], drawn[t].month)
<1>0. e \in Entries /\ entry[e] # None /\ entry \in [Entries -> Row \union {None}]
  BY DEF Live, TypeOK
<1>1. ASSUME NEW x \in Entries, Create(x) PROVE entry'[e] = entry[e]
  BY <1>0, <1>1 DEF Create
<1>2. ASSUME NEW x \in Entries, Correct(x)
      PROVE  \/ entry'[e] = entry[e]
             \/ \E type \in {"income", "expense"}, amount \in Amounts,
                   date \in PostedDates(entry[e]) :
                   entry'[e] = Corrected(entry[e], type, amount, date)
  <2>1. CASE x = e
    BY <1>0, <1>2, <2>1 DEF Correct
  <2>2. CASE x # e
    BY <1>0, <1>2, <2>2 DEF Correct
  <2> QED BY <2>1, <2>2
<1>3. ASSUME NEW t \in Tabs, Draw(t) PROVE entry'[e] = entry[e]
  BY <1>3 DEF Draw
<1>4. ASSUME NEW t \in Tabs, EndRecurringSeries(t)
      PROVE  \/ entry'[e] = entry[e]
             \/ /\ drawn[t] # None /\ drawn[t].id = e
                /\ entry'[e] = Ended(entry[e], drawn[t].month)
  <2>1. CASE drawn[t].id = e
    BY <1>0, <1>4, <2>1 DEF EndRecurringSeries
  <2>2. CASE drawn[t].id # e
    BY <1>0, <1>4, <2>2 DEF EndRecurringSeries
  <2> QED BY <2>1, <2>2
<1>5. ASSUME NEW ids \in SUBSET Live, Delete(ids) PROVE entry'[e] = entry[e] \/ entry'[e] = None
  BY <1>0, <1>5 DEF Delete
<1>6. CASE UNCHANGED vars
  BY <1>6 DEF vars
<1> QED BY <1>1, <1>2, <1>3, <1>4, <1>5, <1>6 DEF Next

LEMMA TypeStep == TypeOK /\ [Next]_vars => TypeOK'
<1> SUFFICES ASSUME TypeOK, [Next]_vars PROVE TypeOK'
  OBVIOUS
<1>0. /\ entry \in [Entries -> Row \union {None}]
      /\ drawn \in [Tabs -> Occurrence \union {None}]
      /\ \A t \in Tabs : drawn[t] # None => entry[drawn[t].id] # None
      /\ \A t \in Tabs : drawn[t] # None => drawn[t].id \in Entries /\ drawn[t].month \in Months
  BY DEF TypeOK, Occurrence
<1>1. ASSUME NEW e \in Entries, NEW row \in Row, entry' = [entry EXCEPT ![e] = row],
             UNCHANGED drawn
      PROVE  TypeOK'
  <2>1. entry' \in [Entries -> Row \union {None}]
    BY <1>0, <1>1
  <2>2. \A x \in Entries : entry[x] # None => entry'[x] # None
    BY <1>0, <1>1, NoneAssumption
  <2> QED BY <1>0, <1>1, <2>1, <2>2 DEF TypeOK
<1>2. ASSUME NEW e \in Entries, Create(e) PROVE TypeOK'
  <2>1. PICK row \in [type : {"income", "expense"}, amountIls : Amounts, entryDate : Dates,
                      isRecurring : BOOLEAN, recurringUntil : {None}] :
           entry' = [entry EXCEPT ![e] = row]
    BY <1>2 DEF Create
  <2>2. UNCHANGED drawn
    BY <1>2 DEF Create
  <2> QED BY <1>1, <2>1, <2>2, NewIsRow
<1>3. ASSUME NEW e \in Entries, Correct(e) PROVE TypeOK'
  <2>1. entry[e] \in Row /\ UNCHANGED drawn
    BY <1>0, <1>3 DEF Correct
  <2>2. PICK type \in {"income", "expense"}, amount \in Amounts, date \in PostedDates(entry[e]) :
           entry' = [entry EXCEPT ![e] = Corrected(entry[e], type, amount, date)]
    BY <1>3 DEF Correct
  <2>3. Corrected(entry[e], type, amount, date) \in Row
    BY <2>1, CorrectedIsRow
  <2> QED BY <1>1, <2>1, <2>2, <2>3
<1>4. ASSUME NEW t \in Tabs, Draw(t) PROVE TypeOK'
  <2>1. PICK o \in Occurrence : entry[o.id] # None /\ drawn' = [drawn EXCEPT ![t] = o]
    BY <1>4 DEF Draw
  <2>2. entry' = entry
    BY <1>4 DEF Draw
  <2> QED BY <1>0, <2>1, <2>2 DEF TypeOK
<1>5. ASSUME NEW t \in Tabs, EndRecurringSeries(t) PROVE TypeOK'
  <2>1. drawn[t] # None /\ UNCHANGED drawn
        /\ entry' = [entry EXCEPT ![drawn[t].id] = Ended(@, drawn[t].month)]
    BY <1>5 DEF EndRecurringSeries
  <2>2. drawn[t].id \in Entries /\ entry[drawn[t].id] \in Row /\ drawn[t].month \in Months
    BY <1>0, <2>1
  <2>3. Ended(entry[drawn[t].id], drawn[t].month) \in Row
    BY <2>2, EndedIsRow
  <2> QED BY <1>1, <2>1, <2>2, <2>3
<1>6. ASSUME NEW ids \in SUBSET Live, Delete(ids) PROVE TypeOK'
  <2>1. /\ entry' = [e \in Entries |-> IF e \in ids THEN None ELSE entry[e]]
        /\ drawn' = [t \in Tabs |-> IF drawn[t] # None /\ drawn[t].id \in ids
                                    THEN None ELSE drawn[t]]
    BY <1>6 DEF Delete
  <2>2. entry' \in [Entries -> Row \union {None}] /\ drawn' \in [Tabs -> Occurrence \union {None}]
    BY <1>0, <2>1
  <2>3. ASSUME NEW t \in Tabs, drawn'[t] # None PROVE entry'[drawn'[t].id] # None
    <3>1. drawn'[t] = drawn[t] /\ drawn[t] # None /\ drawn[t].id \notin ids
      BY <2>1, <2>3
    <3> QED BY <1>0, <2>1, <3>1
  <2> QED BY <2>2, <2>3 DEF TypeOK
<1>7. CASE UNCHANGED vars
  BY <1>7 DEF vars, TypeOK
<1> QED BY <1>2, <1>3, <1>4, <1>5, <1>6, <1>7 DEF Next

\* The rows and the tabs keep their types, and no tab's button names a row that is gone.
THEOREM TypeCorrect == Spec => []TypeOK
<1>1. Init => TypeOK
  BY DEF Init, TypeOK
<1> QED BY <1>1, TypeStep, PTL DEF Spec

-----------------------------------------------------------------------------
(* The months of a series. *)

(***************************************************************************)
(* Whatever the tabs show and however old it is, a series loses a month    *)
(* only to the button of an earlier occurrence, and gains one only from    *)
(* that of an occurrence drawn before it was ended; a correction moves     *)
(* none (endRecurringSeries, updateFinanceEntry).                          *)
(***************************************************************************)
THEOREM SeriesStay == Spec => SeriesKeepsItsMonths
<1> DEFINE Shown(e) == {drawn[t].month : t \in {t \in Tabs : drawn[t] # None /\ drawn[t].id = e}}
           Keeps(e, m) ==
             /\ FallsIn(entry[e], m) =>
                  \/ FallsIn(entry'[e], m)
                     /\ OccurrenceDate(entry'[e], m) = OccurrenceDate(entry[e], m)
                  \/ \E k \in Shown(e) : k < m
             /\ ~FallsIn(entry[e], m) /\ FallsIn(entry'[e], m) =>
                  \E k \in Shown(e) : k >= m /\ ~FallsIn(entry[e], k)
<1>1. ASSUME TypeOK, [Next]_vars, NEW e \in Live, entry[e].isRecurring, entry'[e] # None,
             NEW m \in Months
      PROVE  Keeps(e, m)
  <2>0. entry[e] \in Row
    BY <1>1 DEF Live, TypeOK
  <2>1. CASE entry'[e] = entry[e]
    BY <2>1
  <2>2. ASSUME NEW type \in {"income", "expense"}, NEW amount \in Amounts,
               NEW date \in PostedDates(entry[e]),
               entry'[e] = Corrected(entry[e], type, amount, date)
        PROVE  Keeps(e, m)
    <3> DEFINE old == entry[e]
               new == Corrected(old, type, amount, date)
    <3>0. old \in Row /\ old.isRecurring
      BY <1>1, <2>0
    <3>a. date \in PostedDates(old)
      BY <2>2
    <3> HIDE DEF old
    <3>b. /\ new.isRecurring = old.isRecurring /\ new.recurringUntil = old.recurringUntil
          /\ new.entryDate = old.entryDate
      BY <3>0, <3>a, CorrectedIsRow
    <3>1. /\ entry'[e].isRecurring = entry[e].isRecurring
          /\ entry'[e].recurringUntil = entry[e].recurringUntil
          /\ entry'[e].entryDate = entry[e].entryDate
      BY <2>2, <3>b DEF old
    <3>2. FallsIn(entry'[e], m) <=> FallsIn(entry[e], m)
      BY <3>1 DEF FallsIn
    <3>3. OccurrenceDate(entry'[e], m) = OccurrenceDate(entry[e], m)
      BY <3>1 DEF OccurrenceDate
    <3> QED BY <3>2, <3>3
  <2>3. ASSUME NEW t \in Tabs, drawn[t] # None, drawn[t].id = e,
               entry'[e] = Ended(entry[e], drawn[t].month)
        PROVE  Keeps(e, m)
    <3> DEFINE k == drawn[t].month
               old == entry[e]
               new == entry'[e]
    <3>1. k \in Months /\ k \in Shown(e)
      BY <1>1, <2>3 DEF TypeOK, Occurrence
    <3>2. /\ new \in Row /\ new.isRecurring = old.isRecurring /\ new.recurringUntil = LastOf(k)
          /\ new.entryDate = old.entryDate
      BY <2>0, <2>3, <3>1, EndedIsRow
    <3>3. LastOf(k) # None /\ LastOf(k).month = k /\ k \in Nat /\ m \in Nat
      BY <3>1, MonthEnds, NoneAssumption
    <3>4. old.entryDate.month \in Nat /\
          (old.recurringUntil # None => old.recurringUntil.month \in Nat)
      BY <2>0, DateParts DEF Row
    <3>a. old.isRecurring
      BY <1>1
    <3> HIDE DEF k, old, new
    <3>b. FallsIn(new, m) <=>
            new.entryDate.month <= m /\ (new.recurringUntil # None => m <= new.recurringUntil.month)
      BY <3>2, <3>a, FallsInMonths
    <3>5. FallsIn(new, m) <=> old.entryDate.month <= m /\ m <= k
      BY <3>2, <3>3, <3>b
    <3>6. \A i \in Months : FallsIn(old, i) <=>
             /\ old.entryDate.month <= i
             /\ old.recurringUntil # None => i <= old.recurringUntil.month
      BY <1>1, <2>0, FallsInMonths DEF old
    <3>7. OccurrenceDate(new, m) = OccurrenceDate(old, m)
      BY <3>2 DEF OccurrenceDate
    <3>8. FallsIn(old, m) /\ ~FallsIn(new, m) => k < m
      BY <3>3, <3>4, <3>5, <3>6
    <3>9. ~FallsIn(old, m) /\ FallsIn(new, m) => k >= m /\ ~FallsIn(old, k)
      BY <3>1, <3>3, <3>4, <3>5, <3>6
    <3> QED BY <3>1, <3>7, <3>8, <3>9 DEF old, new
  <2> QED BY <1>1, <2>1, <2>2, <2>3, RowSteps
<1>2. TypeOK /\ [Next]_vars =>
        [\A e \in Live : entry[e].isRecurring /\ entry'[e] # None =>
           \A m \in Months : Keeps(e, m)]_vars
  BY <1>1
<1> QED BY <1>2, TypeCorrect, PTL DEF Spec, SeriesKeepsItsMonths

-----------------------------------------------------------------------------
(* Sums over finite sets.  An induction is over a set of good values. *)

\* A non-empty set of naturals has a least element.
LEMMA LeastExists ==
  ASSUME NEW S \in SUBSET Nat, S # {}
  PROVE  \E x \in S : \A y \in S : x <= y
<1> DEFINE R == OpToRel(<, Nat)
<1>1. \E x \in S : \A y \in S : ~ (<<y, x>> \in R)
  BY NatLessThanWellFounded, WFMin
<1>2. \A x, y \in Nat : <<y, x>> \in R <=> y < x
  BY DEF OpToRel
<1> HIDE DEF R
<1>3. PICK x \in S : \A y \in S : ~ (<<y, x>> \in R)
  BY <1>1
<1>4. ASSUME NEW y \in S PROVE x <= y
  <2>1. x \in Nat /\ y \in Nat /\ ~ (<<y, x>> \in R)
    BY <1>3
  <2>2. ~ (y < x)
    BY <1>2, <2>1
  <2> QED BY <2>1, <2>2
<1> QED BY <1>4

LEMMA NatStrongInduction ==
  ASSUME NEW G, \A n \in Nat : (\A k \in 0..(n - 1) : k \in G) => n \in G
  PROVE  \A n \in Nat : n \in G
<1> DEFINE B == {n \in Nat : n \notin G}
<1>1. ASSUME B # {} PROVE FALSE
  <2>1. PICK n \in B : \A k \in B : n <= k
    BY <1>1, LeastExists
  <2>2. \A k \in 0..(n - 1) : k \in G
    BY <2>1
  <2> QED BY <2>1, <2>2
<1> QED BY <1>1

LEMMA SubsetInduction ==
  ASSUME NEW S, IsFiniteSet(S), NEW G,
         \A T \in SUBSET S : (\A U \in SUBSET T : U # T => U \in G) => T \in G
  PROVE  \A T \in SUBSET S : T \in G
<1> DEFINE N == {n \in Nat : \A T \in SUBSET S : Cardinality(T) = n => T \in G}
<1>1. ASSUME NEW n \in Nat, \A k \in 0..(n - 1) : k \in N PROVE n \in N
  <2>1. ASSUME NEW T \in SUBSET S, Cardinality(T) = n PROVE T \in G
    <3>1. IsFiniteSet(T)
      BY FS_Subset
    <3>2. ASSUME NEW U \in SUBSET T, U # T PROVE U \in G
      <4>1. IsFiniteSet(U) /\ Cardinality(U) \in Nat /\ Cardinality(U) < n
        BY <2>1, <3>1, <3>2, FS_Subset, FS_CardinalityType
      <4> QED BY <1>1, <4>1
    <3> QED BY <3>2
  <2> QED BY <2>1
<1>2. \A n \in Nat : n \in N
  <2> HIDE DEF N
  <2> QED BY <1>1, NatStrongInduction
<1>3. ASSUME NEW T \in SUBSET S PROVE T \in G
  <2>1. Cardinality(T) \in Nat
    BY FS_Subset, FS_CardinalityType
  <2> QED BY <1>2, <2>1
<1> QED BY <1>3

LEMMA FiniteInduction ==
  ASSUME NEW S, IsFiniteSet(S), NEW G, {} \in G,
         \A T \in SUBSET S : \A x \in T : T \ {x} \in G => T \in G
  PROVE  S \in G
<1>1. ASSUME NEW T \in SUBSET S, \A U \in SUBSET T : U # T => U \in G PROVE T \in G
  <2>1. CASE T = {}
    BY <2>1
  <2>2. CASE T # {}
    <3>1. PICK x \in T : TRUE
      BY <2>2
    <3>2. T \ {x} \in SUBSET T /\ T \ {x} # T
      OBVIOUS
    <3> QED BY <1>1, <3>2
  <2> QED BY <2>1, <2>2
<1> QED BY <1>1, SubsetInduction

Chosen(s) == CHOOSE x \in s : TRUE

\* g is, on the sets of D, what a fold of h computes.
Adds(g, h, D) ==
  g = [s \in D |-> IF s = {} THEN 0 ELSE h[Chosen(s)] + g[s \ {Chosen(s)}]]

\* There is a function that does what the fold's recursion says.
LEMMA SumExists ==
  ASSUME NEW S, IsFiniteSet(S), NEW h
  PROVE  \E g : Adds(g, h, SUBSET S)
<1> DEFINE Upto(n) == {s \in SUBSET S : Cardinality(s) <= n}
           G == {n \in Nat : \E g : Adds(g, h, Upto(n))}
<1>1. \A s \in SUBSET S : IsFiniteSet(s) /\ Cardinality(s) \in Nat
                          /\ Cardinality(s) <= Cardinality(S)
  BY FS_Subset, FS_CardinalityType
<1>2. ASSUME NEW n \in Nat, \A k \in 0..(n - 1) : k \in G PROVE n \in G
  <2>1. CASE n = 0
    <3> DEFINE g == [s \in Upto(0) |-> 0]
    <3>1. \A s \in Upto(0) : s = {}
      BY <1>1, FS_EmptySet
    <3>2. Adds(g, h, Upto(0))
      BY <3>1 DEF Adds
    <3> QED BY <2>1, <3>2
  <2>2. CASE n # 0
    <3>1. PICK f : Adds(f, h, Upto(n - 1))
      BY <1>2, <2>2
    <3> DEFINE g == [s \in Upto(n) |-> IF s = {} THEN 0
                                       ELSE h[Chosen(s)] + f[s \ {Chosen(s)}]]
    <3>2. ASSUME NEW s \in Upto(n), s # {}
          PROVE  /\ s \ {Chosen(s)} \in Upto(n - 1) /\ s \ {Chosen(s)} \in Upto(n)
                 /\ f[s \ {Chosen(s)}] = g[s \ {Chosen(s)}]
      <4> DEFINE t == s \ {Chosen(s)}
      <4>1. Chosen(s) \in s
        BY <3>2 DEF Chosen
      <4>2. Cardinality(t) = Cardinality(s) - 1 /\ t \in SUBSET S
        BY <1>1, <4>1, FS_RemoveElement
      <4>3. t \in Upto(n - 1) /\ t \in Upto(n)
        BY <1>1, <2>2, <4>2
      <4>4. f[t] = IF t = {} THEN 0 ELSE h[Chosen(t)] + f[t \ {Chosen(t)}]
        BY <3>1, <4>3 DEF Adds
      <4> QED BY <4>3, <4>4
    <3>3. Adds(g, h, Upto(n))
      BY <3>2 DEF Adds
    <3> QED BY <3>3
  <2> QED BY <2>1, <2>2
<1>3. \A n \in Nat : n \in G
  <2> HIDE DEF G
  <2> QED BY <1>2, NatStrongInduction
<1>4. Upto(Cardinality(S)) = SUBSET S
  BY <1>1
<1> QED BY <1>1, <1>3, <1>4

\* Two that do agree wherever both do.
LEMMA AddsAgree ==
  ASSUME NEW S, NEW T, T \subseteq S, IsFiniteSet(S), NEW h, NEW f, NEW g,
         Adds(f, h, SUBSET S), Adds(g, h, SUBSET T)
  PROVE  f[T] = g[T]
<1> DEFINE G == {U \in SUBSET T : f[U] = g[U]}
<1>1. ASSUME NEW U \in SUBSET T, \A V \in SUBSET U : V # U => V \in G PROVE U \in G
  <2>1. f[U] = IF U = {} THEN 0 ELSE h[Chosen(U)] + f[U \ {Chosen(U)}]
    BY DEF Adds
  <2>2. g[U] = IF U = {} THEN 0 ELSE h[Chosen(U)] + g[U \ {Chosen(U)}]
    BY DEF Adds
  <2>3. U # {} => U \ {Chosen(U)} \in G
    BY <1>1 DEF Chosen
  <2> QED BY <2>1, <2>2, <2>3
<1>2. \A U \in SUBSET T : U \in G
  <2>1. IsFiniteSet(T)
    BY FS_Subset
  <2> HIDE DEF G
  <2> QED BY <1>1, <2>1, SubsetInduction
<1> QED BY <1>2

LEMMA SumIs ==
  ASSUME NEW S, IsFiniteSet(S), NEW h
  PROVE  \E f : Adds(f, h, SUBSET S) /\ SumFunctionOnSet(h, S) = f[S]
<1> DEFINE f == CHOOSE f : Adds(f, h, SUBSET S)
<1>1. Adds(f, h, SUBSET S)
  BY SumExists
<1>2. SumFunctionOnSet(h, S) = f[S]
  BY DEF SumFunctionOnSet, FoldFunctionOnSet, MapThenFoldSet, Adds, Chosen
<1> QED BY <1>1, <1>2

\* A sum is the chosen element and the rest.
LEMMA SumOfChosen ==
  ASSUME NEW S, IsFiniteSet(S), NEW h
  PROVE  SumFunctionOnSet(h, S) =
           IF S = {} THEN 0
           ELSE h[Chosen(S)] + SumFunctionOnSet(h, S \ {Chosen(S)})
<1>1. PICK f : Adds(f, h, SUBSET S) /\ SumFunctionOnSet(h, S) = f[S]
  BY SumIs
<1> DEFINE T == S \ {Chosen(S)}
<1>2. IsFiniteSet(T) /\ T \subseteq S
  BY FS_Subset
<1>3. PICK g : Adds(g, h, SUBSET T) /\ SumFunctionOnSet(h, T) = g[T]
  BY <1>2, SumIs
<1>4. f[T] = g[T]
  <2> HIDE DEF T
  <2> QED BY <1>1, <1>2, <1>3, AddsAgree
<1>5. f[S] = IF S = {} THEN 0 ELSE h[Chosen(S)] + f[T]
  BY <1>1 DEF Adds
<1> QED BY <1>1, <1>3, <1>4, <1>5

LEMMA SumOfNone ==
  ASSUME NEW h
  PROVE  SumFunctionOnSet(h, {}) = 0
BY SumOfChosen, FS_EmptySet

LEMMA SumIsInt ==
  ASSUME NEW S, IsFiniteSet(S), NEW h, \A x \in S : h[x] \in Int
  PROVE  SumFunctionOnSet(h, S) \in Int
<1> DEFINE G == {T \in SUBSET S : SumFunctionOnSet(h, T) \in Int}
<1>1. ASSUME NEW T \in SUBSET S, \A U \in SUBSET T : U # T => U \in G PROVE T \in G
  <2>1. IsFiniteSet(T)
    BY FS_Subset
  <2>2. CASE T = {}
    BY <2>2, SumOfNone
  <2>3. CASE T # {}
    <3>1. Chosen(T) \in T
      BY <2>3 DEF Chosen
    <3>2. T \ {Chosen(T)} \in G
      BY <1>1, <3>1
    <3>3. SumFunctionOnSet(h, T) = h[Chosen(T)] + SumFunctionOnSet(h, T \ {Chosen(T)})
      BY <2>1, <2>3, SumOfChosen
    <3> QED BY <3>1, <3>2, <3>3
  <2> QED BY <2>2, <2>3
<1> HIDE DEF G
<1>2. \A T \in SUBSET S : T \in G
  BY <1>1, SubsetInduction
<1> QED BY <1>2 DEF G

\* A sum is any of its elements and the rest.
LEMMA SumOfOne ==
  ASSUME NEW S, IsFiniteSet(S), NEW h, \A x \in S : h[x] \in Int, NEW x \in S
  PROVE  SumFunctionOnSet(h, S) = h[x] + SumFunctionOnSet(h, S \ {x})
<1> DEFINE Sum(T) == SumFunctionOnSet(h, T)
           G == {T \in SUBSET S : \A y \in T : Sum(T) = h[y] + Sum(T \ {y})}
<1>1. ASSUME NEW T \in SUBSET S, \A U \in SUBSET T : U # T => U \in G PROVE T \in G
  <2>1. ASSUME NEW y \in T PROVE Sum(T) = h[y] + Sum(T \ {y})
    <3> DEFINE c == Chosen(T)
    <3>0. c \in T
      BY DEF Chosen
    <3> HIDE DEF c
    <3>1. IsFiniteSet(T) /\ IsFiniteSet(T \ {c}) /\ IsFiniteSet(T \ {y})
          /\ IsFiniteSet((T \ {c}) \ {y})
      BY FS_Subset
    <3>2. Sum(T) = h[c] + Sum(T \ {c})
      BY <3>0, <3>1, SumOfChosen DEF c
    <3>3. CASE c = y
      BY <3>2, <3>3
    <3>4. CASE c # y
      <4>1. Sum(T \ {c}) = h[y] + Sum((T \ {c}) \ {y})
        BY <1>1, <3>0, <3>4
      <4>2. Sum(T \ {y}) = h[c] + Sum((T \ {y}) \ {c})
        BY <1>1, <3>0, <3>4
      <4>3. (T \ {c}) \ {y} = (T \ {y}) \ {c}
        OBVIOUS
      <4>4. PICK r \in Int : r = Sum((T \ {c}) \ {y})
        BY <3>1, SumIsInt
      <4>5. h[c] \in Int /\ h[y] \in Int
        BY <3>0
      <4>6. Sum(T) = h[c] + (h[y] + r) /\ Sum(T \ {y}) = h[c] + r
        BY <3>2, <4>1, <4>2, <4>3, <4>4
      <4> HIDE DEF Sum
      <4> QED BY <4>5, <4>6
    <3> QED BY <3>3, <3>4
  <2> QED BY <2>1
<1> HIDE DEF G
<1>2. \A T \in SUBSET S : T \in G
  BY <1>1, SubsetInduction
<1> QED BY <1>2 DEF G
-----------------------------------------------------------------------------
\* Summand by summand.
LEMMA SumOfSums ==
  ASSUME NEW S, IsFiniteSet(S), NEW f, NEW h, NEW k,
         \A x \in S : h[x] \in Int /\ k[x] \in Int /\ f[x] = h[x] + k[x]
  PROVE  SumFunctionOnSet(f, S) = SumFunctionOnSet(h, S) + SumFunctionOnSet(k, S)
<1> DEFINE Good(T) == SumFunctionOnSet(f, T)
                        = SumFunctionOnSet(h, T) + SumFunctionOnSet(k, T)
           G == {T \in SUBSET S : Good(T)}
<1>1. {} \in G
  BY SumOfNone
<1>2. ASSUME NEW T \in SUBSET S, NEW x \in T, T \ {x} \in G PROVE T \in G
  <2> DEFINE U == T \ {x}
  <2>1. IsFiniteSet(T) /\ IsFiniteSet(U)
    BY FS_Subset
  <2>2. PICK a \in Int, b \in Int : a = SumFunctionOnSet(h, U) /\ b = SumFunctionOnSet(k, U)
    BY <2>1, SumIsInt
  <2>3. SumFunctionOnSet(f, U) = a + b
    BY <1>2, <2>2
  <2>4. /\ SumFunctionOnSet(f, T) = f[x] + (a + b)
        /\ SumFunctionOnSet(h, T) = h[x] + a
        /\ SumFunctionOnSet(k, T) = k[x] + b
    BY <2>1, <2>2, <2>3, SumOfOne
  <2> QED BY <2>2, <2>4
<1> HIDE DEF G
<1>3. S \in G
  BY <1>1, <1>2, FiniteInduction
<1> QED BY <1>3 DEF G

LEMMA SumOfSame ==
  ASSUME NEW S, IsFiniteSet(S), NEW f, NEW h,
         \A x \in S : h[x] \in Int /\ f[x] = h[x]
  PROVE  SumFunctionOnSet(f, S) = SumFunctionOnSet(h, S)
<1> DEFINE G == {T \in SUBSET S : SumFunctionOnSet(f, T) = SumFunctionOnSet(h, T)}
<1>1. {} \in G
  BY SumOfNone
<1>2. ASSUME NEW T \in SUBSET S, NEW x \in T, T \ {x} \in G PROVE T \in G
  <2>1. IsFiniteSet(T)
    BY FS_Subset
  <2>2. /\ SumFunctionOnSet(f, T) = f[x] + SumFunctionOnSet(f, T \ {x})
        /\ SumFunctionOnSet(h, T) = h[x] + SumFunctionOnSet(h, T \ {x})
    BY <2>1, SumOfOne
  <2> QED BY <1>2, <2>2
<1> HIDE DEF G
<1>3. S \in G
  BY <1>1, <1>2, FiniteInduction
<1> QED BY <1>3 DEF G

\* Set by set.
LEMMA SumOfUnion ==
  ASSUME NEW S, NEW T, IsFiniteSet(S), IsFiniteSet(T), S \intersect T = {},
         NEW h, \A x \in S \union T : h[x] \in Int
  PROVE  SumFunctionOnSet(h, S \union T) = SumFunctionOnSet(h, S) + SumFunctionOnSet(h, T)
<1> DEFINE Sum(U) == SumFunctionOnSet(h, U)
           G == {U \in SUBSET T : Sum(S \union U) = Sum(S) + Sum(U)}
<1>0. Sum(S) \in Int
  BY SumIsInt
<1>1. {} \in G
  BY <1>0, SumOfNone
<1>2. ASSUME NEW U \in SUBSET T, NEW x \in U, U \ {x} \in G PROVE U \in G
  <2>1. IsFiniteSet(U) /\ IsFiniteSet(U \ {x}) /\ IsFiniteSet(S \union U)
    BY FS_Subset, FS_Union
  <2>2. PICK a \in Int : a = Sum(U \ {x})
    BY <2>1, SumIsInt
  <2>3. (S \union U) \ {x} = S \union (U \ {x})
    OBVIOUS
  <2>4. Sum(U) = h[x] + a
    BY <2>1, <2>2, SumOfOne
  <2>5. Sum(S \union U) = h[x] + Sum((S \union U) \ {x})
    BY <2>1, SumOfOne
  <2>6. Sum((S \union U) \ {x}) = Sum(S) + a
    BY <1>2, <2>2, <2>3
  <2>7. h[x] \in Int
    OBVIOUS
  <2>8. Sum(S \union U) = Sum(S) + Sum(U)
    <3> HIDE DEF Sum
    <3> QED BY <1>0, <2>2, <2>4, <2>5, <2>6, <2>7
  <2> QED BY <2>8
<1> HIDE DEF G
<1>3. T \in G
  BY <1>1, <1>2, FiniteInduction
<1> QED BY <1>3 DEF G

\* The elements that do not count count nothing.
LEMMA SumOfSome ==
  ASSUME NEW S, IsFiniteSet(S), NEW U \in SUBSET S, NEW f, NEW h,
         \A x \in S : h[x] \in Int /\ f[x] = IF x \in U THEN h[x] ELSE 0
  PROVE  SumFunctionOnSet(f, S) = SumFunctionOnSet(h, U)
<1> DEFINE G == {T \in SUBSET S : SumFunctionOnSet(f, T)
                                    = SumFunctionOnSet(h, T \intersect U)}
<1>1. {} \in G
  <2>1. {} \intersect U = {}
    OBVIOUS
  <2> QED BY <2>1, SumOfNone
<1>2. ASSUME NEW T \in SUBSET S, NEW x \in T, T \ {x} \in G PROVE T \in G
  <2> DEFINE V == T \intersect U
  <2>1. IsFiniteSet(T) /\ IsFiniteSet(V) /\ IsFiniteSet(T \ {x})
    BY FS_Subset
  <2>2. SumFunctionOnSet(f, T) = f[x] + SumFunctionOnSet(f, T \ {x})
    BY <2>1, SumOfOne
  <2>3. SumFunctionOnSet(f, T \ {x}) \in Int
    BY <2>1, SumIsInt
  <2>4. CASE x \in U
    <3>1. SumFunctionOnSet(h, V) = h[x] + SumFunctionOnSet(h, V \ {x})
      BY <2>1, <2>4, SumOfOne
    <3>2. V \ {x} = (T \ {x}) \intersect U
      OBVIOUS
    <3> QED BY <1>2, <2>2, <2>4, <3>1, <3>2
  <2>5. CASE x \notin U
    <3>1. V = (T \ {x}) \intersect U
      BY <2>5
    <3> QED BY <1>2, <2>2, <2>3, <2>5, <3>1
  <2> QED BY <2>4, <2>5
<1> HIDE DEF G
<1>3. S \in G
  BY <1>1, <1>2, FiniteInduction
<1>4. S \intersect U = U
  OBVIOUS
<1> QED BY <1>3, <1>4 DEF G

LEMMA ImageIsFinite ==
  ASSUME NEW S, IsFiniteSet(S), NEW b
  PROVE  IsFiniteSet({b[x] : x \in S})
<1> DEFINE Im(T) == {b[x] : x \in T}
           G == {T \in SUBSET S : IsFiniteSet(Im(T))}
<1>1. {} \in G
  <2>1. Im({}) = {}
    OBVIOUS
  <2> QED BY <2>1, FS_EmptySet
<1>2. ASSUME NEW T \in SUBSET S, NEW x \in T, T \ {x} \in G PROVE T \in G
  <2>1. Im(T) = Im(T \ {x}) \union {b[x]}
    OBVIOUS
  <2>2. IsFiniteSet(Im(T \ {x}))
    BY <1>2
  <2>3. IsFiniteSet(Im(T \ {x}) \union {b[x]})
    <3> HIDE DEF Im
    <3> QED BY <2>2, FS_AddElement
  <2> QED BY <2>1, <2>3
<1> HIDE DEF G
<1>3. S \in G
  BY <1>1, <1>2, FiniteInduction
<1> QED BY <1>3 DEF G

\* Under other names.
LEMMA SumOfImage ==
  ASSUME NEW S, IsFiniteSet(S), NEW b, \A x, y \in S : b[x] = b[y] => x = y,
         NEW f, NEW h, \A x \in S : h[b[x]] \in Int /\ f[x] = h[b[x]]
  PROVE  SumFunctionOnSet(f, S) = SumFunctionOnSet(h, {b[x] : x \in S})
<1> DEFINE Im(T) == {b[x] : x \in T}
           G == {T \in SUBSET S : SumFunctionOnSet(f, T) = SumFunctionOnSet(h, Im(T))}
<1>1. {} \in G
  <2>1. Im({}) = {}
    OBVIOUS
  <2> QED BY <2>1, SumOfNone
<1>2. ASSUME NEW T \in SUBSET S, NEW x \in T, T \ {x} \in G PROVE T \in G
  <2>1. IsFiniteSet(T) /\ IsFiniteSet(Im(T))
    BY FS_Subset, ImageIsFinite
  <2>2. Im(T) \ {b[x]} = Im(T \ {x})
    OBVIOUS
  <2>3. b[x] \in Im(T) /\ \A y \in Im(T) : h[y] \in Int
    OBVIOUS
  <2>4. SumFunctionOnSet(f, T) = f[x] + SumFunctionOnSet(f, T \ {x})
    BY <2>1, SumOfOne
  <2>5. SumFunctionOnSet(h, Im(T)) = h[b[x]] + SumFunctionOnSet(h, Im(T) \ {b[x]})
    <3> HIDE DEF Im
    <3> QED BY <2>1, <2>3, SumOfOne
  <2> QED BY <1>2, <2>2, <2>4, <2>5
<1> HIDE DEF G
<1>3. S \in G
  BY <1>1, <1>2, FiniteInduction
<1> QED BY <1>3 DEF G
-----------------------------------------------------------------------------
(* Counted and expanded. *)

LEMMA MinOfTwo ==
  ASSUME NEW a \in Int, NEW b \in Int
  PROVE  Min({a, b}) = IF a <= b THEN a ELSE b
<1> DEFINE c == IF a <= b THEN a ELSE b
<1>1. c \in {a, b} /\ \A y \in {a, b} : c <= y
  OBVIOUS
<1>2. \A x \in {a, b} : (\A y \in {a, b} : x <= y) => x = c
  OBVIOUS
<1> QED BY <1>1, <1>2 DEF Min

LEMMA MaxOfTwo ==
  ASSUME NEW a \in Int, NEW b \in Int
  PROVE  Max({a, b}) = IF a <= b THEN b ELSE a
<1> DEFINE c == IF a <= b THEN b ELSE a
<1>1. c \in {a, b} /\ \A y \in {a, b} : c >= y
  OBVIOUS
<1>2. \A x \in {a, b} : (\A y \in {a, b} : x >= y) => x = c
  OBVIOUS
<1> QED BY <1>1, <1>2 DEF Max

(***************************************************************************)
(* "The count must agree exactly with occurrencesInMonth": the number that *)
(* cumulativeCash works out by subtraction is the number of the months up  *)
(* to `through` in which the row falls, whatever its dates, a series ended *)
(* before it began included.                                               *)
(***************************************************************************)
THEOREM CountIsOfMonths ==
  ASSUME NEW row \in Row, NEW through \in Months
  PROVE  LET falls == {m \in 0..through : FallsIn(row, m)}
         IN  IsFiniteSet(falls) /\ TimesThrough(row, through) = Cardinality(falls)
<1> DEFINE start == row.entryDate.month
           end == IF row.recurringUntil = None THEN through ELSE row.recurringUntil.month
           falls == {m \in 0..through : FallsIn(row, m)}
           last == IF end <= through THEN end ELSE through
<1>1. /\ start \in Nat /\ end \in Nat /\ through \in Nat /\ last \in Nat /\ last <= through
      /\ 0..through \subseteq Months
  <2>1. start \in Nat /\ (row.recurringUntil # None => row.recurringUntil.month \in Nat)
    BY DateParts DEF Row
  <2>2. through \in Nat /\ 0..through \subseteq Months
    BY CalendarIsOne DEF Months
  <2> QED BY <2>1, <2>2
<1>2. CASE ~row.isRecurring
  <2>1. \A m \in 0..through : FallsIn(row, m) <=> start = m
    BY <1>1, <1>2, FallsInMonths
  <2>2. CASE start > through
    <3>1. falls = {}
      BY <1>1, <2>1, <2>2
    <3>2. TimesThrough(row, through) = 0
      BY <2>2 DEF TimesThrough
    <3> QED BY <3>1, <3>2, FS_EmptySet
  <2>3. CASE ~(start > through)
    <3>1. falls = {start}
      BY <1>1, <2>1, <2>3
    <3>2. TimesThrough(row, through) = 1
      BY <1>2, <2>3 DEF TimesThrough
    <3> QED BY <3>1, <3>2, FS_Singleton
  <2> QED BY <2>2, <2>3
<1>3. CASE row.isRecurring
  <2>0. row.recurringUntil # None => end = row.recurringUntil.month
    OBVIOUS
  <2>1. \A m \in 0..through : FallsIn(row, m) <=> start <= m /\ m <= end
    <3>1. ASSUME NEW m \in 0..through PROVE FallsIn(row, m) <=> start <= m /\ m <= end
      <4>1. m \in Months /\ m \in Nat /\ m <= through
        BY <1>1
      <4>2. FallsIn(row, m) <=>
              /\ row.entryDate.month <= m
              /\ (row.recurringUntil # None => m <= row.recurringUntil.month)
        BY <1>3, <4>1, FallsInMonths
      <4>3. CASE row.recurringUntil = None
        BY <1>1, <4>1, <4>2, <4>3
      <4>4. CASE row.recurringUntil # None
        BY <4>2, <4>4
      <4> QED BY <4>3, <4>4
    <3> QED BY <3>1
  <2>2. falls = start..last
    <3> HIDE DEF start, end
    <3> QED BY <1>1, <2>1
  <2>3. IsFiniteSet(falls) /\ Cardinality(falls) = IF start > last THEN 0 ELSE last - start + 1
    <3> HIDE DEF start, last, falls
    <3>1. start \in Int /\ last \in Int
      BY <1>1
    <3> QED BY <2>2, <3>1, FS_Interval
  <2>4. TimesThrough(row, through) =
          IF start > through THEN 0 ELSE Max({0, Min({end, through}) - start + 1})
    BY <1>3 DEF TimesThrough
  <2>5. Min({end, through}) = last
    <3> HIDE DEF end
    <3> QED BY <1>1, MinOfTwo
  <2>6. Max({0, last - start + 1}) = IF 0 <= last - start + 1 THEN last - start + 1 ELSE 0
    <3> HIDE DEF start, last
    <3> QED BY <1>1, MaxOfTwo
  <2>7. TimesThrough(row, through) = IF start > last THEN 0 ELSE last - start + 1
    <3> HIDE DEF start, last, end
    <3>1. start > through => start > last
      BY <1>1
    <3> QED BY <1>1, <2>4, <2>5, <2>6, <3>1
  <2> QED BY <2>3, <2>7
<1> QED BY <1>2, <1>3

-----------------------------------------------------------------------------
(* The recorded cash and the months. *)

Worth(e) == Signed(entry[e])

LEMMA LiveRows ==
  ASSUME TypeOK
  PROVE  IsFiniteSet(Live) /\ \A e \in Live : entry[e] \in Row /\ Worth(e) \in Int
<1>1. Live \subseteq Entries /\ \A e \in Live : entry[e] \in Row
  BY DEF Live, TypeOK
<1>2. IsFiniteSet(Live)
  BY <1>1, EntriesAreFinite, FS_Subset
<1>3. ASSUME NEW row \in Row PROVE Signed(row) \in Int
  <2>1. row.amountIls \in Amounts
    BY DEF Row
  <2>2. \A a \in Amounts : a \in Int /\ -a \in Int
    BY AmountsArePositive
  <2>3. row.amountIls \in Int /\ -(row.amountIls) \in Int
    BY <2>1, <2>2
  <2> QED BY <2>3 DEF Signed
<1> QED BY <1>1, <1>2, <1>3 DEF Worth

LEMMA MonthsAreNaturals ==
  ASSUME NEW m \in Months
  PROVE  m \in Nat /\ 0..m \subseteq Months /\ (m # 0 => m - 1 \in Months)
BY CalendarIsOne DEF Months

\* What a row adds to a month.
Share(m) == [e \in Live |-> IF FallsIn(entry[e], m) THEN Worth(e) ELSE 0]

LEMMA MonthOfShares ==
  ASSUME TypeOK, NEW m \in Months
  PROVE  MonthBalance(m) = SumFunctionOnSet(Share(m), Live) /\ MonthBalance(m) \in Int
<1> DEFINE S == {e \in Live : FallsIn(entry[e], m)}
           val == [e \in Live |-> Worth(e)]
           b == [e \in S |-> [id |-> e, date |-> OccurrenceDate(entry[e], m)]]
           h == [o \in OccurrencesInMonth(m) |-> Signed(entry[o.id])]
<1>1. IsFiniteSet(Live) /\ IsFiniteSet(S) /\ S \in SUBSET Live
  BY LiveRows, FS_Subset
<1>2. OccurrencesInMonth(m) = {b[e] : e \in S}
  BY DEF OccurrencesInMonth
<1>3. \A x, y \in S : b[x] = b[y] => x = y
  OBVIOUS
<1>4. \A e \in S : h[b[e]] \in Int /\ val[e] = h[b[e]]
  <2> SUFFICES ASSUME NEW e \in S PROVE h[b[e]] \in Int /\ val[e] = h[b[e]]
    OBVIOUS
  <2>1. b[e] \in OccurrencesInMonth(m) /\ b[e].id = e
    BY <1>2
  <2>2. h[b[e]] = Worth(e)
    BY <2>1 DEF Worth
  <2> QED BY <1>1, <2>2, LiveRows
<1>5. SumFunctionOnSet(val, S) = SumFunctionOnSet(h, OccurrencesInMonth(m))
  <2> HIDE DEF S, val, b, h
  <2> QED BY <1>1, <1>2, <1>3, <1>4, SumOfImage
<1>6. MonthBalance(m) = SumFunctionOnSet(h, OccurrencesInMonth(m))
  BY DEF MonthBalance, Net, SumFunction
<1>7. \A e \in Live : val[e] \in Int /\ Share(m)[e] = IF e \in S THEN val[e] ELSE 0
  BY LiveRows DEF Share
<1>8. SumFunctionOnSet(Share(m), Live) = SumFunctionOnSet(val, S)
        /\ SumFunctionOnSet(val, S) \in Int
  <2> HIDE DEF S, val
  <2> QED BY <1>1, <1>7, SumOfSome, SumIsInt
<1> QED BY <1>5, <1>6, <1>8

\* A month later a row has been counted once more, if it falls in that month.
LEMMA OnceMore ==
  ASSUME NEW row \in Row, NEW m \in Months
  PROVE  /\ TimesThrough(row, m) \in Nat
         /\ TimesThrough(row, m) = (IF m = 0 THEN 0 ELSE TimesThrough(row, m - 1))
                                   + (IF FallsIn(row, m) THEN 1 ELSE 0)
<1> DEFINE F(n) == {k \in 0..n : FallsIn(row, k)}
<1>1. m \in Nat /\ (m # 0 => m - 1 \in Months)
  BY MonthsAreNaturals
<1>2. \A n \in Months : IsFiniteSet(F(n)) /\ TimesThrough(row, n) = Cardinality(F(n))
                        /\ TimesThrough(row, n) \in Nat
  BY CountIsOfMonths, FS_CardinalityType
<1>3. CASE m = 0
  <2>1. F(m) = IF FallsIn(row, m) THEN {0} ELSE {}
    BY <1>3
  <2>2. Cardinality(F(m)) = IF FallsIn(row, m) THEN 1 ELSE 0
    <3> HIDE DEF F
    <3> QED BY <2>1, FS_EmptySet, FS_Singleton
  <2>3. TimesThrough(row, m) = Cardinality(F(m))
    BY <1>2
  <2> HIDE DEF F
  <2> QED BY <1>3, <2>2, <2>3
<1>4. CASE m # 0
  <2>1. F(m) = IF FallsIn(row, m) THEN F(m - 1) \union {m} ELSE F(m - 1)
    BY <1>1, <1>4
  <2>2. m \notin F(m - 1)
    BY <1>1
  <2>3. IsFiniteSet(F(m - 1)) /\ TimesThrough(row, m - 1) = Cardinality(F(m - 1))
    BY <1>1, <1>2, <1>4
  <2>4. Cardinality(F(m - 1) \union {m}) = Cardinality(F(m - 1)) + 1
    <3> HIDE DEF F
    <3> QED BY <2>2, <2>3, FS_AddElement
  <2>5. Cardinality(F(m - 1)) \in Nat
    BY <1>1, <1>2, <1>4, <2>3
  <2>6. TimesThrough(row, m) = Cardinality(F(m)) /\ TimesThrough(row, m) \in Nat
    BY <1>2
  <2> HIDE DEF F
  <2>7. CASE FallsIn(row, m)
    BY <1>4, <2>1, <2>3, <2>4, <2>6, <2>7
  <2>8. CASE ~FallsIn(row, m)
    BY <1>4, <2>1, <2>3, <2>5, <2>6, <2>8
  <2> QED BY <2>7, <2>8
<1> QED BY <1>3, <1>4

LEMMA CashGrowsByTheMonth ==
  ASSUME TypeOK, NEW m \in Months
  PROVE  /\ CumulativeCash(m) \in Int
         /\ CumulativeCash(m) = (IF m = 0 THEN 0 ELSE CumulativeCash(m - 1)) + MonthBalance(m)
<1> DEFINE Counted(n) == [e \in Live |-> Worth(e) * TimesThrough(entry[e], n)]
<1>1. IsFiniteSet(Live) /\ \A e \in Live : entry[e] \in Row /\ Worth(e) \in Int
  BY LiveRows
<1>2. \A n \in Months : CumulativeCash(n) = SumFunctionOnSet(Counted(n), Live)
  BY DEF CumulativeCash, SumFunction, Worth
<1>3. \A n \in Months : \A e \in Live : Counted(n)[e] \in Int
  BY <1>1, OnceMore
<1>4. \A e \in Live : Share(m)[e] \in Int
  BY <1>1 DEF Share
<1>5. MonthBalance(m) = SumFunctionOnSet(Share(m), Live) /\ MonthBalance(m) \in Int
  BY MonthOfShares
<1>6. CumulativeCash(m) \in Int
  <2> HIDE DEF Counted
  <2> QED BY <1>1, <1>2, <1>3, SumIsInt
<1>7. CASE m = 0
  <2>1. \A e \in Live : Counted(m)[e] = Share(m)[e]
    <3> SUFFICES ASSUME NEW e \in Live PROVE Counted(m)[e] = Share(m)[e]
      OBVIOUS
    <3>1. TimesThrough(entry[e], m) = IF FallsIn(entry[e], m) THEN 1 ELSE 0
      BY <1>1, <1>7, OnceMore
    <3>2. Worth(e) * 1 = Worth(e) /\ Worth(e) * 0 = 0
      BY <1>1
    <3> QED BY <3>1, <3>2 DEF Share
  <2>2. SumFunctionOnSet(Counted(m), Live) = SumFunctionOnSet(Share(m), Live)
    <3> HIDE DEF Counted
    <3> QED BY <1>1, <1>4, <2>1, SumOfSame
  <2> QED BY <1>2, <1>5, <1>6, <1>7, <2>2
<1>8. CASE m # 0
  <2>0. m - 1 \in Months
    BY <1>8, MonthsAreNaturals
  <2>1. \A e \in Live : Counted(m)[e] = Counted(m - 1)[e] + Share(m)[e]
    <3> SUFFICES ASSUME NEW e \in Live PROVE Counted(m)[e] = Counted(m - 1)[e] + Share(m)[e]
      OBVIOUS
    <3>1. PICK t \in Nat : t = TimesThrough(entry[e], m - 1)
      BY <1>1, <2>0, OnceMore
    <3>2. TimesThrough(entry[e], m) = t + (IF FallsIn(entry[e], m) THEN 1 ELSE 0)
      BY <1>1, <1>8, <3>1, OnceMore
    <3>3. PICK w \in Int : w = Worth(e)
      BY <1>1
    <3>4. w * (t + 1) = w * t + w /\ w * (t + 0) = w * t + 0
      OBVIOUS
    <3> QED BY <3>1, <3>2, <3>3, <3>4 DEF Share
  <2>2. SumFunctionOnSet(Counted(m), Live)
          = SumFunctionOnSet(Counted(m - 1), Live) + SumFunctionOnSet(Share(m), Live)
    <3>1. \A e \in Live : /\ Counted(m - 1)[e] \in Int /\ Share(m)[e] \in Int
                          /\ Counted(m)[e] = Counted(m - 1)[e] + Share(m)[e]
      BY <1>3, <1>4, <2>0, <2>1
    <3> HIDE DEF Counted
    <3> QED BY <1>1, <3>1, SumOfSums
  <2> QED BY <1>2, <1>5, <1>6, <1>8, <2>0, <2>2
<1> QED BY <1>6, <1>7, <1>8

-----------------------------------------------------------------------------
(* The cash is the months, and the year is what the cash grew by. *)

LEMMA CashIsTheMonths ==
  ASSUME TypeOK, NEW m \in Months
  PROVE  CumulativeCash(m) = SumFunction([k \in 0..m |-> MonthBalance(k)])
<1> DEFINE all == [k \in Months |-> MonthBalance(k)]
           Sum(n) == SumFunctionOnSet(all, 0..n)
           G == {n \in Nat : n \in Months => CumulativeCash(n) = Sum(n)}
<1>1. \A n \in Months : IsFiniteSet(0..n) /\ 0..n \subseteq Months /\ n \in 0..n
  <2> SUFFICES ASSUME NEW n \in Months
               PROVE  IsFiniteSet(0..n) /\ 0..n \subseteq Months /\ n \in 0..n
    OBVIOUS
  <2>1. n \in Nat /\ 0..n \subseteq Months
    BY MonthsAreNaturals
  <2> QED BY <2>1, FS_Interval
<1>2. \A k \in Months : all[k] = MonthBalance(k) /\ all[k] \in Int
  BY MonthOfShares
<1>3. ASSUME NEW n \in Nat, \A k \in 0..(n - 1) : k \in G, n \in Months
      PROVE  CumulativeCash(n) = Sum(n)
  <2>1. Sum(n) = all[n] + SumFunctionOnSet(all, (0..n) \ {n})
    <3> HIDE DEF all
    <3>1. \A k \in 0..n : all[k] \in Int
      BY <1>1, <1>2, <1>3
    <3> QED BY <1>1, <1>3, <3>1, SumOfOne
  <2>2. CumulativeCash(n) = (IF n = 0 THEN 0 ELSE CumulativeCash(n - 1)) + MonthBalance(n)
        /\ MonthBalance(n) \in Int
    BY <1>3, CashGrowsByTheMonth, MonthOfShares
  <2>3. CASE n = 0
    <3>1. (0..n) \ {n} = {}
      BY <2>3
    <3> QED BY <1>2, <1>3, <2>1, <2>2, <2>3, <3>1, SumOfNone
  <2>4. CASE n # 0
    <3>1. (0..n) \ {n} = 0..(n - 1) /\ n - 1 \in 0..(n - 1) /\ n - 1 \in Months
      BY <1>1, <1>3, <2>4
    <3>2. PICK c \in Int : c = CumulativeCash(n - 1)
      BY <3>1, CashGrowsByTheMonth
    <3>3. PICK b \in Int : b = MonthBalance(n)
      BY <2>2
    <3>4. SumFunctionOnSet(all, (0..n) \ {n}) = c
      BY <1>3, <3>1, <3>2
    <3>5. all[n] = b
      BY <1>2, <1>3, <3>3
    <3>6. Sum(n) = b + c
      BY <2>1, <3>4, <3>5
    <3>7. CumulativeCash(n) = c + b
      BY <2>2, <2>4, <3>2, <3>3
    <3> HIDE DEF all
    <3> QED BY <3>6, <3>7
  <2> QED BY <2>3, <2>4
<1>4. \A n \in Nat : n \in G
  <2>1. \A n \in Nat : (\A k \in 0..(n - 1) : k \in G) => n \in G
    BY <1>3
  <2> HIDE DEF G
  <2> QED BY <2>1, NatStrongInduction
<1>5. CumulativeCash(m) = Sum(m)
  BY <1>4, MonthsAreNaturals
<1>6. SumFunction([k \in 0..m |-> MonthBalance(k)]) = Sum(m)
  <2> DEFINE f == [k \in 0..m |-> MonthBalance(k)]
  <2>1. \A k \in 0..m : all[k] \in Int /\ f[k] = all[k]
    BY <1>1, <1>2
  <2>2. SumFunction(f) = SumFunctionOnSet(f, 0..m)
    BY DEF SumFunction
  <2>3. SumFunctionOnSet(f, 0..m) = SumFunctionOnSet(all, 0..m)
    <3> HIDE DEF f, all
    <3> QED BY <1>1, <2>1, SumOfSame
  <2> QED BY <2>2, <2>3
<1> QED BY <1>5, <1>6

\* The first k months from month y on add up to what the cash grew by over them.
LEMMA CashOfAYear ==
  ASSUME TypeOK, NEW y \in Nat, NEW k \in Nat \ {0}, y + k - 1 \in Months
  PROVE  SumFunction([i \in 1..k |-> MonthBalance(y + i - 1)])
           = CumulativeCash(y + k - 1) - (IF y = 0 THEN 0 ELSE CumulativeCash(y - 1))
<1> DEFINE f == [i \in 1..k |-> MonthBalance(y + i - 1)]
           before == IF y = 0 THEN 0 ELSE CumulativeCash(y - 1)
           Good(n) == SumFunctionOnSet(f, 1..n) = CumulativeCash(y + n - 1) - before
           G == {n \in Nat : n \in 1..k => Good(n)}
<1>1. \A n \in 0..k : IsFiniteSet(1..n) /\ (y + n # 0 => y + n - 1 \in Months)
  <2> SUFFICES ASSUME NEW n \in 0..k
               PROVE  IsFiniteSet(1..n) /\ (y + n # 0 => y + n - 1 \in Months)
    OBVIOUS
  <2>1. 0..(y + k - 1) \subseteq Months
    BY MonthsAreNaturals
  <2>2. IsFiniteSet(1..n)
    BY FS_Interval
  <2> QED BY <2>1, <2>2
<1>2. \A n \in 1..k : f[n] = MonthBalance(y + n - 1) /\ f[n] \in Int
  <2> SUFFICES ASSUME NEW n \in 1..k PROVE f[n] = MonthBalance(y + n - 1) /\ f[n] \in Int
    OBVIOUS
  <2>1. y + n - 1 \in Months
    BY <1>1
  <2> QED BY <2>1, MonthOfShares
<1>3. before \in Int
  <2>1. y # 0 => y - 1 \in Months
    BY <1>1
  <2> QED BY <2>1, CashGrowsByTheMonth
<1>4. ASSUME NEW n \in Nat, \A j \in 0..(n - 1) : j \in G, n \in 1..k PROVE Good(n)
  <2> DEFINE month == y + n - 1
  <2>0. n \in 0..k /\ y + n # 0
    BY <1>4
  <2>1. month \in Months /\ month \in Nat /\ n \in 0..k
    BY <1>1, <2>0, MonthsAreNaturals
  <2>2. PICK b \in Int : b = MonthBalance(month)
    BY <2>1, MonthOfShares
  <2>3. CumulativeCash(month) = (IF month = 0 THEN 0 ELSE CumulativeCash(month - 1)) + b
        /\ CumulativeCash(month) \in Int
    <3> HIDE DEF month
    <3> QED BY <2>1, <2>2, CashGrowsByTheMonth
  <2>4. SumFunctionOnSet(f, 1..n) = b + SumFunctionOnSet(f, (1..n) \ {n})
    <3>1. \A j \in 1..n : f[j] \in Int
      BY <1>2, <1>4
    <3>2. f[n] = b
      BY <1>2, <1>4, <2>2
    <3>3. n \in 1..n /\ IsFiniteSet(1..n)
      BY <1>1, <1>4
    <3> HIDE DEF f
    <3> QED BY <3>1, <3>2, <3>3, SumOfOne
  <2>5. CASE n = 1
    <3>1. (1..n) \ {n} = {} /\ month = y
      BY <2>5
    <3>2. SumFunctionOnSet(f, 1..n) = b
      <4> HIDE DEF f
      <4>1. SumFunctionOnSet(f, {}) = 0
        BY SumOfNone
      <4>2. SumFunctionOnSet(f, 1..n) = b + SumFunctionOnSet(f, {})
        BY <2>4, <3>1
      <4> QED BY <2>2, <4>1, <4>2
    <3>3. CumulativeCash(month) = before + b
      <4>1. CumulativeCash(y) = (IF y = 0 THEN 0 ELSE CumulativeCash(y - 1)) + b
        <5> HIDE DEF month
        <5> QED BY <2>3, <3>1
      <4> QED BY <3>1, <4>1
    <3> HIDE DEF before, f
    <3> QED BY <1>3, <2>2, <2>5, <3>1, <3>2, <3>3
  <2>6. CASE n # 1
    <3>1. /\ (1..n) \ {n} = 1..(n - 1) /\ n - 1 \in 0..(n - 1) /\ n - 1 \in 1..k
          /\ month # 0 /\ month - 1 = y + (n - 1) - 1 /\ month - 1 \in Months
      BY <1>1, <1>4, <2>1, <2>6
    <3>2. Good(n - 1)
      BY <1>4, <3>1
    <3>3. PICK c \in Int : c = CumulativeCash(month - 1)
      BY <3>1, CashGrowsByTheMonth
    <3>4. SumFunctionOnSet(f, 1..(n - 1)) = c - before
      BY <3>1, <3>2, <3>3
    <3>5. CumulativeCash(y + n - 1) = c + b
      BY <2>2, <2>3, <3>1, <3>3
    <3>6. SumFunctionOnSet(f, 1..n) = b + (c - before)
      BY <2>4, <3>1, <3>4
    <3> HIDE DEF before, f
    <3> QED BY <1>3, <3>5, <3>6
  <2> QED BY <2>5, <2>6
<1>5. \A n \in Nat : n \in G
  <2>1. \A n \in Nat : (\A j \in 0..(n - 1) : j \in G) => n \in G
    BY <1>4
  <2> HIDE DEF G
  <2> QED BY <2>1, NatStrongInduction
<1>6. Good(k)
  BY <1>5
<1>7. SumFunction(f) = SumFunctionOnSet(f, 1..k)
  BY DEF SumFunction
<1> QED BY <1>6, <1>7

LEMMA DividesWithRest ==
  ASSUME NEW m \in Nat, NEW n \in Nat \ {0}
  PROVE  /\ m \div n \in Nat /\ m % n \in 0..(n - 1)
         /\ (m \div n) * n \in Nat /\ m = (m \div n) * n + (m % n)
OBVIOUS

LEMMA FiguresAgree == TypeOK => CashIsWhatTheMonthsSay
<1> SUFFICES ASSUME TypeOK, NEW m \in Months
             PROVE  LET year == m \div MonthsPerYear
                        before == year * MonthsPerYear - 1
                    IN /\ CumulativeCash(m) = SumFunction([k \in 0..m |-> MonthBalance(k)])
                       /\ YearBalance(year, (m % MonthsPerYear) + 1)
                            = CumulativeCash(m)
                                - IF before < 0 THEN 0 ELSE CumulativeCash(before)
  BY DEF CashIsWhatTheMonthsSay
<1> DEFINE year == m \div MonthsPerYear
           y == year * MonthsPerYear
           k == (m % MonthsPerYear) + 1
<1>1. m \in Nat /\ MonthsPerYear \in Nat \ {0}
  BY MonthsAreNaturals, CalendarIsOne
<1>2. y \in Nat /\ k \in Nat \ {0} /\ k <= MonthsPerYear /\ y + k - 1 = m
  <2> DEFINE rest == m % MonthsPerYear
  <2>1. y \in Nat /\ rest \in 0..(MonthsPerYear - 1) /\ m = y + rest
    BY <1>1, DividesWithRest
  <2> HIDE DEF rest, y
  <2>2. rest + 1 \in Nat \ {0} /\ rest + 1 <= MonthsPerYear /\ y + (rest + 1) - 1 = m
    BY <1>1, <2>1
  <2> QED BY <2>1, <2>2 DEF rest
<1>3. Min({MonthsPerYear, Max({1, k})}) = k
  <2> HIDE DEF k
  <2>1. Max({1, k}) = k
    BY <1>2, MaxOfTwo
  <2> QED BY <1>1, <1>2, <2>1, MinOfTwo
<1>4. YearBalance(year, k) = SumFunction([i \in 1..k |-> MonthBalance(y + i - 1)])
  <2> HIDE DEF k, year
  <2> QED BY <1>3 DEF YearBalance
<1>5. YearBalance(year, k) = CumulativeCash(m) - (IF y = 0 THEN 0 ELSE CumulativeCash(y - 1))
  <2> HIDE DEF k, y
  <2> QED BY <1>2, <1>4, CashOfAYear
<1>6. y - 1 < 0 <=> y = 0
  <2> HIDE DEF y
  <2> QED BY <1>2
<1> QED BY <1>5, <1>6, CashIsTheMonths

(***************************************************************************)
(* The recorded cash, counted by subtraction, is the sum of the months     *)
(* expanded one by one, and the year to date what it grew by since the     *)
(* year before (cumulativeCash, yearBalance, monthBalance).                *)
(***************************************************************************)
THEOREM CashAddsUp == Spec => []CashIsWhatTheMonthsSay
BY TypeCorrect, FiguresAgree, PTL
-----------------------------------------------------------------------------
(* Windows. *)

LEMMA DateOrder ==
  ASSUME NEW a \in Dates, NEW b \in Dates
  PROVE  /\ NotAfter(a, b) <=> a.month < b.month \/ (a.month = b.month /\ a.day <= b.day)
         /\ a = b <=> a.month = b.month /\ a.day = b.day
         /\ a.month \in Nat /\ a.day \in Nat \ {0} /\ a.day <= DaysIn[a.month]
         /\ DaysIn[a.month] \in Nat
<1>1. \A d \in Dates : d = Date(d.month, d.day)
  <2> SUFFICES ASSUME NEW d \in Dates PROVE d = Date(d.month, d.day)
    OBVIOUS
  <2>1. PICK m \in Months : d \in {Date(m, x) : x \in 1..DaysIn[m]}
    BY DEF Dates
  <2>2. PICK x \in 1..DaysIn[m] : d = Date(m, x)
    BY <2>1
  <2> QED BY <2>2 DEF Date
<1>2. /\ a.month \in Months /\ a.day \in 1..DaysIn[a.month] /\ a.month \in Nat /\ a.day \in Nat
  BY DateParts
<1>3. DaysIn[a.month] \in Nat
  BY <1>2, CalendarIsOne
<1>4. a.day \in Nat \ {0} /\ a.day <= DaysIn[a.month]
  BY <1>2, <1>3
<1>5. a = b <=> a.month = b.month /\ a.day = b.day
  BY <1>1
<1> QED BY <1>2, <1>3, <1>4, <1>5 DEF NotAfter

\* All there is to expand, and what of it falls in a window.
Occurring == UNION {OccurrencesInMonth(m) : m \in Months}
InWindow(from, to) == {o \in Occurring : Within(o.date, from, to)}
Value == [o \in Occurring |-> Worth(o.id)]

LEMMA OccurrenceParts ==
  ASSUME TypeOK, NEW m \in Months, NEW o \in OccurrencesInMonth(m)
  PROVE  /\ o \in Occurring /\ o.id \in Live /\ FallsIn(entry[o.id], m)
         /\ o.date \in Dates /\ o.date.month = m
<1>1. PICK e \in {x \in Live : FallsIn(entry[x], m)} :
         o = [id |-> e, date |-> OccurrenceDate(entry[e], m)]
  BY DEF OccurrencesInMonth
<1>2. o.id = e /\ o.date = OccurrenceDate(entry[e], m)
  BY <1>1
<1>3. entry[e].entryDate.day \in Nat \ {0} /\ DaysIn[m] \in Nat \ {0}
  <2>1. entry[e].entryDate \in Dates
    BY LiveRows DEF Row
  <2> QED BY <2>1, DateOrder, MonthEnds
<1>4. Min({entry[e].entryDate.day, DaysIn[m]}) \in 1..DaysIn[m]
  <2> DEFINE d == entry[e].entryDate.day
             n == DaysIn[m]
  <2> HIDE DEF d, n
  <2>1. d \in Nat \ {0} /\ n \in Nat \ {0}
    BY <1>3 DEF d, n
  <2>2. Min({d, n}) \in 1..n
    BY <2>1, MinOfTwo
  <2> QED BY <2>2 DEF d, n
<1>5. OccurrenceDate(entry[e], m) \in Dates /\ OccurrenceDate(entry[e], m).month = m
  BY <1>4 DEF OccurrenceDate, Dates, Date
<1> QED BY <1>1, <1>2, <1>5 DEF Occurring

LEMMA OccurringHasMonths ==
  ASSUME TypeOK, NEW o \in Occurring
  PROVE  /\ o.date \in Dates /\ o.date.month \in Months
         /\ o \in OccurrencesInMonth(o.date.month)
         /\ o.id \in Live /\ FallsIn(entry[o.id], o.date.month)
<1>1. PICK m \in Months : o \in OccurrencesInMonth(m)
  BY DEF Occurring
<1> QED BY <1>1, OccurrenceParts

LEMMA OccurringIsFinite ==
  ASSUME TypeOK
  PROVE  IsFiniteSet(Occurring)
<1>1. ASSUME NEW m \in Months PROVE IsFiniteSet(OccurrencesInMonth(m))
  <2> DEFINE S == {e \in Live : FallsIn(entry[e], m)}
             b == [e \in S |-> [id |-> e, date |-> OccurrenceDate(entry[e], m)]]
  <2>1. IsFiniteSet(S)
    BY LiveRows, FS_Subset
  <2>2. OccurrencesInMonth(m) = {b[e] : e \in S}
    BY DEF OccurrencesInMonth
  <2> HIDE DEF S, b
  <2> QED BY <2>1, <2>2, ImageIsFinite
<1>2. IsFiniteSet({OccurrencesInMonth(m) : m \in Months})
  <2> DEFINE b == [m \in Months |-> OccurrencesInMonth(m)]
  <2>1. IsFiniteSet(Months)
    BY CalendarIsOne, FS_Interval DEF Months
  <2>2. {OccurrencesInMonth(m) : m \in Months} = {b[m] : m \in Months}
    OBVIOUS
  <2> HIDE DEF b
  <2> QED BY <2>1, <2>2, ImageIsFinite
<1> QED BY <1>1, <1>2, FS_UNION DEF Occurring

LEMMA NetIs ==
  ASSUME TypeOK, NEW S, S \subseteq Occurring
  PROVE  /\ IsFiniteSet(S) /\ Net(S) = SumFunctionOnSet(Value, S)
         /\ \A o \in S : Value[o] \in Int
<1> DEFINE f == [o \in S |-> Signed(entry[o.id])]
<1>1. IsFiniteSet(S)
  BY OccurringIsFinite, FS_Subset
<1>2. \A o \in S : Value[o] \in Int /\ f[o] = Value[o]
  BY OccurringHasMonths, LiveRows DEF Value, Worth
<1>3. Net(S) = SumFunctionOnSet(f, S)
  BY DEF Net, SumFunction
<1>4. SumFunctionOnSet(f, S) = SumFunctionOnSet(Value, S)
  <2> HIDE DEF f
  <2> QED BY <1>1, <1>2, SumOfSame
<1> QED BY <1>1, <1>2, <1>3, <1>4

LEMMA NetOfUnion ==
  ASSUME TypeOK, NEW S, NEW T, S \subseteq Occurring, T \subseteq Occurring,
         S \intersect T = {}
  PROVE  Net(S \union T) = Net(S) + Net(T)
<1>1. S \union T \subseteq Occurring
  OBVIOUS
<1>2. /\ IsFiniteSet(S) /\ Net(S) = SumFunctionOnSet(Value, S)
      /\ IsFiniteSet(T) /\ Net(T) = SumFunctionOnSet(Value, T)
      /\ Net(S \union T) = SumFunctionOnSet(Value, S \union T)
      /\ \A o \in S \union T : Value[o] \in Int
  BY <1>1, NetIs
<1> QED BY <1>2, SumOfUnion

\* The months of a window are those of the occurrences within it.
LEMMA WindowIsRange ==
  ASSUME TypeOK, NEW a \in Dates, NEW b \in Dates
  PROVE  RangeBalance(a, b) = Net(InWindow(a, b))
<1> DEFINE M == MonthsBetween(a, b)
           W == {o \in UNION {OccurrencesInMonth(m) : m \in M} : Within(o.date, a, b)}
<1>1. /\ a.month \in Nat /\ b.month \in Nat
      /\ a.month \in Months /\ b.month \in Months
  BY DateParts
<1>2. M = a.month..b.month /\ M \subseteq Months
  <2>1. 0..b.month \subseteq Months
    BY <1>1, MonthsAreNaturals
  <2> QED BY <1>1, <2>1 DEF MonthsBetween
<1>3. ASSUME NEW o \in InWindow(a, b) PROVE o \in W
  <2>1. o \in Occurring /\ NotAfter(a, o.date) /\ NotAfter(o.date, b)
    BY DEF InWindow, Within
  <2>2. o.date \in Dates /\ o \in OccurrencesInMonth(o.date.month)
    BY <2>1, OccurringHasMonths
  <2>3. a.month <= o.date.month /\ o.date.month <= b.month /\ o.date.month \in Nat
    BY <1>1, <2>1, <2>2, DateOrder
  <2>4. o.date.month \in M
    BY <1>1, <1>2, <2>3
  <2> QED BY <2>1, <2>2, <2>4 DEF Within
<1>4. ASSUME NEW o \in W PROVE o \in InWindow(a, b)
  <2>1. PICK m \in M : o \in OccurrencesInMonth(m)
    OBVIOUS
  <2> QED BY <1>2, <2>1 DEF InWindow, Occurring
<1>5. W = InWindow(a, b)
  BY <1>3, <1>4
<1> QED BY <1>5 DEF RangeBalance

LEMMA WindowsAddUp ==
  ASSUME TypeOK, NEW from \in Dates, NEW to \in Dates, NotAfter(from, to), from # to
  PROVE  LET next == IF from.day < DaysIn[from.month]
                     THEN Date(from.month, from.day + 1) ELSE FirstOf(from.month + 1)
         IN RangeBalance(from, to) = RangeBalance(from, from) + RangeBalance(next, to)
<1> DEFINE next == IF from.day < DaysIn[from.month]
                   THEN Date(from.month, from.day + 1) ELSE FirstOf(from.month + 1)
<1>0. /\ from.month \in Nat /\ from.day \in Nat \ {0} /\ from.day <= DaysIn[from.month]
      /\ DaysIn[from.month] \in Nat /\ from.month \in Months
      /\ to.month \in Nat /\ to.day \in Nat \ {0} /\ to.day <= DaysIn[to.month]
      /\ to.month \in Months
  BY DateOrder, DateParts
<1>1. /\ next \in Dates
      /\ IF from.day < DaysIn[from.month]
         THEN next.month = from.month /\ next.day = from.day + 1
         ELSE next.month = from.month + 1 /\ next.day = 1
  <2>1. CASE from.day < DaysIn[from.month]
    <3>1. from.day + 1 \in 1..DaysIn[from.month]
      BY <1>0, <2>1
    <3> QED BY <1>0, <2>1, <3>1 DEF Dates, Date
  <2>2. CASE ~(from.day < DaysIn[from.month])
    <3>1. from.month < to.month
      <4>1. from.month = to.month => to.day = from.day
        BY <1>0, <2>2, DateOrder
      <4> QED BY <1>0, <4>1, DateOrder
    <3>2. from.month + 1 \in Months
      BY <1>0, <3>1, CalendarIsOne DEF Months
    <3> QED BY <2>2, <3>2, MonthEnds
  <2> QED BY <2>1, <2>2
<1>2. ASSUME NEW d \in Dates
      PROVE  /\ NotAfter(from, d) <=> d = from \/ NotAfter(next, d)
             /\ ~(NotAfter(next, d) /\ NotAfter(d, from))
             /\ d = from <=> NotAfter(from, d) /\ NotAfter(d, from)
  <2>1. d.month \in Nat /\ d.day \in Nat \ {0} /\ d.day <= DaysIn[d.month]
    BY DateOrder
  <2>2. /\ NotAfter(from, d) <=> from.month < d.month
                                  \/ (from.month = d.month /\ from.day <= d.day)
        /\ NotAfter(d, from) <=> d.month < from.month
                                  \/ (d.month = from.month /\ d.day <= from.day)
        /\ d = from <=> d.month = from.month /\ d.day = from.day
    BY DateOrder
  <2>3. NotAfter(next, d) <=> next.month < d.month
                               \/ (next.month = d.month /\ next.day <= d.day)
    <3> HIDE DEF next
    <3> QED BY <1>1, DateOrder
  <2> HIDE DEF next
  <2>4. CASE from.day < DaysIn[from.month]
    <3>1. next.month = from.month /\ next.day = from.day + 1
      BY <1>1, <2>4
    <3> QED BY <1>0, <2>1, <2>2, <2>3, <3>1
  <2>5. CASE ~(from.day < DaysIn[from.month])
    <3>1. next.month = from.month + 1 /\ next.day = 1
      BY <1>1, <2>5
    <3>2. d.month = from.month => d.day <= from.day
      BY <1>0, <2>1, <2>5
    <3> QED BY <1>0, <2>1, <2>2, <2>3, <3>1, <3>2
  <2> QED BY <2>4, <2>5
<1>3. \A o \in Occurring : o.date \in Dates
  BY OccurringHasMonths
<1>4. InWindow(from, to) = InWindow(from, from) \union InWindow(next, to)
  <2> HIDE DEF next
  <2> QED BY <1>2, <1>3 DEF InWindow, Within
<1>5. InWindow(from, from) \intersect InWindow(next, to) = {}
  <2> HIDE DEF next
  <2> QED BY <1>2, <1>3 DEF InWindow, Within
<1>6. Net(InWindow(from, to)) = Net(InWindow(from, from)) + Net(InWindow(next, to))
  <2> HIDE DEF next
  <2>1. InWindow(from, from) \subseteq Occurring /\ InWindow(next, to) \subseteq Occurring
    BY DEF InWindow
  <2> QED BY <1>4, <1>5, <2>1, NetOfUnion
<1>7. RangeBalance(from, to) = RangeBalance(from, from) + RangeBalance(next, to)
  <2> HIDE DEF next
  <2> QED BY <1>1, <1>6, WindowIsRange
<1> QED BY <1>7

LEMMA MonthIsAWindow ==
  ASSUME TypeOK, NEW m \in Months
  PROVE  /\ InWindow(FirstOf(m), LastOf(m)) = OccurrencesInMonth(m)
         /\ RangeBalance(FirstOf(m), LastOf(m)) = MonthBalance(m)
<1>1. /\ FirstOf(m) \in Dates /\ FirstOf(m).month = m /\ FirstOf(m).day = 1
      /\ LastOf(m) \in Dates /\ LastOf(m).month = m /\ LastOf(m).day = DaysIn[m]
      /\ m \in Nat
  BY MonthEnds
<1>2. ASSUME NEW o \in Occurring
      PROVE  Within(o.date, FirstOf(m), LastOf(m)) <=> o \in OccurrencesInMonth(m)
  <2>1. /\ o.date \in Dates /\ o.date.month \in Nat /\ o.date.day \in Nat \ {0}
        /\ o.date.day <= DaysIn[o.date.month]
        /\ o \in OccurrencesInMonth(o.date.month)
    BY OccurringHasMonths, DateOrder
  <2>2. Within(o.date, FirstOf(m), LastOf(m)) <=> o.date.month = m
    <3>1. NotAfter(FirstOf(m), o.date) <=> m <= o.date.month
      BY <1>1, <2>1, DateOrder
    <3>2. NotAfter(o.date, LastOf(m)) <=> o.date.month <= m
      <4>1. o.date.month = m => o.date.day <= LastOf(m).day
        BY <1>1, <2>1
      <4> QED BY <1>1, <2>1, <4>1, DateOrder
    <3> QED BY <1>1, <2>1, <3>1, <3>2 DEF Within
  <2>3. o \in OccurrencesInMonth(m) => o.date.month = m
    BY OccurrenceParts
  <2> QED BY <2>1, <2>2, <2>3
<1>3. OccurrencesInMonth(m) \subseteq Occurring
  BY DEF Occurring
<1>4. InWindow(FirstOf(m), LastOf(m)) = OccurrencesInMonth(m)
  BY <1>2, <1>3 DEF InWindow
<1> QED BY <1>1, <1>4, WindowIsRange DEF MonthBalance

\* The recorded cash is the window from the first day on.
LEMMA CashIsAWindow ==
  ASSUME TypeOK, NEW m \in Months
  PROVE  Net(InWindow(FirstOf(0), LastOf(m))) = CumulativeCash(m)
<1> DEFINE T(n) == {o \in Occurring : o.date.month <= n}
           G == {n \in Nat : n \in Months => Net(T(n)) = CumulativeCash(n)}
<1>1. \A o \in Occurring : o.date.month \in Nat /\ o \in OccurrencesInMonth(o.date.month)
  BY OccurringHasMonths, MonthsAreNaturals
<1>2. \A n \in Months : /\ OccurrencesInMonth(n) \subseteq Occurring
                        /\ \A o \in OccurrencesInMonth(n) : o.date.month = n
  BY OccurrenceParts
<1>3. ASSUME NEW n \in Nat, \A k \in 0..(n - 1) : k \in G, n \in Months
      PROVE  Net(T(n)) = CumulativeCash(n)
  <2>1. /\ MonthBalance(n) = Net(OccurrencesInMonth(n)) /\ MonthBalance(n) \in Int
        /\ CumulativeCash(n) = (IF n = 0 THEN 0 ELSE CumulativeCash(n - 1)) + MonthBalance(n)
    BY <1>3, MonthOfShares, CashGrowsByTheMonth DEF MonthBalance
  <2>2. CASE n = 0
    <3>1. T(n) = OccurrencesInMonth(n)
      BY <1>1, <1>2, <1>3, <2>2
    <3> HIDE DEF T
    <3> QED BY <2>1, <2>2, <3>1
  <2>3. CASE n # 0
    <3>1. T(n) = T(n - 1) \union OccurrencesInMonth(n)
      BY <1>1, <1>2, <1>3, <2>3
    <3>2. T(n - 1) \intersect OccurrencesInMonth(n) = {}
      BY <1>2, <1>3, <2>3
    <3>3. T(n - 1) \subseteq Occurring /\ OccurrencesInMonth(n) \subseteq Occurring
      BY <1>2, <1>3
    <3>4. Net(T(n - 1)) = CumulativeCash(n - 1)
      BY <1>3, <2>3, MonthsAreNaturals
    <3> HIDE DEF T
    <3>5. Net(T(n)) = Net(T(n - 1)) + Net(OccurrencesInMonth(n))
      BY <3>1, <3>2, <3>3, NetOfUnion
    <3> QED BY <2>1, <2>3, <3>4, <3>5
  <2> QED BY <2>2, <2>3
<1>4. \A n \in Nat : n \in G
  <2>1. \A n \in Nat : (\A k \in 0..(n - 1) : k \in G) => n \in G
    BY <1>3
  <2> HIDE DEF G
  <2> QED BY <2>1, NatStrongInduction
<1>5. InWindow(FirstOf(0), LastOf(m)) = T(m)
  <2>1. m \in Nat /\ 0 \in Months
    BY MonthsAreNaturals, CalendarIsOne DEF Months
  <2>2. /\ FirstOf(0) \in Dates /\ FirstOf(0).month = 0 /\ FirstOf(0).day = 1
        /\ LastOf(m) \in Dates /\ LastOf(m).month = m /\ LastOf(m).day = DaysIn[m]
    BY <2>1, MonthEnds
  <2>3. ASSUME NEW o \in Occurring
        PROVE  Within(o.date, FirstOf(0), LastOf(m)) <=> o.date.month <= m
    <3>1. /\ o.date \in Dates /\ o.date.month \in Nat /\ o.date.day \in Nat \ {0}
          /\ o.date.day <= DaysIn[o.date.month]
      BY OccurringHasMonths, DateOrder
    <3>2. NotAfter(FirstOf(0), o.date)
      BY <2>2, <3>1, DateOrder
    <3>3. NotAfter(o.date, LastOf(m)) <=> o.date.month <= m
      <4>1. o.date.month = m => o.date.day <= LastOf(m).day
        BY <2>2, <3>1
      <4> QED BY <2>1, <2>2, <3>1, <4>1, DateOrder
    <3> QED BY <3>2, <3>3 DEF Within
  <2> QED BY <2>3 DEF InWindow
<1> QED BY <1>4, <1>5, MonthsAreNaturals

\* Nothing occurs before "maximum" begins.
LEMMA MaximumShowsAll ==
  ASSUME TypeOK, NEW m \in Months
  PROVE  AllTimeFrom(m) \in Dates
         /\ InWindow(AllTimeFrom(m), LastOf(m)) = InWindow(FirstOf(0), LastOf(m))
<1> DEFINE M == {entry[e].entryDate.month : e \in Live}
                  \union IF Live = {} THEN {m} ELSE {}
<1>1. M \in SUBSET Months /\ M \in SUBSET Nat /\ M # {}
  <2>1. \A e \in Live : entry[e].entryDate.month \in Months /\ entry[e].entryDate.month \in Nat
    <3> SUFFICES ASSUME NEW e \in Live
                 PROVE  entry[e].entryDate.month \in Months
                        /\ entry[e].entryDate.month \in Nat
      OBVIOUS
    <3>1. entry[e].entryDate \in Dates
      BY LiveRows DEF Row
    <3> QED BY <3>1, DateParts
  <2> QED BY <2>1, MonthsAreNaturals
<1>2. Min(M) \in M /\ \A k \in M : Min(M) <= k
  <2> HIDE DEF M
  <2> QED BY <1>1, LeastExists DEF Min
<1>3. PICK k \in M : k = Min(M) /\ \A j \in M : k <= j
  BY <1>2
<1>4. AllTimeFrom(m) = FirstOf(k) /\ k \in Months /\ k \in Nat
  BY <1>1, <1>3 DEF AllTimeFrom
<1>5. /\ FirstOf(k) \in Dates /\ FirstOf(k).month = k /\ FirstOf(k).day = 1
      /\ FirstOf(0) \in Dates /\ FirstOf(0).month = 0 /\ FirstOf(0).day = 1
  BY <1>4, MonthEnds, CalendarIsOne DEF Months
<1>6. ASSUME NEW o \in Occurring
      PROVE  NotAfter(FirstOf(k), o.date) /\ NotAfter(FirstOf(0), o.date)
  <2>1. /\ o.date \in Dates /\ o.date.month \in Months /\ o.id \in Live
        /\ FallsIn(entry[o.id], o.date.month)
    BY OccurringHasMonths
  <2>2. o.date.month \in Nat /\ o.date.day \in Nat \ {0}
    BY <2>1, DateOrder
  <2>3. entry[o.id] \in Row /\ entry[o.id].entryDate.month \in Nat
    <3>1. entry[o.id] \in Row /\ entry[o.id].entryDate \in Dates
      BY <2>1, LiveRows DEF Row
    <3> QED BY <3>1, DateParts
  <2>4. entry[o.id].entryDate.month <= o.date.month
    BY <2>1, <2>2, <2>3, FallsInMonths
  <2>5. k <= entry[o.id].entryDate.month
    BY <1>3, <2>1
  <2>6. k <= o.date.month
    BY <1>4, <2>2, <2>3, <2>4, <2>5
  <2> QED BY <1>4, <1>5, <2>1, <2>2, <2>6, DateOrder
<1>7. InWindow(FirstOf(k), LastOf(m)) = InWindow(FirstOf(0), LastOf(m))
  BY <1>6 DEF InWindow, Within
<1> QED BY <1>4, <1>5, <1>7

LEMMA WindowsAgree == TypeOK => RangesAddUp
<1> SUFFICES ASSUME TypeOK PROVE RangesAddUp
  OBVIOUS
<1>1. ASSUME NEW m \in Months
      PROVE  RangeBalance(AllTimeFrom(m), LastOf(m)) = CumulativeCash(m)
  BY MaximumShowsAll, CashIsAWindow, WindowIsRange, MonthEnds
<1> QED BY <1>1, WindowsAddUp, MonthIsAWindow DEF RangesAddUp

(***************************************************************************)
(* However a window is cut, nothing in it is counted twice or left out; a  *)
(* window of one month is the month, and "maximum" up to the end of a      *)
(* month is the recorded cash (rangeBalance, monthsBetween, allTimeBounds).*)
(***************************************************************************)
THEOREM WindowsHold == Spec => []RangesAddUp
BY TypeCorrect, WindowsAgree, PTL
=============================================================================
