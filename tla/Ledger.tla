------------------------------- MODULE Ledger -------------------------------
(***************************************************************************)
(* The household ledger: one-off entries and monthly series, which are one *)
(* row each and expanded on read, the figures the screens compute from     *)
(* them, and the tabs that correct, end and delete what they have drawn,   *)
(* however long ago.                                                       *)
(*                                                                         *)
(* A month is its index, year * 12 + (month - 1) in the code, and a date   *)
(* is a day of a month.                                                    *)
(*                                                                         *)
(* Source: src/lib/finance/recurring.ts, balance.ts, src/lib/db/finance.ts *)
(* and src/app/(app)/finance.                                              *)
(***************************************************************************)
EXTENDS Integers, FiniteSets, FiniteSetsExt

CONSTANTS
  Entries,        \* the ids rows may have
  Tabs,
  LastMonth,      \* bound on the calendar, whose first month is 0
  DaysIn,         \* the days of each month
  MonthsPerYear,
  Amounts,
  None

Months == 0..LastMonth

ASSUME CalendarIsOne ==
  /\ LastMonth \in Nat /\ MonthsPerYear \in Nat \ {0}
  /\ DaysIn \in [Months -> Nat \ {0}]
ASSUME AmountsArePositive == Amounts \subseteq Nat \ {0}
ASSUME EntriesAreFinite == IsFiniteSet(Entries)

VARIABLES
  entry,   \* the rows of finance_entries, None where there is none
  drawn    \* the occurrence of a series a tab shows, None where it shows none

vars == <<entry, drawn>>

Date(m, d) == [month |-> m, day |-> d]
Dates == UNION {{Date(m, d) : d \in 1..DaysIn[m]} : m \in Months}
FirstOf(m) == Date(m, 1)
LastOf(m) == Date(m, DaysIn[m])
NotAfter(a, b) == a.month < b.month \/ (a.month = b.month /\ a.day <= b.day)
Within(date, from, to) == NotAfter(from, date) /\ NotAfter(date, to)

Row == [type : {"income", "expense"}, amountIls : Amounts, entryDate : Dates,
        isRecurring : BOOLEAN, recurringUntil : Dates \union {None}]
Occurrence == [id : Entries, month : Months]

ASSUME NoneAssumption == None \notin Row \union Occurrence \union Dates

Live == {e \in Entries : entry[e] # None}

-----------------------------------------------------------------------------
(***************************************************************************)
(* The expansion of the rows into the occurrences of a month.              *)
(***************************************************************************)
FallsIn(row, m) ==
  IF row.isRecurring
  THEN /\ NotAfter(row.entryDate, LastOf(m))
       /\ row.recurringUntil # None => NotAfter(FirstOf(m), row.recurringUntil)
  ELSE Within(row.entryDate, FirstOf(m), LastOf(m))

\* The 31st is the 30th in April and the 28th in February.
OccurrenceDate(row, m) == Date(m, Min({row.entryDate.day, DaysIn[m]}))

\* As OccurrencesInMonth, but a month too short for its day is skipped.
OccurrencesInMonth_Skips(m) ==
  {[id |-> e, date |-> OccurrenceDate(entry[e], m)] :
     e \in {x \in Live : FallsIn(entry[x], m) /\ entry[x].entryDate.day <= DaysIn[m]}}

OccurrencesInMonth(m) ==
  {[id |-> e, date |-> OccurrenceDate(entry[e], m)] :
     e \in {x \in Live : FallsIn(entry[x], m)}}

Signed(row) == IF row.type = "income" THEN row.amountIls ELSE -row.amountIls
Net(occurrences) == SumFunction([o \in occurrences |-> Signed(entry[o.id])])

-----------------------------------------------------------------------------
(***************************************************************************)
(* The figures of the screens.                                             *)
(***************************************************************************)
MonthBalance(m) == Net(OccurrencesInMonth(m))

\* As MonthsBetween, but without the month the window ends in.
MonthsBetween_Exclusive(from, to) == from.month..(to.month - 1)

MonthsBetween(from, to) == from.month..to.month

RangeBalance(from, to) ==
  Net({o \in UNION {OccurrencesInMonth(m) : m \in MonthsBetween(from, to)} :
         Within(o.date, from, to)})

\* January through throughMonth, of the given year.
YearBalance(year, throughMonth) ==
  LET count == Min({MonthsPerYear, Max({1, throughMonth})})
  IN SumFunction([i \in 1..count |-> MonthBalance(year * MonthsPerYear + i - 1)])

\* How often a row falls in the months up to through: counted, not iterated.
TimesThrough(row, through) ==
  LET start == row.entryDate.month
      end == IF row.recurringUntil = None THEN through ELSE row.recurringUntil.month
  IN IF start > through THEN 0
     ELSE IF ~row.isRecurring THEN 1
     ELSE Max({0, Min({end, through}) - start + 1})

CumulativeCash(through) ==
  SumFunction([e \in Live |-> Signed(entry[e]) * TimesThrough(entry[e], through)])

\* Where "maximum" begins on the screen of a month that starts at today.
AllTimeFrom(today) ==
  FirstOf(Min({entry[e].entryDate.month : e \in Live}
                \union IF Live = {} THEN {today} ELSE {}))

-----------------------------------------------------------------------------
(***************************************************************************)
(* What the trader does.  The page is drawn again after each action, which *)
(* is Draw; a tab that is left alone goes on showing what it showed.       *)
(***************************************************************************)
Init ==
  /\ entry = [e \in Entries |-> None]
  /\ drawn = [t \in Tabs |-> None]

Create(e) ==
  /\ entry[e] = None
  /\ \E row \in [type : {"income", "expense"}, amountIls : Amounts, entryDate : Dates,
                 isRecurring : BOOLEAN, recurringUntil : {None}] :
       entry' = [entry EXCEPT ![e] = row]
  /\ UNCHANGED drawn

\* As Corrected, but a date that is not posted is written as none.
Corrected_WritesNoDate(row, type, amount, date) ==
  [row EXCEPT !.type = type, !.amountIls = amount, !.entryDate = date]

Corrected(row, type, amount, date) ==
  [row EXCEPT !.type = type, !.amountIls = amount,
              !.entryDate = IF date = None THEN @ ELSE date]

\* As PostedDates, but the editor of a series posts one too.
PostedDates_Always(row) == Dates

\* The editor of a series posts no date, and that of a one-off always one.
PostedDates(row) == IF row.isRecurring THEN {None} ELSE Dates

\* The values are the trader's, so a form drawn long ago is among them.
Correct(e) ==
  /\ entry[e] # None
  /\ \E type \in {"income", "expense"}, amount \in Amounts, date \in PostedDates(entry[e]) :
       entry' = [entry EXCEPT ![e] = Corrected(@, type, amount, date)]
  /\ UNCHANGED drawn

\* A tab draws an occurrence of a series, with the button that ends it there.
Draw(t) ==
  /\ \E o \in Occurrence :
       /\ entry[o.id] # None
       /\ entry[o.id].isRecurring /\ FallsIn(entry[o.id], o.month)
       /\ drawn' = [drawn EXCEPT ![t] = o]
  /\ UNCHANGED entry

\* As Ended, but on the last day of the month before.
Ended_MonthBefore(row, m) ==
  [row EXCEPT !.recurringUntil = IF m = 0 THEN FirstOf(0) ELSE LastOf(m - 1)]

Ended(row, m) == [row EXCEPT !.recurringUntil = LastOf(m)]

EndRecurringSeries(t) ==
  /\ drawn[t] # None
  /\ entry' = [entry EXCEPT ![drawn[t].id] = Ended(@, drawn[t].month)]
  /\ UNCHANGED drawn

\* One row, or the rows picked in the list.  What a tab still shows of them is gone: its
\* buttons name an id that matches nothing.
Delete(ids) ==
  /\ ids # {}
  /\ entry' = [e \in Entries |-> IF e \in ids THEN None ELSE entry[e]]
  /\ drawn' = [t \in Tabs |-> IF drawn[t] # None /\ drawn[t].id \in ids
                              THEN None ELSE drawn[t]]

Next ==
  \/ \E e \in Entries : Create(e) \/ Correct(e)
  \/ \E t \in Tabs : Draw(t) \/ EndRecurringSeries(t)
  \/ \E ids \in SUBSET Live : Delete(ids)

Spec == Init /\ [][Next]_vars

-----------------------------------------------------------------------------
\* The rows and the tabs are of their types, and a tab shows rows that exist.
TypeOK ==
  /\ entry \in [Entries -> Row \union {None}]
  /\ drawn \in [Tabs -> Occurrence \union {None}]
  /\ \A t \in Tabs : drawn[t] # None => entry[drawn[t].id] # None

\* The recorded cash is counted by subtraction and the months by expansion, and they agree:
\* "the count must agree exactly with occurrencesInMonth".  The year to date is what the
\* cash grew by since the year before.
CashIsWhatTheMonthsSay ==
  \A m \in Months :
    LET year == m \div MonthsPerYear
        before == year * MonthsPerYear - 1
    IN /\ CumulativeCash(m) = SumFunction([k \in 0..m |-> MonthBalance(k)])
       /\ YearBalance(year, (m % MonthsPerYear) + 1)
            = CumulativeCash(m) - IF before < 0 THEN 0 ELSE CumulativeCash(before)

\* A window is its first day and the days after it, so however it is cut nothing is counted
\* twice or left out; a window of one month is the month, and "maximum" up to the end of a
\* month is the recorded cash.
RangesAddUp ==
  /\ \A from \in Dates, to \in Dates : NotAfter(from, to) /\ from # to =>
       LET next == IF from.day < DaysIn[from.month]
                   THEN Date(from.month, from.day + 1) ELSE FirstOf(from.month + 1)
       IN RangeBalance(from, to) = RangeBalance(from, from) + RangeBalance(next, to)
  /\ \A m \in Months :
       /\ RangeBalance(FirstOf(m), LastOf(m)) = MonthBalance(m)
       /\ RangeBalance(AllTimeFrom(m), LastOf(m)) = CumulativeCash(m)

\* "Closing the series keeps history intact": while a series exists its months change only
\* where a tab shows it.  It loses a month only to the button of an earlier occurrence, and
\* gets one back only from the button of one drawn before it was ended.  Corrections move
\* no month at all, "because they cannot say it".
SeriesKeepsItsMonths ==
  [][\A e \in Live : entry[e].isRecurring /\ entry'[e] # None =>
       \A m \in Months :
         LET shown == {drawn[t].month : t \in {t \in Tabs : drawn[t] # None /\ drawn[t].id = e}}
         IN /\ FallsIn(entry[e], m) =>
                 \/ FallsIn(entry'[e], m)
                    /\ OccurrenceDate(entry'[e], m) = OccurrenceDate(entry[e], m)
                 \/ \E k \in shown : k < m
            /\ ~FallsIn(entry[e], m) /\ FallsIn(entry'[e], m) =>
                 \E k \in shown : k >= m /\ ~FallsIn(entry[e], k)]_vars
=============================================================================
