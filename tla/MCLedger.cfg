SPECIFICATION Spec
CONSTANTS
  Entries = {e1, e2}
  Tabs = {t1, t2}
  LastMonth = 3
  DaysIn <- MCDaysIn
  MonthsPerYear = 2
  Amounts = {1}
  None = None
SYMMETRY Symmetry
INVARIANTS TypeOK CashIsWhatTheMonthsSay RangesAddUp
PROPERTIES SeriesKeepsItsMonths
