CONSTANTS
  Queries = {q1, q2}
  Timed = {q1}
  Periods = {day, week}
  Attempts = 3
  None = None
  MaxFetches = 3
  MaxLoads = 3
SPECIFICATION PagesSpec
INVARIANTS
  NoStuckPage
PROPERTIES
  PagesSettle
  DashboardShowsLatest
