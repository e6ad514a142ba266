SPECIFICATION FairSpec
CONSTANTS
  Requests = {r1, r2}
  LastDay = 1
  Counts = {0}
  Records <- MCRace
  OpeningCash = {1}
  MaxStops = 0
INVARIANT ReportMatchesBooks
PROPERTY SubmittedDaysAreReported
CHECK_DEADLOCK FALSE
