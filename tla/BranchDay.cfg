SPECIFICATION Spec
CONSTANTS
  Requests = {r1}
  LastDay = 2
  Counts = {0, 1}
  Records <- MCRecords
  OpeningCash = {1}
  MaxStops = 1
INVARIANTS TypeOK ReportMatchesBooks ShortageMatchesReport
CHECK_DEADLOCK FALSE
