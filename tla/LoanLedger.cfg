SPECIFICATION Spec
CONSTANTS
  Requests = {r1, r2}
  Workers = {w1,w2}
  MaxPayments = 2
  MaxCorrections = 1
  MaxPeriods = 2
  MaxOperations = 3
  Amounts = {1, 2}
  Principal = 1
  Interest = 1
  Fine = 1
SYMMETRY MCActors
INVARIANTS TypeOK BalanceMatchesRepayments FinesAddUp ClosedExactlyWhenPaid PartsFitTheDebt
PROPERTIES ReportWithOwnerIsSettled
CHECK_DEADLOCK FALSE
