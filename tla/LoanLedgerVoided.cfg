SPECIFICATION Spec
CONSTANTS
  Requests = {r1}
  Workers = {w1}
  MaxPayments = 2
  MaxCorrections = 1
  MaxPeriods = 1
  MaxOperations = 3
  Amounts = {1, 2}
  Principal = 1
  Interest = 1
  Fine = 1
SYMMETRY MCActors
INVARIANT CorrectionIsVoidAndRecord
CHECK_DEADLOCK FALSE
