SPECIFICATION Spec
CONSTANTS
  Requests = {r1, r2}
  MaxHandovers = 2
  MaxRows = 2
  MaxOperations = 3
  Amounts = {1, 2}
  Earlier = {2}
SYMMETRY MCRequests
INVARIANTS TypeOK OutstandingIsUnpaid ClearedExactlyWhenSettled ChargedOnce
PROPERTIES PaymentsOnlyGrow
CHECK_DEADLOCK FALSE
