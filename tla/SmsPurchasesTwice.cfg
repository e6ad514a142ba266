SPECIFICATION Spec
CONSTANTS
  Purchases = {1}
  Requests = {r1}
  Jobs = {job}
  MaxAttempts = 2
  MaxDeliveries = 3
INVARIANTS CreditedOnce
CHECK_DEADLOCK FALSE
