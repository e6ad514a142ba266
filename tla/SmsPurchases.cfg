SPECIFICATION FairSpec
CONSTANTS
  Purchases = {1, 2}
  Requests = {r1, r2}
  Jobs = {job}
  MaxAttempts = 1
  MaxDeliveries = 2
INVARIANTS TypeOK CreditedOnlyIfPaid CreditedOnceUnlessOverturned
PROPERTIES OnlyTheOutdatedOverturn PaidIsCredited
CHECK_DEADLOCK FALSE
