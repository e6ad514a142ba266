CONSTANTS
  Loans <- Agreements
  Amounts = {2, 6}
  MonthLengths <- Calendar
  Week = 3
  FinePeriod = 1
  Fine = 2
  MaxPayments = 2
  After = 3
SPECIFICATION Spec
INVARIANTS
  WholeDebtDueAtMaturity
  ArrearsOnlyAfterMissing
  UnpaidWhileDue
PROPERTIES
  PaymentSettlesTheDay
CHECK_DEADLOCK FALSE
