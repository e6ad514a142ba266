SPECIFICATION Spec
CONSTANTS
  p1 = p1  p2 = p2  loanA = loanA  loanB = loanB
  shell = shell  profile = profile  r1 = r1  r2 = r2
  Devices = {p1, p2}
  Loans = {loanA, loanB}
  Operations <- MCOperations
  DeviceOf <- MCDeviceOf
  Kind <- MCKind
  LoanOf <- MCLoanOf
  Amount <- MCAmount
  LocalId <- MCLocalId
  Principal <- MCPrincipal
  Scenario <- OnePhone
  PhoneOf <- BothOnP1
  Services = {shell, profile}
  Requests = {r1, r2}
  OnlineCustomers = {}
  BatchSize = 2
  MaxRetries = 1
  Workloads <- InPairs
  Faults = {"step", "server", "app"}
SYMMETRY Alike
INVARIANTS TypeOK UploadedIsStored NoDoubleDeduction BalanceMatchesRepayments
  DisbursedWithinPrincipal GivenUpIsNotStored
CHECK_DEADLOCK FALSE
