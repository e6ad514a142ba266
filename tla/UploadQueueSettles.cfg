SPECIFICATION FairSpec
CONSTANTS
  p1 = p1  p2 = p2  loanA = loanA  loanB = loanB
  shell = shell  profile = profile  r1 = r1  r2 = r2
  Devices = {p1, p2}
  Loans = {loanA, loanB}
  Operations <- MCOperations
  DeviceOf <- MCDeviceOf
  Kind <- MCKind
  LoanOf <- MCLoanOf
  Amount <- MCAmount
  LocalId <- MCLocalId
  Principal <- MCPrincipal
  Scenario <- TwoPhones
  PhoneOf <- OnePerPhone
  Services = {p1, p2}
  Requests = {r1, r2}
  OnlineCustomers = {loanB}
  BatchSize = 1
  MaxRetries = 2
  Workloads <- InPairs
  Faults = {}
PROPERTIES RecordedWorkSettles
CHECK_DEADLOCK FALSE
