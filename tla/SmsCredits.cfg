SPECIFICATION FairSpec
CONSTANTS
  Messages = {m1, m2}
  NoMessage = NoMessage
  Segments <- MCSegments
  TopUps <- MCTopUps
  MaxPurchased = 4
  SendOutlivesHold = FALSE
INVARIANTS
  TypeOK
  WalletReconciles
  ReservedMatchesLedger
  StatusMatchesLedger
  OneLiveAttempt
  FreeOrRepeatedOnlyInDoubt
PROPERTIES
  HoldsAreResolved
  ImplementsPromise
CHECK_DEADLOCK FALSE
