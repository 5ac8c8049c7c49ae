CONSTANTS
  a = a
  b = b
  Msg = {a, b}
  Receives <- MCReceives
  NoReceive = NoReceive
  Expired = Expired
  MaxMail = 5
SPECIFICATION FairSpec
INVARIANTS
  TypeOK
  PassedOver
  ParkedMeansNoMatch
PROPERTIES
  KeepsPromise
CHECK_DEADLOCK FALSE
