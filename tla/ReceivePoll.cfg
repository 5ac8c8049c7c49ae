CONSTANTS
  a = a
  b = b
  Msg = {a, b}
  Receives <- MCPartialPoll
  NoReceive = NoReceive
  Expired = Expired
  MaxMail = 2
SPECIFICATION Spec
INVARIANTS
  ParkedMeansNoMatch
CHECK_DEADLOCK FALSE
