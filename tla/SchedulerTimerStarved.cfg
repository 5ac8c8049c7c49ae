CONSTANTS
  MaxPid = 2
  MaxRef = 0
  MaxMail = 0
  Budget = 1
  Names = {}
  Reasons = {"normal"}
  Imports = {"spawn", "recv_wait_timeout"}
SPECIFICATION FairSpec
PROPERTIES
  TimedWaitEnds
