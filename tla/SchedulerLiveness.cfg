CONSTANTS
  MaxPid = 3
  MaxRef = 0
  MaxMail = 1
  Budget = 2
  Names = {}
  Reasons = {"normal"}
  Imports = {"spawn_link", "send"}
SPECIFICATION FairSpec
PROPERTIES
  EveryJobRuns
  MainReturnEnds
