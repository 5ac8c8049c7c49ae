CONSTANTS
  MaxPid = 2
  MaxRef = 1
  MaxMail = 0
  Budget = 1
  Names = {}
  Reasons = {"normal", "boom"}
  Imports = {"spawn", "monitor"}
SPECIFICATION Spec
INVARIANTS
  MonitorsWatchLive
