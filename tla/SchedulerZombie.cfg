CONSTANTS
  MaxPid = 2
  MaxRef = 0
  MaxMail = 0
  Budget = 1
  Names = {}
  Reasons = {"normal", "boom"}
  Imports = {"spawn_link"}
SPECIFICATION Spec
INVARIANTS
  KilledNeverExecutes
