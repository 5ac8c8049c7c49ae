CONSTANTS
  MaxPid = 3
  MaxRef = 1
  MaxMail = 0
  Budget = 2
  Names = {}
  Reasons = {"normal", "boom"}
  Imports = {"spawn", "spawn_link", "set_trap_exit", "exit2", "monitor", "demonitor"}
SPECIFICATION MCSpec
INVARIANTS
  TypeOK
  RunQueueSound
  NoAbandonedStack
  LinksMutual
PROPERTIES
  DeathReaches
  DeathIsTold
