CONSTANTS
  MaxPid = 2
  MaxRef = 1
  MaxMail = 1
  Budget = 2
  Names = {"n"}
  Reasons = {"normal"}
  Imports = {"spawn", "spawn_link", "monitor", "demonitor", "exit2", "set_trap_exit", "send", "recv", "register",
             "recv_wait_timeout"}
SPECIFICATION Spec
INVARIANTS
  RunningSettles
  CurrentIsExecuting
  TimeoutXorMessage
  TimersBalanced
  DeadlockIsReal
