SPECIFICATION Spec
CONSTANTS
    Requests = {1}
    MaxRestarts = 0
    Scenarios <- CollidingScenarios
INVARIANTS
    NeverOvercharged
