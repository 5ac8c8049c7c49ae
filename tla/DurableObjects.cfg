SPECIFICATION Spec
CONSTANTS
    Requests = {1, 2, 3}
    MaxRestarts = 2
    Scenarios <- MCScenarios
INVARIANTS
    NeverOvercharged
    StateFollowsLedger
    AnswerStands
    Verdict
    BankHistoryLags
PROPERTIES
    AccountIsSerial
    ScenarioEnds
