SPECIFICATION Spec
CONSTANTS
    Programs = {c1, c2}
    Paths = {p}
    Contents = {f1}
    Output = out
    NoFile = none
    MaxIntents = 3
    MaxTimeouts = 2
INVARIANTS
    RunningIsLatest
    NoRunLost
    WatchdogGuardsLatest
    EditsOutliveOldRuns
PROPERTIES
    SettlesOnCode
CHECK_DEADLOCK FALSE
