CONSTANTS
    a = a
    b = b
    Files = {a, b}
    Configs <- MCTwice
    Workers = 2
    CpuCount = 2
    PipeCapacity = 1
SPECIFICATION Spec
INVARIANTS
    TypeOK
    AtMostWorkers
    NoPermitLost
    NoLostWakeup
    NoOutputLost
    ResultsOfLastSuccess
    OneOutcomeEach
CHECK_DEADLOCK FALSE
