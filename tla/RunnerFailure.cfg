CONSTANTS
    a = a
    b = b
    Files = {a, b}
    Configs <- MCTwo
    Workers = 1
    CpuCount = 2
    PipeCapacity = 1
SPECIFICATION Spec
INVARIANT FailureIsolated
CHECK_DEADLOCK FALSE
