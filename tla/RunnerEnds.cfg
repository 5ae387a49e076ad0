CONSTANTS
    a = a
    b = b
    Files = {a, b}
    Configs <- MCTwo
    Workers = 0
    CpuCount = 2
    PipeCapacity = 1
SPECIFICATION FairSpec
PROPERTIES
    EndsByTimeLimit
    EndsByItself
CHECK_DEADLOCK FALSE
