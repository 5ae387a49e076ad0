CONSTANTS
    f = f
    g = g
    none = none
    Flows = {f, g}
    NotIPv4 = none
    Base = 4
    MaxPacketSize = 32
    NanosPerMicro = 10
    NanosPerSecond = 1000
    MaxRecords = 3
    Traces <- MCTraces
SPECIFICATION FairSpec
INVARIANTS
    TypeOK
    ResultMatchesTrace
PROPERTY ReadingEnds
CHECK_DEADLOCK FALSE
