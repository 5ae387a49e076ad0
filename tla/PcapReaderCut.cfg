CONSTANTS
    f = f
    g = g
    none = none
    Flows = {f, g}
    NotIPv4 = none
    Base = 4
    MaxPacketSize = 32
    NanosPerMicro = 10
    NanosPerSecond = 1000
    MaxRecords = 2
    Traces <- MCTraces
SPECIFICATION Spec
INVARIANT PartialHeaderReported
CHECK_DEADLOCK FALSE
