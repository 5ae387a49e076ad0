CONSTANTS
    f1 = f1
    f2 = f2
    Flows = {f1, f2}
    Cells = {1, 2}
    Rows = {1}
    Cell <- MCExactCell
    UintLimit = 16
    RhoScale = 10
    Configs <- MCConfigs
    RatioNum = 1
    RatioDen = 2
    FullCells = {1, 2}
    FullRows = {1}
    FullCell <- MCFullCell
    Seeds <- MCSeeds
    MaxTs = 7
    MaxLength = 3
    Traces <- MCTraces
SPECIFICATION SimSpec
INVARIANTS
    TypeOK
    EpochPartition
    DetectorsComparable
    FullSketchOverestimates
    TotalsAccountForTrace
PROPERTIES
    EstimatesFromTrace
    EvenFlowsExact
    ClassifiedAsDetected
    RunAdvances
