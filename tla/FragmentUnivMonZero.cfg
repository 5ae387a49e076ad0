CONSTANTS
    f1 = f1
    f2 = f2
    Flows = {f1, f2}
    Cells = {1, 2}
    Rows = {1}
    Cell <- MCExactCell
    UintLimit = 8
    RhoScale = 1
    Setting <- MCUnivMonZero
    SingleHop <- MCSingleHop
    Seeds <- MCFewSeeds
    EpochLabels = 2
    MaxPackets = 3
SPECIFICATION Spec
INVARIANT SubepochCountAtLeastMin
