CONSTANTS
    FragmentSections = {1, 2}
    PathSections = {1, 2}
    Texts = {"", "a", "b", "ab", "?", "trace", "countmin", "UnivMon", "True"}
    Suffix <- MCSuffix
    UintLimit = 20
    UlongLimit = 1073741824
    Originals <- MCOriginals
    Tasks = {1, 2}
    ResultLengths = {1, 2}
    Beginnings <- MCBeginnings
    Tens = {10, 100}
SPECIFICATION Spec
INVARIANTS
    TypeOK
    OnlyTheEndIsLost
    FileIntact
    ResultsInvisible
    LossOnlyByLongerResults
    AcceptedIsWellFormed
    HopsAsNamed
