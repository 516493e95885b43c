CONSTANTS
    m1 = m1
    m2 = m2
    None = None
    Msg <- Two
    ChunkCount = 2
    RefMax = 2
    Texts <- OneOfEach
    MaxEdits = 3
    MaxSize = 3
    MaxCopies = 1
    SlipSets <- AsMeantAndAsWritten
SPECIFICATION Spec
SYMMETRY Symmetry
INVARIANTS
    TypeOK
    RefcountsTrue
PROPERTIES
    ReadAsWritten
