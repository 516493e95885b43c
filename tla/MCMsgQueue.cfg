CONSTANTS
    c1 = c1
    c2 = c2
    c3 = c3
    c4 = c4
    Chunks <- FourChunks
    Granularity = 2
    Tags <- TwoTags
    Sizes <- SomeSizes
    MaxMem = 5
    NoChunk = NoChunk
    Garbage = Garbage
    Term = TRUE
SPECIFICATION Spec
INVARIANTS
    TypeOK
    ChunksAccounted
    MemBounded
PROPERTIES
    FifoSpec
