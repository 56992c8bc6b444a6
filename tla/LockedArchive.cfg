CONSTANTS
    j1 = j1
    j2 = j2
    Jobs <- TwoJobs
    Timeframes <- ShortAndLong
    Step <- Lengths
    Bucket = 1
    Opens = 0
    Joins = 4
    Ends = 12
    ChunkPoints = 3
    Times <- ThreeMoments
    MaxMishaps = 1
SYMMETRY Sym
ACTION_CONSTRAINT OrderOfJobs
SPECIFICATION ArchiveSpec
CHECK_DEADLOCK FALSE
INVARIANTS
    SealedAfterEndIsHistory
    CommittedIsComplete
PROPERTIES
    SealedStays
