\* Two paths, one forked from the other, with TTLs: PUT on a path whose
\* stream has expired drops the record without looking at its references.
SPECIFICATION Spec
CONSTANTS
    Path = {a, b}
    NoPath = NoPath
    Producer = {}
    NoProducer = NoProducer
    Waiter = {}
    Expiries = {"none", "ttl"}
    ContentTypes = {"bin"}
    Bodies = {"valid"}
    ForkSources <- AnyPath
    Sizes = {1}
    SubOffsets = {0}
    StreamSeqs <- NoStreamSeq
    Shutdown = FALSE
    FrameOverhead = 1
    MaxEpoch = 0
    MaxSeq = 0
    MaxBirths = 3
    MaxWrites = 1
    MaxDrops = 0
INVARIANT RefCountExact
