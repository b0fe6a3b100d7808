\* Three paths that fork one another: sources deleted under their forks,
\* chains, sub-offsets; no expiry, no producers, no long-polls.
SPECIFICATION Spec
CONSTANTS
    Path = {a, b, c}
    NoPath = NoPath
    Producer = {}
    NoProducer = NoProducer
    Waiter = {}
    Expiries = {"none"}
    ContentTypes = {"bin"}
    Bodies = {"valid"}
    ForkSources <- AnyPath
    Sizes = {2}
    SubOffsets = {0, 1}
    StreamSeqs <- NoStreamSeq
    Shutdown = FALSE
    FrameOverhead = 1
    MaxEpoch = 0
    MaxSeq = 0
    MaxBirths = 4
    MaxWrites = 2
    MaxDrops = 0
SYMMETRY Symmetry
INVARIANTS LogWellFormed RefCountExact ReadsStitch
PROPERTY KeepsPromise
