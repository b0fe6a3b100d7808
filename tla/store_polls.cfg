\* A long-poll against appends, closes, deletes, expiry and re-creation on two
\* paths; a fork may keep a deleted path alive, soft-deleted.
SPECIFICATION Spec
CONSTANTS
    Path = {a, b}
    NoPath = NoPath
    Producer = {i}
    NoProducer = NoProducer
    Waiter = {w}
    Expiries = {"ttl"}
    ContentTypes = {"bin", "inherit"}
    Bodies = {"valid"}
    ForkSources <- AnyPath
    Sizes = {1}
    SubOffsets = {0}
    StreamSeqs <- NoStreamSeq
    Shutdown = FALSE
    FrameOverhead = 1
    MaxEpoch = 0
    MaxSeq = 0
    MaxBirths = 3
    MaxWrites = 1
    MaxDrops = 0
INVARIANTS TypeOK NoMissedWakeup ClosedMeansDrained
SYMMETRY Symmetry
