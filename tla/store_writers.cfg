\* One path, two producers with two epochs, Stream-Seq, JSON bodies that may
\* be refused, closes with and without producer, expiry and re-creation,
\* producer state aged out once; and, apart from these, long-polls and shutdown.
SPECIFICATION FairSpec
CONSTANTS
    Path = {a}
    NoPath = NoPath
    Producer = {i, j}
    NoProducer = NoProducer
    Waiter = {u, v, w}
    Expiries = {"none", "ttl"}
    ContentTypes = {"json", "inherit"}
    Bodies = {"valid", "bad"}
    ForkSources = {}
    Sizes = {1}
    SubOffsets = {0}
    StreamSeqs <- SomeStreamSeqs
    Shutdown = TRUE
    FrameOverhead = 1
    MaxEpoch = 1
    MaxSeq = 1
    MaxBirths = 2
    MaxWrites = 3
    MaxDrops = 1
CONSTRAINT InScene
INVARIANTS ExactlyOnce DuplicateMeansStored
PROPERTIES ClosedIsFinal PollsAnswered
