\* A long-poll waits at the tail of a stream whose last message comes in the
\* request that closes it.
SPECIFICATION Spec
CONSTANTS
    Path = {a}
    NoPath = NoPath
    Producer = {}
    NoProducer = NoProducer
    Client = {c}
    Waiter = {w}
    Operations = {"append", "appendAndClose"}
    ForkSources = {}
    Expiries = {"none"}
    MaxEpoch = 0
    MaxSeq = 0
    MaxBirths = 1
    MaxWrites = 2
    MaxCrashes = 0
CHECK_DEADLOCK FALSE
INVARIANT ClosedMeansDrained
