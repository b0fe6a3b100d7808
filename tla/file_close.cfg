\* Two requests in flight on one stream: an append, and a close that arrives
\* while the append waits for the disk.
SPECIFICATION Spec
CONSTANTS
    Path = {a}
    NoPath = NoPath
    Producer = {}
    NoProducer = NoProducer
    Client = {c, d}
    Waiter = {}
    Operations = {"append", "close"}
    ForkSources = {}
    Expiries = {"none"}
    MaxEpoch = 0
    MaxSeq = 0
    MaxBirths = 1
    MaxWrites = 1
    MaxCrashes = 0
CHECK_DEADLOCK FALSE
INVARIANT CloseIsPermanent
