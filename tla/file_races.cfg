\* Two requests in flight on two paths, one perhaps forked from the other:
\* appends, closes and creates that fail, streams deleted or expired under them.
SPECIFICATION Spec
CONSTANTS
    Path = {a, b}
    NoPath = NoPath
    Producer = {i}
    NoProducer = NoProducer
    Client = {c, d}
    Waiter = {}
    Operations = {"append", "closeWithProducer", "createFails", "delete"}
    ForkSources <- AnyPath
    Expiries = {"ttl"}
    MaxEpoch = 0
    MaxSeq = 0
    MaxBirths = 2
    MaxWrites = 2
    MaxCrashes = 0
SYMMETRY Symmetry
CHECK_DEADLOCK FALSE
INVARIANT AckedOnce
