\* One request at a time on three paths that fork one another, cut short by a
\* crash between any two of its steps.
SPECIFICATION Spec
CONSTANTS
    Path = {a, b, c}
    NoPath = NoPath
    Producer = {}
    NoProducer = NoProducer
    Client = {k}
    Waiter = {}
    Operations = {"append", "close", "createClosed", "delete"}
    ForkSources <- AnyPath
    Expiries = {"none"}
    MaxEpoch = 0
    MaxSeq = 0
    MaxBirths = 3
    MaxWrites = 2
    MaxCrashes = 1
SYMMETRY Symmetry
CHECK_DEADLOCK FALSE
INVARIANT CrashesLeaveForks
