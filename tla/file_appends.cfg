\* Two clients append to one stream and close it, with and without producer
\* headers, while a long-poll waits and the process may crash twice.
SPECIFICATION Spec
CONSTANTS
    Path = {a}
    NoPath = NoPath
    Producer = {i}
    NoProducer = NoProducer
    Client = {c, d}
    Waiter = {w}
    Operations = {"append", "appendAndClose", "close", "closeWithProducer"}
    ForkSources = {}
    Expiries = {"none"}
    MaxEpoch = 1
    MaxSeq = 1
    MaxBirths = 1
    MaxWrites = 4
    MaxCrashes = 2
SYMMETRY Symmetry
CHECK_DEADLOCK FALSE
INVARIANTS OffsetsMatchFiles AckedStaysPut AckedOnce NoMissedWakeup
