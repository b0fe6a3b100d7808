SPECIFICATION ServicesSpec
CONSTANTS
    Streams <- MCStreams
    Inputs <- MCInputs
    Workers = {"w1", "w2"}
    MaxOffset = 2
    MaxWakes = 2
    MaxChurn = 1
    Services = {"s", "t"}
    SubscriptionIds = {"i"}
    Documents <- MCDocuments
    Bodies <- MCBodies
    Callees = {1, 2}
    MaxCalls = 4
    Paths = {"root", "fork"}
    Plain = {"root"}
    Forks <- MCForks
    Mortal = {"root"}
    MaxPuts = 3
    MaxFaults = 1
    ReadSetups <- MCReadSetups
    MessageNumbers <- MCMessageNumbers
    CloseNumbers <- MCCloseNumbers
    MaxPosts = 2
    Readers = {r}
    UpdateBytes = 2
    CompactionThreshold = 2
    MaxUpdates = 2
    MaxRetries = 1
    MaxDeletes = 1
    MaxRestarts = 1
    AwarenessNames = {"default", "n"}
    Clients = {1, 2}
    MaxIncarnations = 2
    MaxPresence = 3
    MaxAwarenessFaults = 1
    MaxConnects = 2
    ProviderSetups <- MCProviderSetups
    Callers = {c}
    Allowlist <- MCAllowlist
    Upstreams <- MCUpstreams
    BodyChunks = 2
    BatchChunks = 2
    MaxProxied = 2
    MaxProxyFaults = 2
INVARIANTS
    NothingSkipped
    NeverStuck
    SnapshotsAnnounced
    ForksKeepSource
    SessionInOrder
    HistoryServed
    PresenceIsCurrent
    SyncedHasAll
    StoredIsPrefix
PROPERTIES
    EdgesSettle
    ProviderCatchesUp
    ReadersReleased
CHECK_DEADLOCK FALSE
