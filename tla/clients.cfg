SPECIFICATION ClientsSpec
CONSTANTS
    Instances = {1, 2}
    ProducerSetups <- MCProducerSetups
    MaxFetchFaults = 2
    ReaderSetups <- MCReaderSetups
    MaxTail = 2
    MaxHides = 2
    MaxBreaks = 2
    MaxShortConnections = 2
    HandleSetups <- MCHandleSetups
    MaxAppends = 3
    MaxNetFaults = 2
    DBLogs <- MCDBLogs
    DBTypes = {"user"}
    DBKeys = {"k1", "k2"}
    Preloads = {1, 2}
    MaxReplays = 1
    ChatSetups <- MCChatSetups
    HttpClients = {1, 2}
    HttpSetups <- MCHttpSetups
    MaxLength = 2
    MaxJitter = 1
    SSEPayloads <- MCSSEPayloads
    Binaries = {TRUE, FALSE}
INVARIANTS
    ProducerIsTruthful
    ReadsWhatIsThere
    ResolvedInOrder
    ChatShowsSource
    DBFollowsStream
    AnswersFollowLog
    SSEDelivers
PROPERTIES
    ReaderCatchesUp
    WritersEnd
    PreloadSettles
    LiveReadersCatchUp
CHECK_DEADLOCK FALSE
