--------------------------- MODULE MCStreamReader ---------------------------
EXTENDS StreamReader

ReaderOpts(live, consumer, now, capped) ==
    [live |-> live, consumer |-> consumer, now |-> now, capped |-> capped]

MCReaderSetups ==
    {ReaderOpts("false", "accumulate", FALSE, FALSE),
     ReaderOpts("false", "accumulate", FALSE, TRUE),
     ReaderOpts("long-poll", "accumulate", FALSE, TRUE),
     ReaderOpts("long-poll", "subscribe", FALSE, TRUE),
     ReaderOpts("long-poll", "subscribe", TRUE, FALSE),
     ReaderOpts("long-poll", "pipe", FALSE, FALSE),
     ReaderOpts("sse", "subscribe", FALSE, FALSE), ReaderOpts("sse", "subscribe", FALSE, TRUE)}
=============================================================================
