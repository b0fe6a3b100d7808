-------------------------- MODULE MCProducerClient --------------------------
EXTENDS ProducerClient

ProducerOpts(e, auto, m, batch, refetch, n, re, calls) ==
    [epoch |-> e, autoClaim |-> auto, maxInFlight |-> m, maxBatch |-> batch,
     writable |-> FALSE, refetch |-> refetch, messages |-> n, restarts |-> re, calls |-> calls]

\* writable(): onError, the producer's default pipelining, a close without a message.
WritableOpts(n, calls) ==
    [ProducerOpts(0, TRUE, 2, 1, FALSE, n, 0, calls) EXCEPT !.writable = TRUE]

\* Process 1 is replaced by process 2, which has the higher epoch; when process 1
\* claims epochs as it is fenced, it sends one batch at a time.
MCProducerSetups ==
    {<<ProducerOpts(0, FALSE, 2, 1, TRUE, 3, 0, {"flush", "close"}),
       ProducerOpts(2, FALSE, 1, 1, FALSE, 1, 0, {})>>,
     <<ProducerOpts(0, FALSE, 2, 1, FALSE, 2, 0, {"close"}),
       ProducerOpts(2, FALSE, 1, 1, FALSE, 1, 0, {"close"})>>,
     <<ProducerOpts(0, TRUE, 1, 1, FALSE, 2, 0, {"close"}),
       ProducerOpts(2, FALSE, 1, 1, FALSE, 1, 0, {})>>,
     <<ProducerOpts(0, FALSE, 2, 2, FALSE, 3, 1, {"restart", "detach", "abort"}),
       ProducerOpts(2, FALSE, 1, 1, FALSE, 0, 0, {})>>,
     <<WritableOpts(3, {"close", "abort"}), ProducerOpts(2, FALSE, 1, 1, FALSE, 0, 0, {})>>,
     <<WritableOpts(1, {"close", "detach"}), ProducerOpts(2, FALSE, 1, 1, FALSE, 1, 0, {})>>}

\* The producer of writable(): autoClaim, with the pipelining it is given by
\* default, on a stream where its producerId has been used.
MCClaimSetups ==
    {<<WritableOpts(3, {}),
       ProducerOpts(1, FALSE, 1, 1, FALSE, 1, 0, {})>>}
=============================================================================
