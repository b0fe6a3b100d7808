# Durable Streams in TLA+

TLA+ specifications of Durable Streams: the stream stores of the reference
server (`packages/server`), its HTTP surface and subscriptions, the Cloudflare
server, the TypeScript client, and what is built on streams: the state protocol,
the Yjs server and provider, the AI transports and the proxy. They are
model-checked with TLC on small instances; the central properties of the stores,
of the subscriptions and of the services are proved with TLAPS for every instance.

Contents: [the system](#the-system) · [modules](#modules) ·
[correspondence with the code](#correspondence-with-the-code) ·
[runs](#runs) · [findings](#findings) · [proofs](#proofs) ·
[what is not modelled](#what-is-not-modelled) · [plan](#plan)

## The system

A durable stream is an append-only log at a URL. Clients create it (PUT),
append to it (POST), read it from an offset (GET, with long-poll or SSE for what
is still to come), close it, delete it, and fork it: a fork is a new stream
that shares a prefix of another's log. `PROTOCOL.md` is the contract; the
repository has three servers and ten clients for it.

| Component | State it keeps | Operations | Hard behaviour | What makes it correct |
|---|---|---|---|---|
| **In-memory store** `server/src/store.ts` | map path → stream (messages with byte offsets, tail, TTL, producers, closed/closedBy, forkedFrom, forkOffset, refCount, softDeleted); pending long-polls | create, append, appendWithProducer, closeStream, closeStreamWithProducer, delete, read, waitForMessages, touchAccess, clear, cancelAllWaits | forks sharing data with streams that expire or are deleted; producers over long histories; long-polls against everything | offsets tile the log; exactly once; a duplicate answer is true; closed is final; reference counts exact; no missed wake-up; forks independent of their sources |
| **File-backed store** `server/src/file-store.ts` | the same metadata in LMDB, a segment file per stream, handles, append/producer/mutation locks, pending long-polls | the same, and recovery | every append awaits a write, an fsync and a put; crashes between them; stale metadata after an await; creates that roll back | recorded offset = end of file; an answered append survives; duplicates only over a crash; closes durable; recovery restores the counts; stitched reads |
| **Producer validation** (all servers) | per stream and producer: epoch, last sequence number | validateProducer, commitProducerState | validation is separate from commit | fencing, no gap, no duplicate |
| **HTTP server** `server/src/server.ts`, `cursor.ts` | SSE connections, injected faults | a handler per method; the SSE loop | caches, restarts, deletion under a reader, bytes in any chunks | answers add up to the log; live readers get to the end |
| **Subscriptions** `server/src/subscription-manager.ts`, `-routes.ts`, `glob.ts` | subscriptions, links with acked offsets, generation, wake id, lease | create, link, wake, claim, callback, ack, release, retry | leases expiring under a late answer; appends while a wake ends | no message skipped; never asleep on pending work |
| **Producer client** `client/src/idempotent-producer.ts` | epoch, next seq, pending batch, in-flight batches | append, flush, close, detach, restart, writable() | pipelining, 409 retries, epoch claim after 403 | each message once, in order; what is reported sent is stored; flush ends |
| **Reader client** `client/src/response.ts`, `stream-response-state.ts`, `sse.ts` | offset, upToDate, streamClosed, queue of responses, pause state | consume, pause, resume, reconnect | prefetching, pauses in the middle of a pull, short SSE connections | no gap, no repeat, ends iff the stream ended, does not fall silent |
| **Write handle** `client/src/stream.ts`, `fetch.ts` | buffer, queue, in-flight POST | append, close | retries, calls overlapping the worker | resolved means stored, in order; every append settles |
| **Cloudflare server** `server-cloudflare/src` | per path a Durable Object: meta, messages, producers, fork edges, intents, releases, alarm | PUT, POST, GET, SSE, DELETE, forkAcquire, forkRelease, alarm | RPCs that take effect and are lost; memory lost at any await; generations | a fork keeps its source; references settle; readers see one generation in order |
| **stream-db** `state/src` | collections, pending txids, preload promises | dispatch, preload, awaitTxId, reset, close | batches that end anywhere and come again; close() before, during and after a connection attempt | rows = fold of the log; a txid resolves after its commit; preloads settle |
| **Yjs server** `y-durable-streams/src/server` | per document: update stream, snapshots, index, awareness streams and their registry, memory | write, compact, discover, delete, restart; snapshot subscriptions | every call to the stream server is an await | a reader has all updates; no stranger's presence; wakes for snapshots only |
| **Yjs provider** `y-durable-streams/src/yjs-provider.ts` | connection contexts, runs of the update stream, awareness | connect, disconnect, edit | what an old connection awaited arrives in the new one | synced means complete; it catches up |
| **Proxy** `proxy/src` | pipes, active connections, credentials | create, read, abort, delete; durable fetch | half-written bodies, lost answers | stored is a prefix of the body; readers are released |
| **AI transports** `aisdk-transport`, `tanstack-ai-transport` | writing task, subscription offset | write an answer, subscribe | failing appends, snapshots and re-subscription | no hole; each chunk shown once; the writer ends |
| Caddy server (Go), clients in other languages, CLI, benchmarks, tests, examples | – | – | – | not modelled |

How they interact: the HTTP server calls one store object from one event loop,
so a synchronous store operation is atomic and an asynchronous one is not.
Long-polls are promises registered in the store and resolved by later
operations or by their own timer. Clients see the store only through request
and answer, either of which may be lost: hence the producers' epochs and
sequence numbers. The Yjs server, the proxy and the transports are clients of a
stream server in their turn. `PROJECT.json` lists every component with its
sources, every hazard with its line and the properties aimed at it, and for
every definition the lines it models.

## Modules

| Module | What it is |
|---|---|
| `ProducerValidation` | validateProducer: epochs fence, sequence numbers deduplicate |
| `ForkGraph` | getIfNotExpired, delete, deleteWithCascade as operators from a store to a store |
| `StreamStore` | the in-memory store: one action per operation |
| `StreamReads` | its reads: readForkedMessages (recursive), the refinement mapping to `DurableStreams` |
| `DurableStreams` | abstract: independent append-only logs. No sharing, no reference counts, no soft deletion |
| `FileStore` | the file-backed store: one action per stretch of code between two awaits, crash and recovery |
| `HttpServer` | the read handlers over one path: conditional GETs, long-polls behind a cache, SSE, deletion and re-creation, stop and start, injected faults, cursors |
| `SSEWire` | encodeSSEData and parseSSEStream on bytes in any chunks |
| `JsonMode` | JSON fragments: processJsonAppend, formatJsonMessages, fork prefixes |
| `Subscriptions`, `Glob` | the subscription manager with its routes and hooks; patterns |
| `RequestRouting` | which handler a request gets in the three servers with routers, and which streams the Yjs server's handlers turn to |
| `ProducerClient` | IdempotentProducer objects, a lossy network, the server's checks |
| `StreamReader` | a read session and the read handlers it talks to |
| `StreamHandle` | DurableStream.append and close without a producer |
| `ChatTransport` | the AI transports, on top of `StreamHandle` |
| `StreamDB` | EventDispatcher and createStreamDB, against MaterializedState |
| `StreamObject` | Durable Objects and the references between them |
| `StreamObjectReads` | writing to and reading from one Durable Object |
| `YjsDocument`, `YjsAwareness` | a document of the Yjs server; its awareness streams |
| `SnapshotSubscriptions` | subscriptions to snapshots, as the Yjs server hands them on |
| `YjsProvider` | the client of a document |
| `Proxy` | the proxy and durable fetch |
| `MCStreamStore`, `MCFileStore`, `MCProducerClient`, `MCStreamReader`, `MCClients`, `MCServices` | definitions for the configurations |
| `StreamStoreProofs` | proofs about `StreamStore`: types, reference counts, logs, long-polls |
| `FileStoreProofs` | proofs about `FileStore`: offsets, answered appends, producers, long-polls |
| `SubscriptionProofs` | proofs about `Subscriptions` |
| `StreamObjectProofs` | proofs about `StreamObject`, `StreamObjectReads` |
| `HttpProofs` | proofs about `HttpServer`, `Proxy` |
| `ClientProofs` | proofs about `StreamReader`, `StreamHandle` |
| `ProducerProofs` | proofs about `ProducerClient` |
| `YjsProofs` | proofs about `YjsDocument`, `YjsAwareness`, `YjsProvider` |

`StreamStore` and `FileStore` compose the same `ProducerValidation` and
`ForkGraph`; `ProducerClient` composes the client with `ProducerValidation`;
`ChatTransport` extends `StreamHandle`; `SnapshotSubscriptions` extends
`Subscriptions` and feeds it its inputs. `StreamReads` extends `StreamStore`,
keeping its recursive operator away from the modules that have proofs.

## Correspondence with the code

### StreamStore

The methods of `StreamStore` never yield between reading and writing their
state, so each is one action. (`appendWithProducer` and
`closeStreamWithProducer` await a lock first; the lock is only held across
synchronous code.) A handler's `get()` and the operation after it are separated
by awaits in some handlers; the model lets anything happen between any two
operations, which includes that.

| Variable | Code |
|---|---|
| `streams` | `this.streams`; an absent key is the record `NoStream` |
| `pending`, `poll` | `this.pendingLongPolls`, the promise and timer of each request |
| `births` | stands for `createdAt`: tells incarnations of a path apart |
| `writes` | names the payloads |

| Action | Code |
|---|---|
| `Create`, `CreateFails` | `create()` after it found no live stream. An existing one answers 200 or 409 without a change and is no step |
| `AppendAccepted`, `AppendStopped`, `AppendRejected` | `append()`, `appendWithProducer()`: success; early returns before the producer check; those at or after it, which have already cleaned up stale producer states |
| `CloseStream`, `CloseStreamWithProducer` | the same names |
| `Delete` | `handleDelete` and `delete()` |
| `Lookup` | `get`, `has`, `read`, `getCurrentOffset`, …: the lazy expiry they perform |
| `WaitForMessages`, `Timeout` | `waitForMessages`, its timer |
| `TouchAccess` | `touchAccess()`, which handlers call after an operation |
| `CancelAllWaits`, `Clear` | the same names, with the loop that splices the array it walks |
| `StreamAges`, `ProducerAges` | the clock |

Abstractions. Payloads are numbers with a size; offsets are byte offsets with
`FrameOverhead` (5 in the code, a constant here), and the zero-padded offset
strings compare like numbers. Time is two flags: `due` (a stream's TTL or
Expires-At has passed) and `stale` (a producer's state is past its seven days).
A JSON body is valid, an empty array, or not JSON. `Stream-Seq` values are
integers, as only their order matters. `win` in a message's producer tuple is a
history value: how often the producer's state had aged out. The order of
`pendingLongPolls` is abstracted: `EverySecond` allows every set of waiters that
the loop of `cancelAllWaits` may reach. Shutdown is modelled while nobody
waits on an expired stream (`NobodyWaitsOnDue`), because a resolve callback that
reaps a stream would remove further entries from the array under the loop.

Reads: `Lineage` and `Visible` say, without recursion, which messages the chain
of forks makes visible; `StreamStore` uses them for sub-offsets.
`ReadForkedMessages` is the code's recursive algorithm, and `ReadsStitch`
compares the two.

### FileStore

| Variable | Code |
|---|---|
| `meta` | what `db.get` returns: LMDB with `cache: true` shows a put at once |
| `disk` | what LMDB has committed |
| `files` | the segment files by `directoryName`: frames, and how many are synced |
| `op` | the local variables of each operation in flight, above all `streamMeta`, the metadata read before the first await |
| `poll` | `pendingLongPolls` and their promises |
| `acked`, `shut` | history: answered appends, answered closes |

An append is `AppendStart` (checks, under the append lock) → `WriteDone` →
`FsyncDone` (puts `{...streamMeta, ...}`) → `Commit` (LMDB) → `AppendDone`
(notifies, answers). A create is `CreateStart` (prefix written, child and
reference in one transaction) → `OpenDone`/`OpenFails` → `InitialAppend` → the
steps of an append → `InitialDone`, with a last put when the stream is created
closed; `Rollback` is `rollbackCreatedStream`. `CloseStream`, `Delete`, `Lookup`
and `TouchAccess` are synchronous and use `putSync`/transactions;
`CloseStreamWithProducer` awaits its put (`CloseDone`). `AppendFails` is an
append whose file was deleted under it. `Crash` keeps the synced frames, loses
or keeps each unsynced one, and runs `recover()`: reconcile offsets with files,
recount references, collect. `ReadForkedMessages` and `Read` are the stitched
reads of the same names, which walk to a source whether or not it is
soft-deleted.

LMDB and the file system are outside the repository and modelled from their
use: `put` is visible at once and durable when its promise resolves, `putSync`
and `transactionSync` are durable on return, writes are applied in order; a
synced frame survives, an unsynced one may not. Offsets count frames, since byte
arithmetic is `StreamStore`'s subject. Requests the store refuses without a
change are left out, except for the expiry they trigger. The producers of this
store are never aged out. Long-polls and expiry are modelled in separate
configurations (`FileNames`), because a callback may then re-enter the store.

### The client

*ProducerClient.* An instance is an IdempotentProducer object; several share one
producerId, as a process and the one that replaces it do. `ProducerStep` is what
the event loop does for it: `LingerFires`, the tasks of the queue
(`#batchWorker`, `#doSendBatch` with its answers 200, 204, 403, 409 and others,
`#waitForSeq`), the ends of flush, close, detach and restart. `ServerHandles`
is handleAppend; `FetchFails` loses a request or its answer, and a lost request
may still arrive. A message is an instance and a number. `seen` is the server's
producer state, `sentOk` what was reported as sent.

*StreamReader.* `pull` records at which await of `pull()` the session is, `sync`
is `#syncState`, `chunks` the queue of the ReadableStream, whose rule for calling
`pull()` again is modelled as its specification says. Consumers: accumulate
(json, text, body), pipe (bodyStream, textStream), subscribe (jsonStream and the
subscribers). `PageHides` and `PageShows` are the visibility handler.
Retries of a GET change nothing and are invisible.

*StreamHandle.* `buffer`, `queueState` and `inFlight` are `#buffer`, the fastq
queue with concurrency 1 and the POSTs under createFetchWithBackoff.

*ChatTransport.* `writing` is the position of writeSourceToStream or of the
task of a session; `sub`, `batches`, `snapshotting`, `gathered` are the locals
of subscribe() and of readJsonBatchesFromStream; `shown` is what the user
interface has. Between the rejection of an append and the `catch()` that sets
`appendError` (`AppendErrorNoticed`) there are microtasks, in which the queue is
released and the model may yield another chunk; `slipped` remembers such chunks.

*StreamDB.* `db` is the EventDispatcher with its collections; `session` the
StreamResponse it follows. A TanStack DB collection is external: begin, write,
commit; an insert of a key that is there is refused; truncate drops what the open
transaction has written, clears the rows when that transaction is committed, and
throws when there is none. `pending` are the collections the dispatcher will
commit, `left` those whose open transaction a reset made it forget. The signal of
`close()` is heard by a session, and by a connection attempt that has come as far
as its first request; `stream()` called later only listens for an abort to come
and connects all the same. After `close()` every failure of a session is taken for
an abort and told to nobody.

*SSEWire, JsonMode.* Characters and tokens are abstracted to the kinds the
code tells apart.

### The HTTP server and subscriptions

*HttpServer.* The store is reduced to the lives of one path. A write and the
answers it wakes are one step, because the continuation of a resolved promise
runs before the next request is read. `HttpRequest` is handleRead (and
handleSSE's loop up to its next wait) together with the client's next request;
`edge` is a shared cache that may keep any answer the headers allow.

*Subscriptions.* One subscription id; deleting and creating it makes a new
record while deliveries keep the old one (`recs`, `current`). The hooks
onStreamAppend and onStreamDeleted are steps of their own, since handlers call
them after an await. `StreamForked` is a PUT that gives a path messages without
calling the hook, which handleCreate does only for a body; `quiet` are the streams
that grew in this way and have not been appended to since. `covered` is a history value: what a worker was shown and
answered for.

*RequestRouting, Glob.* Pure functions; their properties are assumptions TLC
evaluates: no stream handler is reached under the control prefix, only document
handlers write document streams, the streams of two documents are disjoint, and
globMatch agrees with a definition by expansion.

### The Cloudflare server

*StreamObject.* The tables of every path and the handlers at an await (`jobs`).
Code between two awaits that are not storage operations is one step: the input
gate admits no event during a storage operation and the writes are committed
together. `Reset` loses the memory of an object and its handlers; `CallFails`
an RPC, before or after it took effect; alarms are delivered at least once.

*StreamObjectReads.* One object and one client; awaits are the call to the
source's object, the write of an SSE frame, and waits. PUT on an existing path
and HEAD change nothing and are no actions. `ProducerAges` is the deletion of a
producer's state seven days after its last use, which getProducerState performs at
the next request; `aged` remembers where the log was then.

### Yjs

*YjsDocument.* A write, its counting, a compaction, a deletion and a reader's
discovery, load and read are runs of steps separated by calls to the stream
server. An offset is a number of bytes. `harm` records the races the code does
not guard against (see the findings); `HistoryServed` speaks of all others.
*YjsAwareness.* The requests of clients and the cascade of a deletion, step by
step; reads change nothing. *SnapshotSubscriptions.* Requests as they are
forwarded, with a table of the stream server's subscriptions. *YjsProvider.*
`contexts`, `runs` and `listening` keep what older connections still wait for;
a run that waits before its next attempt ends, when it wakes, whatever subscription
there is, a newer connection's too. A chunk carries any number of updates. A context
numbers its batches from 0 (`seq`), as its IdempotentProducer does; `intake` has the
number the server expects next of the id that all contexts share. A batch is stored,
is taken for a duplicate (`Posted`), or fails, with an answer 401 or 403 or otherwise
(`ProducerFails`), and what comes after a number that never arrived fails with it
(`ProducerWaitsInVain`). `intake.lost` are the edits that will never be stored.
Y.applyUpdate is external: it adds an update, in any order.

### Proxy

`pipes` holds pipeUpstreamBody per stream: buffer, where it is, how it ends.
The fetch API is external: an abort rejects the read under way, and a cancelled
reader reports the end of the body. So the two branches for `signal.aborted` and
`inactivityTimedOut` after a successful read are never taken and are no actions.
`CreateBodyless` is the answer without a body, for which no pipe runs. A request to
close that is refused is only logged, one that cannot be sent leads to the rescue
close of `handleCreateStream`, which is tried once; `unclosed` are the streams that
nobody will close any more.

## Runs

TLC, two workers. The largest runs, `clients` (750,000 distinct states) and
`services` (1,457,000), take three to four minutes, the others less.

| Run | Instance | Checks | Shows |
|---|---|---|---|
| `store_forks` | 3 paths, 4 creations, 2 writes of size 2, sub-offsets 0 and 1 | `LogWellFormed`, `RefCountExact`, `ReadsStitch`, `KeepsPromise` | chains of forks, forks of the same source, sources deleted under forks, cascades, failing creates: offsets tile, counts are exact, stitched reads are right from every offset a client can hold, and the store implements independent logs |
| `store_writers` | 1 path; scene *writers*: 2 producers, 2 epochs, 2 sequence numbers, 3 writes, Stream-Seq, JSON, TTL, 2 creations, 1 aged-out state; scene *shutdown*: 3 long-polls and cancelAllWaits or clear | `ExactlyOnce`, `DuplicateMeansStored`, `ClosedIsFinal`, `PollsAnswered` | retries, gaps, fencing, closes, refusals after validation and re-creation, in every order; every long-poll is answered although the shutdown loop skips every second one |
| `store_polls` | 2 paths, 1 long-poll, 1 producer, TTL, forks, 3 creations | `TypeOK`, `NoMissedWakeup`, `ClosedMeansDrained` | a registered long-poll always waits on the stream it asked for, which is open and has nothing for it; end-of-stream is only said when nothing is left |
| `store_expired` | 2 paths, TTL, 3 creations | `RefCountExact` *(violated)* | first finding |
| `file_appends` | 1 path, 2 clients, 1 producer with 2 epochs and 2 sequence numbers, 4 writes, 1 long-poll, 2 crashes | `OffsetsMatchFiles`, `AckedStaysPut`, `AckedOnce`, `NoMissedWakeup` | appends and closes interleaved at every await, crashes between any two steps |
| `file_forks` | 3 paths, 1 client, 3 creations, 1 crash | `CrashesLeaveForks` (`RefCountExact`, `CloseIsPermanent`, `ForkReadsStitch`) | with one request at a time, recovery restores reference counts and answered closes wherever the crash falls, and forks read what their sources had |
| `file_races` | 2 paths, 2 clients, TTL, deletes, failing creates | `AckedOnce` | deletes and expiry under appends and creates: no producer request is stored twice |
| `file_close` | 1 path, 2 clients | `CloseIsPermanent` *(violated)* | second finding |
| `file_polls` | 1 path, 1 client, 1 long-poll | `ClosedMeansDrained` *(violated)* | third finding |
| `clients` | one of producer, reader, handle, chat, db, http, sse at a time | see below | see below |
| `services` | one of subscriptions, snapshots, objects, reads, documents, awareness, provider, proxy at a time | see below | see below |
| `producer_claim` | writable() with 3 messages, another process with epoch 1 | `DeliveredMeansStored` *(violated)* | fourth finding |

`store_writers` keeps its two scenes apart by a state constraint, `InScene`:
producers and long-polls of one store meet in `store_polls`.

`clients` and `services` gather components that do not act on one another in the
instance: the variable `focus` is chosen at the start and only that component
moves, so the reachable states are the sum, not the product, of the components'.

| `clients`: focus | Instance | Properties |
|---|---|---|
| producer | 2 instances, 6 option sets, up to 3 messages, 2 failing fetches | `ProducerIsTruthful` (order, delivered means stored, close covers all), `WritersEnd` (`FlushEnds`: the calls return) |
| reader | 8 kinds of session, 2 messages, 2 pauses, 2 broken connections | `ReadsWhatIsThere` (in order, ends as expected, hands over all), `ReaderCatchesUp` |
| handle, chat | 3 appends, 2 lost answers, 5 and 4 option sets | `ResolvedInOrder` (what resolved is stored, in the order of the calls), `ChatShowsSource` (what is shown is what the model said), `WritersEnd` (appends settle, the writing task returns) |
| db | 4 logs with inserts, updates, deletes, a reset, txids, an unknown type and a broken value; 2 preloads, 1 batch that comes again, close() at any time | `DBFollowsStream` (up to the first reset the rows are the fold of what was committed; txids resolve after their commit), `PreloadSettles` |
| http | 2 clients of all kinds, 2 messages, 2 lives, cursors, faults | `AnswersFollowLog`, `LiveReadersCatchUp` |
| sse | every text of 3 characters out of x, space, CR, LF, then a second event, in every division into chunks | `SSEDelivers` |

| `services`: focus | Instance | Properties |
|---|---|---|
| subscriptions | 1 stream, 4 request bodies, 2 workers, 2 wakes per record, 1 deletion or unlink | `NothingSkipped`, `NeverStuck` |
| snapshots | 2 services, 5 bodies, 3 documents, 2 overlapping requests, 4 calls | `SnapshotsAnnounced` |
| objects | a path and its fork, 3 PUTs, 1 fault | `ForksKeepSource`, `EdgesSettle` |
| reads | with and without inherited messages, long-poll and SSE, a message above the byte budget, 2 posts of 2 epochs, closes, and either 1 re-creation or 1 ageing of the producer's state | `SessionInOrder` |
| documents | 1 reader, 2 updates, compaction after each, 1 retry, deletion and restart | `HistoryServed` |
| awareness | 2 names, 2 overlapping requests, 2 documents, 1 fault | `PresenceIsCurrent` |
| provider | 2 connections; 2 remote updates, or 1 with a failure; 2 edits with a failure; awareness with a failure | `SyncedHasAll`, `ProviderCatchesUp` |
| proxy | 1 caller that comes back, 2 streams, 2 chunks, 2 faults | `StoredIsPrefix`, `ReadersReleased` |

**Bounds.** Every constant whose name starts with `Max`, and the bounds in the
option sets, cap counters that are unbounded in the code. Three paths give both
shapes of a fork graph, a chain of two forks and two forks of one source, and
four creations let a path be re-created under either. Two producers with two
epochs and two sequence numbers reach each answer of `validateProducer`; one
aged-out state separates two windows. Two clients suffice for every race of one
operation with another, and the append lock admits only one unsynced frame. Two
crashes in `file_appends` include a crash after a recovery. In `clients`, three
messages make a third batch wait for a second that waits for a first; two pauses
are what it takes to interrupt a pull twice; two lives of a path are an old and a
new one. In `services`, two wakes are a replaced one and its successor, two
updates with a threshold of one make a second compaction replace the first's
snapshot, two connections are an old and a new context, two remote updates make a
chunk that is not the last, two edits are one whose number is taken and one behind
it, and one ageing separates two states of a producer. The properties of
producers and logs are also proved without bounds.

**Symmetry** permutes paths, producers, clients and waiters in the store runs,
of which no definition singles one out; it is not used where liveness is
checked.

**Deadlock** is checked in the store runs. The others switch it off: once
creations, writes and faults are used up, the instance has nothing left to do.

**Fairness** is weak throughout, and only of what the program or its runtime
does by itself; nothing obliges a user, a writer, a page to be shown, or a fault.

| Property | Fair | Why |
|---|---|---|
| `PollsAnswered` | each long-poll's `Timeout` | a setTimeout that is not cleared fires; a waiter that cancelAllWaits skips keeps its timer |
| `WritersEnd`: producer | the steps of each instance, the server's handling of its requests | timers fire, settled promises run, each fetch is answered or fails (faults are bounded) |
| `ReaderCatchesUp` | the session's steps, the server's SSE loop, the consumer's reads | as above; the consumer's callback returns |
| `WritersEnd`: handle, chat | server and answers, the queue's microtask, the `catch()` of an append, the writing task | microtasks run; the model's answer is finite |
| `PreloadSettles` | the end of a connection attempt, the batch that reaches the end | an attempt resolves or rejects; a live session delivers what there is |
| `LiveReadersCatchUp` | each client's next request | a live client asks again when it has an answer |
| `EdgesSettle` | resumption of handlers, alarms | Durable Objects deliver an alarm at least once |
| `ProviderCatchesUp` | steps of connections, producers, runs, awareness | requests are answered or aborted; timers fire |
| `ReadersReleased` | the pipe's steps, a caller's read | the inactivity timer ends a silent body |

**Mutants.** Each property of a passing run is violated by a named mutant
definition (next to the definition it mutates): a lost lock, a skipped fsync, a
forgotten cap, an early commit, an off-by-one in deduplication, a missing
signal, an alarm outside its lock, and so on. A configuration never replaces a
definition.

## Findings

1. **Expired streams and PUT** (`store_expired`, `store.ts:258`). `create()` on
   the path of an expired stream drops the map entry without regard to its
   reference count or its source's. A source's forks then read an empty prefix,
   or an expired fork pins its source for ever. Every other path to an expired
   stream goes through `getIfNotExpired`, which soft-deletes it. `store_forks`,
   which checks `RefCountExact`, has no expiry for this reason.
2. **A close undone by an append in flight** (`file_close`,
   `file-store.ts:1385`). `appendInner` puts the record it read before its
   awaits; `closeStream()` takes no lock. An answered close is overwritten and
   the stream accepts appends again. Soft-deletes, references and deletes of the
   meantime are undone in the same way.
3. **Append-and-close and long-polls** (`file_polls`, `file-store.ts:1916`). The
   file store resolves a waiting long-poll with the last message and
   `streamClosed` together; `handleRead` answers `streamClosed` with an empty
   204 at the client's old offset. The in-memory store reports the close only
   beside an empty batch, and `store_polls` shows that this is right.
4. **Two batches that claim an epoch** (`producer_claim`,
   `idempotent-producer.ts:777`). With `autoClaim`, a batch answered 403 is
   resent as `<<epoch + 1, 0>>` and `#nextSeq` is set to 1. When two pipelined
   batches are answered 403, both become `<<epoch + 1, 0>>`; the server stores
   one and answers the other 204, as a duplicate, and the client reports it as
   sent. `writable()` has exactly this configuration. In `clients`, a producer
   that claims epochs under fencing sends one batch at a time, and
   `ProducerIsTruthful` holds.

Further disagreements with what the repository says, which have no run of their own.
The property that touches one states it as an exception in its comment, so that what
is checked is what the code does:

- **A fork that nobody hears of** (`server.ts:764`, `NeverStuck`). `handleCreate`
  notifies subscriptions only for a new stream with a body. A fork made without one
  has its source's messages at once, and a subscription that has its path as an
  explicit link stays idle on them until the next append; "Pending work creates a new
  wake generation" (`PROTOCOL.md:1006`).
- **A reset that clears nothing** (`stream-db.ts:363`, `DBFollowsStream`). `truncate()`
  is part of the transaction an earlier event of the batch began, and
  `pendingHandlers.clear()` makes the dispatcher forget to commit it: the database
  says it is up to date and shows the rows of before the reset. Where no transaction
  is open, `truncate()` throws and the session ends. A reset "signals clients to clear
  their materialized state" (`docs/durable-state.md:74`).
- **Synced before the end** (`yjs-provider.ts:630`, `SyncedHasAll`). Any chunk with
  data sets `synced`, also while the initial sync is under way; it should mean that
  "all existing data has been delivered" (`skills/yjs-sync/SKILL.md:77`).
- **Edits after a reconnection** (`yjs-provider.ts:493`, `ProviderCatchesUp`). Every
  connection makes a producer with the id of the last one, epoch 0 and number 0. The
  server, which kept the numbers, answers as duplicates as many batches as earlier
  connections have stored, and their edits are lost; `docs/yjs.md:166` promises
  "exactly-once delivery".
- **A proxied answer without a body** (`create-stream.ts:341`, `ReadersReleased`). The
  stream is created and no pipe runs, so nobody closes it; the proxy "MUST [...] close
  the stream" when the body is consumed (`PROXY_PROTOCOL.md:441`).

Smaller ones, treated in the same way:

- `sse.ts` strips a space after `data:`, `encodeSSEData` writes none: a payload
  line that starts with a space loses it. `read-sse.yaml` of the client tests
  expects just that; the comment at `server.ts:54` argues the other way.
- `bodyStream()` and `textStream()` may stop before the last response, when it
  was prefetched with `Stream-Closed` during the pipe (`response.ts:1014`).
- Two pauses during one `pull()` leave a session silent (`response.ts:706`);
  `live: false` ends after the first answer, upToDate or not; too many short SSE
  connections end the session, although the comment speaks of long-polling.
- The 409 of a stream closed by somebody else names no sequence number, is read
  as "0 expected" and retried for ever (`idempotent-producer.ts:789`).
- `append()` in the microtask between the end of `#batchWorker` and fastq's
  knowledge of it stays in the buffer until the next call (`stream.ts:562`).
- A chunk that the model yields in the microtasks between the rejection of an append
  and its `catch()` is stored behind the hole (`tanstack-ai-transport/src/server.ts:96`).
- `preload()` hangs when it waits for the attempt of another call that fails, when it is
  called after the session has ended, and when the session fails after `close()`
  (`stream-db.ts:658`).
- An SSE response whose stream is deleted under it hangs; an ETag names the
  path, so a stream created again may answer 304 for other messages.
- A subscription's late `done` acknowledges the snapshot of the wake that
  replaced its own (`subscription-manager.ts:612`).
- Cloudflare: a fork intent whose alarm is spent while the path holds another
  stream is never looked at again; a GET that meets a deletion answers an empty
  page. There, as in the in-memory store, a message sent again after its producer's
  state was deleted for its age is stored
  again.
- Yjs: overlapping deletions of a document, a compaction that finds nothing new
  and deletes the snapshot it wrote, and a snapshot offset that moves back lose
  updates; awareness streams made by POST, or by a PUT whose answer was lost, are not
  recorded; `markSynced()` runs when a session ends before it was up to date; edits
  made without a connection are never sent; a run of an older connection that wakes
  from its wait ends the newer one's subscription (`yjs-provider.ts:670`); `a` and
  `a/` are two documents.
- Proxy: `upstream.ts:103` says that an aborted pipe does not close its stream;
  the read that fails on abort takes the error path, whose handler in
  `create-stream.ts` closes it. A close that the stream server refuses is only logged
  (`upstream.ts:186`), and readers wait.

## Proofs

Each proof module extends the module it is about; nothing is assumed beyond the
named assumptions of that module, which TLC evaluates in its runs. Paths,
producers, waiters, clients, streams, inputs and workers are arbitrary sets,
bounds are natural numbers of any size.

| Theorem | States | Module |
|---|---|---|
| `TypeCorrect` | `Spec => []TypeOK` | `StreamStoreProofs` |
| `LogsTiled` | `Spec => []LogWellFormed` | `StreamStoreProofs` |
| `ProducersExactlyOnce` | `Spec => []ExactlyOnce` | `StreamStoreProofs` |
| `DuplicatesStored` | `Spec => []DuplicateMeansStored` | `StreamStoreProofs` |
| `CloseIsFinal` | `Spec => ClosedIsFinal` | `StreamStoreProofs` |
| `WakeupsNotMissed` | `Spec => []NoMissedWakeup` | `StreamStoreProofs` |
| `ClosedAfterAllData` | `~Shutdown => (Spec => []ClosedMeansDrained)` | `StreamStoreProofs` |
| `CountsAreExact` | `Expiries \subseteq {"none"} => (Spec => []RefCountExact)` | `StreamStoreProofs` |
| `SessionsReadWhatIsThere` | `ReaderSpec => []ReadsWhatIsThere` | `ClientProofs` |
| `AppendsStayInOrder` | `HandleSpec => []ResolvedInOrder` | `ClientProofs` |
| `AppendsOnceInOrder` | `ProducerSpec => [](NoClaims => LogInOrder)` | `ProducerProofs` |
| `ProducersTellTheTruth` | `ProducerSpec => [](NoClaims /\ EpochsApart => ProducerIsTruthful)` | `ProducerProofs` |
| `NobodyStuck` | `SubscriptionSpec => []NeverStuck` | `SubscriptionProofs` |
| `NoMessageSkipped` | `SubscriptionSpec => []NothingSkipped` | `SubscriptionProofs` |
| `ForkedSourcesStay` | `ObjectSpec => []ForksKeepSource` | `StreamObjectProofs` |
| `SessionsStayInOrder` | `ReadsSpec => []SessionInOrder` | `StreamObjectProofs` |
| `OffsetsStayExact` | `Permanent => (Spec => []OffsetsMatchFiles)` | `FileStoreProofs` |
| `AnsweredStaysPut` | `Permanent => (Spec => []AckedStaysPut)` | `FileStoreProofs` |
| `AnsweredStoredOnce` | `Permanent => (Spec => []AckedOnce)` | `FileStoreProofs` |
| `FilePollsAreWoken` | `Permanent /\ "createClosed" \notin Operations => (Spec => []NoMissedWakeup)` | `FileStoreProofs` |
| `AnswersFollowTheLog` | `HttpSpec => []AnswersFollowLog` | `HttpProofs` |
| `BodiesArePrefixes` | `ProxySpec => []StoredIsPrefix` | `HttpProofs` |
| `DocumentHistoryServed` | `YjsSpec => []HistoryServed` | `YjsProofs` |
| `AwarenessIsCurrent` | `AwarenessSpec => []PresenceIsCurrent` | `YjsProofs` |
| `SyncedProvidersHaveAll` | `ProviderSpec => []SyncedHasAll` | `YjsProofs` |

### The in-memory store

*Assumptions:* `NamesAssumption` (NoPath and NoProducer are no path and no
producer), `RequestAssumption` (requests carry values the code can parse),
`ShutdownAssumption` and `BoundsAssumption`.

*Types.* `TypeOK` alone is not inductive: `Timeout` and the shutdown loop look
up the stream of a waiter's path, so `PollsPlaced` (a registered waiter waits,
and a waiting one names a path) is proved beside it. One lemma per helper, one
per action, joined in `TypeStep`.

*Logs.* `ExactlyOnce` is not inductive: it does not say that the next accepted
sequence number is past those in the log. `Bounded` does: a producer's state is
at or past each of its messages of the current window (`Covered`), and messages
of earlier windows have a smaller `win`. With it, what `ValidateProducer`
accepts (`AcceptedCases`: a first 0, a first 0 of a later epoch, or the
successor) is past every message of the window. `Healthy` is the conjunction of
`Tiled`, `Once`, `Bounded` and `Backed`; `LogInv` says that every stream is
healthy and born by now. `Same` and `Kept` describe the many operations that
leave a log alone (reference counts, soft deletion, expiry, cascades), so each
is settled by one lemma. `StepEvolves` shows, action by action, that a step
keeps `LogInv` and that each surviving incarnation `Continues`; the latter gives
`CloseIsFinal`.

*Long-polls.* `StepKind` sorts the actions by what they do to the list of
requests: cancel those on removed streams, notify those on one stream, register
or time out one, or leave the list alone. Each kind keeps `NoMissedWakeup`; that
a notified request with nothing to read is at the tail (`NothingLeft`) rests on
the tiling of the logs. `ClosedMeansDrained` needs, besides, that a closed log
does not grow. It is proved for a server that is not shutting down: a request
that `cancelAllWaits` passes over is told "closed" when its timer fires, whatever
was appended since, and TLC finds the violation in seven states.

*Fork graph.* `Doomed` is defined as a least set, which is what the proof uses
(`DoomedLeast`): the streams a cascade removes form a chain with one end
(`DoomedChain`, `DoomedEnd`), so exactly one stream outside it loses exactly one
fork and one reference. The inductive invariant adds to `RefCountExact` that only
finitely many streams exist, for the cardinalities, and that none expires. That
hypothesis cannot be dropped: a PUT on an expired path discards the record
without looking at its references (run `store_expired`).

### The file store

*Assumptions:* `FileNames`, `FileBounds`, and the hypothesis `Permanent`: clients
use neither delete nor a create that fails, and streams do not expire. Appends,
closes, creates, forks, long-polls and crashes are all there, with any number of
clients. The hypothesis cannot be dropped from the first two theorems. delete(),
the rollback of a create and expiry do not take the append lock; an append that
had started puts the metadata it read before them, and the record names a file
that is gone or new. TLC finds the violation of `OffsetsMatchFiles` in seven
states with two clients and "delete", in eleven with "createFails". `AckedOnce`
is checked with deletes and expiry too, in run `file_races`; its proof stands on
the same invariant and so takes the same hypothesis.

*Offsets and answers.* `FileInv` says what is true at every await. Each stream has
a segment of its own and the committed record names the same one (`Placed`); what
an operation remembers is about the stream that is there (`OpPlaced`); at most one
append per stream is past its lock (`OneWriter`); the tail an append remembers is
the current one until it puts the next, and its frame is the last of the file from
its write on, the only one not synced (`OpInStep`); without an append between
write and sync the file ends at the recorded tail and is synced (`InStep`); what was
answered for is among the synced frames (`AckedHeld`). `OffsetsMatchFiles` is not
inductive without the lock and the remembered tail, nor does it survive `Crash`
without `InStep`: recovery takes the tail from the file, and only the
unsynced last frame may be missing from it. `FsyncDone` overwrites whatever other
operations put into the record meanwhile (reference counts, closed, producers);
the invariant says nothing of those fields, which is where `CloseIsPermanent` fails
(run `file_close`).

*Stored once.* Two more invariants. `DataInv` follows the number of a message: it is
with one operation or in one answer, and in one place of one file. `KnowInv` says
what records know: before the first crash the producer states of a record cover
every frame up to its tail, and always, on disk too, every answered one
(`RecordKnows`); the record an append remembers does as well (`OpKnows`), which is
why putting it over a newer one loses nothing that was answered. A request that
`ValidateProducer` accepts is covered by no state that it is accepted by
(`CommitGrows`), so it is neither an answered one nor, before a crash, a stored
one.

*Long-polls.* `PollInv`: a waiting request is at the tail of an open stream, or an
append or close on its path is between its put and its notification. Streams created
closed are left out: the last put of create() notifies nobody, and a request that
registered before it waits for its timeout.

### The read session

`ReadsWhatIsThere` speaks of what the consumer has; `ReaderInv` follows the messages
from the server to it, for every kind of session in one invariant. `Flow` is its
centre: each message the consumer has follows one it had before (`NoneSkipped`), each
queued response goes on from what it has and from the responses before it (`Chain`),
and, unless the session failed or was cancelled, together they reach the session's
offset (`Arrived`). While no connection was torn they do so without an overlap
(`Straight`, `StraightTo`). A data event moves no offset: `Buffering` says that what is
buffered starts at the offset, and `ConnectionFits` that the events of a connection,
and the position the server writes from, go on from what is buffered. That a response
may be handed over with the old offset, when its connection ends before the control
event, is the one step that breaks `StraightTo`, and it sets `torn`.

The ends need the rest. `PullPlaced` says for whom each await of `pull()` is reached (a
consumer that accumulates never awaits anything once the session is up to date), so the
response that makes it stop is the last one queued (`Accumulated`) and nothing is left
behind it (`LeavesNothing`); `Silenced` says that a connection whose request was aborted
gives nothing any more, so the `pull()` that an abort interrupts has nothing buffered
that a later one would need. The lemmas `FlowAppends` and `FlowTakes` carry `Flow` over
queueing a response and over handing over the first; `PullReturned` and `QuietStep` are
the two shapes that all steps but the consumer's come to.

### The write handle

`ResolvedInOrder` speaks of the log; what makes it hold is on its way there. A POST
that was given up, by a retry or by an aborted signal, may still arrive, long after its
batch was rejected, so `HandleInv` is about all POSTs, awaited or not. `PostsOK`: their
batches are increasing, and two of them are the same batch or lie one before the other,
and all before the buffer. `WorkerOK` (with batching): one append POST is awaited at a
time, an append that is pending is in the buffer or in that POST, and so, when a batch
leaves, whatever was called before one of its messages is settled or stands before it
in the batch (`Follows`). Hence `LogOrder`: before a message, the log has every earlier
one that was not rejected. That is stronger than the property, which is about resolved
appends only; it is needed because a pending append may still resolve. `LogOK`: what
resolved, or has an answer 204 on its way, is stored; the proof needs that an append
POST is never empty, as a closed stream answers 204 to an empty one. `AttemptsOK`: the
awaited attempt is the last of its request and has at most one answer. `SeqOK` (with
Stream-Seq): what is stored is at most `lastSeq`, and a batch on its way is either
behind it, and will be refused, or beyond it in full, so a part of a batch is never
stored twice. An `append()` that is sent at once and the worker that sends what has
gathered are both *join the buffer, then send the buffer*, the lemmas `...Enqueue` and
`...Launch`.

### The producer client

*Hypotheses.* The options of the instances do not change, so both are about the whole
run. `NoClaims`: no instance has `autoClaim` (false by default,
`idempotent-producer.ts:207`), which excludes the producers of `writable()`.
`EpochsApart`: no two instances use the same epoch, restarts included; the protocol asks
it of the user ("Client increments epoch on restart", `PROTOCOL.md:368`). Neither can be
dropped. With `autoClaim` and a fetch that sends again, a batch is stored, its answer is
lost, another process takes over, and the batch sent again is answered 403, claims an
epoch and is stored a second time (TLC: nine states to a violation of `LogInOrder`); a
claim also reports lost batches as sent (finding 4). With a common epoch the batch of one
instance is the "duplicate" of the other's (six states).

The proof follows the numbered batches of an instance (`Items`), wherever they are: in
the queue, with a running task, in a request that is awaited or in one that was given up
and may still arrive. Three invariants, each standing on those before it.

- `OrderInv`, for the order. The numbers of the batches follow the order of their
  messages, and one number is one batch (`NumbersOK`); what is stored is before
  everything pending and before every batch whose number is past the server's
  (`LaterOK`). Only such a batch can be accepted, so a log grows by messages that come
  later. A closed producer has nothing pending (`CallOK`), so that the final message is
  the last.
- `DeliveryInv`, for what is reported. A batch of the server's epoch whose number the
  server has passed is stored (`AcceptedOK`), hence a 204 for a duplicate is true; the
  server's number in an epoch of an instance is one the instance has given (`SeenOK`);
  a close is numbered after all batches (`ClosesOK`), so that no batch is taken for a
  repeated close; and the batch that a success on its way back is for is stored
  (`AnsweredOK`).
- `CloseInv`, for close(). Until a restart or an abort, every message appended is
  pending or was given a number, and keeps it when its batch fails (`Covers`): it is
  stored once the server has passed that number, and a close has a higher one. The
  server takes numbers without a gap, so that it cannot accept the close before them.
  While the stream is open the server has not reached the number of a close (`Unsent`),
  so the success of a close is never that of a lost batch with its number; after it,
  the log ends with the final message and has everything (`Finished`).

What a step does to the batches is one of four moves (`Move`: none gets a number, a
message joins the pending batch, the pending batch gets the next number, or both); each
action is shown to be one of them (`...Moves`, `Moved`), and each part of the invariants
is carried over the moves (`...Keeps`, `...Delivers`, `...Covers`, `...Settles`) and over
the server's handling of a request.

### The HTTP server

*Assumption:* `HttpAssumption` (clients are of the kinds the server knows and start at
`-1` or `now`). `AnswersFollowLog` speaks of what a client has; it is not inductive,
because the next answer may come from the cache, and may have been made for another
client. `HttpInv` therefore says of every entry of the cache that it carries consecutive
messages from the offset it is kept for, ends no later than the stream does, and has
Stream-Closed only at the end of a closed stream (`EntryFits`): the answer fits whoever
is at that offset (`EntryAnswers`), whatever happened to the stream since (`GrownEntry`).
Of every client it says that its messages lead to its offset (`LeadsTo`), that one which
waits does so at the end of the open stream that is there, so the write that ends the
wait answers from where the client is (`WokenPollFits`, `WokenTurnFits`), that
Stream-Closed came from a closed stream with the last message (`EofFits`), and that one
which started at `-1` has the first message or has missed none (`FromFirst`). Deletion and
re-creation are steps like any other; what is said of long-polls ends with the first life
of the path, as the property does, since the cache and the offsets do not name the
stream. What is said of SSE clients holds for all lives: their connections end with the
stream and their answers are not cached.

### Subscriptions

*Assumption:* `InputsAssumption` (a subscription names known streams). Both
theorems come from `WakesOK`: a wake or a holder has a running lease or waits to
be claimed (`Watched`); in an idle record each pending stream has a hook that has
not run, or is one that grew without a notice (`Noticed`); unless a stream was unlinked, the snapshot of a wake names
linked streams at or before their tails (`SnapshotCurrent`); every delivery of
the current wake showed at least the snapshot (`Shown`); and, unless a done
answer came late, no cursor is past what was shown (`Behind`). `NeverStuck` is not
inductive without `Noticed`, `NothingSkipped` not without `Shown`: the two
properties are about the same bookkeeping and are proved together.

### The Cloudflare server

*References.* The proof follows the id of an edge. It is in one place at a time: in a PUT that
waits, in an intent, in a fork's meta row, or owed to the source as a queued or
running release (`WaitingApart`, `IntentsApart`, `ForksApart`). An edge is only
recorded at an object that has a stream (`EdgesHaveStream`), the fork create lock
keeps creations and alarms on one object apart (`LockExcludes`), and what a
running job remembers is still true (`JobsOK`). So no release takes away a
reference that a fork owns or that a creation has just acquired.

*Sessions.* `ReadsAssumption`: sizes add up, and a producer sends no message under
the number of a request to close. `SessionInOrder` is not inductive: it says nothing
of where the client goes on reading. `HasRead` does: the last message it has of the
stream that is there is the one its offset stands for, of the first generation it has
everything up to there, and over one SSE connection it has messages of that
connection's generation only; two messages with one id stand next to each other only
where the producer's state was lost between them. `StepFits` says what each await leaves true (a session
that waits has the whole log of an open stream of its own generation; a long-poll that
asked the source is before the tail it knew), `ToldRight` that who was told "closed" is
at the end, and `GoodStream` that what was acknowledged is in the log: a duplicate is
one because the producer's state counts only stored messages until a close uses up a
number. Reads advance whenever there is something (`StitchFacts`), so an answer without
messages means the tail.

### The proxy

`ProxyInv` says where the chunks of a pipe are: while it may still store
something, what is stored and what it has gathered are the chunks read so far, in
order (`Follows`); once a batch is given up nothing is gathered and the steps that
are left store nothing. A caller reads what is stored, so it has a prefix too.

### Yjs

*Documents.* `HistoryServed` speaks of a reader that has finished; the invariant
says what each party knows while it is under way. While no history of `Harm` has
happened, every stored snapshot holds all updates before its offset
(`SnapshotsGood`) and the one that the index names last is stored (`LastStored`).
The offset in the server's memory is the index's last, unless a compaction is
between the index and the memory (`MemoryFollows`), and so is the one that a reader
was redirected to while the memory was empty (`RedirectFollows`). One compaction at
a time is before its cleanup (`OneActive`); at each of its awaits it has gathered what
its offset says, and what its cleanup deletes is older than the last snapshot
(`CompactionOK`). A reader has at each of its steps all updates before its position in
the document it started on (`ReaderOK`). None of these can be left out: a snapshot is
only as good as the one it was made from, which is reached through the memory or the
index, and a restart or a retry may have left either behind.

*Awareness.* `Tracked` is the strengthening: a stream that is not loose is `default`,
in the registry, or in the hands of the request that is about to record it; and a
deletion that has read the registry still has its name. `Current` ties what a stream
shows to the incarnation of the document.

*Provider.* A run of the update stream outlives the connection it was made for, and
applies what it reads whenever that arrives. `RunsHave` says that the provider has
every update before a run's offset; `FloorsFit` and `LinkPlaced` that the floor of each
connection (what was on the server when it began) is a position of the stream, that
the link names a connection, and that a synced which was not set early is a connected
one's; `ConnectedHas` that a connected link has its floor, unless it became so early.
The chunk that makes it so starts at the run's offset, so nothing before it is missing.
`CaughtUp` is needed for the later chunks: a run of the current connection whose initial
sync is over finds the link connected.

### Only model-checked

- Liveness (`PollsAnswered`, `ReaderCatchesUp`, `WritersEnd`,
  `PreloadSettles`, `LiveReadersCatchUp`, `EdgesSettle`, `ProviderCatchesUp`,
  `ReadersReleased`): outside what the prover handles.
- What recursive reads and folds compute: `ReadsStitch`, and with it the
  refinement `KeepsPromise`, `ForkReadsStitch`, `SSEDelivers`, `DBFollowsStream`.
- `RefCountExact` and `CloseIsPermanent` of `FileStore`: with two clients an append
  puts a record from before a fork or a close, so they hold only for requests that
  come one after the other (run `file_forks`).
- `SnapshotsAnnounced`: it is about which paths `GlobMatch` accepts, a recursive
  function on patterns, and would need induction over them.
- `ChatShowsSource`: the messages shown are a fold over the chunks
  (`ApplyChunksToMessages`).
- `ProducerIsTruthful` of producers that claim epochs, those of `writable()` among them
  (run `clients`, where a second batch never claims).

## What is not modelled

- *File store:* bytes within a frame (torn tails at recovery), handles evicted
  between write and fsync, shutdown. Recovery assumes that only the newest frame
  of a file can be unsynced, which the append lock ensures. A delete between an
  append's write and its fsync is `AppendFails`; that the fsync may then wait for
  an `open` event that never comes (`file-store.ts:210`) is not.
- *HTTP:* header parsing and validation, compression, the content of injected
  faults, the registry hook.
- *Client:* head, create and delete of a handle are single requests. Of a stream
  database with several types, what a reset does to the collections before one whose
  truncate throws is left out: the instances have one type.
- *Cloudflare:* renewal of a lifetime on access, header checks. Writes to an object's
  own database do not fail, so that a PUT which has made its row does not come to the
  catch that releases its edge (`stream-object.ts:893`).
- *Proxy:* signing of URLs and tokens, transport adapters.
- *Caddy server, clients in other languages:* further implementations of the same
  protocol.
- *CLI, benchmarks, tests, examples, docs:* no state of their own.
- *Formatting, JSON content, logging:* no property depends on them, except where
  `SSEWire` and `JsonMode` model the conversion.

External code is modelled from its use: LMDB and the file system, fastq,
ReadableStream, fetch and its abort, HTTP caches, TanStack DB collections,
JSON.parse and stringify, Durable Object storage and gates, Y.applyUpdate. A
custom fetch may send a failed request again (`refetch`).

## Plan

1. Proofs: `RefCountExact` of `FileStore` for one client.
2. The refinement's safety part for a non-recursive reading operator.
3. If there is room: torn frames of `FileStore` as a second level of detail.
