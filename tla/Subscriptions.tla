--------------------------- MODULE Subscriptions ---------------------------
(***************************************************************************)
(* Subscriptions of the reference server: subscription-manager.ts, the     *)
(* routes in subscription-routes.ts, and the hooks of server.ts that tell  *)
(* it of appends and deletes.  A subscription links streams, keeps a       *)
(* cursor for each, and wakes a worker while a stream is ahead of its      *)
(* cursor: by a webhook, or by an event on a wake stream that workers      *)
(* answer with a claim.  A wake has a generation that fences older ones    *)
(* and a lease after which it is given up.                                 *)
(*                                                                         *)
(* One subscription id.  Deleting and creating it again makes a new        *)
(* record, while a delivery on its way keeps the old one.  A stream path   *)
(* is a sequence of segments, an offset a number (-1 is "before first").   *)
(***************************************************************************)
EXTENDS Integers, Sequences, FiniteSets, Glob

CONSTANTS
    Streams,      \* stream paths
    Inputs,       \* bodies of PUT requests
    Workers,      \* pull-wake workers
    MaxOffset,    \* bound: messages of a stream
    MaxWakes,     \* bound: wakes of a record
    MaxChurn      \* bound: streams and subscriptions deleted, streams unlinked

ASSUME SubscriptionBounds ==
    MaxOffset \in Nat /\ MaxWakes \in Nat /\ MaxChurn \in Nat

\* A PUT names streams by their paths.
ASSUME InputsAssumption == \A in \in Inputs : in.streams \subseteq Streams

VARIABLES
    tails,        \* the streams: messages, 0 also when there is none
    churn,
    deleting,     \* streams deleted, with onStreamDeleted to come
    notices,      \* appends with onStreamAppend to come
    quiet,        \* history: streams that came with messages of which no notice was given
    recs,         \* every SubscriptionRecord made
    current,      \* the one in the map, or 0
    deliveries,   \* webhook POSTs without an answer
    held,         \* wake tokens given out
    claiming,     \* claims that await createWake
    down,         \* isShuttingDown
    lateDone      \* history: a done answer met another wake, or another stream

subscriptionVars == <<tails, churn, deleting, notices, quiet, recs, current, deliveries,
                      held, claiming, down, lateDone>>

None == "none"
BeforeFirst == -1

----------------------------------------------------------------------------
(* Requests *)

LeaseTtlOK(ms) == ms \in 1000 .. 600000

\* parseCreateInput: what makes a PUT a 400.
ParseCreateInput(in) ==
    /\ in.type \in {"webhook", "pull-wake"}
    /\ in.pattern # <<>> \/ in.streams # {}
    /\ LeaseTtlOK(in.ttl)
    /\ in.type = "webhook" => in.url # None
    /\ in.type = "pull-wake" => in.wakeStream

\* validateWebhookUrl, on the classes of URLs it tells apart.
ValidateWebhookUrl(url) == url \in {"http-localhost", "http-127", "https-public"}

\* createOrConfirm refuses what is not a webhook it may call.
InputAccepted(in) ==
    /\ ParseCreateInput(in)
    /\ in.type = "webhook" => ValidateWebhookUrl(in.url)

----------------------------------------------------------------------------
(* Records *)

Linked(r) == r.explicit \cup r.glob
Pending(r, s) == s \in Linked(r) /\ tails[s] > r.acked[s]
HasPendingWork(r) == \E s \in Streams : Pending(r, s)
\* streamInfos, as far as a worker reads it: the tails it was shown.
StreamInfos(r) == [s \in Linked(r) |-> tails[s]]
NoSnapshot == [s \in {} |-> 0]

NewRecord(in) ==
    LET matched == {s \in Streams : in.pattern # <<>> /\ tails[s] > 0
                                       /\ GlobMatch(in.pattern, s)}
    IN  [input |-> in, explicit |-> in.streams, glob |-> matched,
         acked |-> [s \in Streams |-> tails[s]],
         covered |-> [s \in Streams |-> tails[s]],   \* history: what workers dealt with
         gen |-> 0, wake |-> 0, snapshot |-> NoSnapshot, token |-> FALSE,
         relinked |-> FALSE,     \* history: a stream of this wake was unlinked
         holder |-> None, lease |-> FALSE, retry |-> FALSE, failed |-> FALSE]

\* linkStream: an existing link keeps its cursor.
LinkStream(r, s, offset) ==
    IF s \in Linked(r) THEN r
    ELSE [r EXCEPT !.acked[s] = offset, !.covered[s] = offset]

\* The record after createWake: the id of a wake is its generation.
WithWake(r) ==
    [r EXCEPT !.gen = @ + 1, !.wake = r.gen + 1, !.snapshot = StreamInfos(r),
              !.relinked = FALSE,
              !.token = @ \/ r.input.type = "webhook",
              !.lease = @ \/ r.input.type = "webhook"]

\* What a webhook, or the answer to a claim, tells the worker.
Delivery(k, r) == [rec |-> k, gen |-> r.gen, wake |-> r.wake, shown |-> StreamInfos(r)]

\* createWake: a webhook is posted at once, a wake event is appended.  posts are
\* the deliveries that go on.
CreateWake(k, r, posts) ==
    LET woken == WithWake(r)
        sent  == IF r.input.type = "webhook" THEN {Delivery(k, woken)} ELSE {}
    IN  /\ r.gen < MaxWakes
        /\ recs' = [recs EXCEPT ![k] = woken]
        /\ deliveries' = posts \cup sent /\ held' = held \cup sent

NoWake(k, r, posts) ==
    recs' = [recs EXCEPT ![k] = r] /\ deliveries' = posts /\ UNCHANGED held

\* The wake is over.
Idled(r) == [r EXCEPT !.lease = FALSE, !.token = FALSE, !.holder = None, !.wake = 0,
                      !.snapshot = NoSnapshot]

FinishAndForget(k, r, posts) == NoWake(k, Idled(r), posts)

\* The wake is over, and triggerNextWakeIfPending starts the next one.
FinishWake(k, r, posts) ==
    IF HasPendingWork(r) THEN CreateWake(k, Idled(r), posts)
    ELSE NoWake(k, Idled(r), posts)

----------------------------------------------------------------------------
(* Control *)

\* PUT; a second one finds the record, and is refused if it differs.
CreateOrConfirm(in) ==
    /\ current = 0 /\ ~down
    /\ InputAccepted(in)
    /\ recs' = Append(recs, NewRecord(in)) /\ current' = Len(recs) + 1
    /\ UNCHANGED <<tails, churn, deleting, notices, quiet, deliveries, held, claiming, down,
                   lateDone>>

\* DELETE: the timers are cleared; a POST on its way is not.
DeleteSubscription ==
    /\ current # 0 /\ churn < MaxChurn
    /\ recs' = [recs EXCEPT ![current].lease = FALSE, ![current].retry = FALSE]
    /\ current' = 0 /\ churn' = churn + 1
    /\ UNCHANGED <<tails, deleting, notices, quiet, deliveries, held, claiming, down,
                   lateDone>>

\* Linked from its tail on.
AddExplicitStream(s) ==
    /\ current # 0 /\ s \notin recs[current].explicit
    /\ recs' = [recs EXCEPT ![current] =
           [LinkStream(recs[current], s, tails[s]) EXCEPT !.explicit = @ \cup {s}]]
    /\ UNCHANGED <<tails, churn, deleting, notices, quiet, current, deliveries, held, claiming,
                   down, lateDone>>

\* A stream that the pattern links too stays linked.
RemoveExplicitStream(s) ==
    /\ current # 0 /\ s \in recs[current].explicit /\ churn < MaxChurn
    /\ recs' = [recs EXCEPT ![current].explicit = @ \ {s}, ![current].relinked = TRUE]
    /\ churn' = churn + 1
    /\ UNCHANGED <<tails, deleting, notices, quiet, current, deliveries, held, claiming,
                   down, lateDone>>

Shutdown ==
    /\ ~down /\ down' = TRUE /\ current' = 0
    /\ recs' = IF current = 0 THEN recs
               ELSE [recs EXCEPT ![current].lease = FALSE, ![current].retry = FALSE]
    /\ UNCHANGED <<tails, churn, deleting, notices, quiet, deliveries, held, claiming, lateDone>>

----------------------------------------------------------------------------
(* Streams *)

\* An append; handleAppend calls onStreamAppend after it.
StreamGrowsBy1(s) ==
    /\ tails[s] < MaxOffset - churn
    /\ tails' = [tails EXCEPT ![s] = @ + 1]
    /\ notices' = notices \cup {s}
    /\ UNCHANGED <<churn, deleting, quiet, recs, current, deliveries, held, claiming, down,
                   lateDone>>

\* A PUT that makes a fork has the messages of its source at once; handleCreate calls
\* onStreamAppend only for a body (and only if there was no stream when it looked).
StreamForked(s) ==
    /\ tails[s] = 0
    /\ \E n \in 1 .. MaxOffset - churn : tails' = [tails EXCEPT ![s] = n]
    /\ quiet' = quiet \cup {s}
    /\ UNCHANGED <<churn, deleting, notices, recs, current, deliveries, held, claiming, down,
                   lateDone>>

\* maybeWake.
MaybeWake(k, r) ==
    IF r.wake # 0 \/ r.holder # None \/ ~HasPendingWork(r)
    THEN NoWake(k, r, deliveries)
    ELSE CreateWake(k, r, deliveries)

OnStreamAppend(s) ==
    LET r == recs[current]
        matches == r.input.pattern # <<>> /\ GlobMatch(r.input.pattern, s)
        linked == IF matches THEN [LinkStream(r, s, BeforeFirst) EXCEPT !.glob = @ \cup {s}]
                  ELSE r
    IN  /\ s \in notices /\ notices' = notices \ {s} /\ quiet' = quiet \ {s}
        /\ IF current # 0 /\ ~down /\ s \in Linked(linked)
           THEN MaybeWake(current, linked)
           ELSE UNCHANGED <<recs, deliveries, held>>
        /\ UNCHANGED <<tails, churn, deleting, current, claiming, down, lateDone>>

\* DELETE of a stream; a lifecycle hook may come before onStreamDeleted.
StreamIsDeleted(s) ==
    /\ tails[s] > 0 /\ churn < MaxChurn
    /\ tails' = [tails EXCEPT ![s] = 0] /\ churn' = churn + 1
    /\ deleting' = deleting \cup {s}
    /\ recs' = IF current = 0 THEN recs ELSE [recs EXCEPT ![current].relinked = TRUE]
    /\ UNCHANGED <<notices, quiet, current, deliveries, held, claiming, down, lateDone>>

OnStreamDeleted(s) ==
    /\ s \in deleting /\ deleting' = deleting \ {s}
    /\ recs' = IF current = 0 THEN recs
               ELSE [recs EXCEPT ![current].explicit = @ \ {s}, ![current].glob = @ \ {s},
                               ![current].relinked = TRUE]
    /\ UNCHANGED <<tails, churn, notices, quiet, current, deliveries, held, claiming, down, lateDone>>

----------------------------------------------------------------------------
(* Webhooks *)

AckTail(r) ==
    [r EXCEPT !.acked = [s \in Streams |->
        IF s \in DOMAIN r.snapshot /\ s \in Linked(r) THEN tails[s] ELSE @[s]]]

\* autoAckWakeSnapshot: of the wake the record has now.
AutoAckWakeSnapshot(r) ==
    [r EXCEPT !.acked = [s \in Streams |->
        IF s \in DOMAIN r.snapshot /\ s \in Linked(r) THEN r.snapshot[s] ELSE @[s]]]

Larger(a, b) == IF a > b THEN a ELSE b

\* History: what the worker was shown is dealt with.
Cover(r, shown) ==
    [r EXCEPT !.covered = [s \in Streams |->
        IF s \in DOMAIN shown THEN Larger(@[s], shown[s]) ELSE @[s]]]

\* 2xx with done: true.  The snapshot is the one of the wake that is current now.
WebhookDone(d) ==
    LET r == recs[d.rec] IN
    /\ d \in deliveries
    /\ FinishWake(d.rec, Cover(AutoAckWakeSnapshot([r EXCEPT !.failed = FALSE]), d.shown),
                  deliveries \ {d})
    /\ lateDone' = (lateDone \/ (r.wake # 0 /\ r.wake # d.wake) \/ r.relinked)
    /\ UNCHANGED <<tails, churn, deleting, notices, quiet, current, claiming, down>>

\* Another 2xx: the worker will call back, or let the lease expire.
WebhookAccepted(d) ==
    /\ d \in deliveries
    /\ NoWake(d.rec, [recs[d.rec] EXCEPT !.failed = FALSE], deliveries \ {d})
    /\ UNCHANGED <<tails, churn, deleting, notices, quiet, current, claiming, down, lateDone>>

\* scheduleWebhookRetry.
WebhookFails(d) ==
    /\ d \in deliveries
    /\ IF down THEN NoWake(d.rec, recs[d.rec], deliveries \ {d})
       ELSE NoWake(d.rec, [recs[d.rec] EXCEPT !.failed = TRUE, !.retry = TRUE],
                   deliveries \ {d})
    /\ UNCHANGED <<tails, churn, deleting, notices, quiet, current, claiming, down, lateDone>>

\* The retry timer: deliverWebhook of the wake that is current now, if any.
RetryFires(k) ==
    LET r == [recs[k] EXCEPT !.retry = FALSE]
        sent == IF r.wake # 0 /\ r.token THEN {Delivery(k, r)} ELSE {}
    IN  /\ recs[k].retry
        /\ recs' = [recs EXCEPT ![k] = r]
        /\ deliveries' = deliveries \cup sent /\ held' = held \cup sent
        /\ UNCHANGED <<tails, churn, deleting, notices, quiet, current, claiming, down, lateDone>>

\* The lease timer.
LeaseExpires(k) ==
    /\ recs[k].lease
    /\ FinishWake(k, recs[k], deliveries)
    /\ UNCHANGED <<tails, churn, deleting, notices, quiet, current, claiming, down, lateDone>>

----------------------------------------------------------------------------
(* Workers *)

\* claim: without a wake it makes one and awaits the append of its event.
Claim(w) ==
    LET r == recs[current] IN
    /\ current # 0 /\ w \notin {c.worker : c \in claiming}
    /\ r.input.type = "pull-wake" /\ r.holder = None /\ HasPendingWork(r)
    /\ IF r.wake = 0 THEN CreateWake(current, r, deliveries)
       ELSE UNCHANGED <<recs, deliveries, held>>
    /\ claiming' = claiming \cup {[worker |-> w, rec |-> current]}
    /\ UNCHANGED <<tails, churn, deleting, notices, quiet, current, down, lateDone>>

\* ... then the worker is the holder, whatever happened to the record meanwhile.
ClaimResumes(c) ==
    LET r == [recs[c.rec] EXCEPT !.holder = c.worker, !.token = TRUE, !.lease = TRUE] IN
    /\ c \in claiming /\ claiming' = claiming \ {c}
    /\ recs' = [recs EXCEPT ![c.rec] = r]
    /\ held' = held \cup {Delivery(c.rec, r)}
    /\ UNCHANGED <<tails, churn, deleting, notices, quiet, current, deliveries, down, lateDone>>

\* validateWakeToken.
WakeTokenValid(r, h) == h.rec = current /\ h.gen = r.gen /\ h.wake = r.wake

\* applyAcks: forward, and not beyond the tail; one bad offset refuses all.
AcksValid(r, acks) ==
    \A s \in DOMAIN acks : s \in Linked(r) /\ acks[s] \in r.acked[s] .. tails[s]

WithAcks(r, acks) ==
    Cover([r EXCEPT !.acked = [s \in Streams |->
               IF s \in DOMAIN acks THEN acks[s] ELSE @[s]]], acks)

\* The acknowledgements a worker may send: everything it was shown, the first
\* message only, or nothing.
AcksOf(h) ==
    {h.shown, NoSnapshot} \cup
    {[s \in {t} |-> 1] : t \in {t \in DOMAIN h.shown : h.shown[t] > 0}}

\* A duplicate or a late acknowledgement meets validateWakeToken.
Acknowledge(h, acks, done) ==
    LET r == recs[current] IN
    /\ current # 0
    /\ WakeTokenValid(r, h) /\ AcksValid(r, acks)
    /\ IF done THEN FinishWake(current, WithAcks(r, acks), deliveries)
       ELSE NoWake(current, [WithAcks(r, acks) EXCEPT !.lease = TRUE], deliveries)
    /\ UNCHANGED <<tails, churn, deleting, notices, quiet, current, claiming, down, lateDone>>

\* handleWebhookCallback: the type of the subscription is not looked at.
Callback(h, acks, done) == Acknowledge(h, acks, done)

Ack(h, acks, done) ==
    /\ current # 0 /\ recs[current].input.type = "pull-wake"
    /\ Acknowledge(h, acks, done)

Release(h) ==
    /\ current # 0
    /\ recs[current].input.type = "pull-wake" /\ WakeTokenValid(recs[current], h)
    /\ FinishWake(current, recs[current], deliveries)
    /\ UNCHANGED <<tails, churn, deleting, notices, quiet, current, claiming, down, lateDone>>

----------------------------------------------------------------------------
(* The routes: a request of another method (405), without a bearer token (401), *)
(* with a malformed body (400) or for a subscription that is not there (404)    *)
(* changes nothing.                                                             *)

\* POST .../streams and DELETE .../streams/<path>.
HandleStreams(s) == s # <<>> /\ AddExplicitStream(s)
HandleStream(s) == RemoveExplicitStream(s)

\* POST .../claim names its worker.
HandleClaim(w) == w # None /\ Claim(w)

\* POST .../callback, .../ack and .../release present a token that was given out.
HandleCallback(h, acks, done) == h \in held /\ Callback(h, acks, done)
HandleAck(h, acks, done) == h \in held /\ Ack(h, acks, done)
HandleRelease(h) == h \in held /\ Release(h)

----------------------------------------------------------------------------

SubscriptionInit ==
    /\ tails = [s \in Streams |-> 0]
    /\ churn = 0 /\ deleting = {} /\ notices = {} /\ quiet = {}
    /\ recs = <<>> /\ current = 0
    /\ deliveries = {} /\ held = {} /\ claiming = {} /\ down = FALSE /\ lateDone = FALSE

SubscriptionNext ==
    \/ \E in \in Inputs : CreateOrConfirm(in)
    \/ DeleteSubscription \/ Shutdown
    \/ \E s \in Streams :
         \/ HandleStreams(s) \/ HandleStream(s)
         \/ StreamGrowsBy1(s) \/ StreamForked(s) \/ OnStreamAppend(s)
         \/ StreamIsDeleted(s) \/ OnStreamDeleted(s)
    \/ \E d \in deliveries : WebhookDone(d) \/ WebhookAccepted(d) \/ WebhookFails(d)
    \/ \E k \in DOMAIN recs : RetryFires(k) \/ LeaseExpires(k)
    \/ \E w \in Workers : HandleClaim(w)
    \/ \E c \in claiming : ClaimResumes(c)
    \/ \E h \in held :
         \/ \E acks \in AcksOf(h), done \in BOOLEAN :
              HandleCallback(h, acks, done) \/ HandleAck(h, acks, done)
         \/ HandleRelease(h)

SubscriptionSpec == SubscriptionInit /\ [][SubscriptionNext]_subscriptionVars

----------------------------------------------------------------------------
(* Properties *)

\* The cursor of a stream never passes what some worker was shown and answered
\* for, however wakes, retries, lease expiries and callbacks overlap: no message
\* is skipped.  Only a done answer that comes after its wake was replaced, or
\* after a stream of its wake was unlinked or deleted, breaks this: the snapshot
\* it acknowledges is not what the worker was shown.
NothingSkipped ==
    (current # 0 /\ ~lateDone) =>
        \A s \in Linked(recs[current]) : recs[current].acked[s] <= recs[current].covered[s]

\* Somebody will act: a wake with its lease running, a wake that waits to be
\* claimed, a claim on its way, or the hook of an append that has not run yet.
Attended(r) ==
    \/ r.lease
    \/ r.input.type = "pull-wake" /\ r.wake # 0 /\ r.holder = None
    \/ \E s \in Streams : Pending(r, s) /\ s \in notices
    \/ \E c \in claiming : c.rec = current

\* While a linked stream is ahead of its cursor somebody will act, however wakes,
\* claims, retries, lease expiries and deletions overlap (maybeWake,
\* triggerNextWakeIfPending, onStreamAppend).  Excepted is a stream whose messages
\* came with a PUT that gave no notice (handleCreate), until its next append.
NeverStuck ==
    LET r == recs[current] IN
    (current # 0 /\ \E s \in Streams \ quiet : Pending(r, s)) => Attended(r)
=============================================================================
