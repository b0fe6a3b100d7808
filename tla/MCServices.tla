----------------------------- MODULE MCServices -----------------------------
(* What is built on streams and around them, one part at a time: focus      *)
(* names the one whose run this is.  The others stay as they were made.     *)
EXTENDS RequestRouting, StreamObject, StreamObjectReads, YjsDocument, YjsAwareness,
        YjsProvider, Proxy

VARIABLE focus

\* A webhook and a pull-wake subscription that follow the stream, and bodies that are refused.
PutBody(type, pattern, url, wakeStream, ttl) ==
    [type |-> type, pattern |-> pattern, streams |-> {}, url |-> url, wakeStream |-> wakeStream, ttl |-> ttl]
MCStreams == {<<"a", "b">>}
MCInputs ==
    {PutBody("webhook", <<"a", "**">>, "https-public", FALSE, 30000),
     PutBody("pull-wake", <<"a", "*">>, None, TRUE, 1000),
     PutBody("webhook", <<"**">>, "https-private", FALSE, 30000),
     PutBody("pull-wake", <<"**">>, None, FALSE, 999)}

\* A path and its fork.
MCForks == {<<"fork", "root">>}

\* Two inherited messages or none, a message that is larger than the budget of a batch, and either a
\* deletion or a producer's state that gets too old.
MCReadSetups ==
    {[kind |-> k, inherited |-> 2 * i, ends |-> <<1, 4, 5, 6>>, budget |-> 2, rebirths |-> r, ageings |-> 1 - r] :
       k \in {"poll", "sse"}, i \in 0 .. 1, r \in 0 .. 1}

\* A producer of two epochs.
MCMessageNumbers == {<<0, 0>>, <<0, 1>>, <<1, 0>>}
MCCloseNumbers == {<<0, 2>>, <<1, 1>>}

ProviderOpts(awareness, remote, edits, troubles) ==
    [awareness |-> awareness, remote |-> remote, edits |-> edits, troubles |-> troubles]

\* Others write; this client writes, with a request that fails; awareness.
MCProviderSetups ==
    {ProviderOpts(FALSE, 2, 0, 0), ProviderOpts(FALSE, 1, 0, 1), ProviderOpts(FALSE, 0, 2, 1),
     ProviderOpts(TRUE, 0, 0, 1)}

UpstreamOf(protocol, host, port, path) ==
    [protocol |-> protocol, host |-> host, port |-> port, path |-> path]
MCAllowlist ==
    {[protocol |-> "https", host |-> <<"example", "com">>, subdomains |-> TRUE, port |-> 8443, path |-> <<"v1">>,
      below |-> TRUE]}
MCUpstreams ==
    {UpstreamOf("https", <<"api", "example", "com">>, 8443, <<"v1", "chat">>),
     UpstreamOf("https", <<"example", "com">>, 443, <<"v1">>)}

\* Patterns with a star of each kind, and bodies that either server refuses.
SnapshotBody(events, pattern, ttl) ==
    [type |-> "webhook", events |-> events, pattern |-> pattern, url |-> "https-public", ttl |-> ttl]
MCBodies ==
    {SnapshotBody(<<Event>>, <<"", "a", "*", "">>, 30000), SnapshotBody(<<Event>>, <<"**">>, 30000),
     SnapshotBody(<<Event>>, <<"**", "b">>, 999), SnapshotBody(<<Event>>, <<"a", "", "b">>, 30000),
     SnapshotBody(<<>>, <<"a">>, 30000)}
MCDocuments == {<<"a">>, <<"a", "b">>, <<"b", "">>}

serviceVars == <<subscriptionVars, snapshotVars, objectVars, readVars, yjsVars, awarenessVars,
                 providerVars, proxyVars, focus>>

ServicesInit ==
    /\ focus \in {"subscriptions", "snapshots", "objects", "reads", "documents", "awareness",
                  "provider", "proxy"}
    /\ SubscriptionInit /\ SnapshotInit /\ ObjectInit /\ YjsInit /\ AwarenessInit /\ ProxyInit
    /\ ReadsInit /\ (focus # "reads" => world = CHOOSE s \in ReadSetups : TRUE)
    /\ ProviderInit /\ (focus # "provider" => provider = CHOOSE s \in ProviderSetups : TRUE)

ServicesNext ==
    /\ UNCHANGED focus
    /\ \/ /\ focus = "subscriptions" /\ SubscriptionNext
          /\ UNCHANGED <<snapshotVars, objectVars, readVars, yjsVars, awarenessVars,
                         providerVars, proxyVars>>
       \/ /\ focus = "snapshots" /\ SnapshotNext
          /\ UNCHANGED <<subscriptionVars, objectVars, readVars, yjsVars, awarenessVars,
                         providerVars, proxyVars>>
       \/ /\ focus = "objects" /\ ObjectNext
          /\ UNCHANGED <<subscriptionVars, snapshotVars, readVars, yjsVars, awarenessVars,
                         providerVars, proxyVars>>
       \/ /\ focus = "reads" /\ ReadsNext
          /\ UNCHANGED <<subscriptionVars, snapshotVars, objectVars, yjsVars, awarenessVars,
                         providerVars, proxyVars>>
       \/ /\ focus = "documents" /\ YjsNext
          /\ UNCHANGED <<subscriptionVars, snapshotVars, objectVars, readVars, awarenessVars,
                         providerVars, proxyVars>>
       \/ /\ focus = "awareness" /\ AwarenessNext
          /\ UNCHANGED <<subscriptionVars, snapshotVars, objectVars, readVars, yjsVars,
                         providerVars, proxyVars>>
       \/ /\ focus = "provider" /\ ProviderNext
          /\ UNCHANGED <<subscriptionVars, snapshotVars, objectVars, readVars, yjsVars,
                         awarenessVars, proxyVars>>
       \/ /\ focus = "proxy" /\ ProxyNext
          /\ UNCHANGED <<subscriptionVars, snapshotVars, objectVars, readVars, yjsVars,
                         awarenessVars, providerVars>>

\* The fairness of the part in focus, as its module states it.
ServicesFairness ==
    /\ WF_objectVars(focus = "objects" /\ ObjectProgress)
    /\ WF_providerVars(focus = "provider" /\ \E c \in DOMAIN contexts : ConnectSteps(c))
    /\ WF_providerVars(focus = "provider" /\ \E c \in DOMAIN contexts : ProducerSteps(c))
    /\ WF_providerVars(focus = "provider" /\ \E r \in runs : RunSteps(r))
    /\ WF_providerVars(focus = "provider" /\ \E a \in listening : ListenSteps(a))
    /\ WF_providerVars(focus = "provider" /\ PresenceSteps)
    /\ \A i \in 1 .. MaxProxied : WF_proxyVars(focus = "proxy" /\ i \in DOMAIN pipes /\ PipeSteps(i))
    /\ \A c \in Callers : WF_proxyVars(focus = "proxy" /\ ReadStored(c))

ServicesSpec == ServicesInit /\ [][ServicesNext]_serviceVars /\ ServicesFairness

=============================================================================
