----------------------------- MODULE YjsProofs -----------------------------
(***************************************************************************)
(* Proofs about the Yjs layer, for every bound: a provider that says it is *)
(* synced has the document it connected to, and a reader of the server's   *)
(* snapshots and updates has every update, whatever compactions run.       *)
(***************************************************************************)
EXTENDS YjsDocument, YjsAwareness, YjsProvider, TLAPS

(***************************************************************************)
(* The provider: the updates every run has gone through are in the         *)
(* document, whichever connection the run belongs to.  A run of the        *)
(* present connection whose initial sync is over made it "connected", and  *)
(* a "connected" that is not early was reached at the tail.                *)
(***************************************************************************)
ProviderContext ==
  [step : {"ensure", "discover", "load", "stream", "over"}, want : Nat, start : Nat, aborted : BOOLEAN,
   producer : {"none", "open", "closing", "closed"}, out : Seq(Nat),
   seq : Nat, err : {"none", "auth", "other"}, floor : Nat]
ProviderLink ==
  [state : {"disconnected", "connecting", "connected"}, synced : BOOLEAN, early : BOOLEAN, ctx : Nat,
   generation : Nat]
ProviderRun ==
  [ctx : Nat, gen : Nat, offset : Nat, pending : BOOLEAN, step : {"opening", "reading", "waiting"}]

ProviderTypeOK ==
  /\ provider \in ProviderSetups
  /\ updates \in Seq(Nat) /\ snapshotAt \in Nat
  /\ link \in ProviderLink
  /\ contexts \in Seq(ProviderContext)
  /\ runs \subseteq ProviderRun
  /\ spent \in [edits : Nat, remote : Nat, troubles : Nat]

\* the first n of the updates u are in d
Has(u, n, d) == n <= Len(u) /\ \A i \in 1 .. n : u[i] \in d

\* floors and snapshots are positions of the stream
FloorsFit(u, cs, at) ==
  at <= Len(u) /\ \A c \in DOMAIN cs : cs[c].floor <= Len(u)

RunsHave(u, d, rs, cs) == \A r \in rs : r.ctx \in DOMAIN cs /\ Has(u, r.offset, d)

LinkPlaced(l, cs) ==
  /\ l.ctx = 0 <=> l.state = "disconnected"
  /\ l.ctx # 0 => l.ctx \in DOMAIN cs
  /\ l.synced /\ ~l.early => l.state = "connected"

CaughtUp(l, rs) == \A r \in rs : r.ctx = l.ctx /\ ~r.pending => l.state = "connected"

ConnectedHas(u, d, l, cs) ==
  l.state = "connected" /\ ~l.early => Has(u, cs[l.ctx].floor, d)

ProviderInv ==
  /\ ProviderTypeOK
  /\ FloorsFit(updates, contexts, snapshotAt)
  /\ RunsHave(updates, doc, runs, contexts)
  /\ LinkPlaced(link, contexts)
  /\ CaughtUp(link, runs)
  /\ ConnectedHas(updates, doc, link, contexts)

----------------------------------------------------------------------------
\* v goes on where u ends
Longer(u, v) == Len(u) <= Len(v) /\ \A i \in 1 .. Len(u) : v[i] = u[i]

LEMMA LongerSame ==
  ASSUME NEW u \in Seq(Nat)
  PROVE  Longer(u, u)
  BY DEF Longer

LEMMA LongerJoined ==
  ASSUME NEW u \in Seq(Nat), NEW v \in Seq(Nat)
  PROVE  u \o v \in Seq(Nat) /\ Longer(u, u \o v)
  BY DEF Longer

LEMMA HasMore ==
  ASSUME NEW u \in Seq(Nat), NEW v \in Seq(Nat), Longer(u, v), NEW n \in Nat, NEW d, NEW e,
         Has(u, n, d), d \subseteq e
  PROVE  Has(v, n, e)
<1>1. n <= Len(u) /\ Len(u) <= Len(v) /\ Len(u) \in Nat /\ Len(v) \in Nat
  BY DEF Has, Longer
<1>2. ASSUME NEW i \in 1 .. n PROVE v[i] \in e
  <2>1. i \in 1 .. Len(u)
    BY <1>1
  <2>2. u[i] \in d
    BY DEF Has
  <2>3. v[i] = u[i]
    BY <2>1 DEF Longer
  <2> QED BY <2>2, <2>3
<1> QED BY <1>1, <1>2 DEF Has

LEMMA HasPrefix ==
  ASSUME NEW n \in Nat, NEW d, Has(updates, n, d)
  PROVE  Prefix(n) \subseteq d
  BY DEF Has, Prefix

\* contexts that are added or change in other ways keep their floor
Grown(cs, ds) == \A c \in DOMAIN cs : c \in DOMAIN ds /\ ds[c].floor = cs[c].floor

\* What a step has to show.
LEMMA StepKeeps ==
  ASSUME ProviderInv, ProviderTypeOK',
         Longer(updates, updates'), snapshotAt' <= Len(updates'), doc \subseteq doc',
         Grown(contexts, contexts'),
         \A c \in DOMAIN contexts' : c \in DOMAIN contexts \/ contexts'[c].floor <= Len(updates'),
         \A r \in runs' : r \in runs \/ (r.ctx \in DOMAIN contexts' /\ Has(updates', r.offset, doc')),
         LinkPlaced(link', contexts'), CaughtUp(link', runs'),
         ConnectedHas(updates', doc', link', contexts')
  PROVE  ProviderInv'
<1>0. updates \in Seq(Nat) /\ updates' \in Seq(Nat) /\ contexts \in Seq(ProviderContext)
  BY DEF ProviderInv, ProviderTypeOK
<1>1. FloorsFit(updates', contexts', snapshotAt')
  <2> SUFFICES ASSUME NEW c \in DOMAIN contexts'
               PROVE  contexts'[c].floor <= Len(updates')
    BY DEF FloorsFit
  <2>1. CASE c \in DOMAIN contexts
    <3>1. contexts'[c].floor = contexts[c].floor /\ contexts[c].floor <= Len(updates)
      BY <2>1 DEF ProviderInv, FloorsFit, Grown
    <3>2. contexts[c] \in ProviderContext
      BY <1>0, <2>1
    <3>3. PICK f \in Nat : f = contexts[c].floor
      BY <3>2 DEF ProviderContext
    <3>4. Len(updates) <= Len(updates') /\ Len(updates) \in Nat /\ Len(updates') \in Nat
      BY <1>0 DEF Longer
    <3> QED BY <3>1, <3>3, <3>4
  <2> QED BY <2>1
<1>2. RunsHave(updates', doc', runs', contexts')
  <2> SUFFICES ASSUME NEW r \in runs'
               PROVE  r.ctx \in DOMAIN contexts' /\ Has(updates', r.offset, doc')
    BY DEF RunsHave
  <2>1. CASE r \in runs
    <3>1. r.ctx \in DOMAIN contexts /\ Has(updates, r.offset, doc)
      BY <2>1 DEF ProviderInv, RunsHave
    <3>2. r \in ProviderRun
      BY <2>1 DEF ProviderInv, ProviderTypeOK
    <3>3. r.offset \in Nat
      BY <3>2 DEF ProviderRun
    <3>4. Has(updates', r.offset, doc')
      BY <1>0, <3>1, <3>3, HasMore
    <3> QED BY <3>1, <3>4 DEF Grown
  <2> QED BY <2>1
<1> QED BY <1>1, <1>2 DEF ProviderInv

\* A link that stays connected, or as early as it was, says what it said.
LEMMA SameLink ==
  ASSUME ProviderInv, updates' \in Seq(Nat), Longer(updates, updates'), doc \subseteq doc',
         Grown(contexts, contexts'), link'.ctx = link.ctx, link'.state = link.state, link'.early = link.early,
         link'.synced => link.synced
  PROVE  /\ LinkPlaced(link', contexts')
         /\ ConnectedHas(updates', doc', link', contexts')
<1>1. LinkPlaced(link', contexts')
  BY DEF ProviderInv, LinkPlaced, Grown
<1>2. ASSUME link'.state = "connected", ~link'.early
      PROVE  Has(updates', contexts'[link'.ctx].floor, doc')
  <2>1. link.ctx \in DOMAIN contexts
    BY <1>2 DEF ProviderInv, LinkPlaced
  <2>2. Has(updates, contexts[link.ctx].floor, doc)
    BY <1>2 DEF ProviderInv, ConnectedHas
  <2>3. updates \in Seq(Nat) /\ contexts \in Seq(ProviderContext)
    BY DEF ProviderInv, ProviderTypeOK
  <2>4. contexts[link.ctx] \in ProviderContext
    BY <2>1, <2>3
  <2>5. contexts[link.ctx].floor \in Nat
    BY <2>4 DEF ProviderContext
  <2>6. Has(updates', contexts[link.ctx].floor, doc')
    BY <2>2, <2>3, <2>5, HasMore
  <2> QED BY <2>1, <2>6 DEF Grown
<1> QED BY <1>1, <1>2 DEF ConnectedHas

\* Runs that were there, and ones that are pending, ask nothing more of the link.
LEMMA SameRuns ==
  ASSUME ProviderInv, link'.ctx = link.ctx, link'.state = link.state,
         \A q \in runs' : q.pending \/ \E r \in runs : r.ctx = q.ctx /\ r.pending = q.pending
  PROVE  CaughtUp(link', runs')
  BY DEF ProviderInv, CaughtUp

----------------------------------------------------------------------------
(* Contexts *)

LEMMA ContextChanged ==
  ASSUME NEW cs \in Seq(ProviderContext), NEW c \in DOMAIN cs, NEW x \in ProviderContext,
         x.floor = cs[c].floor
  PROVE  /\ [cs EXCEPT ![c] = x] \in Seq(ProviderContext)
         /\ DOMAIN [cs EXCEPT ![c] = x] = DOMAIN cs
         /\ Grown(cs, [cs EXCEPT ![c] = x])
  BY DEF Grown

LEMMA ContextAdded ==
  ASSUME NEW cs \in Seq(ProviderContext), NEW x \in ProviderContext
  PROVE  /\ Append(cs, x) \in Seq(ProviderContext)
         /\ DOMAIN Append(cs, x) = DOMAIN cs \cup {Len(cs) + 1}
         /\ Append(cs, x)[Len(cs) + 1] = x
         /\ Len(cs) + 1 \in Nat \ {0}
         /\ Grown(cs, Append(cs, x))
  BY DEF Grown

LEMMA GrownTwice ==
  ASSUME NEW a, NEW b, NEW c, Grown(a, b), Grown(b, c)
  PROVE  Grown(a, c)
  BY DEF Grown

LEMMA NewContextType ==
  ASSUME NEW n \in Nat
  PROVE  NewContext(n) \in ProviderContext /\ NewContext(n).floor = n
<1>1. <<>> \in Seq(Nat)
  OBVIOUS
<1> QED BY <1>1 DEF NewContext, ProviderContext

LEMMA ClosingType ==
  ASSUME NEW cs \in Seq(ProviderContext), NEW c \in Nat, c # 0 => c \in DOMAIN cs
  PROVE  /\ Closing(cs, c) \in Seq(ProviderContext)
         /\ DOMAIN Closing(cs, c) = DOMAIN cs
         /\ Grown(cs, Closing(cs, c))
<1>1. CASE c = 0
  BY <1>1 DEF Closing, Grown
<1>2. CASE c # 0
  <2> DEFINE x == [cs[c] EXCEPT !.producer = IF @ = "open" THEN "closing" ELSE @,
                                !.aborted = cs[c].producer # "open"]
  <2>1. cs[c] \in ProviderContext
    BY <1>2
  <2>2. x \in ProviderContext /\ x.floor = cs[c].floor
    BY <2>1 DEF ProviderContext
  <2>3. Closing(cs, c) = [cs EXCEPT ![c] = x]
    BY <1>2, <2>1 DEF Closing, ProviderContext
  <2> HIDE DEF x
  <2>4. /\ [cs EXCEPT ![c] = x] \in Seq(ProviderContext)
        /\ DOMAIN [cs EXCEPT ![c] = x] = DOMAIN cs
        /\ Grown(cs, [cs EXCEPT ![c] = x])
    BY <1>2, <2>2, ContextChanged
  <2> QED BY <2>3, <2>4
<1> QED BY <1>1, <1>2

LEMMA StepChanged ==
  ASSUME NEW cs \in Seq(ProviderContext), NEW c \in DOMAIN cs,
         NEW s \in {"ensure", "discover", "load", "stream", "over"}
  PROVE  /\ [cs EXCEPT ![c].step = s] \in Seq(ProviderContext)
         /\ DOMAIN [cs EXCEPT ![c].step = s] = DOMAIN cs
         /\ Grown(cs, [cs EXCEPT ![c].step = s])
<1> DEFINE x == [cs[c] EXCEPT !.step = s]
<1>0. cs[c] \in ProviderContext
  OBVIOUS
<1>1. x \in ProviderContext /\ x.floor = cs[c].floor
  BY <1>0 DEF ProviderContext
<1>2. [cs EXCEPT ![c].step = s] = [cs EXCEPT ![c] = x]
  OBVIOUS
<1> HIDE DEF x
<1> QED BY <1>1, <1>2, ContextChanged

LEMMA UnlinkedType ==
  ASSUME NEW l \in ProviderLink
  PROVE  /\ Unlinked(l) \in ProviderLink
         /\ l.ctx # 0 => /\ Unlinked(l).ctx = 0 /\ Unlinked(l).state = "disconnected"
                        /\ ~Unlinked(l).synced
<1>1. CASE l.ctx = 0
  BY <1>1 DEF Unlinked
<1>2. CASE l.ctx # 0
  <2>1. l.generation + 1 \in Nat
    BY DEF ProviderLink
  <2> QED BY <1>2, <2>1 DEF Unlinked, ProviderLink
<1> QED BY <1>1, <1>2

LEMMA SnapshotFits ==
  ASSUME ProviderInv, updates' \in Seq(Nat), Longer(updates, updates'), UNCHANGED snapshotAt
  PROVE  snapshotAt' <= Len(updates')
<1>1. snapshotAt \in Nat /\ snapshotAt <= Len(updates) /\ updates \in Seq(Nat)
  BY DEF ProviderInv, FloorsFit, ProviderTypeOK
<1>2. Len(updates) <= Len(updates') /\ Len(updates) \in Nat /\ Len(updates') \in Nat
  BY <1>1 DEF Longer
<1> QED BY <1>1, <1>2

\* disconnect(), of a context list cs that keeps the floors
LEMMA DisconnectedKeeps ==
  ASSUME ProviderInv, NEW cs \in Seq(ProviderContext), DOMAIN cs = DOMAIN contexts, Grown(contexts, cs),
         Disconnected(cs), UNCHANGED <<provider, snapshotAt, doc>>,
         updates' \in Seq(Nat), Longer(updates, updates'),
         runs' \subseteq runs, spent' \in [edits : Nat, remote : Nat, troubles : Nat]
  PROVE  ProviderInv'
<1>1. link \in ProviderLink /\ link.ctx \in Nat /\ (link.ctx # 0 => link.ctx \in DOMAIN cs)
  BY DEF ProviderInv, ProviderTypeOK, ProviderLink, LinkPlaced
<1>2. /\ contexts' \in Seq(ProviderContext) /\ DOMAIN contexts' = DOMAIN contexts
      /\ Grown(contexts, contexts')
  BY <1>1, ClosingType, GrownTwice DEF Disconnected
<1>3. link' = Unlinked(link) /\ link' \in ProviderLink
  BY <1>1, UnlinkedType DEF Disconnected
<1>4. ProviderTypeOK'
  BY <1>2, <1>3 DEF ProviderInv, ProviderTypeOK
<1>5. /\ LinkPlaced(link', contexts') /\ CaughtUp(link', runs')
      /\ ConnectedHas(updates', doc', link', contexts')
  <2>1. CASE link.ctx = 0
    <3>1. link' = link
      BY <1>3, <2>1 DEF Unlinked
    <3>2. LinkPlaced(link', contexts') /\ ConnectedHas(updates', doc', link', contexts')
      BY <3>1, <1>2, SameLink
    <3>3. CaughtUp(link', runs')
      BY <3>1, SameRuns
    <3> QED BY <3>2, <3>3
  <2>2. CASE link.ctx # 0
    <3>1. link'.ctx = 0 /\ link'.state = "disconnected" /\ ~link'.synced
      BY <1>1, <1>3, <2>2, UnlinkedType
    <3>2. LinkPlaced(link', contexts') /\ ConnectedHas(updates', doc', link', contexts')
      BY <3>1 DEF LinkPlaced, ConnectedHas
    <3>3. contexts \in Seq(ProviderContext) /\ \A r \in runs : r.ctx \in DOMAIN contexts
      BY DEF ProviderInv, ProviderTypeOK, RunsHave
    <3>4. \A r \in runs' : r.ctx # 0
      BY <3>3
    <3> QED BY <3>1, <3>2, <3>4 DEF CaughtUp
  <2> QED BY <2>1, <2>2
<1>6. snapshotAt' <= Len(updates')
  BY SnapshotFits
<1> QED BY <1>2, <1>4, <1>5, <1>6, StepKeeps

----------------------------------------------------------------------------
(* The steps of a connection *)

LEMMA TroubleType ==
  ASSUME ProviderTypeOK, Trouble
  PROVE  spent' \in [edits : Nat, remote : Nat, troubles : Nat]
<1>1. spent.troubles + 1 \in Nat
  BY DEF ProviderTypeOK
<1> QED BY <1>1 DEF ProviderTypeOK, Trouble

\* A step after which the link is the one before, but for the generation and a synced that ends.
LEMMA QuietKeeps ==
  ASSUME ProviderInv,
         UNCHANGED <<provider, snapshotAt>>, updates' \in Seq(Nat), Longer(updates, updates'),
         doc \subseteq doc',
         contexts' \in Seq(ProviderContext), DOMAIN contexts' = DOMAIN contexts, Grown(contexts, contexts'),
         link' \in ProviderLink,
         link'.ctx = link.ctx, link'.state = link.state, link'.early = link.early,
         link'.synced => link.synced,
         runs' \subseteq ProviderRun,
         \A r \in runs' : r \in runs \/ (r.ctx \in DOMAIN contexts /\ Has(updates', r.offset, doc')),
         \A q \in runs' : q.pending \/ \E r \in runs : r.ctx = q.ctx /\ r.pending = q.pending,
         spent' \in [edits : Nat, remote : Nat, troubles : Nat]
  PROVE  ProviderInv'
<1>1. ProviderTypeOK'
  BY DEF ProviderInv, ProviderTypeOK
<1>2. LinkPlaced(link', contexts') /\ ConnectedHas(updates', doc', link', contexts')
  BY SameLink
<1>3. CaughtUp(link', runs')
  BY SameRuns
<1>4. snapshotAt' <= Len(updates')
  BY SnapshotFits
<1> QED BY <1>1, <1>2, <1>3, <1>4, StepKeeps

\* what those hypotheses are for a variable that does not change
LEMMA QuietParts ==
  ASSUME ProviderInv
  PROVE  /\ UNCHANGED contexts => /\ contexts' \in Seq(ProviderContext) /\ DOMAIN contexts' = DOMAIN contexts
                                  /\ Grown(contexts, contexts')
         /\ UNCHANGED link => /\ link' \in ProviderLink /\ link'.ctx = link.ctx /\ link'.state = link.state
                              /\ link'.early = link.early /\ (link'.synced => link.synced)
         /\ runs' \subseteq runs =>
              /\ runs' \subseteq ProviderRun
              /\ \A q \in runs' : q.pending \/ \E r \in runs : r.ctx = q.ctx /\ r.pending = q.pending
         /\ UNCHANGED updates => updates' \in Seq(Nat) /\ Longer(updates, updates')
         /\ UNCHANGED spent => spent' \in [edits : Nat, remote : Nat, troubles : Nat]
<1>1. UNCHANGED contexts => /\ contexts' \in Seq(ProviderContext) /\ DOMAIN contexts' = DOMAIN contexts
                            /\ Grown(contexts, contexts')
  BY DEF ProviderInv, ProviderTypeOK, Grown
<1>2. UNCHANGED link => /\ link' \in ProviderLink /\ link'.ctx = link.ctx /\ link'.state = link.state
                        /\ link'.early = link.early /\ (link'.synced => link.synced)
  BY DEF ProviderInv, ProviderTypeOK
<1>3. runs' \subseteq runs =>
        /\ runs' \subseteq ProviderRun
        /\ \A q \in runs' : q.pending \/ \E r \in runs : r.ctx = q.ctx /\ r.pending = q.pending
  BY DEF ProviderInv, ProviderTypeOK
<1>4. UNCHANGED updates => updates' \in Seq(Nat) /\ Longer(updates, updates')
  BY LongerSame DEF ProviderInv, ProviderTypeOK
<1>5. UNCHANGED spent => spent' \in [edits : Nat, remote : Nat, troubles : Nat]
  BY DEF ProviderInv, ProviderTypeOK
<1> QED BY <1>1, <1>2, <1>3, <1>4, <1>5

LEMMA ContextAt ==
  ASSUME ProviderInv, NEW c \in DOMAIN contexts
  PROVE  /\ contexts \in Seq(ProviderContext) /\ contexts[c] \in ProviderContext
         /\ contexts[c].floor \in Nat /\ contexts[c].floor <= Len(updates)
<1>1. contexts \in Seq(ProviderContext)
  BY DEF ProviderInv, ProviderTypeOK
<1>2. contexts[c] \in ProviderContext
  BY <1>1
<1>3. contexts[c].floor \in Nat
  BY <1>2 DEF ProviderContext
<1> QED BY <1>1, <1>2, <1>3 DEF ProviderInv, FloorsFit

\* connect() of a link l and contexts cs, which keep the floors
LEMMA NewConnectionKeeps ==
  ASSUME ProviderInv, NEW cs \in Seq(ProviderContext), DOMAIN cs = DOMAIN contexts, Grown(contexts, cs),
         NEW l \in ProviderLink, l.synced => l.early,
         contexts' = Append(cs, NewContext(Len(updates'))),
         link' = [l EXCEPT !.state = "connecting", !.ctx = Len(cs) + 1],
         UNCHANGED <<provider, snapshotAt, doc, runs>>,
         updates' \in Seq(Nat), Longer(updates, updates'),
         spent' \in [edits : Nat, remote : Nat, troubles : Nat]
  PROVE  ProviderInv'
<1>1. contexts \in Seq(ProviderContext) /\ \A r \in runs : r.ctx \in DOMAIN contexts
  BY DEF ProviderInv, ProviderTypeOK, RunsHave
<1>2. PICK m \in Nat : m = Len(updates')
  OBVIOUS
<1>3. PICK x : x = NewContext(m)
  OBVIOUS
<1>4. x \in ProviderContext /\ x.floor = m
  BY <1>3, NewContextType
<1>5. PICK n : n = Len(cs) + 1
  OBVIOUS
<1>6. /\ contexts' \in Seq(ProviderContext) /\ DOMAIN contexts' = DOMAIN contexts \cup {n}
      /\ contexts'[n] = x /\ n \in Nat \ {0} /\ Grown(cs, contexts')
  BY <1>2, <1>3, <1>4, <1>5, ContextAdded
<1>7. Grown(contexts, contexts')
  BY <1>6, GrownTwice
<1>8. link' = [l EXCEPT !.state = "connecting", !.ctx = n]
  BY <1>5
<1>9. /\ link' \in ProviderLink /\ link'.state = "connecting" /\ link'.ctx = n
      /\ link'.synced = l.synced /\ link'.early = l.early
  BY <1>6, <1>8 DEF ProviderLink
<1>10. ProviderTypeOK'
  BY <1>6, <1>9 DEF ProviderInv, ProviderTypeOK
<1>11. LinkPlaced(link', contexts') /\ ConnectedHas(updates', doc', link', contexts')
  BY <1>6, <1>9 DEF LinkPlaced, ConnectedHas
<1>12. CaughtUp(link', runs')
  <2>1. n \notin DOMAIN contexts
    BY <1>1, <1>5
  <2>2. \A r \in runs' : r.ctx # n
    BY <1>1, <2>1
  <2> QED BY <1>9, <2>2 DEF CaughtUp
<1>13. \A c \in DOMAIN contexts' : c \in DOMAIN contexts \/ contexts'[c].floor <= Len(updates')
  BY <1>2, <1>4, <1>6
<1>14. snapshotAt' <= Len(updates')
  BY SnapshotFits
<1> QED BY <1>7, <1>10, <1>11, <1>12, <1>13, <1>14, StepKeeps

\* while there is no connection, synced can only be early
LEMMA UnlinkedEarly ==
  ASSUME ProviderInv, link.state = "disconnected"
  PROVE  link.synced => link.early
  BY DEF ProviderInv, LinkPlaced

LEMMA ConnectKeeps == ProviderInv /\ Connect => ProviderInv'
<1> SUFFICES ASSUME ProviderInv, Connect PROVE ProviderInv'
  OBVIOUS
<1>1. contexts \in Seq(ProviderContext) /\ link \in ProviderLink /\ Grown(contexts, contexts)
  BY DEF ProviderInv, ProviderTypeOK, Grown
<1>2. link.synced => link.early
  BY UnlinkedEarly DEF Connect
<1>3. /\ contexts' = Append(contexts, NewContext(Len(updates')))
      /\ link' = [link EXCEPT !.state = "connecting", !.ctx = Len(contexts) + 1]
      /\ UNCHANGED <<provider, snapshotAt, doc, runs, updates, spent>>
  BY DEF Connect
<1>4. /\ updates' \in Seq(Nat) /\ Longer(updates, updates')
      /\ spent' \in [edits : Nat, remote : Nat, troubles : Nat]
  BY <1>3, QuietParts
<1> QED BY <1>1, <1>2, <1>3, <1>4, NewConnectionKeeps

LEMMA EnsureDocumentKeeps ==
  ASSUME ProviderInv, NEW c \in DOMAIN contexts, EnsureDocument(c)
  PROVE  ProviderInv'
<1>1. contexts \in Seq(ProviderContext)
  BY DEF ProviderInv, ProviderTypeOK
<1>2. PICK s \in {"discover", "over"} : contexts' = [contexts EXCEPT ![c].step = s]
  BY DEF EnsureDocument
<1>3. /\ contexts' \in Seq(ProviderContext) /\ DOMAIN contexts' = DOMAIN contexts
      /\ Grown(contexts, contexts')
  BY <1>1, <1>2, StepChanged
<1>4. UNCHANGED <<provider, updates, snapshotAt, doc, link, runs, spent>>
  BY DEF EnsureDocument
<1> QED BY <1>3, <1>4, QuietKeeps, QuietParts

\* startUpdatesStream from an offset the document has
LEMMA StartKeeps ==
  ASSUME ProviderInv, NEW c \in DOMAIN contexts, NEW start \in Nat, StartUpdatesStream(c, start),
         UNCHANGED <<provider, updates, snapshotAt, spent>>, doc \subseteq doc', Has(updates', start, doc')
  PROVE  ProviderInv'
<1>1. contexts \in Seq(ProviderContext) /\ link \in ProviderLink
  BY DEF ProviderInv, ProviderTypeOK
<1>2. CASE StaleCtx(c)
  <2>1. contexts' = [contexts EXCEPT ![c].step = "over"] /\ UNCHANGED <<link, runs>>
    BY <1>2 DEF StartUpdatesStream
  <2>2. /\ contexts' \in Seq(ProviderContext) /\ DOMAIN contexts' = DOMAIN contexts
        /\ Grown(contexts, contexts')
    BY <1>1, <2>1, StepChanged
  <2> QED BY <2>1, <2>2, QuietKeeps, QuietParts
<1>3. CASE ~StaleCtx(c)
  <2> DEFINE x == [contexts[c] EXCEPT !.step = "stream", !.start = start, !.producer = "open"]
             r == [ctx |-> c, gen |-> link.generation + 1, offset |-> start, pending |-> TRUE,
                   step |-> "opening"]
  <2>1. contexts[c] \in ProviderContext
    BY <1>1
  <2>2. x \in ProviderContext /\ x.floor = contexts[c].floor
    BY <2>1 DEF ProviderContext
  <2>3. contexts' = [contexts EXCEPT ![c] = x]
    BY <1>3, <2>1 DEF StartUpdatesStream, ProviderContext
  <2>4. link.generation + 1 \in Nat /\ c \in Nat
    BY <1>1 DEF ProviderLink
  <2>5. r \in ProviderRun /\ r.ctx = c /\ r.offset = start /\ r.pending
    BY <2>4 DEF ProviderRun
  <2>6. link' = [link EXCEPT !.generation = link.generation + 1] /\ runs' = runs \cup {r}
    BY <1>3 DEF StartUpdatesStream
  <2> HIDE DEF x, r
  <2>7. /\ contexts' \in Seq(ProviderContext) /\ DOMAIN contexts' = DOMAIN contexts
        /\ Grown(contexts, contexts')
    BY <1>1, <2>2, <2>3, ContextChanged
  <2>8. /\ link' \in ProviderLink /\ link'.ctx = link.ctx /\ link'.state = link.state
        /\ link'.early = link.early /\ (link'.synced => link.synced)
    BY <1>1, <2>4, <2>6 DEF ProviderLink
  <2>9. /\ runs' \subseteq ProviderRun
        /\ \A q \in runs' : q \in runs \/ (q.ctx \in DOMAIN contexts /\ Has(updates', q.offset, doc'))
    BY <2>5, <2>6 DEF ProviderInv, ProviderTypeOK
  <2>10. \A q \in runs' : q.pending \/ \E p \in runs : p.ctx = q.ctx /\ p.pending = q.pending
    BY <2>5, <2>6
  <2> QED BY <2>7, <2>8, <2>9, <2>10, QuietKeeps, QuietParts
<1> QED BY <1>2, <1>3

LEMMA DiscoverSnapshotKeeps ==
  ASSUME ProviderInv, NEW c \in DOMAIN contexts, DiscoverSnapshot(c)
  PROVE  ProviderInv'
<1>1. contexts \in Seq(ProviderContext) /\ contexts[c] \in ProviderContext
  BY ContextAt
<1>2. UNCHANGED <<provider, updates, snapshotAt, doc, spent>>
  BY DEF DiscoverSnapshot
<1>3. CASE contexts[c].aborted \/ snapshotAt = 0
  <2>1. StartUpdatesStream(c, 0)
    BY <1>3 DEF DiscoverSnapshot
  <2>2. Has(updates', 0, doc')
    BY <1>2 DEF Has, ProviderInv, ProviderTypeOK
  <2> QED BY <1>2, <2>1, <2>2, StartKeeps
<1>4. CASE ~(contexts[c].aborted \/ snapshotAt = 0)
  <2> DEFINE x == [contexts[c] EXCEPT !.step = "load", !.want = snapshotAt]
  <2>1. x \in ProviderContext /\ x.floor = contexts[c].floor
    BY <1>1 DEF ProviderContext, ProviderInv, ProviderTypeOK
  <2>2. contexts' = [contexts EXCEPT ![c] = x] /\ UNCHANGED <<link, runs>>
    BY <1>1, <1>4 DEF DiscoverSnapshot, ProviderContext
  <2> HIDE DEF x
  <2>3. /\ contexts' \in Seq(ProviderContext) /\ DOMAIN contexts' = DOMAIN contexts
        /\ Grown(contexts, contexts')
    BY <1>1, <2>1, <2>2, ContextChanged
  <2> QED BY <1>2, <2>2, <2>3, QuietKeeps, QuietParts
<1> QED BY <1>3, <1>4

LEMMA LoadSnapshotKeeps ==
  ASSUME ProviderInv, NEW c \in DOMAIN contexts, LoadSnapshotOf(c)
  PROVE  ProviderInv'
<1>1. contexts \in Seq(ProviderContext) /\ contexts[c] \in ProviderContext
  BY ContextAt
<1>2. UNCHANGED <<provider, updates, snapshotAt, spent>>
  BY DEF LoadSnapshotOf
<1>3. CASE ~contexts[c].aborted /\ contexts[c].want = snapshotAt
  <2>1. StartUpdatesStream(c, snapshotAt) /\ doc' = doc \cup Prefix(snapshotAt)
    BY <1>3 DEF LoadSnapshotOf
  <2>2. Has(updates', snapshotAt, doc') /\ snapshotAt \in Nat
    BY <1>2, <2>1 DEF Has, Prefix, ProviderInv, ProviderTypeOK, FloorsFit
  <2> QED BY <1>2, <2>1, <2>2, StartKeeps
<1>4. CASE ~(~contexts[c].aborted /\ contexts[c].want = snapshotAt)
  <2>1. PICK s \in {"discover", "over"} : contexts' = [contexts EXCEPT ![c].step = s]
    BY <1>4 DEF LoadSnapshotOf
  <2>2. UNCHANGED <<doc, link, runs>>
    BY <1>4 DEF LoadSnapshotOf
  <2>3. /\ contexts' \in Seq(ProviderContext) /\ DOMAIN contexts' = DOMAIN contexts
        /\ Grown(contexts, contexts')
    BY <1>1, <2>1, StepChanged
  <2> QED BY <1>2, <2>2, <2>3, QuietKeeps, QuietParts
<1> QED BY <1>3, <1>4

LEMMA ConnectStepFailsKeeps ==
  ASSUME ProviderInv, NEW c \in DOMAIN contexts, ConnectStepFails(c)
  PROVE  ProviderInv'
<1>1. contexts \in Seq(ProviderContext)
  BY DEF ProviderInv, ProviderTypeOK
<1>2. UNCHANGED <<provider, updates, snapshotAt, doc, runs>>
  BY DEF ConnectStepFails
<1>3. spent' \in [edits : Nat, remote : Nat, troubles : Nat]
  BY TroubleType DEF ConnectStepFails, ProviderInv
<1>4. PICK cs : cs = [contexts EXCEPT ![c].step = "over"]
  OBVIOUS
<1>5. cs \in Seq(ProviderContext) /\ DOMAIN cs = DOMAIN contexts /\ Grown(contexts, cs)
  BY <1>1, <1>4, StepChanged
<1>6. CASE StaleCtx(c)
  <2>1. contexts' = cs /\ UNCHANGED link
    BY <1>4, <1>6 DEF ConnectStepFails
  <2> QED BY <1>2, <1>3, <1>5, <2>1, QuietKeeps, QuietParts
<1>7. CASE ~StaleCtx(c)
  <2>1. Disconnected(cs)
    BY <1>4, <1>7 DEF ConnectStepFails
  <2>2. updates' \in Seq(Nat) /\ Longer(updates, updates')
    BY <1>2, QuietParts
  <2> QED BY <1>2, <1>3, <1>5, <2>1, <2>2, DisconnectedKeeps
<1> QED BY <1>6, <1>7

LEMMA StartAwarenessKeeps ==
  ASSUME ProviderInv, NEW c \in DOMAIN contexts, StartAwareness(c)
  PROVE  ProviderInv'
<1>1. contexts \in Seq(ProviderContext)
  BY DEF ProviderInv, ProviderTypeOK
<1>2. contexts' = [contexts EXCEPT ![c].step = "over"]
  BY DEF StartAwareness
<1>3. /\ contexts' \in Seq(ProviderContext) /\ DOMAIN contexts' = DOMAIN contexts
      /\ Grown(contexts, contexts')
  BY <1>1, <1>2, StepChanged
<1>4. UNCHANGED <<provider, updates, snapshotAt, doc, link, runs, spent>>
  BY DEF StartAwareness
<1> QED BY <1>3, <1>4, QuietKeeps, QuietParts

LEMMA DisconnectKeeps == ProviderInv /\ Disconnect => ProviderInv'
<1> SUFFICES ASSUME ProviderInv, Disconnect PROVE ProviderInv'
  OBVIOUS
<1>1. contexts \in Seq(ProviderContext) /\ Grown(contexts, contexts)
  BY DEF ProviderInv, ProviderTypeOK, Grown
<1>2. Disconnected(contexts) /\ UNCHANGED <<provider, updates, snapshotAt, doc, runs, spent>>
  BY DEF Disconnect
<1>3. /\ spent' \in [edits : Nat, remote : Nat, troubles : Nat]
      /\ updates' \in Seq(Nat) /\ Longer(updates, updates')
  BY <1>2, QuietParts
<1> QED BY <1>1, <1>2, <1>3, DisconnectedKeeps

\* the producer of a context changes, and what it has to send
LEMMA ProducerChanged ==
  ASSUME ProviderInv, NEW c \in DOMAIN contexts, NEW x, x \in ProviderContext, x.floor = contexts[c].floor,
         contexts' = [contexts EXCEPT ![c] = x]
  PROVE  /\ contexts' \in Seq(ProviderContext) /\ DOMAIN contexts' = DOMAIN contexts
         /\ Grown(contexts, contexts')
<1>1. contexts \in Seq(ProviderContext)
  BY DEF ProviderInv, ProviderTypeOK
<1> QED BY <1>1, ContextChanged

LEMMA ProducerClosesKeeps ==
  ASSUME ProviderInv, NEW c \in DOMAIN contexts, ProducerCloses(c)
  PROVE  ProviderInv'
<1> DEFINE x == [contexts[c] EXCEPT !.producer = "closed", !.aborted = TRUE]
<1>1. contexts \in Seq(ProviderContext) /\ contexts[c] \in ProviderContext
  BY ContextAt
<1>2. x \in ProviderContext /\ x.floor = contexts[c].floor
  BY <1>1 DEF ProviderContext
<1>3. contexts' = [contexts EXCEPT ![c] = x]
  BY <1>1 DEF ProducerCloses, ProviderContext
<1> HIDE DEF x
<1>4. /\ contexts' \in Seq(ProviderContext) /\ DOMAIN contexts' = DOMAIN contexts
      /\ Grown(contexts, contexts')
  BY <1>2, <1>3, ProducerChanged
<1>5. UNCHANGED <<provider, updates, snapshotAt, doc, link, runs, spent>>
  BY DEF ProducerCloses
<1> QED BY <1>4, <1>5, QuietKeeps, QuietParts

----------------------------------------------------------------------------
(* The runs of runUpdatesStream *)

LEMMA RunAt ==
  ASSUME ProviderInv, NEW r \in runs
  PROVE  /\ r \in ProviderRun /\ r.ctx \in DOMAIN contexts /\ Has(updates, r.offset, doc)
         /\ r.offset \in Nat /\ r.offset <= Len(updates)
<1>1. r \in ProviderRun
  BY DEF ProviderInv, ProviderTypeOK
<1>2. r.ctx \in DOMAIN contexts /\ Has(updates, r.offset, doc)
  BY DEF ProviderInv, RunsHave
<1> QED BY <1>1, <1>2 DEF ProviderRun, Has

\* A run moves on at the offset it is at.
LEMMA RunStaysPut ==
  ASSUME ProviderInv, NEW r \in runs, NEW q \in ProviderRun, q.ctx = r.ctx, q.offset = r.offset,
         UNCHANGED <<updates, doc>>, runs' \subseteq runs \cup {q}
  PROVE  /\ runs' \subseteq ProviderRun
         /\ \A s \in runs' : s \in runs \/ (s.ctx \in DOMAIN contexts /\ Has(updates', s.offset, doc'))
         /\ q.pending = r.pending =>
              \A s \in runs' : s.pending \/ \E p \in runs : p.ctx = s.ctx /\ p.pending = s.pending
  BY RunAt DEF ProviderInv, ProviderTypeOK

LEMMA StreamOpensKeeps ==
  ASSUME ProviderInv, NEW r \in runs, StreamOpens(r)
  PROVE  ProviderInv'
<1>1. PICK q : q = [r EXCEPT !.step = "reading"]
  OBVIOUS
<1>2. q \in ProviderRun /\ q.ctx = r.ctx /\ q.offset = r.offset /\ q.pending = r.pending
  BY <1>1, RunAt DEF ProviderRun
<1>3. runs' \subseteq runs \cup {q} /\ UNCHANGED <<provider, updates, snapshotAt, doc, link, contexts, spent>>
  BY <1>1 DEF StreamOpens, RunGoes
<1>4. /\ runs' \subseteq ProviderRun
      /\ \A s \in runs' : s \in runs \/ (s.ctx \in DOMAIN contexts /\ Has(updates', s.offset, doc'))
      /\ \A s \in runs' : s.pending \/ \E p \in runs : p.ctx = s.ctx /\ p.pending = s.pending
  BY <1>2, <1>3, RunStaysPut
<1> QED BY <1>3, <1>4, QuietKeeps, QuietParts

LEMMA StreamRetriesKeeps ==
  ASSUME ProviderInv, NEW r \in runs, StreamRetries(r)
  PROVE  ProviderInv'
<1>1. PICK q : q = [r EXCEPT !.step = "opening"]
  OBVIOUS
<1>2. q \in ProviderRun /\ q.ctx = r.ctx /\ q.offset = r.offset /\ q.pending = r.pending
  BY <1>1, RunAt DEF ProviderRun
<1>3. runs' \subseteq runs \cup {q} /\ UNCHANGED <<provider, updates, snapshotAt, doc, link, contexts, spent>>
  BY <1>1 DEF StreamRetries
<1>4. /\ runs' \subseteq ProviderRun
      /\ \A s \in runs' : s \in runs \/ (s.ctx \in DOMAIN contexts /\ Has(updates', s.offset, doc'))
      /\ \A s \in runs' : s.pending \/ \E p \in runs : p.ctx = s.ctx /\ p.pending = s.pending
  BY <1>2, <1>3, RunStaysPut
<1> QED BY <1>3, <1>4, QuietKeeps, QuietParts

LEMMA MarkSyncedType ==
  ASSUME NEW l \in ProviderLink, NEW r, r.pending, NEW early \in BOOLEAN
  PROVE  /\ MarkSynced(l, r, early) \in ProviderLink
         /\ MarkSynced(l, r, early).ctx = l.ctx
         /\ MarkSynced(l, r, early).state = IF l.state = "disconnected" THEN l.state ELSE "connected"
         /\ MarkSynced(l, r, early).early = early
<1>1. PICK s : s = IF l.state = "connecting" THEN "connected" ELSE l.state
  OBVIOUS
<1>2. /\ s \in {"disconnected", "connecting", "connected"}
      /\ s = IF l.state = "disconnected" THEN l.state ELSE "connected"
  BY <1>1 DEF ProviderLink
<1>3. MarkSynced(l, r, early) = [l EXCEPT !.state = s, !.synced = TRUE, !.early = early]
  BY <1>1 DEF MarkSynced
<1> QED BY <1>2, <1>3 DEF ProviderLink

\* A step after which the link, of the same connection, says that it has the document or that it is early.
LEMMA LinkMoves ==
  ASSUME ProviderInv, UNCHANGED <<provider, updates, snapshotAt, contexts>>, doc \subseteq doc',
         link' \in ProviderLink, link'.ctx = link.ctx,
         link'.state = "disconnected" <=> link.state = "disconnected",
         link'.early \/ (link'.state = "connected" /\ Has(updates, Len(updates), doc')),
         CaughtUp(link', runs'),
         runs' \subseteq ProviderRun,
         \A q \in runs' : q \in runs \/ (q.ctx \in DOMAIN contexts /\ Has(updates', q.offset, doc')),
         spent' \in [edits : Nat, remote : Nat, troubles : Nat]
  PROVE  ProviderInv'
<1>1. ProviderTypeOK'
  BY DEF ProviderInv, ProviderTypeOK
<1>2. /\ contexts' \in Seq(ProviderContext) /\ DOMAIN contexts' = DOMAIN contexts
      /\ Grown(contexts, contexts') /\ updates' \in Seq(Nat) /\ Longer(updates, updates')
  BY QuietParts
<1>3. LinkPlaced(link', contexts')
  BY DEF ProviderInv, LinkPlaced
<1>4. ConnectedHas(updates', doc', link', contexts')
  <2> SUFFICES ASSUME link'.state = "connected", ~link'.early
               PROVE  Has(updates, contexts[link.ctx].floor, doc')
    BY DEF ConnectedHas
  <2>1. link.ctx \in DOMAIN contexts
    BY DEF ProviderInv, LinkPlaced
  <2>2. contexts[link.ctx].floor \in Nat /\ contexts[link.ctx].floor <= Len(updates)
    BY <2>1, ContextAt
  <2>3. Len(updates) \in Nat
    BY DEF ProviderInv, ProviderTypeOK
  <2> QED BY <2>2, <2>3 DEF Has
<1>5. snapshotAt' <= Len(updates')
  BY <1>2, SnapshotFits
<1> QED BY <1>1, <1>2, <1>3, <1>4, <1>5, StepKeeps

\* markSynced() by a run that goes on as it was, is no longer pending, or is over
LEMMA MarkedKeeps ==
  ASSUME ProviderInv, NEW r \in runs, NEW early \in BOOLEAN, r.pending,
         UNCHANGED <<provider, updates, snapshotAt, contexts>>, doc \subseteq doc',
         link' = MarkSynced(link, r, early),
         early \/ (Has(updates, Len(updates), doc') /\ link.state # "disconnected"),
         runs' \subseteq ProviderRun,
         \A q \in runs' : q \in runs \/ (q.ctx = r.ctx /\ Has(updates', q.offset, doc')),
         spent' \in [edits : Nat, remote : Nat, troubles : Nat]
  PROVE  ProviderInv'
<1>1. link \in ProviderLink
  BY DEF ProviderInv, ProviderTypeOK
<1>2. /\ link' \in ProviderLink /\ link'.ctx = link.ctx /\ link'.early = early
      /\ link'.state = IF link.state = "disconnected" THEN link.state ELSE "connected"
  BY <1>1, MarkSyncedType
<1>3. r.ctx \in DOMAIN contexts
  BY RunAt
<1>4. CaughtUp(link', runs')
  <2> SUFFICES ASSUME NEW q \in runs', q.ctx = link'.ctx
               PROVE  link'.state = "connected"
    BY DEF CaughtUp
  <2>1. q.ctx \in DOMAIN contexts
    BY <1>3, RunAt
  <2>2. contexts \in Seq(ProviderContext)
    BY DEF ProviderInv, ProviderTypeOK
  <2>3. link.ctx # 0
    BY <1>2, <2>1, <2>2
  <2>4. link.state # "disconnected"
    BY <2>3 DEF ProviderInv, LinkPlaced
  <2> QED BY <1>2, <2>4
<1>5. link'.early \/ (link'.state = "connected" /\ Has(updates, Len(updates), doc'))
  BY <1>2
<1>6. link'.state = "disconnected" <=> link.state = "disconnected"
  BY <1>2
<1>7. \A q \in runs' : q \in runs \/ (q.ctx \in DOMAIN contexts /\ Has(updates', q.offset, doc'))
  BY <1>3
<1> QED BY <1>2, <1>4, <1>5, <1>6, <1>7, LinkMoves

LEMMA ChunkArrivesKeeps ==
  ASSUME ProviderInv, NEW r \in runs, ChunkArrives(r)
  PROVE  ProviderInv'
<1>1. UNCHANGED <<provider, updates, snapshotAt, contexts, spent>> /\ link.ctx = r.ctx
  BY DEF ChunkArrives, StaleRun, StaleCtx
<1>2. PICK n \in r.offset .. Len(updates) :
        /\ doc' = doc \cup Between(r.offset, n)
        /\ link' = IF r.pending /\ n = Len(updates) THEN MarkSynced(link, r, FALSE)
                   ELSE [link EXCEPT !.synced = TRUE, !.early = (@ \/ r.pending) /\ ~(n = Len(updates))]
        /\ RunGoes(r, [r EXCEPT !.offset = n, !.pending = @ /\ ~(n = Len(updates))])
  BY DEF ChunkArrives
<1>3. r \in ProviderRun /\ r.offset \in Nat /\ Has(updates, r.offset, doc) /\ r.ctx \in DOMAIN contexts
  BY RunAt
<1>4. Len(updates) \in Nat /\ n \in Nat
  BY <1>3 DEF ProviderInv, ProviderTypeOK
<1>5. Has(updates, n, doc') /\ doc \subseteq doc'
  BY <1>2, <1>3, <1>4 DEF Has, Between
<1>6. PICK b \in BOOLEAN : b = (r.pending /\ ~(n = Len(updates)))
  BY <1>3 DEF ProviderRun
<1>7. PICK q : q = [r EXCEPT !.offset = n, !.pending = b]
  OBVIOUS
<1>8. q \in ProviderRun /\ q.ctx = r.ctx /\ q.offset = n /\ q.pending = b
  BY <1>3, <1>4, <1>7 DEF ProviderRun
<1>9. runs' = (runs \ {r}) \cup {q}
  BY <1>2, <1>6, <1>7 DEF RunGoes
<1>10. /\ runs' \subseteq ProviderRun
       /\ \A s \in runs' : s \in runs \/ (s.ctx = r.ctx /\ Has(updates', s.offset, doc'))
  BY <1>1, <1>3, <1>5, <1>8, <1>9 DEF ProviderInv, ProviderTypeOK
<1>11. contexts \in Seq(ProviderContext) /\ link \in ProviderLink
  BY DEF ProviderInv, ProviderTypeOK
<1>12. link.state # "disconnected"
  <2>1. link.ctx # 0
    BY <1>1, <1>3, <1>11
  <2> QED BY <2>1 DEF ProviderInv, LinkPlaced
<1>13. spent' \in [edits : Nat, remote : Nat, troubles : Nat]
  BY <1>1, QuietParts
<1>14. CASE r.pending /\ n = Len(updates)
  <2>1. link' = MarkSynced(link, r, FALSE) /\ Has(updates, Len(updates), doc')
    BY <1>2, <1>5, <1>14
  <2> QED BY <1>1, <1>5, <1>10, <1>12, <1>13, <1>14, <2>1, MarkedKeeps
<1>15. CASE ~(r.pending /\ n = Len(updates))
  <2>1. PICK e \in BOOLEAN : e = ((link.early \/ r.pending) /\ ~(n = Len(updates)))
    OBVIOUS
  <2>2. link' = [link EXCEPT !.synced = TRUE, !.early = e]
    BY <1>2, <1>15, <2>1
  <2>3. /\ link' \in ProviderLink /\ link'.ctx = link.ctx /\ link'.state = link.state
        /\ link'.early = e /\ link'.synced
    BY <1>11, <2>2 DEF ProviderLink
  <2>4. b = r.pending
    BY <1>3, <1>6, <1>15 DEF ProviderRun
  <2>5. \A s \in runs' : s.pending \/ \E p \in runs : p.ctx = s.ctx /\ p.pending = s.pending
    BY <1>8, <1>9, <2>4
  <2>6. CaughtUp(link', runs')
    BY <2>3, <2>5, SameRuns
  <2>7. ~r.pending => link.state = "connected"
    BY <1>1 DEF ProviderInv, CaughtUp
  <2>8. \A s \in runs' : s \in runs \/ (s.ctx \in DOMAIN contexts /\ Has(updates', s.offset, doc'))
    BY <1>3, <1>10
  <2>9. CASE e \/ n = Len(updates)
    <3>1. link'.early \/ (link'.state = "connected" /\ Has(updates, Len(updates), doc'))
      BY <1>5, <1>15, <2>3, <2>7, <2>9
    <3> QED BY <1>1, <1>5, <1>10, <1>13, <2>3, <2>6, <2>8, <3>1, LinkMoves
  <2>10. CASE ~e /\ n # Len(updates)
    <3>1. ~link.early /\ ~r.pending /\ link.state = "connected"
      BY <2>1, <2>7, <2>10
    <3>2. /\ contexts' \in Seq(ProviderContext) /\ DOMAIN contexts' = DOMAIN contexts
          /\ Grown(contexts, contexts') /\ updates' \in Seq(Nat) /\ Longer(updates, updates')
      BY <1>1, QuietParts
    <3>3. ConnectedHas(updates', doc', link', contexts')
      <4>1. Has(updates, contexts[link.ctx].floor, doc)
        BY <3>1 DEF ProviderInv, ConnectedHas
      <4>2. contexts[link.ctx].floor \in Nat /\ updates \in Seq(Nat)
        BY <1>1, <1>3, ContextAt DEF ProviderInv, ProviderTypeOK
      <4>3. Has(updates', contexts[link.ctx].floor, doc')
        BY <1>5, <3>2, <4>1, <4>2, HasMore
      <4> QED BY <1>1, <2>3, <4>3 DEF ConnectedHas
    <3>4. LinkPlaced(link', contexts')
      BY <1>1, <2>3, <3>1 DEF ProviderInv, LinkPlaced
    <3>5. ProviderTypeOK'
      BY <1>1, <1>10, <1>13, <2>3, <3>2 DEF ProviderInv, ProviderTypeOK
    <3>6. snapshotAt' <= Len(updates')
      BY <1>1, <3>2, SnapshotFits
    <3> QED BY <1>1, <1>5, <2>6, <2>8, <3>2, <3>3, <3>4, <3>5, <3>6, StepKeeps
  <2> QED BY <2>9, <2>10
<1> QED BY <1>14, <1>15

LEMMA SessionEndsKeeps ==
  ASSUME ProviderInv, NEW r \in runs, SessionEnds(r)
  PROVE  ProviderInv'
<1>1. PICK q : q = [r EXCEPT !.step = "opening", !.pending = FALSE]
  OBVIOUS
<1>2. q \in ProviderRun /\ q.ctx = r.ctx /\ q.offset = r.offset /\ q.pending = FALSE
  BY <1>1, RunAt DEF ProviderRun
<1>3. /\ runs' \subseteq runs \cup {q} /\ link' = MarkSynced(link, r, TRUE)
      /\ UNCHANGED <<provider, updates, snapshotAt, doc, contexts>>
  BY <1>1 DEF SessionEnds
<1>4. UNCHANGED spent \/ Trouble
  BY DEF SessionEnds, Cut
<1>5. spent' \in [edits : Nat, remote : Nat, troubles : Nat]
  BY <1>4, TroubleType, QuietParts DEF ProviderInv
<1>6. CASE r.pending
  <2>1. runs' \subseteq ProviderRun
    BY <1>2, <1>3 DEF ProviderInv, ProviderTypeOK
  <2>2. \A s \in runs' : s \in runs \/ (s.ctx = r.ctx /\ Has(updates', s.offset, doc'))
    BY <1>2, <1>3, RunAt
  <2> QED BY <1>3, <1>5, <1>6, <2>1, <2>2, MarkedKeeps
<1>7. CASE ~r.pending
  <2>1. link' = link
    BY <1>3, <1>7 DEF MarkSynced
  <2>2. q.pending = r.pending
    BY <1>2, <1>7, RunAt DEF ProviderRun
  <2>3. /\ runs' \subseteq ProviderRun
        /\ \A s \in runs' : s \in runs \/ (s.ctx \in DOMAIN contexts /\ Has(updates', s.offset, doc'))
        /\ \A s \in runs' : s.pending \/ \E p \in runs : p.ctx = s.ctx /\ p.pending = s.pending
    BY <1>2, <1>3, <2>2, RunStaysPut
  <2> QED BY <1>3, <1>5, <2>1, <2>3, QuietKeeps, QuietParts
<1> QED BY <1>6, <1>7

LEMMA StreamFailsKeeps ==
  ASSUME ProviderInv, NEW r \in runs, StreamFails(r)
  PROVE  ProviderInv'
<1>1. UNCHANGED <<provider, updates, snapshotAt, doc>>
  BY DEF StreamFails
<1>2. UNCHANGED spent \/ Trouble
  BY DEF StreamFails
<1>3. spent' \in [edits : Nat, remote : Nat, troubles : Nat]
  BY <1>2, TroubleType, QuietParts DEF ProviderInv
<1>4. CASE link' = MarkSynced(link, r, TRUE) /\ runs' = runs \ {r} /\ UNCHANGED contexts
  <2>1. runs' \subseteq ProviderRun /\ \A s \in runs' : s \in runs
    BY <1>4 DEF ProviderInv, ProviderTypeOK
  <2>2. CASE r.pending
    BY <1>1, <1>3, <1>4, <2>1, <2>2, MarkedKeeps
  <2>3. CASE ~r.pending
    <3>1. link' = link
      BY <1>4, <2>3 DEF MarkSynced
    <3>2. runs' \subseteq runs
      BY <1>4
    <3> QED BY <1>1, <1>3, <1>4, <2>1, <3>1, <3>2, QuietKeeps, QuietParts
  <2> QED BY <2>2, <2>3
<1>5. CASE runs' = runs \ {r} /\ Disconnected(contexts)
  <2>1. contexts \in Seq(ProviderContext) /\ Grown(contexts, contexts)
    BY DEF ProviderInv, ProviderTypeOK, Grown
  <2>2. updates' \in Seq(Nat) /\ Longer(updates, updates')
    BY <1>1, QuietParts
  <2> QED BY <1>1, <1>3, <1>5, <2>1, <2>2, DisconnectedKeeps
<1>6. CASE RunGoes(r, [r EXCEPT !.step = "waiting"]) /\ UNCHANGED <<link, contexts>>
  <2>1. PICK q : q = [r EXCEPT !.step = "waiting"]
    OBVIOUS
  <2>2. q \in ProviderRun /\ q.ctx = r.ctx /\ q.offset = r.offset /\ q.pending = r.pending
    BY <2>1, RunAt DEF ProviderRun
  <2>3. runs' \subseteq runs \cup {q}
    BY <1>6, <2>1 DEF RunGoes
  <2>4. /\ runs' \subseteq ProviderRun
        /\ \A s \in runs' : s \in runs \/ (s.ctx \in DOMAIN contexts /\ Has(updates', s.offset, doc'))
        /\ \A s \in runs' : s.pending \/ \E p \in runs : p.ctx = s.ctx /\ p.pending = s.pending
    BY <1>1, <2>2, <2>3, RunStaysPut
  <2> QED BY <1>1, <1>3, <1>6, <2>4, QuietKeeps, QuietParts
<1> QED BY <1>4, <1>5, <1>6 DEF StreamFails

----------------------------------------------------------------------------
(* Edits, the producer, other clients and compaction *)

LEMMA EditKeeps == ProviderInv /\ Edit => ProviderInv'
<1> SUFFICES ASSUME ProviderInv, Edit PROVE ProviderInv'
  OBVIOUS
<1>1. /\ provider \in ProviderSetups /\ contexts \in Seq(ProviderContext) /\ link \in ProviderLink
      /\ spent \in [edits : Nat, remote : Nat, troubles : Nat]
  BY DEF ProviderInv, ProviderTypeOK
<1>2. spent.edits + 1 \in Nat /\ provider.remote \in Nat /\ spent.edits \in Nat
  BY <1>1, ProviderAssumption
<1>3. PICK id : id = provider.remote + spent.edits + 1
  OBVIOUS
<1>4. id \in Nat
  BY <1>2, <1>3
<1>5. spent' \in [edits : Nat, remote : Nat, troubles : Nat]
  BY <1>1, <1>2 DEF Edit
<1>6. /\ doc' = doc \cup {id} /\ UNCHANGED <<provider, updates, snapshotAt, runs>>
  BY <1>3 DEF Edit
<1>7. /\ contexts' \in Seq(ProviderContext) /\ DOMAIN contexts' = DOMAIN contexts
      /\ Grown(contexts, contexts') /\ link' \in ProviderLink
      /\ link'.ctx = link.ctx /\ link'.state = link.state /\ link'.early = link.early
      /\ (link'.synced => link.synced)
  <2>1. CASE UNCHANGED <<contexts, link>>
    BY <2>1, QuietParts
  <2>2. CASE ~UNCHANGED <<contexts, link>>
    <3>1. PICK c : c = link.ctx
      OBVIOUS
    <3>2. /\ c # 0 /\ contexts' = [contexts EXCEPT ![c].out = Append(@, id)]
          /\ link' = [link EXCEPT !.synced = FALSE]
      BY <2>2, <3>1, <1>3 DEF Edit
    <3>3. c \in DOMAIN contexts
      BY <3>1, <3>2 DEF ProviderInv, LinkPlaced
    <3>4. contexts[c] \in ProviderContext
      BY <1>1, <3>3
    <3>5. Append(contexts[c].out, id) \in Seq(Nat)
      BY <1>4, <3>4 DEF ProviderContext
    <3>6. PICK x : x = [contexts[c] EXCEPT !.out = Append(contexts[c].out, id)]
      OBVIOUS
    <3>7. x \in ProviderContext /\ x.floor = contexts[c].floor
      BY <3>4, <3>5, <3>6 DEF ProviderContext
    <3>8. contexts' = [contexts EXCEPT ![c] = x]
      BY <3>2, <3>6
    <3>9. /\ contexts' \in Seq(ProviderContext) /\ DOMAIN contexts' = DOMAIN contexts
          /\ Grown(contexts, contexts')
      BY <1>1, <3>3, <3>7, <3>8, ContextChanged
    <3>10. /\ link' \in ProviderLink
           /\ link'.ctx = link.ctx /\ link'.state = link.state /\ link'.early = link.early
           /\ (link'.synced => link.synced)
      BY <1>1, <3>2 DEF ProviderLink
    <3> QED BY <3>9, <3>10
  <2> QED BY <2>1, <2>2
<1>8. /\ runs' \subseteq ProviderRun
      /\ \A q \in runs' : q.pending \/ \E r \in runs : r.ctx = q.ctx /\ r.pending = q.pending
      /\ updates' \in Seq(Nat) /\ Longer(updates, updates')
  BY <1>6, QuietParts
<1> QED BY <1>5, <1>6, <1>7, <1>8, QuietKeeps

\* What becomes of a batch, in the stream and in the context.
LEMMA PostedType ==
  ASSUME ProviderInv, NEW c \in DOMAIN contexts, NEW n \in 1 .. Len(contexts[c].out),
         Posted(c, n) \/ Lost(c, n)
  PROVE  updates' \in Seq(Nat) /\ Longer(updates, updates')
<1>1. contexts[c] \in ProviderContext /\ updates \in Seq(Nat)
  BY ContextAt DEF ProviderInv, ProviderTypeOK
<1>2. CASE UNCHANGED updates
  BY <1>2, QuietParts
<1>3. CASE updates' = updates \o SubSeq(contexts[c].out, 1, n)
  <2>1. PICK o \in Seq(Nat) : o = contexts[c].out
    BY <1>1 DEF ProviderContext
  <2>2. SubSeq(o, 1, n) \in Seq(Nat)
    BY <2>1
  <2> QED BY <1>1, <1>3, <2>1, <2>2, LongerJoined
<1> QED BY <1>2, <1>3 DEF Posted, Lost

LEMMA TakenType ==
  ASSUME ProviderInv, NEW c \in DOMAIN contexts, NEW n \in 1 .. Len(contexts[c].out),
         NEW err \in {"none", "auth", "other"}
  PROVE  /\ Taken(c, n, err) \in Seq(ProviderContext) /\ DOMAIN Taken(c, n, err) = DOMAIN contexts
         /\ Grown(contexts, Taken(c, n, err))
<1>1. contexts \in Seq(ProviderContext) /\ contexts[c] \in ProviderContext
  BY ContextAt
<1>2. PICK o \in Seq(Nat) : o = contexts[c].out
  BY <1>1 DEF ProviderContext
<1>3. PICK t \in Seq(Nat) : t = SubSeq(o, n + 1, Len(o))
  <2>1. SubSeq(o, n + 1, Len(o)) \in Seq(Nat)
    BY <1>2
  <2> QED BY <2>1
<1>4. PICK m \in Nat : m = contexts[c].seq + 1
  BY <1>1 DEF ProviderContext
<1>5. PICK x : x = [contexts[c] EXCEPT !.out = t, !.seq = m, !.err = err]
  OBVIOUS
<1>6. x \in ProviderContext /\ x.floor = contexts[c].floor
  BY <1>1, <1>5 DEF ProviderContext
<1>7. PICK cs : cs = [contexts EXCEPT ![c] = x]
  OBVIOUS
<1>8. Taken(c, n, err) = cs
  BY <1>1, <1>2, <1>3, <1>4, <1>5, <1>7 DEF Taken, ProviderContext
<1>9. cs \in Seq(ProviderContext) /\ DOMAIN cs = DOMAIN contexts /\ Grown(contexts, cs)
  BY <1>1, <1>6, <1>7, ContextChanged
<1> QED BY <1>8, <1>9

\* The stream grows at its end, and nothing else does that the invariant is about.
LEMMA AppendedKeeps ==
  ASSUME ProviderInv, updates' \in Seq(Nat), Longer(updates, updates'),
         UNCHANGED <<provider, snapshotAt, doc, link, runs>>,
         contexts' \in Seq(ProviderContext), DOMAIN contexts' = DOMAIN contexts, Grown(contexts, contexts'),
         spent' \in [edits : Nat, remote : Nat, troubles : Nat]
  PROVE  ProviderInv'
<1>1. /\ link' \in ProviderLink /\ link'.ctx = link.ctx /\ link'.state = link.state
      /\ link'.early = link.early /\ (link'.synced => link.synced)
      /\ runs' \subseteq ProviderRun
      /\ \A q \in runs' : q.pending \/ \E r \in runs : r.ctx = q.ctx /\ r.pending = q.pending
  BY QuietParts
<1> QED BY <1>1, QuietKeeps

LEMMA ProducerSendsKeeps ==
  ASSUME ProviderInv, NEW c \in DOMAIN contexts, ProducerSends(c)
  PROVE  ProviderInv'
<1>1. PICK n \in 1 .. Len(contexts[c].out) : Posted(c, n) /\ contexts' = Taken(c, n, contexts[c].err)
  BY DEF ProducerSends
<1>2. updates' \in Seq(Nat) /\ Longer(updates, updates')
  BY <1>1, PostedType
<1>3. contexts[c] \in ProviderContext
  BY ContextAt
<1>4. contexts[c].err \in {"none", "auth", "other"}
  BY <1>3 DEF ProviderContext
<1>5. /\ contexts' \in Seq(ProviderContext) /\ DOMAIN contexts' = DOMAIN contexts
      /\ Grown(contexts, contexts')
  BY <1>1, <1>4, TakenType
<1>6. UNCHANGED <<provider, snapshotAt, doc, link, runs, spent>>
  BY DEF ProducerSends
<1> QED BY <1>2, <1>5, <1>6, AppendedKeeps, QuietParts

LEMMA RemoteUpdateKeeps == ProviderInv /\ RemoteUpdate => ProviderInv'
<1> SUFFICES ASSUME ProviderInv, RemoteUpdate PROVE ProviderInv'
  OBVIOUS
<1>1. spent \in [edits : Nat, remote : Nat, troubles : Nat] /\ updates \in Seq(Nat)
  BY DEF ProviderInv, ProviderTypeOK
<1>2. PICK x : x = spent.remote + 1
  OBVIOUS
<1>3. x \in Nat
  BY <1>1, <1>2
<1>4. spent' \in [edits : Nat, remote : Nat, troubles : Nat]
  BY <1>1, <1>2, <1>3 DEF RemoteUpdate
<1>5. updates' = Append(updates, x) /\ UNCHANGED <<provider, snapshotAt, doc, link, runs, contexts>>
  BY <1>2 DEF RemoteUpdate
<1>6. updates' \in Seq(Nat) /\ Longer(updates, updates')
  BY <1>1, <1>3, <1>5 DEF Longer
<1> QED BY <1>4, <1>5, <1>6, AppendedKeeps, QuietParts

LEMMA CompactedKeeps == ProviderInv /\ Compacted => ProviderInv'
<1> SUFFICES ASSUME ProviderInv, Compacted PROVE ProviderInv'
  OBVIOUS
<1>1. UNCHANGED <<provider, updates, doc, link, contexts, runs, spent>> /\ snapshotAt' = Len(updates)
  BY DEF Compacted
<1>2. Len(updates) \in Nat
  BY DEF ProviderInv, ProviderTypeOK
<1>3. ProviderTypeOK'
  BY <1>1, <1>2 DEF ProviderInv, ProviderTypeOK
<1>4. Grown(contexts, contexts') /\ Longer(updates, updates')
  BY <1>1, QuietParts
<1>5. /\ LinkPlaced(link', contexts') /\ CaughtUp(link', runs')
      /\ ConnectedHas(updates', doc', link', contexts')
  BY <1>1 DEF ProviderInv
<1>6. snapshotAt' <= Len(updates')
  BY <1>1, <1>2
<1> QED BY <1>1, <1>3, <1>4, <1>5, <1>6, StepKeeps

\* onError, of contexts cs that keep the floors
LEMMA OnErrorKeeps ==
  ASSUME ProviderInv, NEW cs \in Seq(ProviderContext), DOMAIN cs = DOMAIN contexts, Grown(contexts, cs),
         NEW err, OnError(cs, err), updates' \in Seq(Nat), Longer(updates, updates'),
         UNCHANGED <<provider, snapshotAt, doc, runs>>,
         spent' \in [edits : Nat, remote : Nat, troubles : Nat]
  PROVE  ProviderInv'
<1>1. CASE contexts' = cs /\ UNCHANGED link
  BY <1>1, AppendedKeeps
<1>2. CASE Disconnected(cs)
  BY <1>2, DisconnectedKeeps
<1>3. CASE /\ contexts' = Append(Closing(cs, link.ctx), NewContext(Len(updates')))
           /\ link' = [Unlinked(link) EXCEPT !.state = "connecting", !.ctx = Len(cs) + 1]
  <2>1. link \in ProviderLink /\ link.ctx \in Nat /\ (link.ctx # 0 => link.ctx \in DOMAIN cs)
    BY DEF ProviderInv, ProviderTypeOK, ProviderLink, LinkPlaced
  <2>2. PICK ds : ds = Closing(cs, link.ctx)
    OBVIOUS
  <2>3. ds \in Seq(ProviderContext) /\ DOMAIN ds = DOMAIN contexts /\ Grown(contexts, ds)
    BY <2>1, <2>2, ClosingType, GrownTwice
  <2>4. Len(ds) = Len(cs)
    BY <2>3
  <2>5. PICK l : l = Unlinked(link)
    OBVIOUS
  <2>6. l \in ProviderLink
    BY <2>1, <2>5, UnlinkedType
  <2>7. l.synced => l.early
    <3>1. CASE link.ctx # 0
      BY <2>1, <2>5, <3>1, UnlinkedType
    <3>2. CASE link.ctx = 0
      <4>1. l = link /\ link.state = "disconnected"
        BY <2>5, <3>2 DEF Unlinked, ProviderInv, LinkPlaced
      <4> QED BY <4>1, UnlinkedEarly
    <3> QED BY <3>1, <3>2
  <2>8. /\ contexts' = Append(ds, NewContext(Len(updates')))
        /\ link' = [l EXCEPT !.state = "connecting", !.ctx = Len(ds) + 1]
    BY <1>3, <2>2, <2>4, <2>5
  <2> QED BY <2>3, <2>6, <2>7, <2>8, NewConnectionKeeps
<1> QED BY <1>1, <1>2, <1>3 DEF OnError

LEMMA ProducerFailsKeeps ==
  ASSUME ProviderInv, NEW c \in DOMAIN contexts, ProducerFails(c)
  PROVE  ProviderInv'
<1>1. contexts[c] \in ProviderContext
  BY ContextAt
<1>2. contexts[c].err \in {"none", "auth", "other"}
  BY <1>1 DEF ProviderContext
<1>3. PICK n \in 1 .. Len(contexts[c].out), err \in {"auth", "other"} :
        \/ /\ Lost(c, n)
           /\ OnError(Taken(c, n, IF contexts[c].seq = intake.next THEN err ELSE contexts[c].err), err)
        \/ Posted(c, n) /\ OnError(Taken(c, n, contexts[c].err), err)
  BY DEF ProducerFails
<1>4. PICK e \in {"none", "auth", "other"} : OnError(Taken(c, n, e), err)
  BY <1>2, <1>3
<1>5. updates' \in Seq(Nat) /\ Longer(updates, updates')
  BY <1>3, PostedType
<1>6. PICK cs : cs = Taken(c, n, e)
  OBVIOUS
<1>7. cs \in Seq(ProviderContext) /\ DOMAIN cs = DOMAIN contexts /\ Grown(contexts, cs)
  BY <1>6, TakenType
<1>8. UNCHANGED <<provider, snapshotAt, doc, runs>> /\ Trouble
  BY DEF ProducerFails
<1>9. spent' \in [edits : Nat, remote : Nat, troubles : Nat]
  BY <1>8, TroubleType DEF ProviderInv
<1>10. OnError(cs, err)
  BY <1>4, <1>6
<1> QED BY <1>5, <1>7, <1>8, <1>9, <1>10, OnErrorKeeps

LEMMA ProducerWaitsInVainKeeps ==
  ASSUME ProviderInv, NEW c \in DOMAIN contexts, ProducerWaitsInVain(c)
  PROVE  ProviderInv'
<1>1. contexts[c] \in ProviderContext
  BY ContextAt
<1>2. PICK e \in {"none", "auth", "other"} : e = contexts[c].err
  BY <1>1 DEF ProviderContext
<1>3. PICK n \in 1 .. Len(contexts[c].out) : Lost(c, n) /\ OnError(Taken(c, n, e), e)
  BY <1>2 DEF ProducerWaitsInVain
<1>4. updates' \in Seq(Nat) /\ Longer(updates, updates')
  BY <1>3, PostedType
<1>5. PICK cs : cs = Taken(c, n, e)
  OBVIOUS
<1>6. cs \in Seq(ProviderContext) /\ DOMAIN cs = DOMAIN contexts /\ Grown(contexts, cs)
  BY <1>5, TakenType
<1>7. UNCHANGED <<provider, snapshotAt, doc, runs, spent>>
  BY DEF ProducerWaitsInVain
<1>8. spent' \in [edits : Nat, remote : Nat, troubles : Nat] /\ OnError(cs, e)
  BY <1>3, <1>5, <1>7, QuietParts
<1> QED BY <1>4, <1>6, <1>7, <1>8, OnErrorKeeps

----------------------------------------------------------------------------
(* Awareness does not touch the document. *)

LEMMA UntouchedKeeps ==
  ASSUME ProviderInv, UNCHANGED <<provider, updates, snapshotAt, doc, link, contexts, runs>>,
         spent' \in [edits : Nat, remote : Nat, troubles : Nat]
  PROVE  ProviderInv'
  BY QuietParts, QuietKeeps

LEMMA AwarenessKeeps ==
  ASSUME ProviderInv,
         \/ AwarenessChanges \/ Heartbeat \/ SendAwareness \/ AwarenessSent \/ AwarenessFails
         \/ \E a \in listening : AwarenessOpens(a) \/ AwarenessAgain(a)
  PROVE  ProviderInv'
<1>1. UNCHANGED <<provider, updates, snapshotAt, doc, link, contexts, runs>>
  BY DEF AwarenessChanges, Heartbeat, SendAwareness, AwarenessSent, AwarenessFails, AwarenessOpens,
         AwarenessAgain
<1>2. UNCHANGED spent \/ Trouble
  BY DEF AwarenessChanges, Heartbeat, SendAwareness, AwarenessSent, AwarenessFails, AwarenessOpens,
         AwarenessAgain
<1>3. spent' \in [edits : Nat, remote : Nat, troubles : Nat]
  BY <1>2, TroubleType DEF ProviderInv, ProviderTypeOK
<1> QED BY <1>1, <1>3, UntouchedKeeps

----------------------------------------------------------------------------
LEMMA ProviderInvInit == ProviderInit => ProviderInv
<1> SUFFICES ASSUME ProviderInit PROVE ProviderInv
  OBVIOUS
<1>1. ProviderTypeOK
  <2>1. link \in ProviderLink
    BY DEF ProviderInit, ProviderLink
  <2>2. spent \in [edits : Nat, remote : Nat, troubles : Nat]
    BY DEF ProviderInit
  <2> QED BY <2>1, <2>2 DEF ProviderInit, ProviderTypeOK
<1>2. FloorsFit(updates, contexts, snapshotAt)
  BY DEF ProviderInit, FloorsFit
<1>3. RunsHave(updates, doc, runs, contexts)
  BY DEF ProviderInit, RunsHave
<1>4. link.ctx = 0 /\ link.state = "disconnected"
  BY DEF ProviderInit
<1>5. ~link.synced /\ runs = {}
  BY DEF ProviderInit
<1> QED BY <1>1, <1>2, <1>3, <1>4, <1>5 DEF ProviderInv, LinkPlaced, ConnectedHas, CaughtUp

LEMMA ProviderInvNext == ProviderInv /\ [ProviderNext]_providerVars => ProviderInv'
<1> SUFFICES ASSUME ProviderInv, [ProviderNext]_providerVars PROVE ProviderInv'
  OBVIOUS
<1>1. CASE UNCHANGED providerVars
  BY <1>1, UntouchedKeeps, QuietParts DEF providerVars
<1>2. CASE Connect \/ Disconnect \/ Edit \/ RemoteUpdate \/ Compacted
  BY <1>2, ConnectKeeps, DisconnectKeeps, EditKeeps, RemoteUpdateKeeps, CompactedKeeps
<1>3. CASE \/ AwarenessChanges \/ Heartbeat \/ SendAwareness \/ AwarenessSent \/ AwarenessFails
           \/ \E a \in listening : AwarenessOpens(a) \/ AwarenessAgain(a)
  BY <1>3, AwarenessKeeps
<1>4. ASSUME NEW c \in DOMAIN contexts,
             \/ EnsureDocument(c) \/ DiscoverSnapshot(c) \/ LoadSnapshotOf(c) \/ StartAwareness(c)
             \/ ConnectStepFails(c) \/ ProducerSends(c) \/ ProducerFails(c) \/ ProducerWaitsInVain(c)
             \/ ProducerCloses(c)
      PROVE  ProviderInv'
  BY <1>4, EnsureDocumentKeeps, DiscoverSnapshotKeeps, LoadSnapshotKeeps, StartAwarenessKeeps,
     ConnectStepFailsKeeps, ProducerSendsKeeps, ProducerFailsKeeps, ProducerWaitsInVainKeeps,
     ProducerClosesKeeps
<1>5. ASSUME NEW r \in runs,
             \/ StreamOpens(r) \/ ChunkArrives(r) \/ SessionEnds(r) \/ StreamFails(r) \/ StreamRetries(r)
      PROVE  ProviderInv'
  BY <1>5, StreamOpensKeeps, ChunkArrivesKeeps, SessionEndsKeeps, StreamFailsKeeps, StreamRetriesKeeps
<1> QED BY <1>1, <1>2, <1>3, <1>4, <1>5 DEF ProviderNext

\* A provider that is synced, not early, is connecting or connected and has every update its document had
\* when the connection began: connect(), loadSnapshot and runUpdatesStream, with any number of connections
\* whose requests, sessions and producers are still under way, and any number of errors and compactions.
\* What is early: a synced set by a chunk with data before the initial sync is over, or by the end of a
\* session before it was, until a chunk of the present connection reaches the tail.
THEOREM SyncedProvidersHaveAll == ProviderSpec => []SyncedHasAll
<1>1. ASSUME ProviderInv PROVE SyncedHasAll
  <2> SUFFICES ASSUME link.synced, ~link.early
               PROVE  link.ctx # 0 /\ Prefix(contexts[link.ctx].floor) \subseteq doc
    BY DEF SyncedHasAll
  <2>0. link.state = "connected"
    BY <1>1 DEF ProviderInv, LinkPlaced
  <2>1. link.ctx # 0 /\ link.ctx \in DOMAIN contexts /\ Has(updates, contexts[link.ctx].floor, doc)
    BY <1>1, <2>0 DEF ProviderInv, LinkPlaced, ConnectedHas
  <2>2. contexts[link.ctx].floor \in Nat
    BY <1>1, <2>1, ContextAt
  <2> QED BY <2>1, <2>2, HasPrefix
<1> QED BY <1>1, ProviderInvInit, ProviderInvNext, PTL DEF ProviderSpec

(***************************************************************************)
(* The document's server: every stored snapshot holds the updates before   *)
(* its offset.  A compaction builds on the snapshot that memory names, so  *)
(* that one has to be stored while it is being read: memory names the last *)
(* entry of the index, what is cleaned up comes before that entry, and     *)
(* compactions before "cleanup" run one at a time.                         *)
(***************************************************************************)
Offset == Nat \cup {NoOffset}
Update == Nat \X Nat

SnapshotRecord == [at : Offset, has : SUBSET Update]
MemoryRecord == [id : Nat, snapshot : Offset, bytes : Nat, compacting : BOOLEAN]
CompactionRecord ==
  [mem : Nat, from : Offset, has : SUBSET Update, end : Offset,
   step : {"snapshot", "updates", "write", "index", "publish", "cleanup"}]
DeletionRecord == [step : {"idle", "forget", "cascade"}, listed : SUBSET Offset]
ReaderRecord ==
  [step : {"idle", "found", "index", "redirect", "load", "read", "done"}, mem : Nat, at : Offset,
   has : SUBSET Update, end : Offset, born : Nat]

DocumentTypeOK ==
  /\ births \in Nat /\ born \in 0 .. births
  /\ log \in Seq(Update)
  /\ snapshots \subseteq SnapshotRecord
  /\ index \in Seq(Offset)
  /\ mem \in MemoryRecord
  /\ uncounted \in Nat
  /\ compactions \subseteq CompactionRecord
  /\ deletion \in DeletionRecord
  /\ reader \in [Readers -> ReaderRecord]
  /\ budget \in [retries : Nat, deletes : Nat, restarts : Nat]

\* offset o is the end of an update of log l, and h has the updates up to it
Good(l, h, o) == \E k \in 0 .. Len(l) : o = EndOf(k) /\ \A i \in 1 .. k : l[i] \in h

LastOf(idx) == IF idx = <<>> THEN NoOffset ELSE idx[Len(idx)]
Active(c) == c.step # "cleanup"
AtPublish(cs) == \E c \in cs : c.step = "publish"
In(ss, o) == \E s \in ss : s.at = o

SnapshotsGood(b, l, ss) == b # 0 => \A s \in ss : Good(l, s.has, s.at)
LastStored(ss, idx) == LastOf(idx) # NoOffset => In(ss, LastOf(idx))

MemoryFollows(m, idx, cs) ==
  /\ m.snapshot <= LastOf(idx)
  /\ m.snapshot # NoOffset /\ ~AtPublish(cs) => m.snapshot = LastOf(idx)

RedirectFollows(x, m, idx, cs) ==
  x.step = "redirect" => /\ x.at <= LastOf(idx)
                         /\ m.snapshot = NoOffset /\ ~AtPublish(cs) => x.at = LastOf(idx)

OneActive(m, cs) ==
  \A c \in cs : Active(c) => /\ m.compacting /\ m.id = c.mem /\ m.id # 0
                             /\ \A d \in cs : Active(d) => d = c

CompactionOK(c, l, ss, idx, m) ==
  /\ c.step = "snapshot" => c.from = m.snapshot /\ c.from # NoOffset
  /\ c.step = "updates" => c.from = NoOffset \/ Good(l, c.has, c.from)
  /\ c.step \in {"write", "index", "publish"} => Good(l, c.has, c.end) /\ LastOf(idx) <= c.end
  /\ c.step \in {"index", "publish"} => In(ss, c.end) /\ c.from <= c.end
  /\ c.step = "publish" => LastOf(idx) = c.end
  /\ c.step = "cleanup" => c.from < LastOf(idx)

ReaderOK(x, b, n, l) ==
  /\ x.step # "idle" => x.born \in 1 .. n
  /\ x.step = "read" /\ x.born = b /\ x.at # NoOffset => Good(l, x.has, x.at)
  /\ x.step = "done" /\ x.born = b => Good(l, x.has, x.end)

DocumentCore ==
  /\ ~Overlap
  /\ born = 0 => compactions = {} /\ uncounted = 0
  /\ deletion.step = "cascade" => mem.snapshot = NoOffset
  /\ SnapshotsGood(born, log, snapshots)
  /\ LastStored(snapshots, index)
  /\ MemoryFollows(mem, index, compactions)
  /\ \A r \in Readers : RedirectFollows(reader[r], mem, index, compactions)
  /\ OneActive(mem, compactions)
  /\ \A c \in compactions : CompactionOK(c, log, snapshots, index, mem)
  /\ \A r \in Readers : ReaderOK(reader[r], born, births, log)

DocumentInv == harm = {} => DocumentTypeOK /\ DocumentCore

----------------------------------------------------------------------------
(* Offsets *)

LEMMA EndOfNat == ASSUME NEW k \in Nat PROVE EndOf(k) \in Nat
  BY YjsAssumption DEF EndOf

\* an update that comes later ends more than one byte later
LEMMA EndOfLater ==
  ASSUME NEW k \in Nat, NEW i \in Nat, i > k
  PROVE  EndOf(i) > EndOf(k) + 1
<1>1. PICK n \in Nat : n = i - k - 1
  OBVIOUS
<1>2. n * UpdateBytes \in Nat /\ k * UpdateBytes \in Nat
  BY YjsAssumption
<1>3. i * UpdateBytes = (k * UpdateBytes + n * UpdateBytes) + UpdateBytes
  BY <1>1, YjsAssumption
<1> QED BY <1>2, <1>3, YjsAssumption DEF EndOf

LEMMA EndOfOrder ==
  ASSUME NEW k \in Nat, NEW i \in Nat
  PROVE  EndOf(i) <= EndOf(k) <=> i <= k
<1>1. EndOf(i) \in Nat /\ EndOf(k) \in Nat
  BY EndOfNat
<1>2. CASE i > k
  BY <1>1, <1>2, EndOfLater
<1>3. CASE i = k
  BY <1>1, <1>3
<1>4. CASE i < k
  <2>1. EndOf(k) > EndOf(i) + 1
    BY <1>4, EndOfLater
  <2> QED BY <1>1, <1>4, <2>1
<1> QED BY <1>2, <1>3, <1>4

LEMMA GoodIsOffset ==
  ASSUME NEW l \in Seq(Update), NEW h, NEW o, Good(l, h, o)
  PROVE  o \in Nat /\ o # NoOffset /\ o <= EndOf(Len(l))
<1>1. Len(l) \in Nat /\ EndOf(Len(l)) \in Nat
  BY EndOfNat
<1>2. PICK k \in 0 .. Len(l) : o = EndOf(k)
  BY DEF Good
<1>3. k \in Nat /\ k <= Len(l)
  BY <1>1, <1>2
<1>4. EndOf(k) \in Nat /\ EndOf(k) <= EndOf(Len(l))
  BY <1>1, <1>3, EndOfNat, EndOfOrder
<1> QED BY <1>1, <1>2, <1>4 DEF NoOffset

LEMMA GoodAppended ==
  ASSUME NEW l \in Seq(Update), NEW u \in Update, NEW h, NEW o, Good(l, h, o)
  PROVE  Good(Append(l, u), h, o)
<1>1. Len(l) \in Nat /\ Len(Append(l, u)) = Len(l) + 1 /\ \A i \in 1 .. Len(l) : Append(l, u)[i] = l[i]
  OBVIOUS
<1>2. PICK k \in 0 .. Len(l) : o = EndOf(k) /\ \A i \in 1 .. k : l[i] \in h
  BY DEF Good
<1>3. k \in 0 .. Len(Append(l, u)) /\ \A i \in 1 .. k : Append(l, u)[i] \in h
  BY <1>1, <1>2
<1> QED BY <1>2, <1>3 DEF Good

LEMMA GoodMore ==
  ASSUME NEW l, NEW h, NEW g, NEW o, Good(l, h, o), h \subseteq g
  PROVE  Good(l, g, o)
  BY DEF Good

\* what is read after offset o completes what is good up to o
LEMMA GoodRead ==
  ASSUME log \in Seq(Update), NEW h, NEW o, o = NoOffset \/ Good(log, h, o)
  PROVE  Good(log, h \cup LogAfter(From(o)), LogEnd)
<1>1. Len(log) \in Nat /\ Len(log) \in 0 .. Len(log) /\ DOMAIN log = 1 .. Len(log)
  OBVIOUS
<1>2. \A i \in 1 .. Len(log) : log[i] \in h \cup LogAfter(From(o))
  <2> SUFFICES ASSUME NEW i \in 1 .. Len(log), log[i] \notin h
               PROVE  EndOf(i) > From(o)
    BY <1>1 DEF LogAfter
  <2>0. i \in Nat /\ EndOf(i) \in Nat
    BY EndOfNat
  <2>1. CASE o = NoOffset
    BY <2>0, <2>1 DEF From, NoOffset
  <2>2. CASE o # NoOffset
    <3>1. PICK k \in 0 .. Len(log) : o = EndOf(k) /\ \A j \in 1 .. k : log[j] \in h
      BY <2>2 DEF Good
    <3>2. k \in Nat /\ i > k
      BY <1>1, <2>0, <3>1
    <3>3. EndOf(i) > EndOf(k) + 1
      BY <2>0, <3>2, EndOfLater
    <3> QED BY <2>2, <3>1, <3>3 DEF From, IncrementOffset
  <2> QED BY <2>1, <2>2
<1> QED BY <1>1, <1>2 DEF Good, LogEnd

LEMMA LogAfterType ==
  ASSUME log \in Seq(Update), NEW o PROVE LogAfter(o) \subseteq Update
  BY DEF LogAfter

LEMMA LogEndType == ASSUME log \in Seq(Update) PROVE LogEnd \in Nat
<1>1. Len(log) \in Nat
  OBVIOUS
<1> QED BY <1>1, EndOfNat DEF LogEnd

LEMMA GoodStored ==
  ASSUME DocumentTypeOK, DocumentCore, born # 0, NEW o, In(snapshots, o)
  PROVE  Good(log, Content(o), o)
<1>1. PICK s \in snapshots : s.at = o
  BY DEF In
<1>2. Good(log, s.has, o)
  BY <1>1 DEF DocumentCore, SnapshotsGood
<1>3. s.has \subseteq Content(o)
  BY <1>1 DEF Content
<1> QED BY <1>2, <1>3, GoodMore

LEMMA ContentType ==
  ASSUME DocumentTypeOK, NEW o PROVE Content(o) \subseteq Update
  BY DEF DocumentTypeOK, SnapshotRecord, Content

LEMMA LastOfType ==
  ASSUME NEW idx \in Seq(Offset)
  PROVE  LastOf(idx) \in Offset /\ LastOf(idx) \in Int /\ LastOf(idx) >= NoOffset
<1>1. LastOf(idx) \in Offset
  BY DEF LastOf, Offset
<1> QED BY <1>1 DEF Offset, NoOffset

LEMMA LastOfAppended ==
  ASSUME NEW idx \in Seq(Offset), NEW o \in Offset
  PROVE  Append(idx, o) \in Seq(Offset) /\ LastOf(Append(idx, o)) = o
  BY DEF LastOf

----------------------------------------------------------------------------
(* What a step of the document has to show *)

DocumentOK == DocumentTypeOK /\ DocumentCore

\* the step adds nothing to the history of harm
Harmless ==
  /\ ~Overlap'
  /\ \A c \in compactions' : c.step = "cleanup" => c.from # c.end
  /\ mem'.id = mem.id => ~(mem'.snapshot < mem.snapshot)

LEMMA NoHarm ==
  ASSUME harm' = Harm, harm' = {}
  PROVE  harm = {} /\ Harmless
  BY DEF Harm, Harmless

LEMMA ReaderType ==
  ASSUME DocumentTypeOK, NEW r \in Readers
  PROVE  /\ reader[r] \in ReaderRecord
         /\ reader[r].step \in {"idle", "found", "index", "redirect", "load", "read", "done"}
         /\ reader[r].mem \in Nat /\ reader[r].at \in Offset /\ reader[r].has \subseteq Update
         /\ reader[r].end \in Offset /\ reader[r].born \in Nat
<1>1. reader[r] \in ReaderRecord
  BY DEF DocumentTypeOK
<1> QED BY <1>1 DEF ReaderRecord

LEMMA MemoryType ==
  ASSUME DocumentTypeOK
  PROVE  /\ mem \in MemoryRecord /\ mem.id \in Nat /\ mem.snapshot \in Offset /\ mem.snapshot \in Int
         /\ mem.snapshot >= NoOffset /\ mem.bytes \in Nat /\ mem.compacting \in BOOLEAN
<1>1. mem \in MemoryRecord
  BY DEF DocumentTypeOK
<1>2. mem.id \in Nat /\ mem.snapshot \in Offset /\ mem.bytes \in Nat /\ mem.compacting \in BOOLEAN
  BY <1>1 DEF MemoryRecord
<1> QED BY <1>1, <1>2 DEF Offset, NoOffset

LEMMA CompactionType ==
  ASSUME DocumentTypeOK, NEW c \in compactions
  PROVE  /\ c \in CompactionRecord /\ c.mem \in Nat /\ c.from \in Offset /\ c.from \in Int
         /\ c.from >= NoOffset /\ c.has \subseteq Update /\ c.end \in Offset /\ c.end \in Int
         /\ c.step \in {"snapshot", "updates", "write", "index", "publish", "cleanup"}
<1>1. c \in CompactionRecord
  BY DEF DocumentTypeOK
<1>2. /\ c.mem \in Nat /\ c.from \in Offset /\ c.has \subseteq Update /\ c.end \in Offset
      /\ c.step \in {"snapshot", "updates", "write", "index", "publish", "cleanup"}
  BY <1>1 DEF CompactionRecord
<1> QED BY <1>1, <1>2 DEF Offset, NoOffset

\* One reader moves; memory keeps what it says about snapshots and compactions.
LEMMA ReaderMoves ==
  ASSUME DocumentOK, Harmless, NEW r \in Readers, NEW x \in ReaderRecord,
         reader' = [reader EXCEPT ![r] = x],
         UNCHANGED <<born, births, log, snapshots, index, uncounted, compactions, deletion, budget>>,
         mem' \in MemoryRecord, mem'.snapshot = mem.snapshot, mem'.compacting = mem.compacting,
         mem.id # 0 => mem'.id = mem.id,
         RedirectFollows(x, mem, index, compactions), ReaderOK(x, born, births, log)
  PROVE  DocumentOK'
<1>1. reader \in [Readers -> ReaderRecord]
  BY DEF DocumentOK, DocumentTypeOK
<1>2. reader' \in [Readers -> ReaderRecord] /\ \A q \in Readers : reader'[q] = x \/ reader'[q] = reader[q]
  BY <1>1
<1>3. DocumentTypeOK'
  BY <1>2 DEF DocumentOK, DocumentTypeOK
<1>4. \A q \in Readers : ReaderOK(reader'[q], born, births, log)
  BY <1>2 DEF DocumentOK, DocumentCore
<1>5. \A q \in Readers : RedirectFollows(reader'[q], mem', index, compactions)
  BY <1>2 DEF DocumentOK, DocumentCore, RedirectFollows
<1>6. MemoryFollows(mem', index, compactions)
  BY DEF DocumentOK, DocumentCore, MemoryFollows
<1>7. OneActive(mem', compactions)
  BY DEF DocumentOK, DocumentCore, OneActive
<1>8. \A c \in compactions : CompactionOK(c, log, snapshots, index, mem')
  BY DEF DocumentOK, DocumentCore, CompactionOK
<1>9. /\ born' = 0 => compactions' = {} /\ uncounted' = 0
      /\ deletion'.step = "cascade" => mem'.snapshot = NoOffset
      /\ SnapshotsGood(born', log', snapshots') /\ LastStored(snapshots', index')
  BY DEF DocumentOK, DocumentCore
<1>10. ~Overlap'
  BY DEF Harmless
<1> QED BY <1>3, <1>4, <1>5, <1>6, <1>7, <1>8, <1>9, <1>10 DEF DocumentOK, DocumentCore

LEMMA MemorySame ==
  ASSUME DocumentOK, UNCHANGED mem
  PROVE  /\ mem' \in MemoryRecord /\ mem'.snapshot = mem.snapshot /\ mem'.compacting = mem.compacting
         /\ mem'.id = mem.id
  BY DEF DocumentOK, DocumentTypeOK

LEMMA RestType ==
  /\ Rest \in ReaderRecord
  /\ \A m, idx, cs : RedirectFollows(Rest, m, idx, cs)
  /\ \A b, n, l : ReaderOK(Rest, b, n, l)
  BY DEF Rest, ReaderRecord, Offset, RedirectFollows, ReaderOK

LEMMA FreshKeeps ==
  ASSUME DocumentTypeOK
  PROVE  /\ Fresh(mem) \in MemoryRecord /\ Fresh(mem).id # 0 /\ Fresh(mem).snapshot = mem.snapshot
         /\ Fresh(mem).compacting = mem.compacting /\ Fresh(mem).bytes = mem.bytes
         /\ mem.id # 0 => Fresh(mem).id = mem.id
<1>1. mem \in MemoryRecord
  BY MemoryType
<1>2. births \in Nat /\ budget.deletes \in Nat
  BY DEF DocumentTypeOK
<1>3. PICK n : n = births + budget.deletes + 1
  OBVIOUS
<1>4. n \in Nat /\ n # 0
  BY <1>2, <1>3
<1> QED BY <1>1, <1>3, <1>4 DEF Fresh, MemoryRecord

----------------------------------------------------------------------------
(* Readers *)

LEMMA FindDocumentKeeps ==
  ASSUME DocumentOK, Harmless, NEW r \in Readers, FindDocument(r)
  PROVE  DocumentOK'
<1>1. DocumentTypeOK /\ reader[r] \in ReaderRecord /\ born \in Nat /\ born \in 1 .. births
  BY ReaderType DEF DocumentOK, DocumentTypeOK, FindDocument
<1>2. PICK x : x = [reader[r] EXCEPT !.step = "found", !.born = born]
  OBVIOUS
<1>3. x \in ReaderRecord /\ x.step = "found" /\ x.born = born
  BY <1>1, <1>2 DEF ReaderRecord
<1>4. reader' = [reader EXCEPT ![r] = x]
  BY <1>2 DEF FindDocument
<1>5. RedirectFollows(x, mem, index, compactions) /\ ReaderOK(x, born, births, log)
  BY <1>1, <1>3 DEF RedirectFollows, ReaderOK
<1>6. UNCHANGED <<born, births, log, snapshots, index, mem, uncounted, compactions, deletion, budget>>
  BY DEF FindDocument
<1> QED BY <1>3, <1>4, <1>5, <1>6, ReaderMoves, MemorySame

LEMMA DiscoverKeeps ==
  ASSUME DocumentOK, Harmless, NEW r \in Readers, Discover(r)
  PROVE  DocumentOK'
<1>1. /\ DocumentTypeOK /\ reader[r] \in ReaderRecord /\ ReaderOK(reader[r], born, births, log)
      /\ reader[r].step = "found"
  BY ReaderType DEF DocumentOK, DocumentCore, Discover
<1>2. mem.snapshot \in Offset
  BY <1>1, MemoryType
<1>3. /\ Fresh(mem) \in MemoryRecord /\ Fresh(mem).id \in Nat /\ Fresh(mem).snapshot = mem.snapshot
      /\ Fresh(mem).compacting = mem.compacting /\ (mem.id # 0 => Fresh(mem).id = mem.id)
  BY <1>1, FreshKeeps DEF MemoryRecord
<1>4. PICK s \in {"index", "load"} : s = IF mem.snapshot = NoOffset THEN "index" ELSE "load"
  OBVIOUS
<1>5. PICK x : x = [reader[r] EXCEPT !.step = s, !.mem = Fresh(mem).id, !.at = mem.snapshot]
  OBVIOUS
<1>6. x \in ReaderRecord /\ x.step = s /\ x.born = reader[r].born
  BY <1>1, <1>2, <1>3, <1>4, <1>5 DEF ReaderRecord
<1>7. reader' = [reader EXCEPT ![r] = x]
  BY <1>4, <1>5 DEF Discover
<1>8. RedirectFollows(x, mem, index, compactions) /\ ReaderOK(x, born, births, log)
  BY <1>1, <1>4, <1>6 DEF RedirectFollows, ReaderOK
<1>9. /\ UNCHANGED <<born, births, log, snapshots, index, uncounted, compactions, deletion, budget>>
      /\ mem' = Fresh(mem)
  BY DEF Discover
<1> QED BY <1>3, <1>6, <1>7, <1>8, <1>9, ReaderMoves

LEMMA LoadIndexKeeps ==
  ASSUME DocumentOK, Harmless, NEW r \in Readers, LoadIndex(r)
  PROVE  DocumentOK'
<1>1. /\ DocumentTypeOK /\ reader[r] \in ReaderRecord /\ ReaderOK(reader[r], born, births, log)
      /\ reader[r].step = "index"
  BY ReaderType DEF DocumentOK, DocumentCore, LoadIndex
<1>2. LastOf(index) \in Offset /\ LastOf(index) \in Int
  BY <1>1, LastOfType DEF DocumentTypeOK
<1>3. PICK x : x = [reader[r] EXCEPT !.step = "redirect", !.at = LastOf(index)]
  OBVIOUS
<1>4. x \in ReaderRecord /\ x.step = "redirect" /\ x.at = LastOf(index) /\ x.born = reader[r].born
  BY <1>1, <1>2, <1>3 DEF ReaderRecord
<1>5. reader' = [reader EXCEPT ![r] = x]
  BY <1>3 DEF LoadIndex, LastOf
<1>6. RedirectFollows(x, mem, index, compactions) /\ ReaderOK(x, born, births, log)
  BY <1>1, <1>2, <1>4 DEF RedirectFollows, ReaderOK
<1>7. UNCHANGED <<born, births, log, snapshots, index, mem, uncounted, compactions, deletion, budget>>
  BY DEF LoadIndex
<1> QED BY <1>4, <1>5, <1>6, <1>7, ReaderMoves, MemorySame

LEMMA LoadSnapshotReads ==
  ASSUME DocumentOK, Harmless, NEW r \in Readers, LoadSnapshot(r)
  PROVE  DocumentOK'
<1>1. /\ DocumentTypeOK /\ DocumentCore /\ reader[r] \in ReaderRecord
      /\ ReaderOK(reader[r], born, births, log) /\ reader[r].step = "load" /\ births \in Nat
  BY ReaderType DEF DocumentOK, DocumentCore, LoadSnapshot, DocumentTypeOK
<1>2. UNCHANGED <<born, births, log, snapshots, index, mem, uncounted, compactions, deletion, budget>>
  BY DEF LoadSnapshot
<1>3. CASE ~Stored(reader[r].at)
  <2>1. reader' = [reader EXCEPT ![r] = Rest]
    BY <1>3 DEF LoadSnapshot
  <2> QED BY <1>2, <2>1, RestType, ReaderMoves, MemorySame
<1>4. CASE Stored(reader[r].at)
  <2>1. PICK x : x = [reader[r] EXCEPT !.step = "read", !.has = Content(reader[r].at)]
    OBVIOUS
  <2>2. Content(reader[r].at) \subseteq Update
    BY <1>1, ContentType
  <2>3. /\ x \in ReaderRecord /\ x.step = "read" /\ x.at = reader[r].at /\ x.has = Content(reader[r].at)
        /\ x.born = reader[r].born
    BY <1>1, <2>1, <2>2 DEF ReaderRecord
  <2>4. reader' = [reader EXCEPT ![r] = x]
    BY <1>4, <2>1 DEF LoadSnapshot
  <2>5. x.born \in 1 .. births
    BY <1>1, <2>3 DEF ReaderOK
  <2>6. x.born = born => Good(log, x.has, x.at)
    <3> SUFFICES ASSUME x.born = born PROVE Good(log, x.has, x.at)
      OBVIOUS
    <3>1. born # 0 /\ In(snapshots, x.at)
      BY <1>1, <1>4, <2>3, <2>5 DEF Stored, In
    <3> QED BY <1>1, <2>3, <3>1, GoodStored
  <2>7. RedirectFollows(x, mem, index, compactions) /\ ReaderOK(x, born, births, log)
    BY <2>3, <2>5, <2>6 DEF RedirectFollows, ReaderOK
  <2> QED BY <1>2, <2>3, <2>4, <2>7, ReaderMoves, MemorySame
<1> QED BY <1>3, <1>4

LEMMA ReadUpdatesKeeps ==
  ASSUME DocumentOK, Harmless, NEW r \in Readers, ReadUpdates(r)
  PROVE  DocumentOK'
<1>1. /\ DocumentTypeOK /\ DocumentCore /\ reader[r] \in ReaderRecord
      /\ ReaderOK(reader[r], born, births, log) /\ reader[r].step = "read" /\ log \in Seq(Update)
      /\ reader[r].has \subseteq Update
  BY ReaderType DEF DocumentOK, DocumentCore, ReadUpdates, DocumentTypeOK
<1>2. UNCHANGED <<born, births, log, snapshots, index, mem, uncounted, compactions, deletion, budget>>
  BY DEF ReadUpdates
<1>3. CASE born = 0
  <2>1. reader' = [reader EXCEPT ![r] = Rest]
    BY <1>3 DEF ReadUpdates
  <2> QED BY <1>2, <2>1, RestType, ReaderMoves, MemorySame
<1>4. CASE born # 0
  <2>1. PICK h : h = reader[r].has \cup LogAfter(From(reader[r].at))
    OBVIOUS
  <2>2. h \subseteq Update
    BY <1>1, <2>1, LogAfterType
  <2>3. LogEnd \in Offset
    BY <1>1, LogEndType DEF Offset
  <2>4. PICK x : x = [reader[r] EXCEPT !.step = "done", !.has = h, !.end = LogEnd]
    OBVIOUS
  <2>5. /\ x \in ReaderRecord /\ x.step = "done" /\ x.has = h /\ x.end = LogEnd /\ x.born = reader[r].born
    BY <1>1, <2>2, <2>3, <2>4 DEF ReaderRecord
  <2>6. reader' = [reader EXCEPT ![r] = x]
    <3>1. reader' = [reader EXCEPT ![r] =
                       [reader[r] EXCEPT !.step = "done",
                                         !.has = reader[r].has \cup LogAfter(From(reader[r].at)),
                                         !.end = LogEnd]]
      BY <1>4 DEF ReadUpdates
    <3> QED BY <2>1, <2>4, <3>1
  <2>7. x.born = born => Good(log, x.has, x.end)
    <3> SUFFICES ASSUME x.born = born PROVE Good(log, x.has, x.end)
      OBVIOUS
    <3>1. reader[r].at = NoOffset \/ Good(log, reader[r].has, reader[r].at)
      BY <1>1, <2>5 DEF ReaderOK
    <3> QED BY <1>1, <2>1, <2>5, <3>1, GoodRead
  <2>8. RedirectFollows(x, mem, index, compactions) /\ ReaderOK(x, born, births, log)
    BY <1>1, <2>5, <2>7 DEF RedirectFollows, ReaderOK
  <2> QED BY <1>2, <2>5, <2>6, <2>8, ReaderMoves, MemorySame
<1> QED BY <1>3, <1>4

LEMMA LeaveKeeps ==
  ASSUME DocumentOK, Harmless, NEW r \in Readers, Leave(r)
  PROVE  DocumentOK'
<1>1. UNCHANGED <<born, births, log, snapshots, index, mem, uncounted, compactions, deletion, budget>>
  BY DEF Leave
<1>2. reader' = [reader EXCEPT ![r] = Rest]
  BY DEF Leave
<1> QED BY <1>1, <1>2, RestType, ReaderMoves, MemorySame

LEMMA RedirectKeeps ==
  ASSUME DocumentOK, Harmless, NEW r \in Readers, Redirect(r)
  PROVE  DocumentOK'
<1>1. /\ DocumentTypeOK /\ DocumentCore /\ reader[r] \in ReaderRecord
      /\ ReaderOK(reader[r], born, births, log) /\ reader[r].step = "redirect"
      /\ RedirectFollows(reader[r], mem, index, compactions) /\ MemoryFollows(mem, index, compactions)
  BY ReaderType DEF DocumentOK, DocumentCore, Redirect
<1>2. UNCHANGED <<born, births, log, snapshots, index, uncounted, compactions, deletion, budget>>
  BY DEF Redirect
<1>3. PICK found : found = reader[r].at
  OBVIOUS
<1>4. /\ found \in Offset /\ found \in Int /\ mem \in MemoryRecord /\ mem.snapshot \in Offset
      /\ mem.snapshot \in Int /\ mem.snapshot >= NoOffset /\ LastOf(index) \in Int
  BY <1>1, <1>3, ReaderType, MemoryType, LastOfType DEF DocumentTypeOK, Offset, NoOffset
<1>5. PICK at : at = IF found # NoOffset THEN found ELSE IF mem.id = reader[r].mem THEN mem.snapshot ELSE NoOffset
  OBVIOUS
<1>6. at \in Offset
  BY <1>4, <1>5 DEF Offset
<1>7. PICK s \in {"read", "load"} : s = IF at = NoOffset THEN "read" ELSE "load"
  OBVIOUS
<1>8. PICK x : x = [reader[r] EXCEPT !.at = at, !.step = s]
  OBVIOUS
<1>9. x \in ReaderRecord /\ x.step = s /\ x.at = at /\ x.born = reader[r].born
  BY <1>1, <1>6, <1>7, <1>8 DEF ReaderRecord
<1>10. reader' = [reader EXCEPT ![r] = x]
  BY <1>3, <1>5, <1>7, <1>8 DEF Redirect
<1>11. ReaderOK(x, born, births, log)
  BY <1>1, <1>7, <1>9 DEF ReaderOK
<1>12. x.step # "redirect"
  BY <1>7, <1>9
<1>13. CASE ~(mem.id = reader[r].mem /\ found # NoOffset)
  <2>1. UNCHANGED mem
    BY <1>3, <1>13 DEF Redirect
  <2>2. RedirectFollows(x, mem, index, compactions)
    BY <1>12 DEF RedirectFollows
  <2> QED BY <1>2, <1>9, <1>10, <1>11, <2>1, <2>2, ReaderMoves, MemorySame
<1>14. CASE mem.id = reader[r].mem /\ found # NoOffset
  <2>1. mem' = [mem EXCEPT !.snapshot = found]
    BY <1>3, <1>14 DEF Redirect
  <2>2. /\ mem' \in MemoryRecord /\ mem'.snapshot = found /\ mem'.id = mem.id
        /\ mem'.compacting = mem.compacting
    BY <1>4, <2>1 DEF MemoryRecord
  <2>3. ~(found < mem.snapshot)
    BY <2>2 DEF Harmless
  <2>4. found <= LastOf(index)
    BY <1>1, <1>3 DEF RedirectFollows
  <2>5. ~AtPublish(compactions) => found = LastOf(index)
    <3> SUFFICES ASSUME ~AtPublish(compactions) PROVE found = LastOf(index)
      OBVIOUS
    <3>1. CASE mem.snapshot = NoOffset
      BY <1>1, <1>3, <3>1 DEF RedirectFollows
    <3>2. CASE mem.snapshot # NoOffset
      <4>1. mem.snapshot = LastOf(index)
        BY <1>1, <3>2 DEF MemoryFollows
      <4> QED BY <1>4, <2>3, <2>4, <4>1
    <3> QED BY <3>1, <3>2
  <2>6. MemoryFollows(mem', index, compactions)
    BY <2>2, <2>4, <2>5 DEF MemoryFollows
  <2>7. reader' \in [Readers -> ReaderRecord] /\ \A q \in Readers : reader'[q] = x \/ reader'[q] = reader[q]
    BY <1>1, <1>9, <1>10 DEF DocumentTypeOK
  <2>8. DocumentTypeOK'
    BY <1>1, <1>2, <2>2, <2>7 DEF DocumentTypeOK
  <2>9. \A q \in Readers : ReaderOK(reader'[q], born, births, log)
    BY <1>1, <1>11, <2>7 DEF DocumentCore
  <2>10. \A q \in Readers : RedirectFollows(reader'[q], mem', index, compactions)
    <3> SUFFICES ASSUME NEW q \in Readers PROVE RedirectFollows(reader'[q], mem', index, compactions)
      OBVIOUS
    <3>1. CASE reader'[q] = x
      BY <1>12, <3>1 DEF RedirectFollows
    <3>2. CASE reader'[q] = reader[q]
      <4>1. RedirectFollows(reader[q], mem, index, compactions)
        BY <1>1 DEF DocumentCore
      <4> QED BY <1>14, <2>2, <3>2, <4>1 DEF RedirectFollows
    <3> QED BY <2>7, <3>1, <3>2
  <2>11. OneActive(mem', compactions)
    <3>1. OneActive(mem, compactions)
      BY <1>1 DEF DocumentCore
    <3> QED BY <2>2, <3>1 DEF OneActive
  <2>12. \A c \in compactions : CompactionOK(c, log, snapshots, index, mem')
    <3> SUFFICES ASSUME NEW c \in compactions PROVE CompactionOK(c, log, snapshots, index, mem')
      OBVIOUS
    <3>1. CompactionOK(c, log, snapshots, index, mem) /\ OneActive(mem, compactions)
      BY <1>1 DEF DocumentCore
    <3>2. ASSUME c.step = "snapshot" PROVE c.from = mem'.snapshot /\ c.from # NoOffset
      <4>1. c.from = mem.snapshot /\ c.from # NoOffset
        BY <3>1, <3>2 DEF CompactionOK
      <4>2. ~AtPublish(compactions)
        BY <3>1, <3>2 DEF OneActive, Active, AtPublish
      <4>3. mem.snapshot = LastOf(index)
        BY <1>1, <4>1, <4>2 DEF MemoryFollows
      <4> QED BY <2>2, <2>5, <4>1, <4>2, <4>3
    <3> QED BY <3>1, <3>2 DEF CompactionOK
  <2>13. deletion'.step # "cascade"
    <3>1. deletion = Idle
      BY <1>1 DEF DocumentCore, Overlap
    <3> QED BY <1>2, <3>1 DEF Idle
  <2>14. /\ born' = 0 => compactions' = {} /\ uncounted' = 0
         /\ SnapshotsGood(born', log', snapshots') /\ LastStored(snapshots', index')
    BY <1>1, <1>2 DEF DocumentCore
  <2>15. ~Overlap'
    BY DEF Harmless
  <2> QED BY <1>2, <2>6, <2>8, <2>9, <2>10, <2>11, <2>12, <2>13, <2>14, <2>15 DEF DocumentOK, DocumentCore
<1> QED BY <1>13, <1>14

----------------------------------------------------------------------------
(* Compactions *)

\* The active compaction moves on: it is the only one, and the others are cleaning up.
LEMMA ActiveMoves ==
  ASSUME DocumentOK, NEW c \in compactions, Active(c), NEW d, Goes(c, d), Active(d), d.mem = c.mem
  PROVE  /\ OneActive(mem, compactions')
         /\ \A e \in compactions' : e = d \/ (e \in compactions /\ ~Active(e))
         /\ AtPublish(compactions') <=> d.step = "publish"
         /\ AtPublish(compactions) <=> c.step = "publish"
         /\ mem.id = c.mem /\ mem.id # 0 /\ born # 0 /\ deletion = Idle
<1>1. OneActive(mem, compactions)
  BY DEF DocumentOK, DocumentCore
<1>2. compactions' = (compactions \ {c}) \cup {d}
  BY DEF Goes
<1>3. \A e \in compactions : Active(e) => e = c
  BY <1>1 DEF OneActive
<1>4. \A e \in compactions' : e = d \/ (e \in compactions /\ ~Active(e))
  BY <1>2, <1>3
<1>5. mem.compacting /\ mem.id = c.mem /\ mem.id # 0
  BY <1>1 DEF OneActive
<1>6. OneActive(mem, compactions')
  BY <1>4, <1>5 DEF OneActive
<1>7. AtPublish(compactions') <=> d.step = "publish"
  BY <1>2, <1>4 DEF AtPublish, Active
<1>8. AtPublish(compactions) <=> c.step = "publish"
  BY <1>3 DEF AtPublish, Active
<1>9. born # 0 /\ deletion = Idle
  BY DEF DocumentOK, DocumentCore, Overlap
<1> QED BY <1>4, <1>5, <1>6, <1>7, <1>8, <1>9

\* It moves between steps before "publish", and only compactions and snapshots change.
LEMMA CompactionMoves ==
  ASSUME DocumentOK, Harmless, NEW c \in compactions, Active(c), c.step # "publish",
         NEW d \in CompactionRecord, Goes(c, d), Active(d), d.step # "publish", d.mem = c.mem,
         UNCHANGED <<born, births, log, index, mem, uncounted, deletion, reader, budget>>,
         snapshots \subseteq snapshots', snapshots' \subseteq SnapshotRecord,
         \A s \in snapshots' : s \in snapshots \/ Good(log, s.has, s.at),
         CompactionOK(d, log, snapshots', index, mem)
  PROVE  DocumentOK'
<1>1. /\ OneActive(mem, compactions') /\ ~AtPublish(compactions') /\ ~AtPublish(compactions)
      /\ \A e \in compactions' : e = d \/ (e \in compactions /\ ~Active(e))
      /\ born # 0
  BY ActiveMoves
<1>2. DocumentTypeOK'
  <2>1. compactions' \subseteq CompactionRecord
    BY <1>1 DEF DocumentOK, DocumentTypeOK
  <2> QED BY <2>1 DEF DocumentOK, DocumentTypeOK
<1>3. SnapshotsGood(born', log', snapshots')
  BY <1>1 DEF DocumentOK, DocumentCore, SnapshotsGood
<1>4. LastStored(snapshots', index')
  BY DEF DocumentOK, DocumentCore, LastStored, In
<1>5. MemoryFollows(mem', index', compactions')
  BY <1>1 DEF DocumentOK, DocumentCore, MemoryFollows
<1>6. \A r \in Readers : RedirectFollows(reader'[r], mem', index', compactions')
  <2>1. \A r \in Readers : RedirectFollows(reader[r], mem, index, compactions)
    BY DEF DocumentOK, DocumentCore
  <2> QED BY <1>1, <2>1 DEF RedirectFollows
<1>7. \A e \in compactions' : CompactionOK(e, log', snapshots', index', mem')
  <2> SUFFICES ASSUME NEW e \in compactions, ~Active(e)
               PROVE  CompactionOK(e, log, snapshots', index, mem)
    BY <1>1
  <2>1. CompactionOK(e, log, snapshots, index, mem)
    BY DEF DocumentOK, DocumentCore
  <2> QED BY <2>1 DEF CompactionOK, Active
<1>8. \A r \in Readers : ReaderOK(reader'[r], born', births', log')
  BY DEF DocumentOK, DocumentCore
<1>9. /\ ~Overlap' /\ (born' = 0 => compactions' = {} /\ uncounted' = 0)
      /\ deletion'.step = "cascade" => mem'.snapshot = NoOffset
  BY <1>1 DEF Harmless, DocumentOK, DocumentCore
<1> QED BY <1>1, <1>2, <1>3, <1>4, <1>5, <1>6, <1>7, <1>8, <1>9 DEF DocumentOK, DocumentCore

LEMMA LoadsSnapshotKeeps ==
  ASSUME DocumentOK, Harmless, NEW c \in compactions, LoadsSnapshot(c)
  PROVE  DocumentOK'
<1>1. DocumentTypeOK /\ DocumentCore /\ c \in CompactionRecord /\ Active(c) /\ c.step = "snapshot"
  BY CompactionType DEF DocumentOK, LoadsSnapshot, Active
<1>2. CompactionOK(c, log, snapshots, index, mem) /\ OneActive(mem, compactions)
  BY <1>1 DEF DocumentCore
<1>3. c.from = mem.snapshot /\ c.from # NoOffset /\ mem.id = c.mem /\ c.from \in Offset
  BY <1>1, <1>2, CompactionType DEF CompactionOK, OneActive
<1>4. ~AtPublish(compactions) /\ born # 0
  BY <1>1, <1>2 DEF OneActive, Active, AtPublish, DocumentCore
<1>5. c.from = LastOf(index)
  BY <1>1, <1>3, <1>4 DEF DocumentCore, MemoryFollows
<1>6. In(snapshots, c.from)
  BY <1>1, <1>3, <1>5 DEF DocumentCore, LastStored
<1>7. PICK h : h = Content(c.from)
  OBVIOUS
<1>8. h \subseteq Update /\ Good(log, h, c.from)
  BY <1>1, <1>4, <1>6, <1>7, ContentType, GoodStored
<1>9. PICK d : d = [c EXCEPT !.step = "updates", !.has = h, !.from = Named(c)]
  OBVIOUS
<1>10. Named(c) = c.from
  BY <1>3 DEF Named
<1>11. /\ d \in CompactionRecord /\ d.step = "updates" /\ d.has = h /\ d.from = c.from /\ d.mem = c.mem
  BY <1>1, <1>3, <1>8, <1>9, <1>10 DEF CompactionRecord
<1>12. /\ Goes(c, d) /\ Active(d) /\ d.step # "publish"
       /\ UNCHANGED <<born, births, log, snapshots, index, mem, uncounted, deletion, reader, budget>>
  BY <1>7, <1>9, <1>11 DEF LoadsSnapshot, Active
<1>13. CompactionOK(d, log, snapshots, index, mem)
  BY <1>8, <1>11 DEF CompactionOK
<1>14. snapshots' \subseteq SnapshotRecord
  BY <1>1, <1>12 DEF DocumentTypeOK
<1> QED BY <1>1, <1>11, <1>12, <1>13, <1>14, CompactionMoves

\* offsets of memory and of the index are offsets of updates that the log has
LEMMA LastWithinLog ==
  ASSUME DocumentOK, born # 0
  PROVE  LastOf(index) <= LogEnd
<1>1. LastOf(index) \in Int /\ LastOf(index) >= NoOffset /\ log \in Seq(Update)
  BY LastOfType DEF DocumentOK, DocumentTypeOK
<1>2. LogEnd \in Nat
  BY <1>1, LogEndType
<1>3. CASE LastOf(index) = NoOffset
  BY <1>2, <1>3 DEF NoOffset
<1>4. CASE LastOf(index) # NoOffset
  <2>1. PICK s \in snapshots : s.at = LastOf(index)
    BY <1>4 DEF DocumentOK, DocumentCore, LastStored, In
  <2>2. Good(log, s.has, LastOf(index))
    BY <2>1 DEF DocumentOK, DocumentCore, SnapshotsGood
  <2> QED BY <1>1, <2>2, GoodIsOffset DEF LogEnd
<1> QED BY <1>3, <1>4

LEMMA ReadsUpdatesKeeps ==
  ASSUME DocumentOK, Harmless, NEW c \in compactions, ReadsUpdates(c)
  PROVE  DocumentOK'
<1>1. /\ DocumentTypeOK /\ DocumentCore /\ c \in CompactionRecord /\ Active(c) /\ c.step = "updates"
      /\ born # 0 /\ log \in Seq(Update) /\ c.has \subseteq Update
  BY CompactionType DEF DocumentOK, DocumentTypeOK, ReadsUpdates, Active
<1>2. c.from = NoOffset \/ Good(log, c.has, c.from)
  BY <1>1 DEF DocumentCore, CompactionOK
<1>3. PICK h : h = c.has \cup LogAfter(From(c.from))
  OBVIOUS
<1>4. h \subseteq Update /\ Good(log, h, LogEnd) /\ LogEnd \in Offset
  BY <1>1, <1>2, <1>3, LogAfterType, GoodRead, LogEndType DEF Offset
<1>5. PICK d : d = [c EXCEPT !.step = "write", !.has = h, !.end = LogEnd]
  OBVIOUS
<1>6. d \in CompactionRecord /\ d.step = "write" /\ d.has = h /\ d.end = LogEnd /\ d.mem = c.mem
  BY <1>1, <1>4, <1>5 DEF CompactionRecord
<1>7. d = [c EXCEPT !.step = "write", !.has = @ \cup LogAfter(From(c.from)), !.end = LogEnd]
  BY <1>1, <1>3, <1>5 DEF CompactionRecord
<1>8. /\ Goes(c, d) /\ Active(d) /\ d.step # "publish"
      /\ UNCHANGED <<born, births, log, snapshots, index, mem, uncounted, deletion, reader, budget>>
  BY <1>6, <1>7 DEF ReadsUpdates, Active
<1>9. LastOf(index) <= LogEnd
  BY <1>1, LastWithinLog
<1>10. CompactionOK(d, log, snapshots, index, mem)
  BY <1>4, <1>6, <1>9 DEF CompactionOK
<1>11. snapshots' \subseteq SnapshotRecord
  BY <1>1, <1>8 DEF DocumentTypeOK
<1> QED BY <1>1, <1>6, <1>8, <1>10, <1>11, CompactionMoves

LEMMA WritesSnapshotKeeps ==
  ASSUME DocumentOK, Harmless, NEW c \in compactions, WritesSnapshot(c)
  PROVE  DocumentOK'
<1>1. /\ DocumentTypeOK /\ DocumentCore /\ c \in CompactionRecord /\ Active(c) /\ c.step = "write"
      /\ c.has \subseteq Update /\ c.end \in Offset /\ c.end \in Int
  BY CompactionType DEF DocumentOK, WritesSnapshot, Active
<1>2. /\ Good(log, c.has, c.end) /\ LastOf(index) <= c.end /\ mem.id = c.mem
  BY <1>1 DEF DocumentCore, CompactionOK, OneActive
<1>3. /\ mem.snapshot \in Offset /\ mem.snapshot \in Int /\ mem.snapshot <= LastOf(index)
      /\ LastOf(index) \in Int
  BY <1>1, MemoryType, LastOfType DEF DocumentTypeOK, DocumentCore, MemoryFollows
<1>4. Named(c) = mem.snapshot
  BY <1>2 DEF Named
<1>5. PICK d : d = [c EXCEPT !.step = "index", !.from = Named(c)]
  OBVIOUS
<1>6. /\ d \in CompactionRecord /\ d.step = "index" /\ d.has = c.has /\ d.end = c.end /\ d.mem = c.mem
      /\ d.from = mem.snapshot
  BY <1>1, <1>3, <1>4, <1>5 DEF CompactionRecord
<1>7. /\ Goes(c, d) /\ Active(d) /\ d.step # "publish"
      /\ UNCHANGED <<born, births, log, index, mem, uncounted, deletion, reader, budget>>
  BY <1>5, <1>6 DEF WritesSnapshot, Active
<1>8. PICK s : s = [at |-> c.end, has |-> c.has]
  OBVIOUS
<1>9. s \in SnapshotRecord /\ s.at = c.end /\ s.has = c.has
  BY <1>1, <1>8 DEF SnapshotRecord
<1>10. snapshots' = snapshots \cup (IF Stored(c.end) THEN {} ELSE {s})
  BY <1>8 DEF WritesSnapshot
<1>11. /\ snapshots \subseteq snapshots' /\ snapshots' \subseteq SnapshotRecord
       /\ \A t \in snapshots' : t \in snapshots \/ t = s
  BY <1>1, <1>9, <1>10 DEF DocumentTypeOK
<1>12. In(snapshots', c.end)
  BY <1>9, <1>10 DEF In, Stored
<1>13. \A t \in snapshots' : t \in snapshots \/ Good(log, t.has, t.at)
  BY <1>2, <1>9, <1>11
<1>14. d.from <= d.end
  BY <1>1, <1>2, <1>3, <1>6
<1>15. CompactionOK(d, log, snapshots', index, mem)
  BY <1>2, <1>6, <1>12, <1>14 DEF CompactionOK
<1> QED BY <1>1, <1>6, <1>7, <1>11, <1>13, <1>15, CompactionMoves

LEMMA WritesIndexKeeps ==
  ASSUME DocumentOK, Harmless, NEW c \in compactions, WritesIndex(c)
  PROVE  DocumentOK'
<1>1. /\ DocumentTypeOK /\ DocumentCore /\ c \in CompactionRecord /\ Active(c) /\ c.step = "index"
      /\ c.end \in Offset /\ c.end \in Int
  BY CompactionType DEF DocumentOK, WritesIndex, Active
<1>2. /\ CompactionOK(c, log, snapshots, index, mem)
      /\ LastOf(index) <= c.end /\ In(snapshots, c.end) /\ c.from <= c.end /\ Good(log, c.has, c.end)
  BY <1>1 DEF DocumentCore, CompactionOK
<1>3. index' \in Seq(Offset) /\ LastOf(index') = c.end /\ LastOf(index) \in Int
  BY <1>1, LastOfAppended, LastOfType DEF WritesIndex, DocumentTypeOK
<1>4. PICK d : d = [c EXCEPT !.step = "publish"]
  OBVIOUS
<1>5. /\ d \in CompactionRecord /\ d.step = "publish" /\ d.has = c.has /\ d.end = c.end /\ d.mem = c.mem
      /\ d.from = c.from
  BY <1>1, <1>4 DEF CompactionRecord
<1>6. /\ Goes(c, d) /\ Active(d)
      /\ UNCHANGED <<born, births, log, snapshots, mem, uncounted, deletion, reader, budget>>
  BY <1>4, <1>5 DEF WritesIndex, Active
<1>7. /\ OneActive(mem, compactions') /\ AtPublish(compactions')
      /\ \A e \in compactions' : e = d \/ (e \in compactions /\ ~Active(e))
      /\ born # 0
  BY <1>1, <1>5, <1>6, ActiveMoves
<1>8. DocumentTypeOK'
  <2>1. compactions' \subseteq CompactionRecord
    BY <1>1, <1>5, <1>7 DEF DocumentTypeOK
  <2> QED BY <1>1, <1>3, <1>6, <2>1 DEF DocumentTypeOK
<1>9. LastStored(snapshots', index')
  BY <1>2, <1>3, <1>6 DEF LastStored
<1>10. MemoryFollows(mem', index', compactions')
  <2>1. mem.snapshot <= LastOf(index) /\ mem.snapshot \in Int
    BY <1>1, MemoryType DEF DocumentCore, MemoryFollows
  <2> QED BY <1>1, <1>2, <1>3, <1>6, <1>7, <2>1 DEF MemoryFollows
<1>11. \A r \in Readers : RedirectFollows(reader'[r], mem', index', compactions')
  <2> SUFFICES ASSUME NEW r \in Readers, reader[r].step = "redirect"
               PROVE  reader[r].at <= c.end
    BY <1>3, <1>6, <1>7 DEF RedirectFollows
  <2>1. reader[r].at <= LastOf(index) /\ reader[r].at \in Int
    BY <1>1, ReaderType DEF DocumentCore, RedirectFollows, Offset, NoOffset
  <2> QED BY <1>1, <1>2, <1>3, <2>1
<1>12. \A e \in compactions' : CompactionOK(e, log', snapshots', index', mem')
  <2>1. CompactionOK(d, log, snapshots, index', mem)
    BY <1>1, <1>2, <1>3, <1>5 DEF CompactionOK
  <2>2. ASSUME NEW e \in compactions, ~Active(e)
        PROVE  CompactionOK(e, log, snapshots, index', mem)
    <3>1. e.from < LastOf(index) /\ e.step = "cleanup" /\ e.from \in Int
      BY <1>1, <2>2, CompactionType DEF DocumentCore, CompactionOK, Active
    <3>2. e.from < LastOf(index')
      BY <1>1, <1>2, <1>3, <3>1
    <3> QED BY <3>1, <3>2 DEF CompactionOK
  <2> QED BY <1>6, <1>7, <2>1, <2>2
<1>13. /\ SnapshotsGood(born', log', snapshots')
       /\ \A r \in Readers : ReaderOK(reader'[r], born', births', log')
  BY <1>1, <1>6 DEF DocumentCore
<1>14. /\ ~Overlap' /\ (born' = 0 => compactions' = {} /\ uncounted' = 0)
       /\ deletion'.step = "cascade" => mem'.snapshot = NoOffset
  BY <1>1, <1>6, <1>7 DEF Harmless, DocumentCore
<1> QED BY <1>6, <1>7, <1>8, <1>9, <1>10, <1>11, <1>12, <1>13, <1>14 DEF DocumentOK, DocumentCore

LEMMA PublishesKeeps ==
  ASSUME DocumentOK, Harmless, NEW c \in compactions, Publishes(c)
  PROVE  DocumentOK'
<1>1. /\ DocumentTypeOK /\ DocumentCore /\ c \in CompactionRecord /\ Active(c) /\ c.step = "publish"
      /\ c.end \in Offset /\ c.end \in Int /\ c.from \in Int
  BY CompactionType DEF DocumentOK, Publishes, Active
<1>2. /\ LastOf(index) = c.end /\ c.from <= c.end /\ Good(log, c.has, c.end)
  BY <1>1 DEF DocumentCore, CompactionOK
<1>3. mem.id # 0 /\ \A e \in compactions : Active(e) => e = c
  BY <1>1 DEF DocumentCore, OneActive
<1>4. c.end # NoOffset /\ born # 0
  BY <1>1, <1>2, GoodIsOffset DEF DocumentTypeOK, DocumentCore
<1>5. UNCHANGED <<born, births, log, snapshots, index, uncounted, deletion, reader, budget>>
  BY DEF Publishes
<1>6. mem' = [mem EXCEPT !.snapshot = c.end, !.bytes = 0, !.compacting = FALSE]
  BY <1>3 DEF Publishes
<1>7. mem' \in MemoryRecord /\ mem'.snapshot = c.end
  BY <1>1, <1>6, MemoryType DEF MemoryRecord
<1>8. PICK d : d = [c EXCEPT !.step = "cleanup"]
  OBVIOUS
<1>9. d \in CompactionRecord /\ d.step = "cleanup" /\ d.from = c.from /\ d.end = c.end
  BY <1>1, <1>8 DEF CompactionRecord
<1>10. compactions' = (compactions \ {c}) \cup (IF c.from = NoOffset THEN {} ELSE {d})
  BY <1>8 DEF Publishes
<1>11. \A e \in compactions' : ~Active(e) /\ (e \in compactions \/ e = d)
  BY <1>3, <1>9, <1>10 DEF Active
<1>12. DocumentTypeOK'
  <2>1. compactions' \subseteq CompactionRecord
    BY <1>1, <1>9, <1>11 DEF DocumentTypeOK
  <2> QED BY <1>1, <1>5, <1>7, <2>1 DEF DocumentTypeOK
<1>13. MemoryFollows(mem', index', compactions')
  BY <1>1, <1>2, <1>5, <1>7 DEF MemoryFollows
<1>14. \A r \in Readers : RedirectFollows(reader'[r], mem', index', compactions')
  <2>1. \A r \in Readers : RedirectFollows(reader[r], mem, index, compactions)
    BY <1>1 DEF DocumentCore
  <2> QED BY <1>4, <1>5, <1>7, <2>1 DEF RedirectFollows
<1>15. OneActive(mem', compactions')
  BY <1>11 DEF OneActive
<1>16. \A e \in compactions' : CompactionOK(e, log', snapshots', index', mem')
  <2> SUFFICES ASSUME NEW e \in compactions', e.step = "cleanup" PROVE e.from < LastOf(index)
    BY <1>5, <1>11 DEF CompactionOK, Active
  <2>1. CASE e \in compactions
    BY <1>1, <2>1 DEF DocumentCore, CompactionOK
  <2>2. CASE e = d
    <3>1. e.from # e.end
      BY DEF Harmless
    <3> QED BY <1>1, <1>2, <1>9, <2>2, <3>1
  <2> QED BY <1>11, <2>1, <2>2
<1>17. /\ SnapshotsGood(born', log', snapshots') /\ LastStored(snapshots', index')
       /\ \A r \in Readers : ReaderOK(reader'[r], born', births', log')
  BY <1>1, <1>5 DEF DocumentCore
<1>18. /\ ~Overlap' /\ (born' = 0 => compactions' = {} /\ uncounted' = 0)
  BY <1>4, <1>5 DEF Harmless
<1>19. deletion'.step # "cascade"
  <2>1. deletion = Idle
    BY <1>1, <1>4 DEF DocumentCore, Overlap
  <2> QED BY <1>5, <2>1 DEF Idle
<1> QED BY <1>12, <1>13, <1>14, <1>15, <1>16, <1>17, <1>18, <1>19 DEF DocumentOK, DocumentCore

LEMMA DeletesOldKeeps ==
  ASSUME DocumentOK, Harmless, NEW c \in compactions, DeletesOld(c)
  PROVE  DocumentOK'
<1>1. /\ DocumentTypeOK /\ DocumentCore /\ c.step = "cleanup" /\ c.from \in Int /\ LastOf(index) \in Int
  BY CompactionType, LastOfType DEF DocumentOK, DeletesOld, DocumentTypeOK
<1>2. c.from < LastOf(index) /\ born # 0
  BY <1>1 DEF DocumentCore, CompactionOK
<1>3. /\ UNCHANGED <<born, births, log, index, mem, uncounted, deletion, reader, budget>>
      /\ snapshots' = {s \in snapshots : s.at # c.from} /\ compactions' = compactions \ {c}
  BY DEF DeletesOld
<1>4. \A o \in Int : o > c.from /\ In(snapshots, o) => In(snapshots', o)
  BY <1>1, <1>3 DEF In
<1>5. DocumentTypeOK'
  BY <1>1, <1>3 DEF DocumentTypeOK
<1>6. SnapshotsGood(born', log', snapshots')
  BY <1>1, <1>3 DEF DocumentCore, SnapshotsGood
<1>7. LastStored(snapshots', index')
  BY <1>1, <1>2, <1>3, <1>4 DEF DocumentCore, LastStored
<1>8. AtPublish(compactions') <=> AtPublish(compactions)
  BY <1>1, <1>3 DEF AtPublish
<1>9. MemoryFollows(mem', index', compactions')
  BY <1>1, <1>3, <1>8 DEF DocumentCore, MemoryFollows
<1>10. \A r \in Readers : RedirectFollows(reader'[r], mem', index', compactions')
  <2>1. \A r \in Readers : RedirectFollows(reader[r], mem, index, compactions)
    BY <1>1 DEF DocumentCore
  <2> QED BY <1>3, <1>8, <2>1 DEF RedirectFollows
<1>11. OneActive(mem', compactions')
  BY <1>1, <1>3 DEF DocumentCore, OneActive
<1>12. \A e \in compactions' : CompactionOK(e, log', snapshots', index', mem')
  <2> SUFFICES ASSUME NEW e \in compactions PROVE CompactionOK(e, log, snapshots', index, mem)
    BY <1>3
  <2>1. CompactionOK(e, log, snapshots, index, mem) /\ e.end \in Int
    BY <1>1, CompactionType DEF DocumentCore
  <2>2. e.step \in {"index", "publish"} => In(snapshots', e.end)
    <3> SUFFICES ASSUME e.step \in {"index", "publish"} PROVE In(snapshots', e.end)
      OBVIOUS
    <3>1. LastOf(index) <= e.end /\ In(snapshots, e.end)
      BY <2>1 DEF CompactionOK
    <3> QED BY <1>1, <1>2, <1>4, <2>1, <3>1
  <2> QED BY <2>1, <2>2 DEF CompactionOK
<1>13. \A r \in Readers : ReaderOK(reader'[r], born', births', log')
  BY <1>1, <1>3 DEF DocumentCore
<1>14. /\ ~Overlap' /\ (born' = 0 => compactions' = {} /\ uncounted' = 0)
       /\ deletion'.step = "cascade" => mem'.snapshot = NoOffset
  BY <1>1, <1>2, <1>3 DEF Harmless, DocumentCore
<1> QED BY <1>5, <1>6, <1>7, <1>9, <1>10, <1>11, <1>12, <1>13, <1>14 DEF DocumentOK, DocumentCore

----------------------------------------------------------------------------
(* Documents, writes and deletions *)

LEMMA UpdatesMissingNever ==
  ASSUME DocumentOK, NEW c \in compactions, UpdatesMissing(c)
  PROVE  FALSE
  BY DEF DocumentOK, DocumentCore, UpdatesMissing

LEMMA CreateDocumentKeeps ==
  ASSUME DocumentOK, Harmless, CreateDocument
  PROVE  DocumentOK'
<1>1. /\ DocumentTypeOK /\ DocumentCore /\ born = 0 /\ born' = births + 1 /\ births' = births + 1
      /\ births \in Nat /\ log' = <<>>
      /\ UNCHANGED <<snapshots, index, mem, uncounted, compactions, deletion, reader, budget>>
  BY DEF DocumentOK, DocumentTypeOK, CreateDocument
<1>2. deletion = Idle
  <2>1. born' # 0 /\ deletion' = deletion
    BY <1>1
  <2> QED BY <2>1 DEF Harmless, Overlap, Idle
<1>3. compactions = {} /\ snapshots = {} /\ index = <<>>
  BY <1>1, <1>2 DEF DocumentCore, Overlap
<1>4. DocumentTypeOK'
  BY <1>1 DEF DocumentTypeOK
<1>5. \A r \in Readers : ReaderOK(reader'[r], born', births', log')
  <2> SUFFICES ASSUME NEW r \in Readers PROVE ReaderOK(reader[r], births + 1, births + 1, log')
    BY <1>1
  <2>1. ReaderOK(reader[r], born, births, log)
    BY <1>1 DEF DocumentCore
  <2> QED BY <1>1, <2>1 DEF ReaderOK
<1>6. SnapshotsGood(born', log', snapshots')
  BY <1>1, <1>3 DEF SnapshotsGood
<1>7. /\ LastStored(snapshots', index') /\ MemoryFollows(mem', index', compactions')
      /\ \A r \in Readers : RedirectFollows(reader'[r], mem', index', compactions')
      /\ OneActive(mem', compactions')
  BY <1>1 DEF DocumentCore
<1>8. \A c \in compactions' : CompactionOK(c, log', snapshots', index', mem')
  BY <1>1, <1>3
<1>9. /\ ~Overlap' /\ (born' = 0 => compactions' = {} /\ uncounted' = 0)
      /\ deletion'.step = "cascade" => mem'.snapshot = NoOffset
  BY <1>1 DEF Harmless, DocumentCore
<1> QED BY <1>4, <1>5, <1>6, <1>7, <1>8, <1>9 DEF DocumentOK, DocumentCore

\* The log grows at its end, or not at all; nothing else changes but the counts.
LEMMA WrittenKeeps ==
  ASSUME DocumentOK, Harmless, born # 0,
         log' = log \/ \E u \in Update : log' = Append(log, u),
         uncounted' \in Nat, budget' \in [retries : Nat, deletes : Nat, restarts : Nat],
         UNCHANGED <<born, births, snapshots, index, mem, compactions, deletion, reader>>
  PROVE  DocumentOK'
<1>0. DocumentTypeOK /\ DocumentCore /\ log \in Seq(Update)
  BY DEF DocumentOK, DocumentTypeOK
<1>1. DocumentTypeOK /\ DocumentCore /\ log \in Seq(Update) /\ log' \in Seq(Update)
  BY <1>0
<1>2. \A h, o : Good(log, h, o) => Good(log', h, o)
  BY <1>1, GoodAppended
<1>3. DocumentTypeOK'
  BY <1>1 DEF DocumentTypeOK
<1>4. SnapshotsGood(born', log', snapshots')
  BY <1>1, <1>2 DEF DocumentCore, SnapshotsGood
<1>5. \A r \in Readers : ReaderOK(reader'[r], born', births', log')
  <2> SUFFICES ASSUME NEW r \in Readers PROVE ReaderOK(reader[r], born, births, log')
    OBVIOUS
  <2>1. ReaderOK(reader[r], born, births, log)
    BY <1>1 DEF DocumentCore
  <2> QED BY <1>2, <2>1 DEF ReaderOK
<1>6. \A c \in compactions' : CompactionOK(c, log', snapshots', index', mem')
  <2> SUFFICES ASSUME NEW c \in compactions PROVE CompactionOK(c, log', snapshots, index, mem)
    OBVIOUS
  <2>1. CompactionOK(c, log, snapshots, index, mem)
    BY <1>1 DEF DocumentCore
  <2> QED BY <1>2, <2>1 DEF CompactionOK
<1>7. /\ LastStored(snapshots', index') /\ MemoryFollows(mem', index', compactions')
      /\ \A r \in Readers : RedirectFollows(reader'[r], mem', index', compactions')
      /\ OneActive(mem', compactions')
  BY <1>1 DEF DocumentCore
<1>8. /\ ~Overlap' /\ (born' = 0 => compactions' = {} /\ uncounted' = 0)
      /\ deletion'.step = "cascade" => mem'.snapshot = NoOffset
  BY <1>1 DEF Harmless, DocumentCore
<1> QED BY <1>3, <1>4, <1>5, <1>6, <1>7, <1>8 DEF DocumentOK, DocumentCore

LEMMA WriteKeeps ==
  ASSUME DocumentOK, Harmless, Write
  PROVE  DocumentOK'
<1>1. /\ born # 0 /\ born \in Nat /\ Len(log) \in Nat /\ uncounted \in Nat
      /\ budget \in [retries : Nat, deletes : Nat, restarts : Nat]
  BY DEF DocumentOK, DocumentTypeOK, Write
<1>2. PICK u : u = <<born, Len(log) + 1>>
  OBVIOUS
<1>3. u \in Update
  BY <1>1, <1>2 DEF Update
<1>4. /\ log' = Append(log, u) /\ uncounted' \in Nat
      /\ UNCHANGED <<born, births, snapshots, index, mem, compactions, deletion, reader, budget>>
  BY <1>1, <1>2 DEF Write
<1> QED BY <1>1, <1>3, <1>4, WrittenKeeps

LEMMA RewriteKeeps ==
  ASSUME DocumentOK, Harmless, Rewrite
  PROVE  DocumentOK'
<1>1. /\ born # 0 /\ uncounted \in Nat /\ budget \in [retries : Nat, deletes : Nat, restarts : Nat]
  BY DEF DocumentOK, DocumentTypeOK, Rewrite
<1>2. budget.retries + 1 \in Nat
  BY <1>1
<1>3. /\ uncounted' \in Nat /\ budget' \in [retries : Nat, deletes : Nat, restarts : Nat]
      /\ UNCHANGED <<born, births, log, snapshots, index, mem, compactions, deletion, reader>>
  BY <1>1, <1>2 DEF Rewrite
<1> QED BY <1>1, <1>3, WrittenKeeps

LEMMA CountKeeps ==
  ASSUME DocumentOK, Harmless, Count
  PROVE  DocumentOK'
<1>1. /\ DocumentTypeOK /\ DocumentCore /\ uncounted \in Nat /\ uncounted > 0 /\ uncounted' = uncounted - 1
      /\ UNCHANGED <<born, births, log, snapshots, index, deletion, reader, budget>>
  BY DEF DocumentOK, DocumentTypeOK, Count
<1>2. uncounted' \in Nat /\ born # 0
  BY <1>1 DEF DocumentCore
<1>3. PICK m : m = [Fresh(mem) EXCEPT !.bytes = @ + UpdateBytes]
  OBVIOUS
<1>4. /\ m \in MemoryRecord /\ m.id # 0 /\ m.snapshot = mem.snapshot /\ m.compacting = mem.compacting
      /\ m.id \in Nat /\ m.snapshot \in Offset /\ (mem.id # 0 => m.id = mem.id)
  <2>1. PICK f : f = Fresh(mem)
    OBVIOUS
  <2>2. /\ f \in MemoryRecord /\ f.id # 0 /\ f.snapshot = mem.snapshot /\ f.compacting = mem.compacting
        /\ (mem.id # 0 => f.id = mem.id)
    BY <1>1, <2>1, FreshKeeps
  <2>3. f.bytes + UpdateBytes \in Nat
    BY <2>2, YjsAssumption DEF MemoryRecord
  <2>4. m = [f EXCEPT !.bytes = f.bytes + UpdateBytes]
    BY <1>3, <2>1
  <2> QED BY <2>2, <2>3, <2>4 DEF MemoryRecord
<1>5. PICK b \in BOOLEAN : b = (m.compacting \/ Due(m))
  OBVIOUS
<1>6. mem' = [m EXCEPT !.compacting = b]
  BY <1>3, <1>5 DEF Count
<1>7. /\ mem' \in MemoryRecord /\ mem'.id = m.id /\ mem'.snapshot = mem.snapshot /\ mem'.compacting = b
  BY <1>4, <1>5, <1>6 DEF MemoryRecord
<1>8. /\ SnapshotsGood(born', log', snapshots') /\ LastStored(snapshots', index')
      /\ \A r \in Readers : ReaderOK(reader'[r], born', births', log')
  BY <1>1 DEF DocumentCore
<1>9. /\ ~Overlap' /\ (born' = 0 => compactions' = {} /\ uncounted' = 0)
      /\ deletion'.step = "cascade" => mem'.snapshot = NoOffset
  BY <1>1, <1>2, <1>7 DEF Harmless, DocumentCore
<1>10. \A c \in compactions : CompactionOK(c, log, snapshots, index, mem')
  BY <1>1, <1>7 DEF DocumentCore, CompactionOK
<1>11. CASE ~Due(m)
  <2>1. compactions' = compactions
    BY <1>3, <1>11 DEF Count
  <2>2. DocumentTypeOK'
    BY <1>1, <1>2, <1>7, <2>1 DEF DocumentTypeOK
  <2>3. MemoryFollows(mem', index, compactions)
    BY <1>1, <1>7 DEF DocumentCore, MemoryFollows
  <2>4. \A r \in Readers : RedirectFollows(reader[r], mem', index, compactions)
    BY <1>1, <1>7 DEF DocumentCore, RedirectFollows
  <2>5. OneActive(mem', compactions)
    <3>1. OneActive(mem, compactions)
      BY <1>1 DEF DocumentCore
    <3> QED BY <1>4, <1>5, <1>7, <3>1 DEF OneActive
  <2> QED BY <1>1, <1>8, <1>9, <1>10, <2>1, <2>2, <2>3, <2>4, <2>5 DEF DocumentOK, DocumentCore
<1>12. CASE Due(m)
  <2>1. PICK s \in {"updates", "snapshot"} : s = IF m.snapshot = NoOffset THEN "updates" ELSE "snapshot"
    OBVIOUS
  <2>2. PICK c : c = [mem |-> m.id, from |-> m.snapshot, has |-> {}, end |-> NoOffset, step |-> s]
    OBVIOUS
  <2>3. compactions' = compactions \cup {c}
    BY <1>3, <1>12, <2>1, <2>2 DEF Count
  <2>4. /\ c \in CompactionRecord /\ c.step = s /\ c.from = mem.snapshot /\ c.mem = m.id
    BY <1>4, <2>1, <2>2 DEF CompactionRecord, Offset
  <2>5. DocumentTypeOK'
    <3>1. compactions' \subseteq CompactionRecord
      BY <1>1, <2>3, <2>4 DEF DocumentTypeOK
    <3> QED BY <1>1, <1>2, <1>7, <3>1 DEF DocumentTypeOK
  <2>6. \A e \in compactions : ~Active(e)
    <3>1. ~mem.compacting
      BY <1>4, <1>12 DEF Due
    <3> QED BY <1>1, <3>1 DEF DocumentCore, OneActive
  <2>7. AtPublish(compactions') <=> AtPublish(compactions)
    BY <2>1, <2>3, <2>4 DEF AtPublish
  <2>8. MemoryFollows(mem', index, compactions')
    BY <1>1, <1>7, <2>7 DEF DocumentCore, MemoryFollows
  <2>9. \A r \in Readers : RedirectFollows(reader[r], mem', index, compactions')
    <3>1. \A r \in Readers : RedirectFollows(reader[r], mem, index, compactions)
      BY <1>1 DEF DocumentCore
    <3> QED BY <1>7, <2>7, <3>1 DEF RedirectFollows
  <2>10. OneActive(mem', compactions')
    <3>1. b
      BY <1>5, <1>12
    <3> QED BY <1>4, <1>7, <2>3, <2>4, <2>6, <3>1 DEF OneActive
  <2>11. CompactionOK(c, log, snapshots, index, mem')
    BY <1>4, <1>7, <2>1, <2>4 DEF CompactionOK
  <2>12. \A e \in compactions' : CompactionOK(e, log', snapshots', index', mem')
    BY <1>1, <1>10, <2>3, <2>11
  <2> QED BY <1>1, <1>8, <1>9, <2>5, <2>8, <2>9, <2>10, <2>12 DEF DocumentOK, DocumentCore
<1> QED BY <1>11, <1>12

LEMMA DeleteDocumentKeeps ==
  ASSUME DocumentOK, Harmless, DeleteDocument
  PROVE  DocumentOK'
<1>1. /\ DocumentTypeOK /\ DocumentCore /\ born' = 0 /\ log' = <<>> /\ births \in Nat
      /\ deletion' = [Idle EXCEPT !.step = "forget"] /\ budget' = [budget EXCEPT !.deletes = @ + 1]
      /\ UNCHANGED <<births, snapshots, index, mem, uncounted, compactions, reader>>
  BY DEF DocumentOK, DocumentTypeOK, DeleteDocument
<1>2. deletion' \in DeletionRecord /\ deletion'.step = "forget" /\ deletion' # Idle
  BY <1>1 DEF Idle, DeletionRecord
<1>3. budget' \in [retries : Nat, deletes : Nat, restarts : Nat]
  <2>1. budget \in [retries : Nat, deletes : Nat, restarts : Nat] /\ budget.deletes + 1 \in Nat
    BY <1>1 DEF DocumentTypeOK
  <2> QED BY <1>1, <2>1
<1>4. compactions' = {} /\ ~(uncounted' > 0) /\ uncounted' \in Nat
  BY <1>1, <1>2 DEF Harmless, Overlap, DocumentTypeOK
<1>5. DocumentTypeOK'
  BY <1>1, <1>2, <1>3 DEF DocumentTypeOK
<1>6. \A r \in Readers : ReaderOK(reader'[r], born', births', log')
  <2> SUFFICES ASSUME NEW r \in Readers PROVE ReaderOK(reader[r], 0, births, log')
    BY <1>1
  <2>1. ReaderOK(reader[r], born, births, log)
    BY <1>1 DEF DocumentCore
  <2> QED BY <1>1, <2>1 DEF ReaderOK
<1>7. SnapshotsGood(born', log', snapshots')
  BY <1>1 DEF SnapshotsGood
<1>8. /\ LastStored(snapshots', index') /\ MemoryFollows(mem', index', compactions')
      /\ \A r \in Readers : RedirectFollows(reader'[r], mem', index', compactions')
      /\ OneActive(mem', compactions')
  BY <1>1 DEF DocumentCore
<1>9. \A c \in compactions' : CompactionOK(c, log', snapshots', index', mem')
  BY <1>4
<1>10. /\ ~Overlap' /\ compactions' = {} /\ uncounted' = 0 /\ deletion'.step # "cascade"
  BY <1>2, <1>4 DEF Harmless
<1> QED BY <1>5, <1>6, <1>7, <1>8, <1>9, <1>10 DEF DocumentOK, DocumentCore

\* While a deletion is under way nothing else is.
LEMMA DeletionIsAlone ==
  ASSUME DocumentOK, deletion.step # "idle"
  PROVE  /\ born = 0 /\ compactions = {} /\ uncounted = 0
         /\ \A r \in Readers : reader[r].step # "redirect"
<1>1. deletion # Idle
  BY DEF Idle
<1> QED BY <1>1 DEF DocumentOK, DocumentCore, Overlap

LEMMA NoStateType ==
  NoState \in MemoryRecord /\ NoState.snapshot = NoOffset
  BY DEF NoState, MemoryRecord, Offset

LEMMA ForgetKeeps ==
  ASSUME DocumentOK, Harmless, Forget
  PROVE  DocumentOK'
<1>1. /\ DocumentTypeOK /\ DocumentCore /\ mem' = NoState /\ deletion.step = "forget"
      /\ deletion' = [step |-> "cascade", listed |-> {index[i] : i \in DOMAIN index}]
      /\ UNCHANGED <<born, births, log, snapshots, index, uncounted, compactions, reader, budget>>
  BY DEF DocumentOK, Forget
<1>2. /\ born = 0 /\ compactions = {} /\ uncounted = 0
      /\ \A r \in Readers : reader[r].step # "redirect"
  BY <1>1, DeletionIsAlone
<1>3. mem' \in MemoryRecord /\ mem'.snapshot = NoOffset
  BY <1>1, NoStateType
<1>4. deletion' \in DeletionRecord
  <2>1. {index[i] : i \in DOMAIN index} \subseteq Offset
    BY <1>1 DEF DocumentTypeOK
  <2> QED BY <1>1, <2>1 DEF DeletionRecord
<1>5. DocumentTypeOK'
  BY <1>1, <1>3, <1>4 DEF DocumentTypeOK
<1>6. LastOf(index) >= NoOffset /\ LastOf(index) \in Int
  BY <1>1, LastOfType DEF DocumentTypeOK
<1>7. MemoryFollows(mem', index', compactions')
  BY <1>1, <1>3, <1>6 DEF MemoryFollows, NoOffset
<1>8. \A r \in Readers : RedirectFollows(reader'[r], mem', index', compactions')
  BY <1>1, <1>2 DEF RedirectFollows
<1>9. /\ OneActive(mem', compactions')
      /\ \A c \in compactions' : CompactionOK(c, log', snapshots', index', mem')
  BY <1>1, <1>2 DEF OneActive
<1>10. /\ SnapshotsGood(born', log', snapshots') /\ LastStored(snapshots', index')
       /\ \A r \in Readers : ReaderOK(reader'[r], born', births', log')
  BY <1>1 DEF DocumentCore
<1>11. /\ ~Overlap' /\ compactions' = {} /\ uncounted' = 0
  BY <1>1, <1>2 DEF Harmless
<1> QED BY <1>3, <1>5, <1>7, <1>8, <1>9, <1>10, <1>11 DEF DocumentOK, DocumentCore

LEMMA CascadeKeeps ==
  ASSUME DocumentOK, Harmless, Cascade
  PROVE  DocumentOK'
<1>1. /\ DocumentTypeOK /\ DocumentCore /\ deletion.step = "cascade" /\ index' = <<>> /\ deletion' = Idle
      /\ snapshots' \subseteq snapshots
      /\ UNCHANGED <<born, births, log, mem, uncounted, compactions, reader, budget>>
  BY DEF DocumentOK, Cascade
<1>2. /\ born = 0 /\ compactions = {} /\ uncounted = 0
      /\ \A r \in Readers : reader[r].step # "redirect"
  BY <1>1, DeletionIsAlone
<1>3. mem.snapshot = NoOffset
  BY <1>1 DEF DocumentCore
<1>4. Idle \in DeletionRecord /\ Idle.step # "cascade" /\ index' \in Seq(Offset)
  BY <1>1 DEF Idle, DeletionRecord
<1>5. DocumentTypeOK'
  BY <1>1, <1>4 DEF DocumentTypeOK
<1>6. LastOf(index') = NoOffset
  BY <1>1 DEF LastOf
<1>7. MemoryFollows(mem', index', compactions') /\ LastStored(snapshots', index')
  BY <1>1, <1>3, <1>6 DEF MemoryFollows, LastStored, NoOffset
<1>8. \A r \in Readers : RedirectFollows(reader'[r], mem', index', compactions')
  BY <1>1, <1>2 DEF RedirectFollows
<1>9. /\ OneActive(mem', compactions')
      /\ \A c \in compactions' : CompactionOK(c, log', snapshots', index', mem')
  BY <1>1, <1>2 DEF OneActive
<1>10. SnapshotsGood(born', log', snapshots')
  BY <1>1, <1>2 DEF SnapshotsGood
<1>11. \A r \in Readers : ReaderOK(reader'[r], born', births', log')
  BY <1>1 DEF DocumentCore
<1>12. ~Overlap' /\ compactions' = {} /\ uncounted' = 0 /\ deletion'.step # "cascade"
  BY <1>1, <1>2, <1>4 DEF Harmless
<1> QED BY <1>5, <1>7, <1>8, <1>9, <1>10, <1>11, <1>12 DEF DocumentOK, DocumentCore

LEMMA RestartKeeps ==
  ASSUME DocumentOK, Harmless, Restart
  PROVE  DocumentOK'
<1>1. /\ DocumentTypeOK /\ DocumentCore /\ mem' = NoState /\ uncounted' = 0 /\ compactions' = {}
      /\ deletion' = Idle /\ reader' = [r \in Readers |-> Rest]
      /\ budget' = [budget EXCEPT !.restarts = @ + 1]
      /\ UNCHANGED <<born, births, log, snapshots, index>>
  BY DEF DocumentOK, Restart
<1>2. budget' \in [retries : Nat, deletes : Nat, restarts : Nat]
  <2>1. budget \in [retries : Nat, deletes : Nat, restarts : Nat] /\ budget.restarts + 1 \in Nat
    BY <1>1 DEF DocumentTypeOK
  <2> QED BY <1>1, <2>1
<1>3. mem' \in MemoryRecord /\ mem'.snapshot = NoOffset
  BY <1>1, NoStateType
<1>4. deletion' \in DeletionRecord /\ deletion'.step # "cascade"
  BY <1>1 DEF Idle, DeletionRecord
<1>5. reader' \in [Readers -> ReaderRecord] /\ \A r \in Readers : reader'[r] = Rest
  BY <1>1, RestType
<1>6. DocumentTypeOK'
  BY <1>1, <1>2, <1>3, <1>4, <1>5 DEF DocumentTypeOK
<1>7. LastOf(index) >= NoOffset /\ LastOf(index) \in Int
  BY <1>1, LastOfType DEF DocumentTypeOK
<1>8. MemoryFollows(mem', index', compactions')
  BY <1>1, <1>3, <1>7 DEF MemoryFollows, NoOffset
<1>9. /\ \A r \in Readers : RedirectFollows(reader'[r], mem', index', compactions')
      /\ \A r \in Readers : ReaderOK(reader'[r], born', births', log')
  BY <1>5, RestType
<1>10. /\ OneActive(mem', compactions')
       /\ \A c \in compactions' : CompactionOK(c, log', snapshots', index', mem')
  BY <1>1 DEF OneActive
<1>11. SnapshotsGood(born', log', snapshots') /\ LastStored(snapshots', index')
  BY <1>1 DEF DocumentCore
<1>12. ~Overlap' /\ (born' = 0 => compactions' = {} /\ uncounted' = 0)
  BY <1>1 DEF Harmless
<1> QED BY <1>4, <1>6, <1>8, <1>9, <1>10, <1>11, <1>12 DEF DocumentOK, DocumentCore

----------------------------------------------------------------------------
LEMMA DocumentInvInit == YjsInit => DocumentInv
<1> SUFFICES ASSUME YjsInit PROVE DocumentOK
  BY DEF DocumentInv, DocumentOK
<1>1. reader \in [Readers -> ReaderRecord] /\ \A r \in Readers : reader[r] = Rest
  BY RestType DEF YjsInit
<1>2. mem \in MemoryRecord /\ mem.snapshot = NoOffset
  BY NoStateType DEF YjsInit
<1>3. deletion \in DeletionRecord /\ deletion.step = "idle"
  BY DEF YjsInit, Idle, DeletionRecord
<1>4. budget \in [retries : Nat, deletes : Nat, restarts : Nat]
  BY DEF YjsInit
<1>5. DocumentTypeOK
  BY <1>1, <1>2, <1>3, <1>4 DEF YjsInit, DocumentTypeOK
<1>6. LastOf(index) = NoOffset
  BY DEF YjsInit, LastOf
<1>7. MemoryFollows(mem, index, compactions) /\ LastStored(snapshots, index)
  BY <1>2, <1>6 DEF MemoryFollows, LastStored, NoOffset
<1>8. /\ \A r \in Readers : RedirectFollows(reader[r], mem, index, compactions)
      /\ \A r \in Readers : ReaderOK(reader[r], born, births, log)
  BY <1>1, RestType
<1>9. ~Overlap
  BY DEF Overlap, YjsInit
<1> QED BY <1>3, <1>5, <1>7, <1>8, <1>9 DEF DocumentOK, DocumentCore, YjsInit, OneActive, SnapshotsGood

LEMMA DocumentInvNext == DocumentInv /\ [YjsNext]_yjsVars => DocumentInv'
<1> SUFFICES ASSUME DocumentInv, [YjsNext]_yjsVars, harm' = {} PROVE DocumentOK'
  BY DEF DocumentInv, DocumentOK
<1>1. CASE UNCHANGED yjsVars
  <2>1. DocumentOK
    BY <1>1 DEF DocumentInv, DocumentOK, yjsVars
  <2> QED BY <1>1, <2>1 DEF yjsVars, DocumentOK, DocumentTypeOK, DocumentCore, Overlap
<1>2. CASE YjsNext
  <2>1. harm = {} /\ Harmless
    BY <1>2, NoHarm DEF YjsNext
  <2>2. DocumentOK /\ YjsStep
    BY <1>2, <2>1 DEF DocumentInv, DocumentOK, YjsNext
  <2>3. CASE CreateDocument \/ Write \/ Rewrite \/ Count \/ DeleteDocument \/ Forget \/ Cascade \/ Restart
    BY <2>1, <2>2, <2>3, CreateDocumentKeeps, WriteKeeps, RewriteKeeps, CountKeeps, DeleteDocumentKeeps,
       ForgetKeeps, CascadeKeeps, RestartKeeps
  <2>4. ASSUME NEW c \in compactions,
               \/ LoadsSnapshot(c) \/ ReadsUpdates(c) \/ UpdatesMissing(c)
               \/ WritesSnapshot(c) \/ WritesIndex(c) \/ Publishes(c) \/ DeletesOld(c)
        PROVE  DocumentOK'
    BY <2>1, <2>2, <2>4, LoadsSnapshotKeeps, ReadsUpdatesKeeps, UpdatesMissingNever, WritesSnapshotKeeps,
       WritesIndexKeeps, PublishesKeeps, DeletesOldKeeps
  <2>5. ASSUME NEW r \in Readers,
               \/ FindDocument(r) \/ Discover(r) \/ LoadIndex(r) \/ Redirect(r) \/ LoadSnapshot(r)
               \/ ReadUpdates(r) \/ Leave(r)
        PROVE  DocumentOK'
    BY <2>1, <2>2, <2>5, FindDocumentKeeps, DiscoverKeeps, LoadIndexKeeps, RedirectKeeps,
       LoadSnapshotReads, ReadUpdatesKeeps, LeaveKeeps
  <2> QED BY <2>2, <2>3, <2>4, <2>5 DEF YjsStep
<1> QED BY <1>1, <1>2

\* A reader of a document has every update up to the offset it has reached, for any number of readers,
\* updates, compactions, restarts and deletions and any size of the updates above one byte, in every
\* history in which no deletion overlaps other work, no compaction finds nothing new and no discovery
\* takes memory back (performCompaction, handleSnapshotDiscovery, handleDocumentDelete).
THEOREM DocumentHistoryServed == YjsSpec => []HistoryServed
<1>1. ASSUME DocumentInv PROVE HistoryServed
  <2> SUFFICES ASSUME harm = {}, NEW r \in Readers, reader[r].step = "done", reader[r].born = born,
                      NEW i \in DOMAIN log, EndOf(i) <= reader[r].end
               PROVE  log[i] \in reader[r].has
    BY DEF HistoryServed, Complete
  <2>1. log \in Seq(Update) /\ Good(log, reader[r].has, reader[r].end)
    BY <1>1 DEF DocumentInv, DocumentTypeOK, DocumentCore, ReaderOK
  <2>2. PICK k \in 0 .. Len(log) : reader[r].end = EndOf(k) /\ \A j \in 1 .. k : log[j] \in reader[r].has
    BY <2>1 DEF Good
  <2>3. i \in Nat /\ i >= 1 /\ k \in Nat
    BY <2>1, <2>2
  <2>4. i <= k
    BY <2>2, <2>3, EndOfOrder
  <2> QED BY <2>2, <2>3, <2>4
<1> QED BY <1>1, DocumentInvInit, DocumentInvNext, PTL DEF YjsSpec

(***************************************************************************)
(* Awareness: an awareness stream that the server keeps track of is the    *)
(* "default" one, is in the registry or is about to be put there; so the   *)
(* cascade, which asks the registry once, deletes it.                      *)
(***************************************************************************)
CallRecord ==
  [kind : {"none", "document", "put", "post"}, name : AwarenessNames,
   step : {"none", "create", "head", "post", "retry", "register"}, of : Nat]

AwarenessTypeOK ==
  /\ incarnations \in Nat /\ incarnation \in Nat
  /\ handling \in [Clients -> CallRecord]
  /\ \A c \in Clients : handling[c].step # "none" => handling[c].kind # "none"
  /\ \A c \in Clients : handling[c].kind = "document" => handling[c].name = "default"
  /\ erasing.step \in {"none", "load", "delete"}
  /\ erasing.step = "none" <=> erasing = NoErasure

\* handlings h hold a request that made stream n and is about to record it
Recording(h, n) == \E c \in Clients : h[c].step = "register" /\ h[c].name = n

\* the streams are of the document that is there
Current(e, i, a, ls) ==
  e = NoErasure => \A n \in DOMAIN a \ ls : i # 0 /\ a[n] \subseteq {i}

\* the cascade will find the streams, or has found them
Tracked(e, a, g, h, ls) ==
  /\ e.step # "delete" => \A n \in DOMAIN a \ ls : n = "default" \/ n \in g \/ Recording(h, n)
  /\ e.step = "delete" => DOMAIN a \ ls \subseteq e.names

AwarenessInv ==
  /\ AwarenessTypeOK
  /\ Current(erasing, incarnation, aware, loose)
  /\ Tracked(erasing, aware, registry, handling, loose)

----------------------------------------------------------------------------
LEMMA TryCreateStreamAdds ==
  ASSUME NEW n, TryCreateStream(n)
  PROVE  /\ DOMAIN aware' = DOMAIN aware \cup {n}
         /\ \A m \in DOMAIN aware : aware'[m] = aware[m]
         /\ n \notin DOMAIN aware => aware'[n] = {}
  BY DEF TryCreateStream, Live

LEMMA RestrictDrops ==
  ASSUME NEW f, NEW S, S \subseteq DOMAIN f
  PROVE  DOMAIN Restrict(f, S) = S /\ \A n \in S : Restrict(f, S)[n] = f[n]
  BY DEF Restrict

LEMMA HandlingType ==
  ASSUME AwarenessTypeOK, NEW c \in Clients
  PROVE  handling \in [Clients -> CallRecord] /\ handling[c] \in CallRecord
  BY DEF AwarenessTypeOK

LEMMA NoErasureStep == NoErasure.step = "none"
  BY DEF NoErasure

\* A request is answered, or takes its next step.
LEMMA RepliesType ==
  ASSUME AwarenessTypeOK, UNCHANGED <<incarnation, incarnations, erasing>>, NEW c \in Clients,
         Replies(c) \/ \E s \in {"head", "create", "retry", "register"} :
                          Proceeds(c, s) /\ handling[c].step # "none"
  PROVE  /\ AwarenessTypeOK'
         /\ \A d \in Clients : d # c => handling'[d] = handling[d]
         /\ \A s \in {"head", "create", "retry", "register"} :
              Proceeds(c, s) => handling'[c].step = s /\ handling'[c].name = handling[c].name
<1>1. handling \in [Clients -> CallRecord] /\ handling[c] \in CallRecord
  BY HandlingType
<1>2. NoCall \in CallRecord /\ NoCall.step = "none" /\ NoCall.kind = "none"
  BY AwarenessAssumption DEF NoCall, CallRecord
<1>3. ASSUME Replies(c)
      PROVE  /\ AwarenessTypeOK'
             /\ \A d \in Clients : d # c => handling'[d] = handling[d]
  <2>1. handling' = [handling EXCEPT ![c] = NoCall]
    BY <1>3 DEF Replies
  <2>2. /\ handling' \in [Clients -> CallRecord] /\ handling'[c] = NoCall
        /\ \A d \in Clients : d # c => handling'[d] = handling[d]
    BY <1>1, <1>2, <2>1
  <2>3. AwarenessTypeOK'
    BY <1>2, <2>2 DEF AwarenessTypeOK
  <2> QED BY <2>2, <2>3
<1>4. ASSUME NEW s \in {"head", "create", "retry", "register"}, Proceeds(c, s),
             handling[c].step # "none"
      PROVE  /\ AwarenessTypeOK'
             /\ \A d \in Clients : d # c => handling'[d] = handling[d]
  <2>1. PICK x : x = [handling[c] EXCEPT !.step = s]
    OBVIOUS
  <2>2. x \in CallRecord /\ x.step = s /\ x.kind = handling[c].kind /\ x.name = handling[c].name
    BY <1>1, <1>4, <2>1 DEF CallRecord
  <2>3. handling' = [handling EXCEPT ![c] = x]
    BY <1>4, <2>1 DEF Proceeds
  <2>4. /\ handling' \in [Clients -> CallRecord] /\ handling'[c] = x
        /\ \A d \in Clients : d # c => handling'[d] = handling[d]
    BY <1>1, <2>2, <2>3
  <2>5. AwarenessTypeOK'
    BY <1>4, <2>2, <2>4 DEF AwarenessTypeOK
  <2> QED BY <2>2, <2>4, <2>5
<1>5. \A s \in {"head", "create", "retry", "register"} :
        Proceeds(c, s) => handling'[c].step = s /\ handling'[c].name = handling[c].name
  BY <1>1 DEF Proceeds, CallRecord
<1> QED BY <1>3, <1>4, <1>5

\* Nobody stops recording but by a step of its own.
LEMMA RecordingGoesOn ==
  ASSUME NEW c \in Clients, handling[c].step # "register",
         \A d \in Clients : d # c => handling'[d] = handling[d], NEW n, Recording(handling, n)
  PROVE  Recording(handling', n)
  BY DEF Recording

LEMMA CreateUpdatesKeeps ==
  ASSUME AwarenessInv, NEW c \in Clients, CreateUpdates(c)
  PROVE  AwarenessInv'
<1>1. AwarenessTypeOK /\ handling \in [Clients -> CallRecord] /\ handling[c].step = "none"
  BY HandlingType DEF AwarenessInv, CreateUpdates, NoCall
<1>2. UNCHANGED <<aware, registry, erasing, loose>>
  BY DEF CreateUpdates
<1>3. incarnation' \in Nat /\ incarnations' \in Nat
  BY <1>1 DEF CreateUpdates, AwarenessTypeOK
<1>4. PICK x : x = [kind |-> "document", name |-> "default", step |-> "create", of |-> incarnation']
  OBVIOUS
<1>5. x \in CallRecord /\ x.kind = "document" /\ x.name = "default" /\ x.step = "create"
  BY <1>3, <1>4, AwarenessAssumption DEF CallRecord
<1>6. handling' = [handling EXCEPT ![c] = x]
  BY <1>4 DEF CreateUpdates
<1>7. /\ handling' \in [Clients -> CallRecord] /\ handling'[c] = x
      /\ \A d \in Clients : d # c => handling'[d] = handling[d]
  BY <1>1, <1>5, <1>6
<1>8. AwarenessTypeOK'
  BY <1>1, <1>2, <1>3, <1>5, <1>7 DEF AwarenessTypeOK
<1>9. Current(erasing', incarnation', aware', loose')
  BY <1>2 DEF AwarenessInv, Current, CreateUpdates
<1>10. Tracked(erasing', aware', registry', handling', loose')
  BY <1>1, <1>2, <1>7, RecordingGoesOn DEF AwarenessInv, Tracked
<1> QED BY <1>8, <1>9, <1>10 DEF AwarenessInv

LEMMA DeleteUpdatesKeeps == AwarenessInv /\ DeleteUpdates => AwarenessInv'
<1> SUFFICES ASSUME AwarenessInv, DeleteUpdates PROVE AwarenessInv'
  OBVIOUS
<1>1. /\ AwarenessTypeOK /\ erasing = NoErasure /\ incarnation' = 0
      /\ erasing' = [NoErasure EXCEPT !.step = "load"]
      /\ UNCHANGED <<incarnations, aware, registry, handling, loose>>
  BY DEF AwarenessInv, DeleteUpdates
<1>2. erasing'.step = "load" /\ erasing' # NoErasure /\ erasing.step = "none"
  BY <1>1 DEF NoErasure
<1>3. AwarenessTypeOK'
  BY <1>1, <1>2 DEF AwarenessTypeOK
<1>4. Current(erasing', incarnation', aware', loose')
  BY <1>2 DEF Current
<1>5. Tracked(erasing', aware', registry', handling', loose')
  BY <1>1, <1>2 DEF AwarenessInv, Tracked
<1> QED BY <1>3, <1>4, <1>5 DEF AwarenessInv

LEMMA LoadRegistryKeeps == AwarenessInv /\ LoadRegistry => AwarenessInv'
<1> SUFFICES ASSUME AwarenessInv, LoadRegistry PROVE AwarenessInv'
  OBVIOUS
<1>1. /\ AwarenessTypeOK /\ erasing.step = "load" /\ UNCHANGED <<incarnation, incarnations, aware, registry, handling>>
  BY DEF AwarenessInv, LoadRegistry, documentVars
<1>2. \A n \in DOMAIN aware \ loose : n = "default" \/ n \in registry \/ Recording(handling, n)
  BY <1>1 DEF AwarenessInv, Tracked
<1>3. \A n \in DOMAIN aware \ loose : n = "default" \/ n \in registry \/ n \in Registering
  BY <1>2 DEF Recording, Registering, Unlisted, Live
<1>4. /\ erasing'.step = "delete" /\ erasing' # NoErasure
      /\ DOMAIN aware \ loose' \subseteq erasing'.names
  <2>1. CASE /\ erasing' = [step |-> "delete", names |-> {"default"} \cup registry, index |-> TRUE]
             /\ loose' = loose \cup Registering
    BY <1>3, <2>1, NoErasureStep
  <2>2. CASE /\ erasing' = [step |-> "delete", names |-> {"default"}, index |-> TRUE]
             /\ loose' = loose \cup Registering \cup (Live \cap registry)
    BY <1>3, <2>2, NoErasureStep DEF Live
  <2> QED BY <2>1, <2>2 DEF LoadRegistry
<1>5. AwarenessTypeOK'
  BY <1>1, <1>4 DEF AwarenessTypeOK
<1>6. Current(erasing', incarnation', aware', loose')
  BY <1>4 DEF Current
<1>7. Tracked(erasing', aware', registry', handling', loose')
  BY <1>1, <1>4 DEF Tracked
<1> QED BY <1>5, <1>6, <1>7 DEF AwarenessInv

\* The cascade goes on with the streams s and the registry, or is over.
LEMMA RemainingKeeps ==
  ASSUME AwarenessInv, UNCHANGED <<incarnation, incarnations, handling>>, NEW s, NEW i,
         erasing' = Remaining(s, i), DOMAIN aware' \ loose' \subseteq s
  PROVE  AwarenessInv'
<1>1. AwarenessTypeOK
  BY DEF AwarenessInv
<1>2. CASE s = {} /\ ~i
  <2>1. erasing' = NoErasure /\ DOMAIN aware' \ loose' = {} /\ erasing'.step = "none"
    BY <1>2, NoErasureStep DEF Remaining
  <2>2. AwarenessTypeOK'
    BY <1>1, <2>1 DEF AwarenessTypeOK
  <2>3. Current(erasing', incarnation', aware', loose')
    BY <2>1 DEF Current
  <2>4. Tracked(erasing', aware', registry', handling', loose')
    BY <2>1 DEF Tracked
  <2> QED BY <2>2, <2>3, <2>4 DEF AwarenessInv
<1>3. CASE ~(s = {} /\ ~i)
  <2>1. erasing' = [step |-> "delete", names |-> s, index |-> i]
    BY <1>3 DEF Remaining
  <2>2. erasing'.step = "delete" /\ erasing'.names = s /\ erasing' # NoErasure
    BY <2>1, NoErasureStep
  <2>3. AwarenessTypeOK'
    BY <1>1, <2>2 DEF AwarenessTypeOK
  <2>4. Current(erasing', incarnation', aware', loose')
    BY <2>2 DEF Current
  <2>5. Tracked(erasing', aware', registry', handling', loose')
    BY <2>2 DEF Tracked
  <2> QED BY <2>3, <2>4, <2>5 DEF AwarenessInv
<1> QED BY <1>2, <1>3

LEMMA EraseStreamKeeps ==
  ASSUME AwarenessInv, NEW n, EraseStream(n)
  PROVE  AwarenessInv'
<1>1. /\ erasing.step = "delete" /\ UNCHANGED <<incarnation, incarnations, handling>>
      /\ erasing' = Remaining(erasing.names \ {n}, erasing.index)
  BY DEF EraseStream, documentVars
<1>2. DOMAIN aware \ loose \subseteq erasing.names
  BY <1>1 DEF AwarenessInv, Tracked
<1>3. DOMAIN aware' \ loose' \subseteq erasing.names \ {n}
  <2>1. CASE aware' = Restrict(aware, Live \ {n}) /\ loose' = loose \ {n}
    <3>1. DOMAIN aware' = DOMAIN aware \ {n}
      BY <2>1, RestrictDrops DEF Live
    <3> QED BY <1>2, <2>1, <3>1
  <2>2. CASE UNCHANGED aware /\ loose' = loose \cup ({n} \cap Live)
    BY <1>2, <2>2 DEF Live
  <2> QED BY <2>1, <2>2 DEF EraseStream
<1> QED BY <1>1, <1>3, RemainingKeeps

LEMMA EraseRegistryKeeps == AwarenessInv /\ EraseRegistry => AwarenessInv'
<1> SUFFICES ASSUME AwarenessInv, EraseRegistry PROVE AwarenessInv'
  OBVIOUS
<1>1. /\ erasing.step = "delete" /\ UNCHANGED <<incarnation, incarnations, handling, aware, loose>>
      /\ erasing' = Remaining(erasing.names, FALSE)
  BY DEF EraseRegistry, documentVars
<1>2. DOMAIN aware' \ loose' \subseteq erasing.names
  BY <1>1 DEF AwarenessInv, Tracked
<1> QED BY <1>1, <1>2, RemainingKeeps

LEMMA AskKeeps ==
  ASSUME AwarenessInv, NEW c \in Clients, NEW kind \in {"put", "post"}, NEW n \in AwarenessNames,
         Ask(c, kind, n)
  PROVE  AwarenessInv'
<1>1. /\ AwarenessTypeOK /\ handling \in [Clients -> CallRecord] /\ handling[c].step = "none"
      /\ incarnation \in Nat
  BY HandlingType DEF AwarenessInv, Ask, NoCall, AwarenessTypeOK
<1>2. UNCHANGED <<incarnation, incarnations, aware, registry, erasing, loose>>
  BY DEF Ask, documentVars
<1>3. PICK s \in {"head", "post"} : s = IF kind = "put" THEN "head" ELSE "post"
  OBVIOUS
<1>4. PICK x : x = Call(kind, n, s)
  OBVIOUS
<1>5. x \in CallRecord /\ x.kind \notin {"none", "document"} /\ x.step \in {"head", "post"}
  BY <1>1, <1>3, <1>4 DEF CallRecord, Call
<1>6. handling' = [handling EXCEPT ![c] = x]
  BY <1>3, <1>4 DEF Ask
<1>7. /\ handling' \in [Clients -> CallRecord] /\ handling'[c] = x
      /\ \A d \in Clients : d # c => handling'[d] = handling[d]
  BY <1>1, <1>5, <1>6
<1>8. AwarenessTypeOK'
  BY <1>1, <1>2, <1>5, <1>7 DEF AwarenessTypeOK
<1>9. Current(erasing', incarnation', aware', loose')
  BY <1>2 DEF AwarenessInv
<1>10. Tracked(erasing', aware', registry', handling', loose')
  BY <1>1, <1>2, <1>7, RecordingGoesOn DEF AwarenessInv, Tracked
<1> QED BY <1>8, <1>9, <1>10 DEF AwarenessInv

\* The streams are as before, but for those that are not tracked, and the request moves on.
LEMMA RequestMoves ==
  ASSUME AwarenessInv, NEW c \in Clients, handling[c].step # "register",
         UNCHANGED <<incarnation, incarnations, registry, erasing>>,
         Replies(c) \/ \E s \in {"head", "create", "retry", "register"} :
                          Proceeds(c, s) /\ handling[c].step # "none",
         \A n \in DOMAIN aware' \ loose' :
           \/ /\ n \in DOMAIN aware \ loose
              /\ aware'[n] = aware[n] \/ (aware'[n] = aware[n] \cup {incarnation} /\ incarnation # 0)
           \/ /\ aware'[n] = {} /\ incarnation # 0 /\ erasing = NoErasure
              /\ n = "default" \/ n \in registry \/ Recording(handling', n)
  PROVE  AwarenessInv'
<1>1. AwarenessTypeOK' /\ \A d \in Clients : d # c => handling'[d] = handling[d]
  BY RepliesType DEF AwarenessInv
<1>2. Current(erasing', incarnation', aware', loose')
  BY DEF AwarenessInv, Current
<1>3. Tracked(erasing', aware', registry', handling', loose')
  <2>1. CASE erasing.step # "delete"
    <3> SUFFICES ASSUME NEW n \in DOMAIN aware' \ loose'
                 PROVE  n = "default" \/ n \in registry \/ Recording(handling', n)
      BY <2>1 DEF Tracked
    <3>1. CASE n \in DOMAIN aware \ loose
      BY <1>1, <2>1, <3>1, RecordingGoesOn DEF AwarenessInv, Tracked
    <3> QED BY <3>1
  <2>2. CASE erasing.step = "delete"
    <3>1. erasing # NoErasure
      BY <2>2, NoErasureStep
    <3> QED BY <2>2, <3>1 DEF AwarenessInv, Tracked
  <2> QED BY <2>1, <2>2
<1> QED BY <1>1, <1>2, <1>3 DEF AwarenessInv

LEMMA HeadDocumentKeeps ==
  ASSUME AwarenessInv, NEW c \in Clients, HeadDocument(c)
  PROVE  AwarenessInv'
<1>1. /\ handling[c].step = "head"
      /\ UNCHANGED <<incarnation, incarnations, aware, registry, erasing, loose>>
      /\ Replies(c) \/ Proceeds(c, "create")
  BY DEF HeadDocument, documentVars
<1> QED BY <1>1, RequestMoves

LEMMA PostMessageKeeps ==
  ASSUME AwarenessInv, NEW c \in Clients, PostMessage(c)
  PROVE  AwarenessInv'
<1>1. /\ handling[c].step \in {"post", "retry"} /\ UNCHANGED <<incarnation, incarnations, registry, erasing>>
  BY DEF PostMessage, documentVars
<1>2. PICK n : n = handling[c].name
  OBVIOUS
<1>3. CASE n \in DOMAIN aware
  <2>1. /\ Stores(n, handling[c].of) /\ Replies(c)
        /\ loose' = loose \cup (IF Overtaken(c) THEN {n} ELSE {})
    BY <1>2, <1>3 DEF PostMessage, Live
  <2>2. DOMAIN aware' = DOMAIN aware /\ \A m \in DOMAIN aware : m # n => aware'[m] = aware[m]
    BY <2>1 DEF Stores
  <2>3. ~Overtaken(c) => aware'[n] = aware[n] \cup {incarnation} /\ incarnation # 0
    BY <1>3, <2>1 DEF Stores, Overtaken
  <2> QED BY <1>1, <2>1, <2>2, <2>3, RequestMoves
<1>4. CASE n \notin DOMAIN aware
  <2>1. UNCHANGED <<aware, loose>> /\ (Replies(c) \/ Proceeds(c, "head"))
    BY <1>2, <1>4 DEF PostMessage, Live
  <2> QED BY <1>1, <2>1, RequestMoves
<1> QED BY <1>3, <1>4

LEMMA CreateAwarenessKeeps ==
  ASSUME AwarenessInv, NEW c \in Clients, CreateAwareness(c)
  PROVE  AwarenessInv'
<1>1. /\ AwarenessTypeOK /\ handling[c].step = "create"
      /\ UNCHANGED <<incarnation, incarnations, registry, erasing>>
  BY DEF AwarenessInv, CreateAwareness, documentVars
<1>2. PICK n : n = handling[c].name
  OBVIOUS
<1>3. handling[c].kind \in {"document", "put", "post"} /\ (handling[c].kind = "document" => n = "default")
  BY <1>1, <1>2, HandlingType DEF AwarenessTypeOK, CallRecord
<1>4. CASE Replies(c) /\ UNCHANGED <<aware, loose>>
  BY <1>1, <1>4, RequestMoves
<1>6. CASE /\ Replies(c) /\ TryCreateStream(n)
           /\ loose' = loose \cup (IF n \notin Live /\ (Overtaken(c) \/ Unlisted(n)) THEN {n} ELSE {})
  <2>1. /\ DOMAIN aware' = DOMAIN aware \cup {n}
        /\ \A m \in DOMAIN aware : aware'[m] = aware[m]
        /\ n \notin DOMAIN aware => aware'[n] = {}
    BY <1>6, TryCreateStreamAdds
  <2>2. loose \subseteq loose'
    BY <1>6
  <2>3. ASSUME n \notin DOMAIN aware, n \notin loose'
        PROVE  /\ incarnation # 0 /\ erasing = NoErasure
               /\ n = "default" \/ n \in registry \/ Recording(handling', n)
    <3>1. ~Overtaken(c) /\ ~Unlisted(n)
      BY <1>6, <2>3 DEF Live
    <3> QED BY <3>1 DEF Overtaken, Unlisted
  <2> QED BY <1>1, <1>6, <2>1, <2>2, <2>3, RequestMoves
<1>5. CASE /\ TryCreateStream(n)
           /\ CASE handling[c].kind = "post" -> Proceeds(c, "retry")
                [] handling[c].kind = "put" /\ ToRegister(n \notin Live, n) -> Proceeds(c, "register")
                [] OTHER -> Replies(c)
           /\ loose' = loose \cup
                (IF n \notin Live /\ (Overtaken(c) \/ (Unlisted(n) /\ handling[c].kind = "post"))
                 THEN {n} ELSE {})
  <2>1. /\ TryCreateStream(n)
        /\ CASE handling[c].kind = "post" -> Proceeds(c, "retry")
             [] handling[c].kind = "put" /\ ToRegister(n \notin Live, n) -> Proceeds(c, "register")
             [] OTHER -> Replies(c)
        /\ loose' = loose \cup
             (IF n \notin Live /\ (Overtaken(c) \/ (Unlisted(n) /\ handling[c].kind = "post"))
              THEN {n} ELSE {})
    BY <1>5
  <2>2. /\ DOMAIN aware' = DOMAIN aware \cup {n}
        /\ \A m \in DOMAIN aware : aware'[m] = aware[m]
        /\ n \notin DOMAIN aware => aware'[n] = {}
    BY <2>1, TryCreateStreamAdds
  <2>3. Replies(c) \/ Proceeds(c, "retry") \/ Proceeds(c, "register")
    BY <2>1, <1>3
  <2>4. loose \subseteq loose'
    BY <2>1
  <2>5. ASSUME n \notin DOMAIN aware, n \notin loose'
        PROVE  /\ incarnation # 0 /\ erasing = NoErasure
               /\ n = "default" \/ n \in registry \/ Recording(handling', n)
    <3>1. ~Overtaken(c) /\ ~(Unlisted(n) /\ handling[c].kind = "post")
      BY <2>1, <2>5 DEF Live
    <3>2. incarnation # 0 /\ erasing = NoErasure
      BY <3>1 DEF Overtaken
    <3>3. ASSUME n # "default", n \notin registry PROVE Recording(handling', n)
      <4>1. handling[c].kind = "put"
        BY <1>3, <3>1, <3>3 DEF Unlisted
      <4>2. Proceeds(c, "register")
        BY <2>1, <2>5, <3>3, <4>1 DEF ToRegister, Live
      <4>3. handling'[c].step = "register" /\ handling'[c].name = n
        BY <1>1, <1>2, <4>2, RepliesType
      <4> QED BY <4>3 DEF Recording
    <3> QED BY <3>2, <3>3
  <2> QED BY <1>1, <2>2, <2>3, <2>4, <2>5, RequestMoves
<1> QED BY <1>2, <1>4, <1>5, <1>6 DEF CreateAwareness

LEMMA RegisterKeeps ==
  ASSUME AwarenessInv, NEW c \in Clients, Register(c)
  PROVE  AwarenessInv'
<1>1. /\ AwarenessTypeOK /\ Replies(c) /\ handling[c].step = "register"
      /\ UNCHANGED <<incarnation, incarnations, aware, erasing>>
  BY DEF AwarenessInv, Register, documentVars
<1>2. AwarenessTypeOK' /\ \A d \in Clients : d # c => handling'[d] = handling[d]
  BY <1>1, RepliesType
<1>3. PICK n : n = handling[c].name
  OBVIOUS
<1>4. loose \subseteq loose' /\ registry \subseteq registry'
  BY DEF Register
<1>5. n \in registry' \/ n = "default" \/ n \in loose' \/ n \notin DOMAIN aware
  BY <1>3 DEF Register, Unlisted, Live
<1>6. Current(erasing', incarnation', aware', loose')
  BY <1>1, <1>4 DEF AwarenessInv, Current
<1>7. Tracked(erasing', aware', registry', handling', loose')
  <2>1. CASE erasing.step # "delete"
    <3> SUFFICES ASSUME NEW m \in DOMAIN aware \ loose'
                 PROVE  m = "default" \/ m \in registry' \/ Recording(handling', m)
      BY <1>1, <2>1 DEF Tracked
    <3>1. m = "default" \/ m \in registry \/ Recording(handling, m)
      BY <1>4, <2>1 DEF AwarenessInv, Tracked
    <3>2. CASE m = n
      BY <1>5, <3>2
    <3>3. CASE m # n
      BY <1>2, <1>3, <1>4, <3>1, <3>3 DEF Recording
    <3> QED BY <3>2, <3>3
  <2>2. CASE erasing.step = "delete"
    BY <1>1, <1>4, <2>2 DEF AwarenessInv, Tracked
  <2> QED BY <2>1, <2>2
<1> QED BY <1>2, <1>6, <1>7 DEF AwarenessInv

LEMMA DeleteAwarenessKeeps ==
  ASSUME AwarenessInv, NEW n, DeleteAwareness(n)
  PROVE  AwarenessInv'
<1>1. /\ aware' = Restrict(aware, Live \ {n}) /\ loose' = loose \ {n}
      /\ UNCHANGED <<incarnation, incarnations, registry, handling, erasing>>
  BY DEF DeleteAwareness, documentVars
<1>2. /\ DOMAIN aware' = DOMAIN aware \ {n} /\ \A m \in DOMAIN aware' : aware'[m] = aware[m]
  BY <1>1, RestrictDrops DEF Live
<1>3. DOMAIN aware' \ loose' \subseteq DOMAIN aware \ loose
  BY <1>1, <1>2
<1>4. AwarenessTypeOK'
  BY <1>1 DEF AwarenessInv, AwarenessTypeOK
<1>5. Current(erasing', incarnation', aware', loose')
  BY <1>1, <1>2, <1>3 DEF AwarenessInv, Current
<1>6. Tracked(erasing', aware', registry', handling', loose')
  BY <1>1, <1>3 DEF AwarenessInv, Tracked
<1> QED BY <1>4, <1>5, <1>6 DEF AwarenessInv

LEMMA AwarenessRestartKeeps == AwarenessInv /\ AwarenessRestart => AwarenessInv'
<1> SUFFICES ASSUME AwarenessInv, AwarenessRestart PROVE AwarenessInv'
  OBVIOUS
<1>1. /\ AwarenessTypeOK /\ handling' = [c \in Clients |-> NoCall] /\ erasing' = NoErasure
      /\ loose' = loose \cup Registering \cup (IF erasing = NoErasure THEN {} ELSE Live)
      /\ UNCHANGED <<incarnation, incarnations, aware, registry>>
  BY DEF AwarenessInv, AwarenessRestart, documentVars
<1>2. NoCall \in CallRecord /\ NoCall.step = "none" /\ NoCall.kind = "none"
  BY AwarenessAssumption DEF NoCall, CallRecord
<1>3. AwarenessTypeOK'
  BY <1>1, <1>2, NoErasureStep DEF AwarenessTypeOK
<1>4. Current(erasing', incarnation', aware', loose')
  BY <1>1 DEF AwarenessInv, Current, Live
<1>5. Tracked(erasing', aware', registry', handling', loose')
  <2> SUFFICES ASSUME NEW m \in DOMAIN aware \ loose'
               PROVE  m = "default" \/ m \in registry
    BY <1>1, NoErasureStep DEF Tracked
  <2>1. erasing.step = "none" /\ m \notin Registering /\ m \notin loose
    BY <1>1 DEF Live, AwarenessTypeOK
  <2>2. m = "default" \/ m \in registry \/ Recording(handling, m)
    BY <2>1 DEF AwarenessInv, Tracked
  <2> QED BY <2>1, <2>2 DEF Recording, Registering, Unlisted, Live
<1> QED BY <1>3, <1>4, <1>5 DEF AwarenessInv

----------------------------------------------------------------------------
LEMMA AwarenessInvInit == AwarenessInit => AwarenessInv
<1> SUFFICES ASSUME AwarenessInit PROVE AwarenessInv
  OBVIOUS
<1>1. NoCall \in CallRecord /\ NoCall.step = "none" /\ NoCall.kind = "none"
  BY AwarenessAssumption DEF NoCall, CallRecord
<1>2. AwarenessTypeOK
  BY <1>1, NoErasureStep DEF AwarenessInit, AwarenessTypeOK
<1>3. DOMAIN aware = {}
  BY DEF AwarenessInit
<1>4. erasing.step = "none"
  BY NoErasureStep DEF AwarenessInit
<1> QED BY <1>2, <1>3, <1>4 DEF AwarenessInv, Current, Tracked

LEMMA AwarenessInvNext == AwarenessInv /\ [AwarenessNext]_awarenessVars => AwarenessInv'
<1> SUFFICES ASSUME AwarenessInv, [AwarenessNext]_awarenessVars PROVE AwarenessInv'
  OBVIOUS
<1>1. CASE UNCHANGED awarenessVars
  BY <1>1 DEF awarenessVars, AwarenessInv, AwarenessTypeOK
<1>2. CASE DeleteUpdates \/ LoadRegistry \/ EraseRegistry \/ AwarenessRestart
  BY <1>2, DeleteUpdatesKeeps, LoadRegistryKeeps, EraseRegistryKeeps, AwarenessRestartKeeps
<1>3. ASSUME NEW n \in AwarenessNames, EraseStream(n) \/ DeleteAwareness(n) PROVE AwarenessInv'
  BY <1>3, EraseStreamKeeps, DeleteAwarenessKeeps
<1>4. ASSUME NEW c \in Clients,
             \/ CreateUpdates(c) \/ HeadDocument(c) \/ PostMessage(c) \/ CreateAwareness(c) \/ Register(c)
      PROVE  AwarenessInv'
  BY <1>4, CreateUpdatesKeeps, HeadDocumentKeeps, PostMessageKeeps, CreateAwarenessKeeps, RegisterKeeps
<1>5. ASSUME NEW c \in Clients, NEW kind \in {"put", "post"}, NEW n \in AwarenessNames, Ask(c, kind, n)
      PROVE  AwarenessInv'
  BY <1>5, AskKeeps
<1> QED BY <1>1, <1>2, <1>3, <1>4, <1>5 DEF AwarenessNext

\* Once the DELETE of a document is over no awareness stream of it is left that the server keeps track of,
\* and the next document at the path shows nobody of the last one: for any names, any number of requests at
\* a time and of documents, failures and restarts (handleAwareness, postWithAutoCreate, cascadeDeleteStreams).
THEOREM AwarenessIsCurrent == AwarenessSpec => []PresenceIsCurrent
<1>1. AwarenessInv => PresenceIsCurrent
  BY DEF AwarenessInv, Current, PresenceIsCurrent, Live
<1> QED BY <1>1, AwarenessInvInit, AwarenessInvNext, PTL DEF AwarenessSpec
=============================================================================
