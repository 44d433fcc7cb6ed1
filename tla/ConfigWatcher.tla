---------------------------- MODULE ConfigWatcher ----------------------------
(***************************************************************************)
(* One ADS stream, for one resource type: the configWatcher of             *)
(* src/gtc/cache.go between the informer caches, whose changes reach it    *)
(* through the registry of watches (its abstract form, Subscriptions), and *)
(* the state-of-the-world server of go-control-plane, which talks to one   *)
(* gRPC client.  The server and the client are external: they are modelled *)
(* as far as the CreateWatch contract and the ACK protocol show them.      *)
(*                                                                         *)
(* The content of a resource is the version of the Kubernetes objects it   *)
(* is made from.  Versions start at 1; in a function from names, 0 stands  *)
(* for "not there".  The order of a request's names is abstracted: names   *)
(* are registered, and read, in any order.                                 *)
(***************************************************************************)
EXTENDS Naturals, Sequences

CONSTANTS Names,       \* names of resources of the type
          Plan,        \* the sets of names the client asks for, in turn
          Missing,     \* the names with no Kubernetes object at first
          MaxChanges,  \* bound: changes of the store and resyncs
          MaxWatches,  \* bound: watches created on the stream
          Deletions,   \* whether objects get deleted
          Stops,       \* whether the stream may end
          Quiet        \* whether the store changes only when the stream rests

ASSUME PlanAssumption == Plan \in Seq(SUBSET Names) /\ Missing \subseteq Names
ASSUME BoundsAssumption == MaxChanges \in Nat /\ MaxWatches \in Nat
ASSUME SwitchesAssumption == {Deletions, Stops, Quiet} \subseteq BOOLEAN

VARIABLES
    \* The informer caches and the events on their way to the registry.
    ver,         \* version of the last write of each object, deletions included
    present,     \* the names whose object exists
    events,      \* events[n]: events about n that no worker has handled yet
    changes,     \* changes so far
    \* The registry (see Subscriptions).
    subs, inbox,
    \* configWatcher.watch, one goroutine for each watch.
    pc,          \* where it is
    asked,       \* initialReq.ResourceNames
    goal,        \* the names of the resolveRequest
    draft,       \* the resolveResponse: version read of each name
    respCh,      \* the channel handed to CreateWatch
    cancelled,   \* the watches whose context is cancelled
    sent,        \* history: the version of each name last put into respCh
    \* The server's side of the stream.
    cur,         \* the open watch: watches 1 .. cur exist, 0 when none does
    watchNonce,  \* nonce of the last response of the open watch, 0 when none
    lastNonce,   \* nonce of the last response of the stream
    lastNames,   \* GetRequest().ResourceNames of that response
    known,       \* StreamState's known resource names
    open,        \* the stream is open
    reqs, resps, \* requests and responses on the wire
    \* The client.
    step,        \* how many entries of Plan it has asked for
    holds,       \* the resources it has
    got,         \* the version of each resource it received last
    ackNonce     \* nonce of the last response it received

storeVars == <<ver, present, events, changes>>
registryVars == <<subs, inbox>>
watchVars == <<pc, asked, goal, draft, respCh, cancelled, sent>>
serverVars == <<cur, watchNonce, lastNonce, lastNames, known, open>>
wires == <<reqs, resps>>
clientVars == <<step, holds, got, ackNonce>>
vars == <<storeVars, registryVars, watchVars, serverVars, wires, clientVars>>

WatchIds == 1 .. MaxWatches
Versions == [Names -> Nat]
NoVersions == [n \in Names |-> 0]

Registry == INSTANCE Subscriptions WITH
    Watchers <- WatchIds, Refs <- Names,
    closed <- {w \in WatchIds : pc[w] = "exited"}, stopped <- FALSE

want == IF step = 0 THEN {} ELSE Plan[step]

TypeOK ==
    /\ ver \in Versions
    /\ present \in SUBSET Names
    /\ events \in Versions
    /\ changes \in Nat
    /\ subs \in SUBSET (WatchIds \X Names)
    /\ inbox \in [WatchIds -> Versions]
    /\ pc \in [WatchIds -> {"new", "register", "resolve", "send", "serve", "exited"}]
    /\ asked \in [WatchIds -> SUBSET Names]
    /\ goal \in [WatchIds -> SUBSET Names]
    /\ draft \in [WatchIds -> Versions]
    /\ respCh \in [WatchIds -> Seq(Versions)]
    /\ cancelled \in SUBSET WatchIds
    /\ sent \in [WatchIds -> Versions]
    /\ cur \in 0 .. MaxWatches
    /\ watchNonce \in Nat
    /\ lastNonce \in Nat
    /\ lastNames \in SUBSET Names
    /\ known \in SUBSET Names
    /\ open \in BOOLEAN
    /\ reqs \in Seq([names : SUBSET Names, nonce : Nat])
    /\ resps \in Seq([res : Versions, nonce : Nat])
    /\ step \in 0 .. Len(Plan)
    /\ holds \in SUBSET Names
    /\ got \in Versions
    /\ ackNonce \in Nat

Init ==
    /\ ver = [n \in Names |-> IF n \in Missing THEN 0 ELSE 1]
    /\ present = Names \ Missing
    /\ events = NoVersions
    /\ changes = 0
    /\ subs = {}
    /\ inbox = [w \in WatchIds |-> NoVersions]
    /\ pc = [w \in WatchIds |-> "new"]
    /\ asked = [w \in WatchIds |-> {}]
    /\ goal = [w \in WatchIds |-> {}]
    /\ draft = [w \in WatchIds |-> NoVersions]
    /\ respCh = [w \in WatchIds |-> <<>>]
    /\ cancelled = {}
    /\ sent = [w \in WatchIds |-> NoVersions]
    /\ cur = 0
    /\ watchNonce = 0
    /\ lastNonce = 0
    /\ lastNames = {}
    /\ known = {}
    /\ open = TRUE
    /\ reqs = <<>>
    /\ resps = <<>>
    /\ step = 0
    /\ holds = {}
    /\ got = NoVersions
    /\ ackNonce = 0

-----------------------------------------------------------------------------
(* configWatcher.watch.                                                    *)

\* Mutant: only a stream that knows nothing gets its resources.
hasNoResource(w) == asked[w] # {} /\ known = {}

hasResourceDiff(w) == \E n \in asked[w] : n \notin known

\* watch.watch(ref) for the next name of the request.
watchName(w, n) ==
    /\ pc[w] = "register"
    /\ n \in asked[w]
    /\ <<w, n>> \notin subs
    /\ subs' = subs \cup {<<w, n>>}
    /\ UNCHANGED <<storeVars, inbox, watchVars, serverVars, wires, clientVars>>

\* Mutant: the resources are resolved before all of them are registered.
checkDiffEarly(w) ==
    /\ pc[w] = "register"
    /\ IF hasResourceDiff(w)
       THEN pc' = [pc EXCEPT ![w] = "resolve"] /\ goal' = [goal EXCEPT ![w] = asked[w]]
       ELSE pc' = [pc EXCEPT ![w] = "serve"] /\ UNCHANGED goal
    /\ UNCHANGED <<storeVars, registryVars, asked, draft, respCh, cancelled, sent,
                   serverVars, wires, clientVars>>

\* All names are registered: resolve them all if the stream state, as it is
\* now, lacks one of them; else go and wait for changes.
checkDiff(w) ==
    /\ pc[w] = "register"
    /\ \A n \in asked[w] : <<w, n>> \in subs
    /\ IF hasResourceDiff(w)
       THEN pc' = [pc EXCEPT ![w] = "resolve"] /\ goal' = [goal EXCEPT ![w] = asked[w]]
       ELSE pc' = [pc EXCEPT ![w] = "serve"] /\ UNCHANGED goal
    /\ UNCHANGED <<storeVars, registryVars, asked, draft, respCh, cancelled, sent,
                   serverVars, wires, clientVars>>

\* The request is dealt with, one way or another: back to the loop.
Respond(w) ==
    /\ draft' = [draft EXCEPT ![w] = NoVersions]
    /\ goal' = [goal EXCEPT ![w] = {}]
    /\ pc' = [pc EXCEPT ![w] = "serve"]

\* The resolver reads one of the names from the informer caches.  One name
\* without an object fails the whole request: nothing is sent, whether the
\* request is the initial one or that of a change.
resolveName(w, n) ==
    /\ pc[w] = "resolve"
    /\ n \in goal[w]
    /\ draft[w][n] = 0
    /\ IF n \in present
       THEN /\ draft' = [draft EXCEPT ![w][n] = ver[n]]
            /\ pc' = IF \A m \in goal[w] \ {n} : draft[w][m] # 0
                     THEN [pc EXCEPT ![w] = "send"]
                     ELSE pc
            /\ UNCHANGED goal
       ELSE Respond(w)
    /\ UNCHANGED <<storeVars, registryVars, asked, respCh, cancelled, sent,
                   serverVars, wires, clientVars>>

\* Mutant: a receive that does not wait for a sender.
takeChangeUnchecked(w, n) ==
    /\ pc[w] = "serve"
    /\ inbox' = [inbox EXCEPT ![w][n] = @ - 1]
    /\ goal' = [goal EXCEPT ![w] = {n}]
    /\ pc' = [pc EXCEPT ![w] = "resolve"]
    /\ UNCHANGED <<storeVars, subs, asked, draft, respCh, cancelled, sent,
                   serverVars, wires, clientVars>>

\* The loop of watch receives a change and resolves that resource alone.
takeChange(w, n) ==
    /\ pc[w] = "serve"
    /\ inbox[w][n] > 0
    /\ inbox' = [inbox EXCEPT ![w][n] = @ - 1]
    /\ goal' = [goal EXCEPT ![w] = {n}]
    /\ pc' = [pc EXCEPT ![w] = "resolve"]
    /\ UNCHANGED <<storeVars, subs, asked, draft, respCh, cancelled, sent,
                   serverVars, wires, clientVars>>

\* Versions `new` over versions `old`.
Overlay(old, new) == [n \in Names |-> IF new[n] = 0 THEN old[n] ELSE new[n]]

\* sendResponse puts the response into the channel, which holds one ...
Capacity == 1

\* Mutant: the watches of a stream share the channel of the last one.
sendResponseShared(w) ==
    /\ pc[w] = "send"
    /\ Len(respCh[cur]) < Capacity
    /\ respCh' = [respCh EXCEPT ![cur] = Append(@, draft[w])]
    /\ sent' = [sent EXCEPT ![w] = Overlay(@, draft[w])]
    /\ Respond(w)
    /\ UNCHANGED <<storeVars, registryVars, asked, cancelled,
                   serverVars, wires, clientVars>>

sendResponse(w) ==
    /\ pc[w] = "send"
    /\ Len(respCh[w]) < Capacity
    /\ respCh' = [respCh EXCEPT ![w] = Append(@, draft[w])]
    /\ sent' = [sent EXCEPT ![w] = Overlay(@, draft[w])]
    /\ Respond(w)
    /\ UNCHANGED <<storeVars, registryVars, asked, cancelled,
                   serverVars, wires, clientVars>>

\* Mutant: the select has no ctx.Done() case, only the send.
dropResponseNever(w) == sendResponse(w)

\* ... or gives up because the watch has been cancelled.
dropResponse(w) ==
    /\ pc[w] = "send"
    /\ w \in cancelled
    /\ Respond(w)
    /\ UNCHANGED <<storeVars, registryVars, asked, respCh, cancelled, sent,
                   serverVars, wires, clientVars>>

\* The loop sees the cancelled context and returns.  The deferred release
\* unsubscribes the watch and ends the goroutines that still notify it; no
\* other step can tell these apart, so they are one step with the return.
\* What the watch leaves behind is garbage.
exitWatch(w) ==
    /\ pc[w] = "serve"
    /\ w \in cancelled
    /\ pc' = [pc EXCEPT ![w] = "exited"]
    /\ subs' = {s \in subs : s[1] # w}
    /\ inbox' = [inbox EXCEPT ![w] = NoVersions]
    /\ asked' = [asked EXCEPT ![w] = {}]
    /\ respCh' = [respCh EXCEPT ![w] = <<>>]
    /\ sent' = [sent EXCEPT ![w] = NoVersions]
    /\ UNCHANGED <<storeVars, goal, draft, cancelled, serverVars, wires, clientVars>>

-----------------------------------------------------------------------------
(* The stream: the server's select over requests and the open watch.       *)

\* Mutant: the new watch goes on with the request of the one it replaces.
CreateWatchSameNames(names) ==
    /\ cur < MaxWatches
    /\ cancelled' = IF cur = 0 THEN cancelled ELSE cancelled \cup {cur}
    /\ cur' = cur + 1
    /\ pc' = [pc EXCEPT ![cur + 1] = "register"]
    /\ asked' = [asked EXCEPT ![cur + 1] = IF cur = 0 THEN names ELSE asked[cur]]
    /\ watchNonce' = 0

\* CreateWatch for a request, in place of the open watch, which is cancelled.
\* Nobody will read the channel of the watch that is replaced.
CreateWatch(names) ==
    /\ cur < MaxWatches
    /\ cancelled' = IF cur = 0 THEN cancelled ELSE cancelled \cup {cur}
    /\ cur' = cur + 1
    /\ pc' = [pc EXCEPT ![cur + 1] = "register"]
    /\ asked' = [asked EXCEPT ![cur + 1] = names]
    /\ watchNonce' = 0

\* A request acknowledges the last response of the stream when it carries its
\* nonce: the names of the request that response answers become known.  It
\* replaces the open watch unless that one has sent something since.
handleRequest ==
    /\ open
    /\ reqs # <<>>
    /\ LET req == Head(reqs) IN
          /\ known' = IF lastNonce > 0 /\ req.nonce = lastNonce
                      THEN lastNames ELSE known
          /\ IF cur = 0 \/ watchNonce = 0 \/ watchNonce = req.nonce
             THEN CreateWatch(req.names)
             ELSE UNCHANGED <<cancelled, cur, pc, asked, watchNonce>>
    /\ reqs' = Tail(reqs)
    /\ UNCHANGED <<storeVars, registryVars, goal, draft, respCh, sent,
                   lastNonce, lastNames, open, resps, clientVars>>

\* Every response of a watch refers to the request the watch was created for,
\* whatever the response holds.
GetRequest(w) == asked[w]

\* A response of the open watch goes out under a new nonce.
forwardResponse ==
    /\ open
    /\ cur > 0
    /\ respCh[cur] # <<>>
    /\ lastNonce' = lastNonce + 1
    /\ watchNonce' = lastNonce'
    /\ lastNames' = GetRequest(cur)
    /\ respCh' = [respCh EXCEPT ![cur] = Tail(@)]
    /\ resps' = Append(resps, [res |-> Head(respCh[cur]), nonce |-> lastNonce'])
    /\ UNCHANGED <<storeVars, registryVars, pc, asked, goal, draft, cancelled, sent,
                   cur, known, open, reqs, clientVars>>

\* The stream ends, with its client or with the server: the open watch is
\* cancelled.
closeStream ==
    /\ Stops
    /\ open
    /\ open' = FALSE
    /\ cancelled' = IF cur = 0 THEN cancelled ELSE cancelled \cup {cur}
    /\ UNCHANGED <<storeVars, registryVars, pc, asked, goal, draft, respCh, sent,
                   cur, watchNonce, lastNonce, lastNames, known, wires, clientVars>>

-----------------------------------------------------------------------------
(* The client.                                                             *)

\* It changes the set of resources it wants and forgets the others.
subscribe ==
    /\ open
    /\ step < Len(Plan)
    /\ step' = step + 1
    /\ holds' = holds \cap Plan[step']
    /\ reqs' = Append(reqs, [names |-> Plan[step'], nonce |-> ackNonce])
    /\ UNCHANGED <<storeVars, registryVars, watchVars, serverVars, resps, got, ackNonce>>

\* It takes a response and acknowledges it.
receiveResponse ==
    /\ open
    /\ resps # <<>>
    /\ LET resp == Head(resps) IN
          /\ got' = Overlay(got, resp.res)
          /\ holds' = holds \cup {n \in want : resp.res[n] # 0}
          /\ ackNonce' = resp.nonce
          /\ reqs' = Append(reqs, [names |-> want, nonce |-> resp.nonce])
    /\ resps' = Tail(resps)
    /\ UNCHANGED <<storeVars, registryVars, watchVars, serverVars, step>>

-----------------------------------------------------------------------------
(* The store and its events.                                               *)

\* Nothing is on its way anywhere, the open watch waits for changes and the
\* ones before it are gone.
AtRest ==
    /\ cur > 0
    /\ pc[cur] = "serve"
    /\ \A w \in 1 .. cur - 1 : pc[w] = "exited"
    /\ reqs = <<>> /\ resps = <<>> /\ respCh[cur] = <<>>
    /\ \A n \in Names : events[n] = 0 /\ inbox[cur][n] = 0

Change ==
    /\ changes < MaxChanges
    /\ Quiet => AtRest
    /\ changes' = changes + 1
    /\ UNCHANGED <<registryVars, watchVars, serverVars, wires, clientVars>>

\* An informer stores a new version before its event is queued.
applyObject(n) ==
    /\ Change
    /\ ver' = [ver EXCEPT ![n] = @ + 1]
    /\ present' = present \cup {n}
    /\ events' = [events EXCEPT ![n] = @ + 1]

deleteObject(n) ==
    /\ Deletions
    /\ n \in present
    /\ Change
    /\ ver' = [ver EXCEPT ![n] = @ + 1]
    /\ present' = present \ {n}
    /\ events' = [events EXCEPT ![n] = @ + 1]

\* The periodic resync of the informers reports every object again.
resync ==
    /\ Change
    /\ events' = [n \in Names |-> IF n \in present THEN events[n] + 1 ELSE events[n]]
    /\ UNCHANGED <<ver, present>>

\* A worker handles an event: it notifies the watchers of the name.
notifyChanged(n) ==
    /\ events[n] > 0
    /\ events' = [events EXCEPT ![n] = @ - 1]
    /\ inbox' = Registry!Published(n)
    /\ UNCHANGED <<ver, present, changes, subs, watchVars, serverVars, wires, clientVars>>

-----------------------------------------------------------------------------
\* What the goroutine of a watch does by itself.
WatchStep(w) ==
    \/ \E n \in Names : watchName(w, n) \/ resolveName(w, n)
    \/ checkDiff(w)
    \/ sendResponse(w)
    \/ dropResponse(w)

Next ==
    \/ \E w \in WatchIds :
          \/ WatchStep(w)
          \/ exitWatch(w)
          \/ \E n \in Names : takeChange(w, n)
    \/ handleRequest
    \/ forwardResponse
    \/ closeStream
    \/ subscribe
    \/ receiveResponse
    \/ resync
    \/ \E n \in Names : applyObject(n) \/ deleteObject(n) \/ notifyChanged(n)

Spec == Init /\ [][Next]_vars

\* Runnable goroutines run, a select does not ignore a ready case for ever,
\* the client reads its stream.  Changes, resyncs, subscriptions and the end of
\* the stream are up to the environment.
Fairness ==
    /\ \A w \in WatchIds :
          /\ WF_vars(WatchStep(w))
          /\ WF_vars(exitWatch(w))
          /\ WF_vars(\E n \in Names : takeChange(w, n))
    /\ WF_vars(handleRequest)
    /\ WF_vars(forwardResponse)
    /\ WF_vars(receiveResponse)
    /\ WF_vars(\E n \in Names : notifyChanged(n))

FairSpec == Spec /\ Fairness

-----------------------------------------------------------------------------
(* Properties.                                                             *)

\* A client never goes back to an older version of a resource, whatever the
\* order in which workers, cancelled and new watches and the stream run: a
\* watch reads the caches again for each change, sends in order, and what a
\* cancelled watch still sends goes to a channel that nobody reads.
NoRegression == [][\A n \in Names : got'[n] >= got[n]]_vars

\* A watch misses no change of a resource it has sent: registering before the
\* first resolution, it either sent the current version or a change is still
\* on its way to it.
NoUpdateMissed ==
    \A w \in WatchIds, n \in Names :
        /\ pc[w] = "serve"
        /\ w \notin cancelled
        /\ sent[w][n] # 0
        /\ n \in present
        => sent[w][n] = ver[n] \/ events[n] > 0 \/ inbox[w][n] > 0

\* Ignoring requests with an old nonce loses no subscription: when nothing is
\* on the wire, the open watch is about what the client last asked for.
SubscriptionSettles ==
    open /\ step > 0 /\ reqs = <<>> /\ resps = <<>> => cur > 0 /\ asked[cur] = want

\* Cancelled watches end: time and again there is none that still runs, so that
\* neither a full response channel nor changes that keep coming hold one of
\* their goroutines back for ever.
CancelledWatchesEnd == []<>(\A w \in cancelled : pc[w] = "exited")

\* Once the store stops changing, an open stream brings its client the current
\* version of every resource it wants.
Converges ==
    <>[](open => \A n \in want \cap present : n \in holds /\ got[n] = ver[n])
=============================================================================
