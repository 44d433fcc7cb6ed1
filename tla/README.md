# A verification of the gRPC traffic controller

The controller watches Kubernetes (`GRPCListener` objects and `EndpointSlice`s)
and serves what it finds to gRPC clients as xDS resources, over an aggregated
(ADS) stream of the state-of-the-world protocol.  This directory holds TLA+
models of its concurrent core, the TLC configurations that check them, and
proofs, checked by TLAPS, of what matters most.

## The system

```
 Kubernetes --> informer caches ----------------------------+ (read)
                   | events                                 v
                   v                                     resolvers
            QueuedEventHandler (x2, 10 workers each)        ^
                   |                                        |
                   v                                        |
            change handlers --notifyChanged--> watches --> configWatcher.watch
                                              (registry)    |  (one goroutine per watch)
                                                            v
                                      go-control-plane server <--> gRPC client
```

| part | source | state | operations | interacts with |
|---|---|---|---|---|
| watch registry | `gtc/watcher.go` | map of resources to groups, each a set of watchers; per watcher a `changes` channel, a `done` channel, the watched resources | `buildWatch`, `watch`, release, `notifyChanged` | config watcher, change handlers |
| config watcher | `gtc/cache.go` | per watch: context, response channel, request | `CreateWatch`, the loop of `watch`, `sendResponse` | registry, resolvers, server |
| event queue | `pkg/controllersupport/handler.go` | work queue, workers | `OnAdd/OnUpdate/OnDelete`, `Run`, `processItem` | informers, change handlers |
| change handlers | `gtc/notify.go` | none of their own | `handle` of listeners and of slices | listener cache, registry |
| resolvers | `gtc/{listener,cluster,endpoint,resolver}.go` | none (read the caches) | `resolveResource` | informer caches |
| translation | `gtc/{route,interceptor,xds,resource}.go` | none | build messages and names | resolvers |
| server, process | `gtc/server.go`, `cmd/controller/main.go` | contexts, gRPC server, error groups | `Run`, `GracefulStop`, `runWebserver` | everything |
| stream callbacks | `gtc/logger.go` | none | log | server |
| API types and their copies | `api/gtc/v1alpha1/` | none | `DeepCopyInto`, `DeepCopyObject` | everything that passes objects on |
| generated clients | `client/` | factory: informers, which are started, a wait group; fake: the tracked objects | clientset calls, `InformerFor`, `Start`, `WaitForCacheSync`, `Shutdown`, list, watch, lister | Kubernetes, resolvers |
| test runtime | `pkg/testruntime/` | the fake clientsets and their factories | `NewFakeK8s`, `FakeK8s.Start`, builders | generated clients |
| bootstrap, examples | `bootstrap/`, `cmd/bootstrapgen`, `example/`, `pkg/echoserver` | none | | |

What is hard to get right, and a test hardly reaches, is listed with its lines
under `hazards` in `PROJECT.json`.  In short: the registry drops its locks
between a look-up and its use; a watch is replaced by every acknowledgement, so
changes fall between two watches; the server's notion of what a client knows is
not what the client was sent; events are handled by many workers in any order
and read caches that have moved on; goroutines block on channels that somebody
must still read; resolvers read the cached objects themselves, so that nobody else
may hold a piece of them.

## The modules

| module | models | role |
|---|---|---|
| `Subscriptions` | `watcher.go`, as its users see it | abstract specification |
| `Watches` | `watcher.go`, one step per critical section | implements `Subscriptions` |
| `WatchesProofs` | | inductive invariant and refinement, proved |
| `ConfigWatcher` | `cache.go` on top of `Subscriptions`, one stream | composes registry, watches, server, client |
| `ConfigWatcherProofs` | | types and two inductive invariants, proved |
| `ConfigWatcherOrderProofs` | | the order of versions on a stream, proved |
| `EventQueue` | `handler.go` | the worker pool |
| `EventQueueProofs` | | inductive invariant, proved |
| `Notify` | `notify.go` against the resolvers | which resources a change concerns |
| `NotifyProofs` | | inductive invariant, proved |
| `Lifecycle` | `server.go`, `main.go` | the goroutines, contexts and streams of the process |
| `LifecycleProofs` | | inductive invariant, proved |
| `Names` | `resource.go`, the names of `listener.go` | functions |
| `Routes` | `listener.go`, `route.go`, `interceptor.go`, `xds.go`, `cluster.go` | functions |
| `Endpoints` | `endpoint.go` | functions |
| `Resolution` | the resolvers, followed by a client | composes `Names`, `Routes` and `Endpoints` |
| `ResolutionProofs` | | what the functions compute and what the client reaches, proved |
| `Schema` | `types.go`, `matcher.go`, `interceptor.go`: the memory an object is made of | tables |
| `DeepCopy` | `zz_generated.deepcopy.go`: who owns that memory after a copy | tables and functions |
| `InformerFactory` | `client/informers/externalversions/factory.go`, `FakeK8s.Start` | the shared factory |
| `Clients` | clientset, fake clientset, informer, lister | composes `InformerFactory` and `DeepCopy` |
| `ClientsProofs` | | four inductive invariants and the refinement to the factory, proved |
| `MC*` | | small instances for TLC |

Operators named "Mutant" in a comment are faulty variants of the definition
below them.  No specification uses them; substituting one for the
original must break the property that `PROJECT.json` pairs it with, which
shows that the property depends on that piece of the code.

### Watches

`registry` is `watches.watchers`, `members[g]` the map of group `g`, `watched`
and `done` the fields of a watcher, `inbox[w][r]` the number of goroutines in
`w.notifyChanged(ctx, r)`.  A watcher's `pc` tells between which two critical
sections it is, and `group[w]` is the pointer it carries from one to the next;
`found` holds the same for a notifier.  `getOrCreateResourceWatchers` is
`lookupGroup` (read lock) and `createGroup` (write lock, with the second look-up);
`resourceWatchers.watch` is `checkMember` and `insertMember`; `stopAllWatches` is
`stopLookup`, `stopCheck` and `deleteMember` for each resource, in any order as
the map iteration; `closeDone` ends the release.  A watcher registers all names
before it serves or releases, as `configWatcher.watch` does.

### ConfigWatcher

One stream and one resource type.  The content of a resource is a version.
Each watch runs `watchName` for every name, `checkDiff`, `resolveName` for each
name of a request (the caches may change between two reads), `sendResponse` or
`dropResponse`, and then its loop: `takeChange` or `exitWatch`.  `CreateWatch`
cancels the watch it replaces.  `handleRequest`, `forwardResponse` and
`closeStream` are the go-control-plane server (v0.11.1), `subscribe` and
`receiveResponse` the client, both external and modelled from the contract of
`CreateWatch`: the response channel holds one response and is not read any more
once its watch is replaced; a request with the nonce of the last response of
the stream makes the names of `GetRequest()` known; a request replaces the open
watch unless that watch has sent a response the request does not acknowledge.
A rejected response (NACK) is handled by the server like an accepted one, so
requests do not tell them apart.  The release of a watch is one step with its
return: `Watches` has its details.  `known` is read atomically.

### EventQueue

`queue`, `dirty` and `processing` are the work queue of client-go (external: an item
that waits is not queued twice, one that is handled is queued again when it is
done).  `enqueue` is any of `OnAdd`, `OnUpdate`, `OnDelete`; `processItem` is
`getItem` or `getShutdown`, then `finishItem`, whether the handler failed or not.
`returnRun` is the end of `Run` with its deferred `ShutDown`; it does not wait for the
workers, so `exit`, the end of `main` after it, may come at any time from then on and takes
the queue and the workers with it.  `AcceptedIsHandled` and `WorkersEnd` therefore hold up
to the exit.  A panic of a handler, which ends the process, is not modelled.

### Notify

`lver`, `spec`, `sver` and `ported` are the two informer caches.  A spec gives each
backend the set of services its `Service` or `Localities` name.  `Resolvable` and
`Content` are what the resolvers need and read, `ListenerRefs` and `SliceRefs` what
the handlers notify; `stale` records the resources whose content changed since
they were last notified.  Labels and namespaces of slices do not change.
A locality without a service, which the code would dereference, is not a spec of the model.

### Lifecycle

`queues`, `grpc` and `stop` are the goroutines of `XDSServer.Run`, `web` and `webStop`
those of `runWebserver`, `streams` the ADS streams in progress.  A context is
cancelled at once when its parent is, so the context of each error group is a
function of the state: `MainDone` (a signal, or an error of `Run` or of the web
server) and `RunDone` (that, or an error of the gRPC server).  A stream's handler
ends with the signal's context, the one that `NewXDSServer` got, and not with a
group's: after a failure only the clients end the streams.  `grpc.Server` is external:
`Serve` refuses a stopped server, and returns after `GracefulStop`, which waits for
the streams.  Errors before the groups start make `main` return and have no state.

### Names, Routes, Endpoints, Resolution

The first three are functions from objects to messages, one operator for each
function of the code; `Error` is an error return, `Then` the early return after it,
`Each` a loop that returns at the first error.  `Panic` is what the code does with an index
out of range (`At`; an index read from a name may be negative, since `Atoi` takes a sign)
and with a locality that has no service.  Names are paths, and the index in a
name is its decimal digits.  The path of a call or a matcher is a sequence of letters, dots
and slashes: `Join` is `path.Join`, which drops empty parts and single dots and lets two dots
remove the part before them, and `FullMethod` is the path gRPC gives a call, without a dot if
the service is in no package.  What the code only copies (durations, retry policies,
the values of filters, ring sizes) is left out.  `Resolution` is a client that dials a
name, asks for all the clusters its routes name and all their endpoints, and gets single
resources again after the objects were edited.  A client asks for the names it was
given; the parser's treatment of other names is modelled and used only for the
name dialled.  When a client asks, and for what, is external: the `pull` actions.

### Schema and DeepCopy

`Schema` lists, for every type of the API, the fields that refer to memory outside of
the struct (pointers and slices) and the structs inside of it.  `DeepCopy` lists what
each generated `DeepCopyInto` does to the fields it names: allocate and assign (`new`),
allocate and copy deeply (`into`), copy an inner struct (`inside`), or only assign.
From the two, `ObjectPlaces` computes every place of a `GRPCListener`, and whether the
copy owns the block of memory there: a block is shared if it, or a block on the way to it, is
only assigned.  Elements of a slice are treated alike, so one path stands for all of
them; the fields of the Kubernetes library are represented by the labels of `ObjectMeta`.

### InformerFactory and Clients

`informers`, `startedInformers` and `shuttingDown` are the fields of
`sharedInformerFactory`, and the sum of `running` is its wait group.  A method that holds
the lock for all of its body is one step; `Shutdown` and `WaitForCacheSync`
release the lock and then wait, so they have a step for their return, and the latter one for
each informer it polls.  Of `FakeK8s.Start` this is the part that starts the factory of the
GRPCListeners and waits for it; the factory of Kubernetes itself is a library.
Every `Start` gets the same stop channel, as in `main.go` and `FakeK8s.Start`.  `ready` is set as `FakeK8s.Start` decides with `checkInformerSync`.

`Clients` follows one listener and one block of its memory, `spot`.  `memory` says for
every holder (the API's store, the program, an event under way, the informer's cache, a
resolver) what the block contains and who shares it, and a write reaches all who do.
An object that crosses the API is encoded and decoded (`api = "rest"`) or copied by
`DeepCopyObject` (`"tracker"`, the fake clientset); a list of the fake goes through
the copy of the list and then through the assignment of its items.  The cache keeps the object of an
event, and the lister hands that object out.  The store and the tracker, the reflector
behind `ListFunc` and `WatchFunc` and the informer's cache are parts of client-go and
external.  `Apply` and `ApplyStatus` of the clientset are left out, with the apply
configurations they send.
The API server's watch begins at the version of the list; the
tracker's begins when it is opened, so that a test that changes an object between the
two loses the change until the next one.  `main.go` calls neither
`WaitForCacheSync` nor `Shutdown`: it serves while its caches fill, which is why
`ConfigWatcher` lets the initial resolution fail.

## The runs

| run | instance | checks |
|---|---|---|
| `registry` | 2 watchers, 2 resources, 1 notifier with 2 calls, requests with one, two, a repeated and no name | `TypeOK`, `NoMissedSubscriber`, `NoDeadMember`, `ImplementsSubscriptions`, `NotificationsDrain` |
| `stream` | 2 names, one of them missing at first, client asks for one then both, 2 changes at any time, 4 watches | `TypeOK`, `NoUpdateMissed`, `SubscriptionSettles`, `NoRegression` |
| `stream_live` | as above, 2 changes when the stream rests, 8 watches, the stream may end | `Converges`, `CancelledWatchesEnd` |
| `queue` | 3 events reported 5 times, 3 workers | `TypeOK`, `ExclusiveHandling`, `NothingForgotten`, `AcceptedIsHandled`, `WorkersEnd` |
| `notify` | 1 listener with 3 specs (one malformed), 2 slices in 2 namespaces, 2 workers, 4 changes, tombstones for listeners | `TypeOK`, `AllChangesNotified`, `StaleIsCovered` |
| `lifecycle` | 2 clients, 2 queues; signal, failures, clients at any time | `TypeOK`, `NoStreamCut`, `StopsOnSignal`, `FailureStops` |
| `resolution` | one listener over 1,440 lists of 2 slices; 22 listeners, one with 12 routes and 21 with a part that may be malformed; 4 more, and no listener, edited into each other; 3 zones | `TypeOK`, `RoutesReachTheirBackends`, `HintedHostsComeFirst`, `NamedCallsAreCaught`, `HeldNamesStayInRange` |
| `clients` | one listener, each of its 90 blocks in turn, 2 contents; both APIs, 2 callers of the factory, 2 requests, 1 broken watch | `TypeOK`, `RunsOnce`, `ShutdownIsFinal`, `SnapshotsHold`, `ReadyMeansListed`, `StoreChangesOnlyByRequest`, `WaitReturns`, `ShutdownReturns` |

Four runs show where the code does something else than a comment or a test says;
`findings` in `PROJECT.json` quotes the lines.

| run | what TLC finds |
|---|---|
| `lost_update` | a change races the acknowledgement of an earlier response: the watch that took it is replaced, its response stays in a channel nobody reads, and the new watch sends nothing since the name is known |
| `known_unsent` | `b` has no object, so the initial response for `a, b` fails; `b` is created, sent alone and acknowledged, which makes `a` known too: `a` is never sent |
| `tombstone` | the deletion of a slice reported as `DeletedFinalStateUnknown` notifies nobody |
| `service_prefix` | a route for the service `E` also catches the calls of `Ex`: the prefix made from the matcher does not end with a slash |

`stream_live`, `lost_update` and `known_unsent` ask the same question, `Converges`: it
holds if every object exists and the store changes only while nothing is on its way, and
fails after a single change at the wrong time, or if one of the names has no object
when it is asked for.  It fails for the same reason, a name that is known but not
held, for a client that gives a name up and asks for it again: put the plan `Regrow`
(module `MCConfigWatcher`), `Missing = {}` and `MaxChanges = 0` into
`MCConfigWatcherKnown.cfg` to see it.  The hourly resync makes such a loss temporary.  The same
`AllChangesNotified` holds when tombstones are about listeners only, because the
resources of a deleted listener cannot be resolved any more.

**Bounds.**  Two watchers and two resources are the fewest for which groups are
shared and confused; a third watcher adds no pointer that two do not have (and the
proofs cover any number).  Four watches on a stream are one for each request of
the plan and two for acknowledgements, enough for an old watch to run
beside two newer ones; in `stream_live` the bound on watches is not reached, as a
bound that blocks `CreateWatch` would hide or fake a failure of liveness.  Three
workers let one event be handled, one wait and one be reported again.  Four
changes let a listener and a slice appear, and each change or vanish while the
first events are still being handled.  Three endpoints on two slices fill both
priorities, either one, or none, from one slice or from two; twelve routes make
indices of two digits; one edit is enough for a client to hold resources of two
versions.  `UintMod` is 2^32 in the code and 8 in the run, so that sums wrap.

In `clients`, a block below the listener itself matters only where `DeepCopyObject` decides
who owns it; those are watched with the tracker and one caller that starts the factory.  The
listener's own block is watched with both APIs and any calls of two callers, the fewest that
can race.  Two requests let an object be created and then replaced or deleted while a
resolver still reads the first one; events are delivered one at a time.

**Deadlock** is not checked: all these systems stop when the environment has
nothing more to offer (no more changes, every watcher closed).

**Fairness.**  A goroutine that can run does run, a `select` does not ignore a
ready case for ever, the client reads its stream, and handlers return.  These are
weak fairness conditions on the steps of the goroutines.  Nothing is assumed of the
environment: changes, subscriptions, the end of a stream and of the process (`exit` of
`EventQueue`) may or may not happen.  In `Lifecycle` in particular clients may hold their streams for ever:
`StopsOnSignal` holds all the same (the handler of a stream is taken to notice the end of its
context, so not to be stuck sending), `FailureStops` only when they do not, which is
why it says so.  In `Clients` nobody has to make a request, to start or to stop
anything; a method that can return does, an informer goes on listing and
watching, and its goroutine ends once the stop channel is closed.

## The proofs

`WatchesProofs` proves, for every set of watchers, notifiers, resources and groups
and every list of names (`ConstantsAssumption`):

- `TypeCorrect`, `NotifiersMissNobody` and `ReleaseIsComplete`: the three invariants
  of the run `registry`;
- `Refinement`: `Spec => ImplementsSubscriptions`.

None of the invariants is inductive.  `IInv` adds what the locks are for: a group
belongs to one resource (`RegistryInjective`), the pointer a goroutine carries
between two critical sections is the one the registry has (`PhaseOK`,
`FoundCurrent`; groups are never removed), a watcher is a member exactly as long as
it is subscribed (`SubscribedIsMember`, `MemberIsSubscribed`), and a group outside
the registry is empty (`GroupsOwned`).  There is one lemma for each action.  The
refinement maps the subscriptions to the pairs listed by the groups that the
registry reaches; `createGroup` is a stuttering step because new groups are empty,
`notifyMembers` publishes because the group it holds is the current one.

`ConfigWatcherProofs` and, for the last of them, `ConfigWatcherOrderProofs` prove, for any
names, plan of the client, number of watches and number of changes, the type invariant
and the three safety properties of `ConfigWatcher`:

- `SubscriptionsSettle` (`SubscriptionSettles`).  `SettleInv` counts nonces: the
  responses on the wire carry, in order, the ones after the nonce the client has, up to
  the last one of the server.  So with no response on its way the last request carries
  the server's last nonce and is not ignored, and it asks for what the client wants.
- `UpdatesArrive` (`NoUpdateMissed`).  The property is about watches that wait for
  changes; `UpdateInv` extends it to those in the middle of a resolution.  What a
  watch has read or sent is current or a change is on its way, since it was subscribed
  before it read; the one exception is the name whose change it has taken and is
  resolving, which is then the only name of its request.
- `VersionsNeverRegress` (`NoRegression`, an action property).  `OrderInv` orders the
  stages of a version of the open watch: draft, channel, wire, client, each at least as old as the
  one before and none newer than the store.  The channel of a
  watch that was replaced is not among them.

`NotifyProofs` proves `StaleIsCovered`, and from it `AllChangesNotified`, for all
listeners, slices, specs and workers, provided that no slice is deleted through a
tombstone (`Tombstones \cap Slices = {}`); the run `tombstone` shows that the proviso is needed.

`EventQueueProofs` proves `ExclusiveHandling` and `NothingForgotten` for any events and
workers.  Its invariant says that the queue holds each item that is dirty and not
processed exactly once, and that an item is processed as long as one worker holds it.

`LifecycleProofs` proves `NoStreamCut` for any clients and queues: a completed stop has no
stream left, `Serve` returns without an error only after it, and `Run` only after `Serve`.

`ClientsProofs` proves, for any kinds and callers, that a factory runs no informer twice
(`FactoryRunsOnce`) and none after `Shutdown` has returned (`FactoryShutdownIsFinal`).
The invariant `FactoryInv` adds that an informer was launched once if it is marked as started
and not at all otherwise, and that a caller in `Shutdown` has set the flag that keeps
`Start` from launching more.  `ClientsImplementFactory` shows that the
composition is an implementation of the factory, and carries both over
(`ClientsRunOnce`, `ClientsShutdownIsFinal`).  `OwnedSnapshotsHold` proves `SnapshotsHold`
for any contents and any number of requests from the hypothesis `CopiesOwn`, that
the copies own every block; the invariant is that the program shares its block
with nobody.  From the same hypothesis `StoreChangesByRequest` proves
the action property `StoreChangesOnlyByRequest` (what the API holds shares no block
with anybody, so that no write reaches it), and `WaitMeansListed` proves
`ReadyMeansListed`: `ListedInv` adds that before the first request there is no event, so
that the cache of an informer that has synced still shows what it listed, and
`AnswersInv` that a caller whose wait passed `checkInformerSync` was told of an informer
that had synced, also if the informer was asked for after the `Start`.
`CopiesOwn` is about the two tables and is left to TLC: the run
`clients` watches each block, and fails as soon as a copy shares one.

`ResolutionProofs` proves the five invariants of the run `resolution`, for any stores,
zones, names dialled, calls and number of edits, and for lists of any length:

- `TypeCorrect` (`TypeOK`);
- `CallsAreCaught` (`NamedCallsAreCaught`): what a matcher is turned into is the path of the
  call or a prefix of it.  For a method matcher this needs that `path.Join` cleans nothing,
  which holds since the parts of a call are protobuf names; for a method or a service
  matcher it needs a package, since the dot before the service is written in any case;
- `HeldNamesInRange` (`HeldNamesStayInRange`): the names a client holds were written by
  some version of the listener, so their indices are not negative, and `findBackendSpec`
  rejects those past the end of the current one;
- `NamesReachBackends` (`RoutesReachTheirBackends`): a name read back by `parseBackendName`
  gives the namespace, the listener and the indices it was made from (`NamesReadBack`),
  `findBackendSpec` finds that backend, and the groups of `makeLoadAssignment` hold the
  ready hosts of its services and no other (`BackendHosts`);
- `HintsComeFirst` (`HintedHostsComeFirst`).

The invariant `ResolutionInv` adds that the client holds no error, that the clusters of
the listener it holds are names of backends, and that the cluster under a name refers to
the endpoints of the same name.  `TypeOK` alone is not inductive: the endpoints a client
asks for are those its clusters refer to, and without the addition these could be of any name.
The rest is about the functions.  Those that recur (`Digits`, `Number`, `FlattenSeq`) are
shown to exist and to satisfy their equations by one lemma (`Recursion`) on functions
that recur on a single smaller argument, itself proved with a counterexample of
least size (`Smallest`, from the well-foundedness of `<` on `Nat`); the properties of what
they compute follow in the same way.  Each function of `Routes` and `Endpoints` has a lemma
on its answer when that is neither `Error` nor `Panic` (`...Answer`).  The assumptions, which
TLC evaluates on the instance, are what the API server admits (`StoresAssumption`: lists are
sequences, an endpoint has an address) and, which nothing enforces, that the parts of a method
matcher contain no slash (a matcher with one names no call), that
the parts of a call are protobuf names (`CallsAssumption`), and that `Nil`, `Error`, `Panic`
and the answers are told apart (`NilAssumption`, `FailuresAssumption`).

Each of these modules also proves the type invariant of the specification it is about
(`TypeCorrect`).

Only model-checked: the liveness properties (the prover has no fairness), and that
the copies own their blocks (`CopiesOwn`, a computation on finite tables).  The four runs that
find a violation are counterexamples and have nothing to prove.

## What is left

1. `ConfigWatcher`: several streams on one registry.
2. `Resolution`: the versions of responses, which depend on the order in which slices are
   listed.
3. `DeepCopy`: a proof of `CopiesOwn` from a condition on each field of each type alone, which
   would free the theorems of `ClientsProofs` from their hypothesis.

Observations that no run is about.  `QueuedEventHandler.Run` is documented to wait
"until completion" (`handler.go:61`), yet returns while workers may still handle an event
(`returnRun` in `EventQueue`); `main` then exits.  A method or service matcher of a service
that is in no package catches no call, because `Path` and `Prefix` (`types.go:132`, `:143`)
write the dot after an empty namespace too; `NamedCallsAreCaught` fails without its exception
for them.  A locality without a service makes `makeLocalitiesLoadAssignment` panic
(`endpoint.go:91`), although the field is optional.  The response to a change holds
only the changed resource, and its version is computed from that resource alone (`Respond` in `ConfigWatcher`), while the
comment at `cache.go:64` wants all resources for the version; nothing in the
repository compares versions.

## Not modelled

- The bootstrap generator (`bootstrap/`, `cmd/bootstrapgen`): it reads flags and the
  environment, writes one file and exits.  There is no state that outlives a call.
- The stream callbacks (`gtc/logger.go`): logging only.
- The apply configurations of `client/applyconfiguration` and the constructors of the REST
  clients: they collect values for a request, one assignment per method.
- `register.go`: adds the types to a scheme when the process starts.
- The options of the builders and the assertions of `pkg/testruntime`, the echo server,
  its generated protocol code and the example programs: each call stands alone.
- Logging and the layout of messages everywhere.
