------------------------------- MODULE Clients -------------------------------
(***************************************************************************)
(* The generated clients at work on one GRPCListener: a program holds an   *)
(* object and sends it to the API (clientset), the informer of a shared    *)
(* factory lists and watches the API into its cache, and the resolvers     *)
(* read the cache through the lister, which hands out the cached object    *)
(* itself. The API is either the API server, behind the REST client, which *)
(* encodes and decodes every object, or the tracker of the fake clientset, *)
(* which keeps and hands out the copies DeepCopyObject makes.              *)
(*                                                                         *)
(* Objects are memory: two holders may refer to the same block, and then a *)
(* write through one is seen by the other. A behaviour watches one block   *)
(* of the object, any of those a listener is made of (DeepCopy!Blocks).    *)
(***************************************************************************)
EXTENDS InformerFactory, DeepCopy

CONSTANTS Listener,     \* the kind of the informer of GRPCListeners
          Values,       \* what a block can contain
          MaxRequests,  \* bound on the changes asked of the API
          MaxFailures   \* bound on the watches that break

\* The API group has one kind (generic.go, ForResource).
ASSUME ListenerAssumption == Kinds = {Listener}

ASSUME BoundsAssumption == MaxRequests \in Nat /\ MaxFailures \in Nat

VARIABLES
  api,       \* "rest" or "tracker"
  spot,      \* the path of the block that is watched
  memory,    \* who holds an object, what its block contains, and who shares it
  phase,     \* how far the informer is with its listing and watching
  read,      \* what the resolver's object contained when it was read
  requests,  \* the changes asked of the API so far
  failures   \* the watches that broke so far

clientVars == <<api, spot, memory, phase, read, requests, failures>>
vars == <<informers, startedInformers, shuttingDown, launched, running, synced, stopped,
          call, asked, res, ready, down, api, spot, memory, phase, read, requests, failures>>

None == "none"
Gone == "gone"   \* the content of an event that tells of a deletion

(***************************************************************************)
(* The holders: the API's store, the object the program works on, the      *)
(* event on its way to the informer, the informer's cache, and the object  *)
(* a resolver got from the lister.                                         *)
(***************************************************************************)
Holders == {"store", "mine", "event", "cache", "seen"}
-----------------------------------------------------------------------------
(* Memory. *)

\* The holder lets go of its block.
Drop(m, h) ==
  [held  |-> [m.held EXCEPT ![h] = None],
   share |-> [q \in Holders |-> IF q = h THEN {h} ELSE m.share[q] \ {h}]]

\* The holder gets a block of its own.
Alloc(m, h, v) == [Drop(m, h) EXCEPT !.held[h] = v]

\* The holder gets the block another one has.
Point(m, h, from) ==
  [held  |-> [m.held EXCEPT ![h] = m.held[from]],
   share |-> [q \in Holders |-> IF q \in m.share[from] \cup {h}
                                THEN m.share[from] \cup {h} ELSE m.share[q] \ {h}]]

\* The content of the holder's block is replaced, for all who share it.
Write(m, h, v) ==
  [m EXCEPT !.held = [q \in Holders |-> IF q \in m.share[h] THEN v ELSE m.held[q]]]

Copy(m, h, from, owned) ==
  IF owned \/ m.held[from] = None THEN Alloc(m, h, m.held[from]) ELSE Point(m, h, from)

\* An object that crosses the API in either direction: encoded and decoded
\* into a new one, or copied by the tracker with DeepCopyObject.
Exchanged(m, h, from) == Copy(m, h, from, api = "tracker" => OwnedByCopy(spot))

\* An item of a list: the list is copied with DeepCopyObject, its items are
\* then assigned to the array of another one.
Listed(m, h, from) == Copy(m, h, from, api = "tracker" => OwnedByListCopy(spot))
-----------------------------------------------------------------------------
\* The API sends changes to a watch. The API server's watch starts where the
\* list ended, the tracker's when it is opened.
Watching ==
  /\ running[Listener] > 0
  /\ phase = "watching" \/ (phase = "listed" /\ api = "rest")

Notified(m) == IF Watching THEN Exchanged(m, "event", "store") ELSE m
NotifiedGone(m) == IF Watching THEN Alloc(m, "event", Gone) ELSE m

\* Bounds: the changes in a behaviour, and the events on their way (one).
CanRequest ==
  /\ requests < MaxRequests
  /\ memory.held["event"] = None
  /\ requests' = requests + 1
  /\ UNCHANGED <<api, spot, phase, read, failures>>

Local == UNCHANGED <<api, spot, phase, read, requests, failures>>

\* The program goes on with the object it sent, or with the one it got back.
Kept(m, result) == IF result THEN Exchanged(m, "mine", "store") ELSE m

\* AlreadyExists otherwise.
Create(result) ==
  /\ CanRequest
  /\ memory.held["mine"] # None /\ memory.held["store"] = None
  /\ memory' = Notified(Kept(Exchanged(memory, "store", "mine"), result))

\* NotFound otherwise.
Update(result) ==
  /\ CanRequest
  /\ memory.held["mine"] # None /\ memory.held["store"] # None
  /\ memory' = Notified(Kept(Exchanged(memory, "store", "mine"), result))

\* The API changes its own object. The tracker patches a copy and stores it.
Patch(v, result) ==
  /\ CanRequest
  /\ memory.held["store"] # None
  /\ memory' = Notified(Kept(Alloc(memory, "store", v), result))

\* The object stays, marked as gone.
DeleteMarks ==
  /\ CanRequest
  /\ memory.held["store"] # None
  /\ memory' = NotifiedGone(Alloc(memory, "store", Gone))

\* Delete and DeleteCollection.
Delete ==
  /\ CanRequest
  /\ memory.held["store"] # None
  /\ memory' = NotifiedGone(Drop(memory, "store"))

\* On NotFound the result is not to be used: nothing changes.
Get ==
  /\ memory.held["store"] # None
  /\ memory' = Exchanged(memory, "mine", "store")
  /\ Local

\* The first object of a list; List with no match leaves nothing to hold.
List ==
  /\ memory.held["store"] # None
  /\ memory' = Listed(memory, "mine", "store")
  /\ Local

\* The program builds an object, or writes to the one it holds.
BuildGRPCListener(v) == memory' = Alloc(memory, "mine", v) /\ Local

write(v) ==
  /\ memory.held["mine"] \in Values \ {v}
  /\ memory' = Write(memory, "mine", v)
  /\ Local
-----------------------------------------------------------------------------
(* The informer of GRPCListeners and its lister. *)

\* ListFunc: the cache is replaced by what is listed.
ListFunc ==
  /\ running[Listener] > 0 /\ phase = "started"
  /\ memory' = Listed(memory, "cache", "store")
  /\ phase' = "listed"
  /\ UNCHANGED <<api, spot, read, requests, failures>>

WatchFunc ==
  /\ running[Listener] > 0 /\ phase = "listed"
  /\ phase' = "watching"
  /\ UNCHANGED <<api, spot, memory, read, requests, failures>>

\* The informer's cache keeps the object of the event itself.
handleEvent ==
  /\ running[Listener] > 0 /\ phase = "watching"
  /\ memory.held["event"] # None
  /\ memory' = IF memory.held["event"] = Gone
               THEN Drop(Drop(memory, "cache"), "event")
               ELSE Drop(Point(memory, "cache", "event"), "event")
  /\ UNCHANGED <<api, spot, phase, read, requests, failures>>

\* The connection to the API server breaks: the informer lists again.
breakWatch ==
  /\ api = "rest" /\ failures < MaxFailures
  /\ running[Listener] > 0 /\ phase \in {"listed", "watching"}
  /\ phase' = "started"
  /\ memory' = Drop(memory, "event")
  /\ failures' = failures + 1
  /\ UNCHANGED <<api, spot, read, requests>>

\* A resolver gets the cached object, or NotFound. It reads it from then on
\* until it gets another one.
ListerGet ==
  /\ memory' = IF memory.held["cache"] = None THEN Drop(memory, "seen")
               ELSE Point(memory, "seen", "cache")
  /\ read' = memory.held["cache"]
  /\ UNCHANGED <<api, spot, phase, requests, failures>>
-----------------------------------------------------------------------------
Nothing == [held |-> [h \in Holders |-> None], share |-> [h \in Holders |-> {h}]]

\* NewSimpleClientset is given the objects the program has built, or none.
Init ==
  /\ FactoryInit
  /\ api \in {"rest", "tracker"}
  /\ spot \in Blocks
  /\ \/ memory = Nothing
     \/ \E v \in Values : memory = Exchanged(Alloc(Nothing, "mine", v), "store", "mine")
  /\ phase = "started"
  /\ read = None
  /\ requests = 0
  /\ failures = 0

ProgramStep ==
  \/ \E result \in BOOLEAN : Create(result) \/ Update(result)
  \/ \E v \in Values, result \in BOOLEAN : Patch(v, result)
  \/ \E v \in Values : BuildGRPCListener(v) \/ write(v)
  \/ Delete
  \/ Get
  \/ List
  \/ ListerGet

\* The first list is the step that makes the informer synced.
firstList == ListFunc /\ sync(Listener)
nextList  == ListFunc /\ Listener \in synced /\ UNCHANGED factoryVars

InformerStep ==
  \/ firstList
  \/ nextList
  \/ (WatchFunc \/ handleEvent \/ breakWatch) /\ UNCHANGED factoryVars

FactoryStep ==
  /\ UNCHANGED clientVars
  /\ \/ \E c \in Callers : CallStep(c)
     \/ \E k \in Kinds : endRun(k)
     \/ closeStop

Next ==
  \/ ProgramStep /\ UNCHANGED factoryVars
  \/ InformerStep
  \/ FactoryStep

Spec == Init /\ [][Next]_vars

(***************************************************************************)
(* A method that can return does, an informer's goroutine goes on with its *)
(* work and ends when it is told to: the Go scheduler starves none of      *)
(* them, and the API answers. Nobody has to make a request, to start or to *)
(* stop anything.                                                          *)
(***************************************************************************)
Fairness ==
  /\ \A c \in Callers :
       WF_vars(UNCHANGED clientVars /\
               (returnShutdown(c) \/ returnWait(c)
                  \/ \E k \in Kinds, ok \in BOOLEAN : waitOne(c, k, ok)))
  /\ \A k \in Kinds : WF_vars(UNCHANGED clientVars /\ endRun(k))
  /\ WF_vars(InformerStep)

FairSpec == Spec /\ Fairness
-----------------------------------------------------------------------------
TypeOK ==
  /\ FactoryTypeOK
  /\ api \in {"rest", "tracker"} /\ spot \in Blocks
  /\ memory.held \in [Holders -> Values \cup {None, Gone}]
  /\ memory.share \in [Holders -> SUBSET Holders]
  /\ \A h \in Holders, g \in Holders :
       g \in memory.share[h] => /\ memory.share[g] = memory.share[h]
                                /\ memory.held[g] = memory.held[h]
  /\ phase \in {"started", "listed", "watching"}
  /\ read \in Values \cup {None}
  /\ requests \in 0..MaxRequests /\ failures \in 0..MaxFailures

\* A resolver reads an object of the lister's cache piece by piece while the
\* informer replaces it and programs go on writing to the objects they sent or
\* got: what it reads stays what it was when the lister returned it.
SnapshotsHold == memory.held["seen"] = read

\* Only a request changes what the API holds: a program that goes on writing to
\* an object it has created, updated or got changes no stored object.
StoreChangesOnlyByRequest ==
  [][memory'.held["store"] # memory.held["store"] => requests' # requests]_vars

\* FakeK8s.Start: when a wait for the caches has passed checkInformerSync and
\* no change was asked of the API yet, the cache shows the objects the API was
\* created with, also if the informer was asked for after the Start.
ReadyMeansListed ==
  (requests = 0 /\ \E c \in Callers : ready[c]) =>
    memory.held["cache"] = memory.held["store"]

\* WaitForCacheSync "blocks until all started informers' caches were synced or
\* the stop channel gets closed", and then returns.
WaitReturns ==
  \A c \in Callers : call[c] = "WaitForCacheSync" ~> call[c] = "none"

\* All calls of Shutdown, concurrent ones too, return once the stop channel is
\* closed, "either before Shutdown gets called or while it is waiting".
ShutdownReturns ==
  \A c \in Callers : (call[c] = "Shutdown" /\ stopped) ~> call[c] = "none"
=============================================================================
