------------------------------- MODULE Watches -------------------------------
(***************************************************************************)
(* The registry of watches, src/gtc/watcher.go.                            *)
(*                                                                         *)
(* A watcher is the goroutine of one xDS watch: it builds itself,          *)
(* registers the resources of its request one after the other, serves      *)
(* their changes and, at last, releases itself.  A notifier is a worker    *)
(* that calls watches.notifyChanged.  Every critical section of the code   *)
(* (watches.mu, resourceWatchers.mu) is one step here; what happens        *)
(* between two critical sections is another step, so pointers read under   *)
(* one lock are used under the next one, as in the code.                   *)
(***************************************************************************)
EXTENDS Naturals, Sequences

CONSTANTS Watchers,    \* watchers built in the life of the process
          Notifiers,   \* workers that notify changes
          Refs,        \* resourceRef values
          Groups,      \* addresses of resourceWatchers values
          NoGroup,     \* the absent entry of a map
          NameLists,   \* the resource lists a watcher may be asked to watch
          MaxNotify    \* bound: number of notifyChanged calls

ASSUME ConstantsAssumption ==
    /\ NoGroup \notin Groups
    /\ NameLists \subseteq Seq(Refs)
    /\ MaxNotify \in Nat

VARIABLES
    registry,    \* watches.watchers: the group of each resource, or NoGroup
    members,     \* resourceWatchers.watchers of each group
    allocated,   \* the groups created so far
    pc,          \* where each watcher is
    todo,        \* the resources a watcher has still to register
    watched,     \* watcher.watchedResources
    leaving,     \* the resources stopAllWatches has still to go through
    group,       \* the *resourceWatchers the watcher holds
    done,        \* the watchers whose done channel is closed
    inbox,       \* inbox[w][r]: goroutines in w.notifyChanged(ctx, r)
    found,       \* <<n, r, g>>: notifier n has looked r up and holds group g
    calls,       \* notifyChanged calls so far
    ctxDone      \* the notifiers' context is done

registryVars == <<registry, members, allocated>>
watcherVars == <<pc, todo, watched, leaving, group, done>>
notifierVars == <<found, calls, ctxDone>>
vars == <<registryVars, watcherVars, notifierVars, inbox>>

\* The phases of a watcher: registering, serving and releasing.
Registering == {"lookup", "create", "check", "insert"}
Releasing == {"stop", "stopcheck", "delete"}
Phases == {"new", "serve", "closed"} \cup Registering \cup Releasing

TypeOK ==
    /\ registry \in [Refs -> Groups \cup {NoGroup}]
    /\ members \in [Groups -> SUBSET Watchers]
    /\ allocated \in SUBSET Groups
    /\ pc \in [Watchers -> Phases]
    /\ todo \in [Watchers -> Seq(Refs)]
    /\ watched \in [Watchers -> SUBSET Refs]
    /\ leaving \in [Watchers -> SUBSET Refs]
    /\ group \in [Watchers -> Groups \cup {NoGroup}]
    /\ done \in SUBSET Watchers
    /\ inbox \in [Watchers -> [Refs -> Nat]]
    /\ found \in SUBSET (Notifiers \X Refs \X Groups)
    /\ calls \in Nat
    /\ ctxDone \in BOOLEAN

Init ==
    /\ registry = [r \in Refs |-> NoGroup]
    /\ members = [g \in Groups |-> {}]
    /\ allocated = {}
    /\ pc = [w \in Watchers |-> "new"]
    /\ todo = [w \in Watchers |-> <<>>]
    /\ watched = [w \in Watchers |-> {}]
    /\ leaving = [w \in Watchers |-> {}]
    /\ group = [w \in Watchers |-> NoGroup]
    /\ done = {}
    /\ inbox = [w \in Watchers |-> [r \in Refs |-> 0]]
    /\ found = {}
    /\ calls = 0
    /\ ctxDone = FALSE

-----------------------------------------------------------------------------
(* Registration: buildWatch, then watcher.watch for each name.             *)

\* Where a watcher goes when `rest` is what it still has to register.
After(rest) == IF rest = <<>> THEN "serve" ELSE "lookup"

buildWatch(w, names) ==
    /\ pc[w] = "new"
    /\ pc' = [pc EXCEPT ![w] = After(names)]
    /\ todo' = [todo EXCEPT ![w] = names]
    /\ UNCHANGED <<registryVars, notifierVars, inbox,
                   watched, leaving, group, done>>

\* getOrCreateResourceWatchers under the read lock.
lookupGroup(w) ==
    /\ pc[w] = "lookup"
    /\ LET g == registry[Head(todo[w])] IN
          /\ group' = [group EXCEPT ![w] = g]
          /\ pc' = [pc EXCEPT ![w] = IF g = NoGroup THEN "create" ELSE "check"]
    /\ UNCHANGED <<registryVars, notifierVars, inbox,
                   todo, watched, leaving, done>>

\* Install the new group g for resource r.
NewGroup(r, g) ==
    /\ g \notin allocated
    /\ allocated' = allocated \cup {g}
    /\ registry' = [registry EXCEPT ![r] = g]
    /\ members' = [members EXCEPT ![g] = {}]

\* Mutant: the entry is not read again under the write lock.
createGroupUnchecked(w, g) ==
    /\ pc[w] = "create"
    /\ NewGroup(Head(todo[w]), g)
    /\ group' = [group EXCEPT ![w] = g]
    /\ pc' = [pc EXCEPT ![w] = "check"]
    /\ UNCHANGED <<notifierVars, inbox, todo, watched, leaving, done>>

\* getOrCreateResourceWatchers under the write lock: the entry is read again,
\* and created only if it is still absent.
createGroup(w, g) ==
    /\ pc[w] = "create"
    /\ LET r == Head(todo[w]) IN
          \/ /\ registry[r] = NoGroup
             /\ NewGroup(r, g)
          \/ /\ registry[r] = g
             /\ UNCHANGED registryVars
    /\ group' = [group EXCEPT ![w] = g]
    /\ pc' = [pc EXCEPT ![w] = "check"]
    /\ UNCHANGED <<notifierVars, inbox, todo, watched, leaving, done>>

\* Mutant: watchedResources is never filled.
RegisteredUnrecorded(w) ==
    /\ todo' = [todo EXCEPT ![w] = Tail(@)]
    /\ pc' = [pc EXCEPT ![w] = After(Tail(todo[w]))]
    /\ UNCHANGED watched

\* watcher.watch returns: the resource is recorded and the next one begins.
Registered(w) ==
    /\ watched' = [watched EXCEPT ![w] = @ \cup {Head(todo[w])}]
    /\ todo' = [todo EXCEPT ![w] = Tail(@)]
    /\ pc' = [pc EXCEPT ![w] = After(Tail(todo[w]))]

\* resourceWatchers.watch under the read lock.
checkMember(w) ==
    /\ pc[w] = "check"
    /\ IF w \in members[group[w]]
       THEN Registered(w)
       ELSE pc' = [pc EXCEPT ![w] = "insert"] /\ UNCHANGED <<watched, todo>>
    /\ UNCHANGED <<registryVars, notifierVars, inbox, leaving, group, done>>

\* resourceWatchers.watch under the write lock.
insertMember(w) ==
    /\ pc[w] = "insert"
    /\ members' = [members EXCEPT ![group[w]] = @ \cup {w}]
    /\ Registered(w)
    /\ UNCHANGED <<registry, allocated, notifierVars, inbox,
                   leaving, group, done>>

-----------------------------------------------------------------------------
(* Release: stopAllWatches, then close(done).                              *)

\* The watch's context is done: its goroutine runs the release function.
releaseWatch(w) ==
    /\ pc[w] = "serve"
    /\ pc' = [pc EXCEPT ![w] = "stop"]
    /\ leaving' = [leaving EXCEPT ![w] = watched[w]]
    /\ UNCHANGED <<registryVars, notifierVars, inbox,
                   todo, watched, group, done>>

\* stopAllWatches: getResourceWatchers for the next resource of the range.
stopLookup(w, r) ==
    /\ pc[w] = "stop"
    /\ r \in leaving[w]
    /\ group' = [group EXCEPT ![w] = registry[r]]
    /\ leaving' = [leaving EXCEPT ![w] = @ \ {r}]
    /\ pc' = [pc EXCEPT ![w] = IF registry[r] = NoGroup THEN "stop" ELSE "stopcheck"]
    /\ UNCHANGED <<registryVars, notifierVars, inbox, todo, watched, done>>

\* resourceWatchers.stopWatch under the read lock.
stopCheck(w) ==
    /\ pc[w] = "stopcheck"
    /\ pc' = [pc EXCEPT ![w] = IF w \in members[group[w]] THEN "delete" ELSE "stop"]
    /\ UNCHANGED <<registryVars, notifierVars, inbox,
                   todo, watched, leaving, group, done>>

\* resourceWatchers.stopWatch under the write lock.
deleteMember(w) ==
    /\ pc[w] = "delete"
    /\ members' = [members EXCEPT ![group[w]] = @ \ {w}]
    /\ pc' = [pc EXCEPT ![w] = "stop"]
    /\ UNCHANGED <<registry, allocated, notifierVars, inbox,
                   todo, watched, leaving, group, done>>

closeDone(w) ==
    /\ pc[w] = "stop"
    /\ leaving[w] = {}
    /\ done' = done \cup {w}
    /\ pc' = [pc EXCEPT ![w] = "closed"]
    /\ UNCHANGED <<registryVars, notifierVars, inbox,
                   todo, watched, leaving, group>>

-----------------------------------------------------------------------------
(* Notification: watches.notifyChanged and the goroutines it starts.       *)

\* Mutant: whether a group was found is not looked at.
notifyLookupUnchecked(n, r) ==
    /\ calls < MaxNotify
    /\ \A f \in found : f[1] # n
    /\ calls' = calls + 1
    /\ found' = found \cup {<<n, r, registry[r]>>}
    /\ UNCHANGED <<registryVars, watcherVars, inbox, ctxDone>>

\* getResourceWatchers; a resource nobody ever watched ends the call here.
notifyLookup(n, r) ==
    /\ calls < MaxNotify
    /\ \A f \in found : f[1] # n
    /\ calls' = calls + 1
    /\ found' = IF registry[r] = NoGroup
                THEN found
                ELSE found \cup {<<n, r, registry[r]>>}
    /\ UNCHANGED <<registryVars, watcherVars, inbox, ctxDone>>

\* Mutant: a member that is still being notified of r is skipped.
notifyIdleMembers(n, r, g) ==
    /\ <<n, r, g>> \in found
    /\ inbox' = [w \in Watchers |->
                    IF w \in members[g] /\ inbox[w][r] = 0
                    THEN [inbox[w] EXCEPT ![r] = @ + 1]
                    ELSE inbox[w]]
    /\ found' = found \ {<<n, r, g>>}
    /\ UNCHANGED <<registryVars, watcherVars, calls, ctxDone>>

\* resourceWatchers.notifyChanged: one goroutine for each member, in one
\* critical section.
notifyMembers(n, r, g) ==
    /\ <<n, r, g>> \in found
    /\ inbox' = [w \in Watchers |->
                    IF w \in members[g]
                    THEN [inbox[w] EXCEPT ![r] = @ + 1]
                    ELSE inbox[w]]
    /\ found' = found \ {<<n, r, g>>}
    /\ UNCHANGED <<registryVars, watcherVars, calls, ctxDone>>

\* A goroutine in watcher.notifyChanged ends.
Leave(w, r) ==
    /\ inbox[w][r] > 0
    /\ inbox' = [inbox EXCEPT ![w][r] = @ - 1]
    /\ UNCHANGED <<registryVars, watcherVars, notifierVars>>

\* The changes channel is unbuffered: the send meets the watch's receive.
receive(w, r) ==
    /\ pc[w] = "serve"
    /\ Leave(w, r)

\* Mutant: the select has no w.done case.
giveUpOnCtx(w, r) ==
    /\ ctxDone
    /\ Leave(w, r)

\* The select of watcher.notifyChanged takes w.done or ctx.Done().
giveUp(w, r) ==
    /\ w \in done \/ ctxDone
    /\ Leave(w, r)

\* The server's context is cancelled.
cancelCtx ==
    /\ ~ctxDone
    /\ ctxDone' = TRUE
    /\ UNCHANGED <<registryVars, watcherVars, inbox, found, calls>>

-----------------------------------------------------------------------------
RegisterStep(w) ==
    \/ lookupGroup(w)
    \/ \E g \in Groups : createGroup(w, g)
    \/ checkMember(w)
    \/ insertMember(w)

ReleaseStep(w) ==
    \/ \E r \in Refs : stopLookup(w, r)
    \/ stopCheck(w)
    \/ deleteMember(w)
    \/ closeDone(w)

Next ==
    \/ \E w \in Watchers :
          \/ \E names \in NameLists : buildWatch(w, names)
          \/ RegisterStep(w)
          \/ releaseWatch(w)
          \/ ReleaseStep(w)
          \/ \E r \in Refs : receive(w, r) \/ giveUp(w, r)
    \/ \E n \in Notifiers, r \in Refs :
          \/ notifyLookup(n, r)
          \/ \E g \in Groups : notifyMembers(n, r, g)
    \/ cancelCtx

Spec == Init /\ [][Next]_vars

\* Goroutines that can run do run.  When a watch is built or cancelled, when
\* a change is notified and when the server stops is up to the environment.
Fairness ==
    /\ \A w \in Watchers :
          /\ WF_vars(RegisterStep(w))
          /\ WF_vars(ReleaseStep(w))
          /\ \A r \in Refs : WF_vars(receive(w, r)) /\ WF_vars(giveUp(w, r))
    /\ \A n \in Notifiers :
          WF_vars(\E r \in Refs, g \in Groups : notifyMembers(n, r, g))

FairSpec == Spec /\ Fairness

-----------------------------------------------------------------------------
(* Properties.                                                             *)

\* The resources w has subscribed to and not yet given up: the ones recorded
\* by watcher.watch, until stopAllWatches is through with them.
Subscribed(w, r) ==
    \/ pc[w] \in Registering \cup {"serve"} /\ r \in watched[w]
    \/ pc[w] \in Releasing /\ r \in leaving[w]

\* A watcher whose watch(ref) has returned is in the group the notifier of
\* ref is about to walk, whatever creations, registrations and releases took
\* place between the notifier's two critical sections: no update published
\* after a subscription misses its subscriber.
NoMissedSubscriber ==
    \A f \in found : \A w \in Watchers :
        Subscribed(w, f[2]) => w \in members[f[3]]

\* The release function leaves no trace of its watcher: once done is closed
\* no group, reachable from the registry or only held by a goroutine, still
\* lists it.
NoDeadMember == \A g \in Groups : members[g] \cap done = {}

\* No goroutine leaks: every goroutine that notifyChanged started for a
\* watcher ends, by a receive, by the watcher's done or by the context,
\* whenever the watch is released.
NotificationsDrain ==
    \A w \in Watchers, r \in Refs : inbox[w][r] > 0 ~> inbox[w][r] = 0

\* The subscriptions: who is listed in the groups that the registry reaches.
listed ==
    {p \in Watchers \X Refs :
        registry[p[2]] # NoGroup /\ p[1] \in members[registry[p[2]]]}

Abstract == INSTANCE Subscriptions WITH
    subs <- listed, closed <- done, stopped <- ctxDone

\* The registry keeps the promise of Subscriptions: seen through the groups
\* that the registry reaches, locks and pointers are invisible, publications
\* reach the subscribers of the moment and nobody else, and a watcher closes
\* only when its last subscription is gone.
ImplementsSubscriptions == Abstract!Spec
=============================================================================
