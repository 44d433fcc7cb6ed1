---------------------------- MODULE WatchesProofs ----------------------------
(***************************************************************************)
(* Proofs about the registry of watches, for any number of watchers,       *)
(* notifiers, resources and groups and any requests.                       *)
(***************************************************************************)
EXTENDS Watches, SequenceTheorems, TLAPS

\* A group in the registry was created, and belongs to one resource.
RegistryInjective ==
    \A r \in Refs : registry[r] # NoGroup =>
        /\ registry[r] \in allocated
        /\ \A q \in Refs : registry[q] = registry[r] => q = r

\* What a watcher is at in each phase: between two critical sections it holds
\* the group that the registry has for the resource it registers, or for one
\* that stopAllWatches has left behind.
PhaseOK ==
    \A w \in Watchers :
        /\ pc[w] = "new" => watched[w] = {}
        /\ pc[w] \in Registering => todo[w] # <<>>
        /\ pc[w] \in {"check", "insert"} =>
              group[w] # NoGroup /\ group[w] = registry[Head(todo[w])]
        /\ pc[w] \in {"stopcheck", "delete"} =>
              \E r \in Refs \ leaving[w] : group[w] # NoGroup /\ group[w] = registry[r]
        /\ w \in done => pc[w] = "closed"

\* A notifier between its critical sections holds the group of the registry.
FoundCurrent == \A f \in found : f[3] = registry[f[2]]

\* Whoever subscribed is a member of the group the registry has ...
SubscribedIsMember ==
    \A w \in Watchers, r \in Refs : Subscribed(w, r) =>
        registry[r] # NoGroup /\ w \in members[registry[r]]

\* ... a member has subscribed, or is about to leave ...
MemberIsSubscribed ==
    \A w \in Watchers, r \in Refs :
        registry[r] # NoGroup /\ w \in members[registry[r]] =>
            \/ pc[w] \in {"stopcheck", "delete"} /\ group[w] = registry[r]
            \/ Subscribed(w, r)

\* ... and a group that the registry does not have is empty.
GroupsOwned ==
    \A g \in Groups :
        /\ g \in allocated => \E r \in Refs : registry[r] = g
        /\ g \notin allocated => members[g] = {}

IInv == /\ TypeOK
        /\ RegistryInjective
        /\ PhaseOK
        /\ FoundCurrent
        /\ SubscribedIsMember
        /\ MemberIsSubscribed
        /\ GroupsOwned

-----------------------------------------------------------------------------
(* Each step preserves the invariant.                                      *)

\* A watcher that registers has a next resource, and the rest of its list is a
\* list of resources again (watcher.watch goes through the request in order).
LEMMA NextToRegister ==
    ASSUME TypeOK, PhaseOK, NEW w \in Watchers, pc[w] \in Registering
    PROVE  /\ Head(todo[w]) \in Refs
           /\ Tail(todo[w]) \in Seq(Refs)
           /\ pc[w] \in {"check", "insert"} => group[w] \in Groups
<1>1. todo[w] \in Seq(Refs) /\ todo[w] # <<>>
  BY Zenon DEF TypeOK, PhaseOK
<1>2. Head(todo[w]) \in Refs /\ Tail(todo[w]) \in Seq(Refs)
  BY <1>1, HeadTailProperties, Zenon
<1>. QED BY <1>2 DEF TypeOK, PhaseOK

\* buildWatch starts a watcher without any subscription.
LEMMA Step_buildWatch ==
    ASSUME IInv, NEW w \in Watchers, NEW names \in NameLists, buildWatch(w, names)
    PROVE  IInv'
<1>. USE ConstantsAssumption DEF IInv, buildWatch, After, registryVars, notifierVars,
        Phases, Registering, Releasing
<1>1. TypeOK'
  BY Zenon DEF TypeOK
<1>2. RegistryInjective'
  BY Zenon DEF TypeOK, RegistryInjective
<1>3. PhaseOK'
  BY DEF TypeOK, PhaseOK, RegistryInjective
<1>4. FoundCurrent'
  BY Zenon DEF TypeOK, FoundCurrent
<1>5. SubscribedIsMember'
  BY DEF TypeOK, PhaseOK, SubscribedIsMember, Subscribed, RegistryInjective
<1>6. MemberIsSubscribed'
  BY DEF TypeOK, PhaseOK, RegistryInjective, SubscribedIsMember, MemberIsSubscribed, Subscribed
<1>7. GroupsOwned'
  BY Zenon DEF TypeOK, GroupsOwned
<1>. QED BY <1>1, <1>2, <1>3, <1>4, <1>5, <1>6, <1>7, Zenon

\* The read lock finds the group of the resource, or none.
LEMMA Step_lookupGroup ==
    ASSUME IInv, NEW w \in Watchers, lookupGroup(w)
    PROVE  IInv'
<1>. USE DEF IInv, lookupGroup, registryVars, notifierVars, Phases, Registering, Releasing
<1>1. TypeOK'
  BY NextToRegister, Zenon DEF TypeOK
<1>2. RegistryInjective'
  BY Zenon DEF TypeOK, RegistryInjective
<1>3. PhaseOK'
  BY DEF TypeOK, PhaseOK, RegistryInjective
<1>4. FoundCurrent'
  BY Zenon DEF TypeOK, FoundCurrent
<1>5. SubscribedIsMember'
  BY DEF TypeOK, PhaseOK, SubscribedIsMember, Subscribed, RegistryInjective
<1>6. MemberIsSubscribed'
  BY DEF TypeOK, PhaseOK, RegistryInjective, SubscribedIsMember, MemberIsSubscribed, Subscribed
<1>7. GroupsOwned'
  BY Zenon DEF TypeOK, GroupsOwned
<1>. QED BY <1>1, <1>2, <1>3, <1>4, <1>5, <1>6, <1>7, Zenon

\* Under the write lock the group is the one of the registry: found again, or
\* new and empty, so that no member of another group is lost.
LEMMA Step_createGroup ==
    ASSUME IInv, NEW w \in Watchers, NEW g \in Groups, createGroup(w, g)
    PROVE  IInv'
<1>. DEFINE r == Head(todo[w])
<1>. USE ConstantsAssumption DEF IInv, createGroup, Phases, Registering, Releasing
<1>0. r \in Refs
  BY NextToRegister, Zenon
<1>1. CASE registry[r] = NoGroup
  <2>1. NewGroup(r, g) /\ UNCHANGED <<found, calls, ctxDone, inbox, todo, watched, leaving, done>>
    BY <1>1, Zenon DEF notifierVars
  <2>2. TypeOK'
    BY <1>0, <1>1, <2>1, Zenon DEF NewGroup, TypeOK
  <2>3. RegistryInjective'
    BY <1>0, <1>1, <2>1 DEF NewGroup, TypeOK, RegistryInjective
  <2>4. PhaseOK'
    BY <1>0, <1>1, <2>1 DEF NewGroup, TypeOK, PhaseOK, RegistryInjective
  <2>5. FoundCurrent'
    BY <1>0, <1>1, <2>1 DEF NewGroup, TypeOK, FoundCurrent, RegistryInjective
  <2>6. SubscribedIsMember'
    BY <1>0, <1>1, <2>1 DEF NewGroup, TypeOK, PhaseOK, SubscribedIsMember, Subscribed, RegistryInjective, GroupsOwned
  <2>7. MemberIsSubscribed'
    BY <1>0, <1>1, <2>1 DEF NewGroup, TypeOK, PhaseOK, RegistryInjective, SubscribedIsMember, MemberIsSubscribed, Subscribed, GroupsOwned
  <2>8. GroupsOwned'
    BY <1>0, <1>1, <2>1 DEF NewGroup, TypeOK, GroupsOwned
  <2>. QED BY <2>2, <2>3, <2>4, <2>5, <2>6, <2>7, <2>8, Zenon
<1>2. CASE registry[r] = g
  <2>1. UNCHANGED <<registry, members, allocated, found, calls, ctxDone, inbox, todo, watched, leaving, done>>
    BY <1>2, Zenon DEF registryVars, notifierVars, NewGroup
  <2>2. TypeOK'
    BY <1>0, <1>2, <2>1, Zenon DEF TypeOK
  <2>3. RegistryInjective'
    BY <1>0, <1>2, <2>1, Zenon DEF TypeOK, RegistryInjective
  <2>4. PhaseOK'
    BY <1>0, <1>2, <2>1 DEF TypeOK, PhaseOK, RegistryInjective
  <2>5. FoundCurrent'
    BY <1>0, <1>2, <2>1, Zenon DEF TypeOK, FoundCurrent, RegistryInjective
  <2>6. SubscribedIsMember'
    BY <1>0, <1>2, <2>1 DEF TypeOK, PhaseOK, SubscribedIsMember, Subscribed, RegistryInjective, GroupsOwned
  <2>7. MemberIsSubscribed'
    BY <1>0, <1>2, <2>1 DEF TypeOK, PhaseOK, RegistryInjective, SubscribedIsMember, MemberIsSubscribed, Subscribed, GroupsOwned
  <2>8. GroupsOwned'
    BY <1>0, <1>2, <2>1, Zenon DEF TypeOK, GroupsOwned
  <2>. QED BY <2>2, <2>3, <2>4, <2>5, <2>6, <2>7, <2>8, Zenon
<1>. QED BY <1>1, <1>2, Zenon

\* A watcher that is a member already has subscribed.
LEMMA Step_checkMember ==
    ASSUME IInv, NEW w \in Watchers, checkMember(w)
    PROVE  IInv'
<1>. USE DEF IInv, Phases, Registering, Releasing
<1>0. /\ pc[w] = "check"
      /\ Head(todo[w]) \in Refs
      /\ Tail(todo[w]) \in Seq(Refs)
      /\ group[w] \in Groups
      /\ UNCHANGED <<registry, members, allocated, found, calls, ctxDone, inbox,
                     leaving, group, done>>
  BY NextToRegister, Zenon DEF checkMember, registryVars, notifierVars
<1>1. CASE w \in members[group[w]]
  <2>1. Registered(w)
    BY <1>1, Zenon DEF checkMember
  <2>2. TypeOK'
    BY <1>0, <1>1, <2>1, Zenon DEF Registered, After, TypeOK
  <2>3. RegistryInjective'
    BY <1>0, <1>1, <2>1, Zenon DEF Registered, After, TypeOK, RegistryInjective
  <2>4. PhaseOK'
    <3>1. ASSUME NEW u \in Watchers, u # w
          PROVE  pc'[u] = pc[u] /\ todo'[u] = todo[u] /\ watched'[u] = watched[u]
      BY <2>1, <3>1, Zenon DEF Registered, TypeOK
    <3>2. /\ pc'[w] \in {"serve", "lookup"}
          /\ pc'[w] = "lookup" => todo'[w] # <<>>
          /\ w \notin done
      BY <1>0, <2>1, Zenon DEF Registered, After, TypeOK, PhaseOK
    <3>. DEFINE Phase(u) ==
                  /\ pc[u] = "new" => watched[u] = {}
                  /\ pc[u] \in Registering => todo[u] # <<>>
                  /\ pc[u] \in {"check", "insert"} =>
                        group[u] # NoGroup /\ group[u] = registry[Head(todo[u])]
                  /\ pc[u] \in {"stopcheck", "delete"} =>
                        \E r \in Refs \ leaving[u] : group[u] # NoGroup /\ group[u] = registry[r]
                  /\ u \in done => pc[u] = "closed"
    <3>3. ASSUME NEW u \in Watchers, u # w PROVE Phase(u)'
      BY <1>0, <3>1, <3>3, Zenon DEF PhaseOK
    <3>4. Phase(w)'
      BY <1>0, <3>2
    <3>. QED BY <3>3, <3>4, Zenon DEF PhaseOK
  <2>5. FoundCurrent'
    BY <1>0, <1>1, <2>1, Zenon DEF Registered, After, TypeOK, FoundCurrent
  <2>6. SubscribedIsMember'
    BY <1>0, <1>1, <2>1 DEF Registered, After, TypeOK, PhaseOK, SubscribedIsMember, Subscribed
  <2>7. MemberIsSubscribed'
    <3>1. ASSUME NEW u \in Watchers, u # w, NEW r \in Refs PROVE Subscribed(u, r)' <=> Subscribed(u, r)
      BY <1>0, <2>1, <3>1, Zenon DEF Registered, Subscribed, TypeOK
    <3>2. ASSUME NEW r \in Refs, Subscribed(w, r) PROVE Subscribed(w, r)'
      <4>1. r \in watched[w]
        BY <1>0, <3>2, Zenon DEF Subscribed
      <4>2. pc'[w] \in {"serve", "lookup"} /\ watched[w] \subseteq watched'[w]
        BY <2>1, Zenon DEF Registered, After, TypeOK
      <4>. QED BY <4>1, <4>2, Zenon DEF Subscribed
    <3>3. ASSUME NEW u \in Watchers, u # w PROVE pc'[u] = pc[u]
      BY <2>1, <3>3, Zenon DEF Registered, TypeOK
    <3>. QED BY <1>0, <3>1, <3>2, <3>3, Zenon DEF MemberIsSubscribed
  <2>8. GroupsOwned'
    BY <1>0, <1>1, <2>1, Zenon DEF Registered, After, TypeOK, GroupsOwned
  <2>. QED BY <2>2, <2>3, <2>4, <2>5, <2>6, <2>7, <2>8, Zenon
<1>2. CASE w \notin members[group[w]]
  <2>1. pc' = [pc EXCEPT ![w] = "insert"] /\ UNCHANGED <<watched, todo>>
    BY <1>2, Zenon DEF checkMember
  <2>2. TypeOK'
    BY <1>0, <1>2, <2>1, Zenon DEF TypeOK
  <2>3. RegistryInjective'
    BY <1>0, <1>2, <2>1, Zenon DEF TypeOK, RegistryInjective
  <2>4. PhaseOK'
    BY <1>0, <1>2, <2>1 DEF TypeOK, PhaseOK, RegistryInjective
  <2>5. FoundCurrent'
    BY <1>0, <1>2, <2>1, Zenon DEF TypeOK, FoundCurrent
  <2>6. SubscribedIsMember'
    BY <1>0, <1>2, <2>1 DEF TypeOK, PhaseOK, SubscribedIsMember, Subscribed
  <2>7. MemberIsSubscribed'
    BY <1>0, <1>2, <2>1 DEF TypeOK, PhaseOK, RegistryInjective, SubscribedIsMember, MemberIsSubscribed, Subscribed
  <2>8. GroupsOwned'
    BY <1>0, <1>2, <2>1, Zenon DEF TypeOK, GroupsOwned
  <2>. QED BY <2>2, <2>3, <2>4, <2>5, <2>6, <2>7, <2>8, Zenon
<1>. QED BY <1>1, <1>2, Zenon

\* The watcher becomes a member of the group the registry has.
LEMMA Step_insertMember ==
    ASSUME IInv, NEW w \in Watchers, insertMember(w)
    PROVE  IInv'
<1>. USE DEF IInv, insertMember, Registered, After, notifierVars, Phases, Registering, Releasing
<1>1. TypeOK'
  BY NextToRegister, SMTT(30) DEF TypeOK
<1>2. RegistryInjective'
  BY NextToRegister, Zenon DEF TypeOK, RegistryInjective
<1>3. PhaseOK'
  BY NextToRegister, SMTT(30) DEF TypeOK, PhaseOK, RegistryInjective
<1>4. FoundCurrent'
  BY NextToRegister, Zenon DEF TypeOK, FoundCurrent
<1>5. SubscribedIsMember'
  BY NextToRegister DEF TypeOK, PhaseOK, SubscribedIsMember, Subscribed, RegistryInjective
<1>6. MemberIsSubscribed'
  BY NextToRegister DEF TypeOK, PhaseOK, RegistryInjective, SubscribedIsMember, MemberIsSubscribed, Subscribed
<1>7. GroupsOwned'
  BY NextToRegister DEF TypeOK, GroupsOwned, PhaseOK, RegistryInjective
<1>. QED BY <1>1, <1>2, <1>3, <1>4, <1>5, <1>6, <1>7, Zenon

\* Release begins with everything that was subscribed.
LEMMA Step_releaseWatch ==
    ASSUME IInv, NEW w \in Watchers, releaseWatch(w)
    PROVE  IInv'
<1>. USE DEF IInv, releaseWatch, registryVars, notifierVars, Phases, Registering, Releasing
<1>1. TypeOK'
  BY Zenon DEF TypeOK
<1>2. RegistryInjective'
  BY Zenon DEF TypeOK, RegistryInjective
<1>3. PhaseOK'
  BY Zenon DEF TypeOK, PhaseOK, RegistryInjective
<1>4. FoundCurrent'
  BY Zenon DEF TypeOK, FoundCurrent
<1>5. SubscribedIsMember'
  BY DEF TypeOK, PhaseOK, SubscribedIsMember, Subscribed, RegistryInjective
<1>6. MemberIsSubscribed'
  BY DEF TypeOK, PhaseOK, RegistryInjective, SubscribedIsMember, MemberIsSubscribed, Subscribed
<1>7. GroupsOwned'
  BY Zenon DEF TypeOK, GroupsOwned
<1>. QED BY <1>1, <1>2, <1>3, <1>4, <1>5, <1>6, <1>7, Zenon

\* The next resource to leave: its group is the one of the registry.
LEMMA Step_stopLookup ==
    ASSUME IInv, NEW w \in Watchers, NEW r \in Refs, stopLookup(w, r)
    PROVE  IInv'
<1>. USE DEF IInv, stopLookup, registryVars, notifierVars, Phases, Registering, Releasing
<1>1. TypeOK'
  BY Zenon DEF TypeOK
<1>2. RegistryInjective'
  BY Zenon DEF TypeOK, RegistryInjective
<1>3. PhaseOK'
  BY DEF TypeOK, PhaseOK, RegistryInjective
<1>4. FoundCurrent'
  BY Zenon DEF TypeOK, FoundCurrent
<1>5. SubscribedIsMember'
  BY DEF TypeOK, PhaseOK, SubscribedIsMember, Subscribed, RegistryInjective
<1>6. MemberIsSubscribed'
  BY DEF TypeOK, PhaseOK, RegistryInjective, SubscribedIsMember, MemberIsSubscribed, Subscribed
<1>7. GroupsOwned'
  BY Zenon DEF TypeOK, GroupsOwned
<1>. QED BY <1>1, <1>2, <1>3, <1>4, <1>5, <1>6, <1>7, Zenon

\* A watcher that is no member has nothing to delete.
LEMMA Step_stopCheck ==
    ASSUME IInv, NEW w \in Watchers, stopCheck(w)
    PROVE  IInv'
<1>. USE DEF IInv, stopCheck, registryVars, notifierVars, Phases, Registering, Releasing
<1>1. TypeOK'
  BY Zenon DEF TypeOK
<1>2. RegistryInjective'
  BY Zenon DEF TypeOK, RegistryInjective
<1>3. PhaseOK'
  BY DEF TypeOK, PhaseOK, RegistryInjective
<1>4. FoundCurrent'
  BY Zenon DEF TypeOK, FoundCurrent
<1>5. SubscribedIsMember'
  BY DEF TypeOK, PhaseOK, SubscribedIsMember, Subscribed, RegistryInjective
<1>6. MemberIsSubscribed'
  BY DEF TypeOK, PhaseOK, RegistryInjective, SubscribedIsMember, MemberIsSubscribed, Subscribed
<1>7. GroupsOwned'
  BY Zenon DEF TypeOK, GroupsOwned
<1>. QED BY <1>1, <1>2, <1>3, <1>4, <1>5, <1>6, <1>7, Zenon

\* Deleting the member touches no other subscription of the watcher: groups
\* belong to one resource.
LEMMA Step_deleteMember ==
    ASSUME IInv, NEW w \in Watchers, deleteMember(w)
    PROVE  IInv'
<1>. USE DEF IInv, deleteMember, notifierVars, Phases, Registering, Releasing
<1>1. TypeOK'
  BY Zenon DEF TypeOK
<1>2. RegistryInjective'
  BY Zenon DEF TypeOK, RegistryInjective
<1>3. PhaseOK'
  BY DEF TypeOK, PhaseOK, RegistryInjective
<1>4. FoundCurrent'
  BY Zenon DEF TypeOK, FoundCurrent
<1>5. SubscribedIsMember'
  BY DEF TypeOK, PhaseOK, SubscribedIsMember, Subscribed, RegistryInjective
<1>6. MemberIsSubscribed'
  BY DEF TypeOK, PhaseOK, RegistryInjective, SubscribedIsMember, MemberIsSubscribed, Subscribed
<1>7. GroupsOwned'
  BY Zenon DEF TypeOK, GroupsOwned
<1>. QED BY <1>1, <1>2, <1>3, <1>4, <1>5, <1>6, <1>7, Zenon

\* done is closed when nothing is left to leave.
LEMMA Step_closeDone ==
    ASSUME IInv, NEW w \in Watchers, closeDone(w)
    PROVE  IInv'
<1>. USE DEF IInv, closeDone, registryVars, notifierVars, Phases, Registering, Releasing
<1>1. TypeOK'
  BY Zenon DEF TypeOK
<1>2. RegistryInjective'
  BY Zenon DEF TypeOK, RegistryInjective
<1>3. PhaseOK'
  BY DEF TypeOK, PhaseOK, RegistryInjective
<1>4. FoundCurrent'
  BY Zenon DEF TypeOK, FoundCurrent
<1>5. SubscribedIsMember'
  BY DEF TypeOK, PhaseOK, SubscribedIsMember, Subscribed, RegistryInjective
<1>6. MemberIsSubscribed'
  BY DEF TypeOK, PhaseOK, RegistryInjective, SubscribedIsMember, MemberIsSubscribed, Subscribed
<1>7. GroupsOwned'
  BY Zenon DEF TypeOK, GroupsOwned
<1>. QED BY <1>1, <1>2, <1>3, <1>4, <1>5, <1>6, <1>7, Zenon

\* A notifier reads the group of the registry.
LEMMA Step_notifyLookup ==
    ASSUME IInv, NEW n \in Notifiers, NEW r \in Refs, notifyLookup(n, r)
    PROVE  IInv'
<1>. USE DEF IInv, notifyLookup, registryVars, watcherVars
<1>1. TypeOK'
  BY DEF TypeOK
<1>2. RegistryInjective'
  BY Zenon DEF TypeOK, RegistryInjective
<1>3. PhaseOK'
  BY Zenon DEF TypeOK, PhaseOK, RegistryInjective
<1>4. FoundCurrent'
  BY DEF TypeOK, FoundCurrent
<1>5. SubscribedIsMember'
  BY DEF TypeOK, PhaseOK, SubscribedIsMember, Subscribed, RegistryInjective
<1>6. MemberIsSubscribed'
  BY DEF TypeOK, PhaseOK, RegistryInjective, SubscribedIsMember, MemberIsSubscribed, Subscribed
<1>7. GroupsOwned'
  BY Zenon DEF TypeOK, GroupsOwned
<1>. QED BY <1>1, <1>2, <1>3, <1>4, <1>5, <1>6, <1>7, Zenon

\* Starting goroutines leaves the registry alone.
LEMMA Step_notifyMembers ==
    ASSUME IInv, NEW n \in Notifiers, NEW r \in Refs, NEW g \in Groups, notifyMembers(n, r, g)
    PROVE  IInv'
<1>. USE DEF IInv, notifyMembers, registryVars, watcherVars
<1>1. TypeOK'
  BY DEF TypeOK
<1>2. RegistryInjective'
  BY Zenon DEF TypeOK, RegistryInjective
<1>3. PhaseOK'
  BY Zenon DEF TypeOK, PhaseOK, RegistryInjective
<1>4. FoundCurrent'
  BY Zenon DEF TypeOK, FoundCurrent
<1>5. SubscribedIsMember'
  BY DEF TypeOK, PhaseOK, SubscribedIsMember, Subscribed, RegistryInjective
<1>6. MemberIsSubscribed'
  BY DEF TypeOK, PhaseOK, RegistryInjective, SubscribedIsMember, MemberIsSubscribed, Subscribed
<1>7. GroupsOwned'
  BY Zenon DEF TypeOK, GroupsOwned
<1>. QED BY <1>1, <1>2, <1>3, <1>4, <1>5, <1>6, <1>7, Zenon

\* So does the end of one of them.
LEMMA Step_Leave ==
    ASSUME IInv, NEW w \in Watchers, NEW r \in Refs, Leave(w, r)
    PROVE  IInv'
<1>. USE DEF IInv, Leave, registryVars, watcherVars, notifierVars
<1>1. TypeOK'
  BY DEF TypeOK
<1>2. RegistryInjective'
  BY Zenon DEF TypeOK, RegistryInjective
<1>3. PhaseOK'
  BY Zenon DEF TypeOK, PhaseOK, RegistryInjective
<1>4. FoundCurrent'
  BY Zenon DEF TypeOK, FoundCurrent
<1>5. SubscribedIsMember'
  BY DEF TypeOK, PhaseOK, SubscribedIsMember, Subscribed, RegistryInjective
<1>6. MemberIsSubscribed'
  BY DEF TypeOK, PhaseOK, RegistryInjective, SubscribedIsMember, MemberIsSubscribed, Subscribed
<1>7. GroupsOwned'
  BY Zenon DEF TypeOK, GroupsOwned
<1>. QED BY <1>1, <1>2, <1>3, <1>4, <1>5, <1>6, <1>7, Zenon

-----------------------------------------------------------------------------
(* Theorems.                                                               *)

\* The invariant holds of every state the registry can reach.
THEOREM Invariance == Spec => []IInv
<1>1. Init => IInv
  <2>. SUFFICES ASSUME Init PROVE IInv
    OBVIOUS
  <2>1. TypeOK
    <3>1. <<>> \in Seq(Refs)
      OBVIOUS
    <3>2. todo \in [Watchers -> Seq(Refs)]
      BY <3>1, Zenon DEF Init
    <3>3. pc \in [Watchers -> Phases]
      BY Zenon DEF Init, Phases
    <3>. QED BY <3>2, <3>3, Zenon DEF Init, TypeOK
  <2>2. RegistryInjective /\ PhaseOK /\ GroupsOwned
    BY Zenon DEF Init, RegistryInjective, PhaseOK, GroupsOwned, Registering
  <2>3. FoundCurrent /\ SubscribedIsMember /\ MemberIsSubscribed
    BY Zenon DEF Init, FoundCurrent, SubscribedIsMember, MemberIsSubscribed, Subscribed,
           Registering, Releasing
  <2>. QED BY <2>1, <2>2, <2>3, Zenon DEF IInv
<1>2. IInv /\ [Next]_vars => IInv'
  <2>. SUFFICES ASSUME IInv, [Next]_vars PROVE IInv'
    OBVIOUS
  <2>1. CASE \E w \in Watchers, names \in NameLists : buildWatch(w, names)
    BY <2>1, Step_buildWatch, Zenon
  <2>2. CASE \E w \in Watchers : RegisterStep(w)
    BY <2>2, Step_lookupGroup, Step_createGroup, Step_checkMember, Step_insertMember, Zenon
    DEF RegisterStep
  <2>3. CASE \E w \in Watchers : releaseWatch(w)
    BY <2>3, Step_releaseWatch, Zenon
  <2>4. CASE \E w \in Watchers : ReleaseStep(w)
    BY <2>4, Step_stopLookup, Step_stopCheck, Step_deleteMember, Step_closeDone, Zenon
    DEF ReleaseStep
  <2>5. CASE \E w \in Watchers, r \in Refs : receive(w, r) \/ giveUp(w, r)
    BY <2>5, Step_Leave, Zenon DEF receive, giveUp
  <2>6. CASE \E n \in Notifiers, r \in Refs :
                notifyLookup(n, r) \/ \E g \in Groups : notifyMembers(n, r, g)
    BY <2>6, Step_notifyLookup, Step_notifyMembers, Zenon
  <2>7. CASE cancelCtx \/ UNCHANGED vars
    <3>1. UNCHANGED <<registryVars, watcherVars, inbox, found, calls>>
      BY <2>7, Zenon DEF cancelCtx, vars, notifierVars
    <3>2. TypeOK'
      BY <2>7, <3>1, Zenon
      DEF IInv, TypeOK, cancelCtx, vars, registryVars, watcherVars, notifierVars
    <3>3. RegistryInjective' /\ PhaseOK' /\ FoundCurrent' /\ GroupsOwned'
      BY <3>1
      DEF IInv, registryVars, watcherVars, RegistryInjective, PhaseOK, FoundCurrent,
          GroupsOwned
    <3>4. SubscribedIsMember' /\ MemberIsSubscribed'
      BY <3>1, Zenon
      DEF IInv, registryVars, watcherVars, SubscribedIsMember, MemberIsSubscribed,
          Subscribed
    <3>. QED BY <3>2, <3>3, <3>4, Zenon DEF IInv
  <2>. QED BY <2>1, <2>2, <2>3, <2>4, <2>5, <2>6, <2>7, Zenon DEF Next
<1>. QED BY <1>1, <1>2, PTL DEF Spec

\* The fields of the registry, its watchers and its notifiers keep their types.
THEOREM TypeCorrect == Spec => []TypeOK
BY Invariance, PTL DEF IInv

\* No notification misses a watcher that subscribed before the notifier walks
\* the group it looked up (watches.notifyChanged against watcher.watch).
THEOREM NotifiersMissNobody == Spec => []NoMissedSubscriber
<1>1. IInv => NoMissedSubscriber
  BY Zenon DEF IInv, TypeOK, FoundCurrent, SubscribedIsMember, NoMissedSubscriber
<1>. QED BY <1>1, Invariance, PTL

\* Once a watcher is released no group lists it (the function that buildWatch
\* returns).
THEOREM ReleaseIsComplete == Spec => []NoDeadMember
<1>1. IInv => NoDeadMember
  <2>. SUFFICES ASSUME IInv, NEW g \in Groups, NEW w \in members[g], w \in done
                PROVE  FALSE
    BY Zenon DEF NoDeadMember
  <2>1. w \in Watchers /\ pc[w] = "closed" /\ g \in allocated
    BY Zenon DEF IInv, TypeOK, PhaseOK, GroupsOwned
  <2>2. PICK r \in Refs : registry[r] = g
    BY <2>1, Zenon DEF IInv, GroupsOwned
  <2>3. ~Subscribed(w, r)
    BY <2>1, Zenon DEF Subscribed, Registering, Releasing
  <2>. QED BY <2>1, <2>2, <2>3, ConstantsAssumption, Zenon DEF IInv, MemberIsSubscribed
<1>. QED BY <1>1, Invariance, PTL

-----------------------------------------------------------------------------
(* The registry implements Subscriptions.                                  *)

\* A watcher is listed for a resource by the group of that resource only.
LEMMA Listed ==
    \A w \in Watchers, r \in Refs :
        <<w, r>> \in listed <=> registry[r] # NoGroup /\ w \in members[registry[r]]
BY Zenon DEF listed

\* What a step does not touch of the registry stays as listed.
LEMMA ListedSame ==
    ASSUME UNCHANGED registryVars
    PROVE  listed' = listed
BY Zenon DEF listed, registryVars

\* A new group lists nobody: createGroup does not change the subscriptions.
LEMMA ListedCreate ==
    ASSUME IInv, NEW w \in Watchers, NEW g \in Groups, createGroup(w, g)
    PROVE  listed' = listed
<1>1. CASE UNCHANGED registryVars
  BY <1>1, ListedSame, Zenon
<1>2. CASE registry[Head(todo[w])] = NoGroup /\ NewGroup(Head(todo[w]), g)
  <2>. DEFINE h == Head(todo[w])
  <2>1. h \in Refs
    BY NextToRegister, Zenon DEF IInv, createGroup, Registering
  <2>2. registry' = [registry EXCEPT ![h] = g] /\ members' = [members EXCEPT ![g] = {}]
    BY <1>2, Zenon DEF NewGroup
  <2>3. g \notin allocated /\ registry[h] = NoGroup
    BY <1>2, Zenon DEF NewGroup
  <2>. HIDE DEF h
  <2>4. ASSUME NEW q \in Refs, NEW v \in Watchers
        PROVE  (registry'[q] # NoGroup /\ v \in members'[registry'[q]])
                 <=> (registry[q] # NoGroup /\ v \in members[registry[q]])
    BY <2>1, <2>2, <2>3, ConstantsAssumption, Zenon DEF IInv, TypeOK, RegistryInjective
  <2>. QED BY <2>4, Zenon DEF listed
<1>. QED BY <1>1, <1>2, Zenon DEF createGroup

\* insertMember is the subscription to one resource.
LEMMA ListedInsert ==
    ASSUME IInv, NEW w \in Watchers, insertMember(w)
    PROVE  /\ Head(todo[w]) \in Refs
           /\ listed' = listed \cup {<<w, Head(todo[w])>>}
<1>. DEFINE h == Head(todo[w])
<1>1. h \in Refs /\ group[w] \in Groups
  BY NextToRegister, Zenon DEF IInv, insertMember, Registering
<1>2. group[w] = registry[h] /\ registry[h] # NoGroup
  BY Zenon DEF IInv, PhaseOK, insertMember
<1>3. registry' = registry /\ members' = [members EXCEPT ![registry[h]] = @ \cup {w}]
  BY <1>2, Zenon DEF insertMember
<1>. HIDE DEF h
<1>4. ASSUME NEW q \in Refs, NEW v \in Watchers
      PROVE  (registry'[q] # NoGroup /\ v \in members'[registry'[q]])
               <=> \/ registry[q] # NoGroup /\ v \in members[registry[q]]
                   \/ v = w /\ q = h
  BY <1>1, <1>2, <1>3, Zenon DEF IInv, TypeOK, RegistryInjective
<1>5. listed' = listed \cup {<<w, h>>}
  BY <1>1, <1>4 DEF listed
<1>. QED BY <1>1, <1>5, Zenon DEF h

\* deleteMember is the end of the subscription to one resource.
LEMMA ListedDelete ==
    ASSUME IInv, NEW w \in Watchers, deleteMember(w)
    PROVE  \E r \in Refs : listed' = listed \ {<<w, r>>}
<1>1. PICK r \in Refs : registry[r] # NoGroup /\ group[w] = registry[r]
  BY Zenon DEF IInv, PhaseOK, deleteMember
<1>2. registry' = registry /\ members' = [members EXCEPT ![registry[r]] = @ \ {w}]
  BY <1>1, Zenon DEF deleteMember
<1>3. ASSUME NEW q \in Refs, NEW v \in Watchers
      PROVE  (registry'[q] # NoGroup /\ v \in members'[registry'[q]])
               <=> /\ registry[q] # NoGroup /\ v \in members[registry[q]]
                   /\ ~(v = w /\ q = r)
  BY <1>1, <1>2, Zenon DEF IInv, TypeOK, RegistryInjective
<1>4. listed' = listed \ {<<w, r>>}
  BY <1>3 DEF listed
<1>. QED BY <1>4, Zenon

\* Every behaviour of the registry, seen through the groups that the registry
\* reaches, is one of Subscriptions.
THEOREM Refinement == Spec => ImplementsSubscriptions
<1>1. Init => Abstract!Init
  BY DEF Init, Abstract!Init, listed
<1>2. IInv /\ [Next]_vars => [Abstract!Next]_(Abstract!vars)
  <2>. SUFFICES ASSUME IInv, [Next]_vars
                PROVE  Abstract!Next \/ UNCHANGED <<listed, inbox, done, ctxDone>>
    BY Zenon DEF Abstract!vars
  <2>1. ASSUME NEW w \in Watchers, NEW names \in NameLists, buildWatch(w, names)
        PROVE  UNCHANGED <<listed, inbox, done, ctxDone>>
    BY <2>1, ListedSame, Zenon DEF buildWatch, registryVars, notifierVars
  <2>2. ASSUME NEW w \in Watchers,
               lookupGroup(w) \/ checkMember(w) \/ releaseWatch(w) \/ stopCheck(w)
        PROVE  UNCHANGED <<listed, inbox, done, ctxDone>>
    BY <2>2, ListedSame, Zenon
    DEF lookupGroup, checkMember, releaseWatch, stopCheck, registryVars, notifierVars
  <2>3. ASSUME NEW w \in Watchers, NEW r \in Refs, stopLookup(w, r)
        PROVE  UNCHANGED <<listed, inbox, done, ctxDone>>
    BY <2>3, ListedSame, Zenon DEF stopLookup, registryVars, notifierVars
  <2>4. ASSUME NEW w \in Watchers, NEW g \in Groups, createGroup(w, g)
        PROVE  UNCHANGED <<listed, inbox, done, ctxDone>>
    BY <2>4, ListedCreate, Zenon DEF createGroup, notifierVars
  <2>5. ASSUME NEW w \in Watchers, insertMember(w)
        PROVE  \E r \in Refs : Abstract!Subscribe(w, r)
    <3>1. w \notin done
      BY <2>5, Zenon DEF insertMember, IInv, PhaseOK
    <3>. QED BY <2>5, <3>1, ListedInsert, Zenon DEF insertMember, notifierVars, Abstract!Subscribe
  <2>6. ASSUME NEW w \in Watchers, deleteMember(w)
        PROVE  \E r \in Refs : Abstract!Unsubscribe(w, r)
    BY <2>6, ListedDelete, Zenon DEF deleteMember, notifierVars, Abstract!Unsubscribe
  <2>7. ASSUME NEW w \in Watchers, closeDone(w)
        PROVE  Abstract!Close(w)
    <3>1. \A r \in Refs : ~Subscribed(w, r) /\ pc[w] \notin {"stopcheck", "delete"}
      BY <2>7, Zenon DEF closeDone, Subscribed, Registering
    <3>2. \A r \in Refs : <<w, r>> \notin listed
      BY <3>1, Listed, Zenon DEF IInv, MemberIsSubscribed
    <3>. QED BY <2>7, <3>2, ListedSame, Zenon
         DEF closeDone, registryVars, notifierVars, Abstract!Close
  <2>8. ASSUME NEW n \in Notifiers, NEW r \in Refs, notifyLookup(n, r)
        PROVE  UNCHANGED <<listed, inbox, done, ctxDone>>
    BY <2>8, ListedSame, Zenon DEF notifyLookup, registryVars, watcherVars
  <2>9. ASSUME NEW n \in Notifiers, NEW r \in Refs, NEW g \in Groups,
               notifyMembers(n, r, g)
        PROVE  Abstract!Publish(r)
    <3>1. registry[r] = g /\ registry[r] # NoGroup
      BY <2>9, ConstantsAssumption, Zenon DEF notifyMembers, IInv, FoundCurrent
    <3>2. \A w \in Watchers : w \in members[g] <=> <<w, r>> \in listed
      BY <3>1, Listed, Zenon
    <3>3. inbox' = Abstract!Published(r)
      BY <2>9, <3>2, Zenon DEF notifyMembers, Abstract!Published
    <3>. QED BY <2>9, <3>3, ListedSame, Zenon
         DEF notifyMembers, registryVars, watcherVars, Abstract!Publish
  <2>10. ASSUME NEW w \in Watchers, NEW r \in Refs, receive(w, r) \/ giveUp(w, r)
         PROVE  Abstract!Receive(w, r) \/ Abstract!Discard(w, r)
    <3>1. Abstract!TakeOne(w, r)
      BY <2>10, ListedSame, Zenon
      DEF receive, giveUp, Leave, registryVars, watcherVars, notifierVars,
          Abstract!TakeOne
    <3>2. pc[w] = "serve" => w \notin done
      BY Zenon DEF IInv, PhaseOK
    <3>. QED BY <2>10, <3>1, <3>2, Zenon DEF receive, giveUp, Abstract!Receive, Abstract!Discard
  <2>11. ASSUME cancelCtx PROVE Abstract!Stop
    BY <2>11, ListedSame, Zenon DEF cancelCtx, registryVars, watcherVars, Abstract!Stop
  <2>12. ASSUME UNCHANGED vars PROVE UNCHANGED <<listed, inbox, done, ctxDone>>
    BY <2>12, ListedSame, Zenon DEF vars, registryVars, watcherVars, notifierVars
  <2>. QED
    BY <2>1, <2>2, <2>3, <2>4, <2>5, <2>6, <2>7, <2>8, <2>9, <2>10, <2>11, <2>12, Zenon
    DEF Next, RegisterStep, ReleaseStep, Abstract!Next
<1>. QED BY <1>1, <1>2, Invariance, PTL DEF Spec, ImplementsSubscriptions, Abstract!Spec
=============================================================================
