----------------------------- MODULE NotifyProofs -----------------------------
(***************************************************************************)
(* Proofs about the change handlers, for any listeners, slices, specs and  *)
(* workers: every change of a resource's content is notified.              *)
(***************************************************************************)
EXTENDS Notify, TLAPS

IInv == TypeOK /\ StaleIsCovered

\* The deletion of a slice is always reported with the slice.
NoSliceTombstone == Tombstones \cap Slices = {}

-----------------------------------------------------------------------------
(* Shapes of resources and events.                                         *)

\* A resource is a listener's, or that of one of its backends.
LEMMA RefShape ==
    ASSUME NEW r \in Refs
    PROVE  /\ r.lis \in Listeners
           /\ \/ r.type = "listener" /\ r = [type |-> "listener", lis |-> r.lis]
              \/ /\ r.type \in {"cluster", "endpoint"}
                 /\ r.backend \in Backends
                 /\ r = [type |-> r.type, lis |-> r.lis, backend |-> r.backend]
BY Zenon DEF Refs

\* A spec is about backends only.
LEMMA SpecDomain ==
    ASSUME NEW sp \in SpecType
    PROVE  DOMAIN sp \subseteq Backends
BY Zenon DEF SpecType

\* A listener that is gone has no backend.
LEMMA NoSpecType == NoSpec \in SpecType
<1>1. NoSpec \in [{} -> SUBSET ServiceRefs]
  BY Zenon DEF NoSpec
<1>. QED BY <1>1, Zenon DEF SpecType

\* What each handler notifies, by the kind of the event.
LEMMA HandledByKind ==
    ASSUME NEW e \in Events
    PROVE  /\ e.kind \in {"listener", "slice", "tombstone"}
           /\ e.kind = "listener" => Handled(e) = ListenerRefs(e.obj, e.spec)
           /\ e.kind = "slice" => Handled(e) = SliceRefs(e.obj)
           /\ e.kind = "tombstone" => Handled(e) = {}
BY Zenon DEF Events, Handled

\* What each resolver needs, by the type of the resource.
LEMMA ResolvableByType ==
    ASSUME NEW r \in Refs
    PROVE  /\ r.type = "listener" => Resolvable(r) = resolveListener(r.lis)
           /\ r.type = "cluster" => Resolvable(r) = resolveCluster(r.lis, r.backend)
           /\ r.type = "endpoint" => Resolvable(r) = resolveEndpoint(r.lis, r.backend)
BY Zenon DEF Resolvable

\* Handlers notify resources.
LEMMA HandledType ==
    ASSUME TypeOK, NEW e \in Events
    PROVE  Handled(e) \subseteq Refs
<1>1. CASE e.kind = "listener"
  <2>1. e.obj \in Listeners /\ e.spec \in SpecType
    BY <1>1, Zenon DEF Events
  <2>2. DOMAIN e.spec \subseteq Backends
    BY <2>1, SpecDomain, Zenon
  <2>. QED BY <1>1, <2>1, <2>2, HandledByKind DEF ListenerRefs, Refs
<1>2. CASE e.kind = "slice"
  BY <1>2, HandledByKind DEF SliceRefs, Refs
<1>3. CASE e.kind = "tombstone"
  BY <1>3, HandledByKind, Zenon
<1>. QED BY <1>1, <1>2, <1>3, HandledByKind, Zenon

-----------------------------------------------------------------------------
(* What the two handlers cover.                                            *)

\* A slice that the endpoint resolver lists is one that matchesService accepts.
LEMMA ListedMatches ==
    ASSUME NEW l \in Listeners, NEW b, NEW s \in AllSlicesOf(l, b)
    PROVE  matchesBackend(s, l, spec[l][b])
<1>1. PICK ref \in spec[l][b] : s \in SlicesOf(l, ref)
  BY Zenon DEF AllSlicesOf
<1>. QED BY <1>1, Zenon DEF SlicesOf, matchesBackend, matchesService

\* A change of one slice leaves alone the endpoints that do not list it.
LEMMA OtherEndpoints ==
    ASSUME TypeOK, NEW s \in Slices, NEW l \in Listeners, NEW b,
           UNCHANGED <<lver, spec>>,
           \A t \in Slices \ {s} : sver'[t] = sver[t] /\ (t \in ported' <=> t \in ported),
           s \notin AllSlicesOf(l, b), s \notin AllSlicesOf(l, b)'
    PROVE  /\ AllSlicesOf(l, b)' = AllSlicesOf(l, b)
           /\ \A t \in AllSlicesOf(l, b) : sver'[t] = sver[t]
           /\ lookupPorts(l, b)' = lookupPorts(l, b)
<1>1. \A ref \in spec[l][b] : \A t \in Slices :
          t \in SlicesOf(l, ref)' <=> t \in SlicesOf(l, ref)
  <2>. SUFFICES ASSUME NEW ref \in spec[l][b], NEW t \in Slices
                PROVE  t \in SlicesOf(l, ref)' <=> t \in SlicesOf(l, ref)
    OBVIOUS
  <2>1. CASE t = s
    BY <2>1, Zenon DEF AllSlicesOf
  <2>2. CASE t # s
    BY <2>2, Zenon DEF SlicesOf
  <2>. QED BY <2>1, <2>2, Zenon
<1>2. \A ref \in spec[l][b] : SlicesOf(l, ref)' = SlicesOf(l, ref)
  BY <1>1, Zenon DEF SlicesOf
<1>3. AllSlicesOf(l, b)' = AllSlicesOf(l, b)
  BY <1>2, Zenon DEF AllSlicesOf
<1>4. AllSlicesOf(l, b) \subseteq Slices \ {s}
  BY Zenon DEF AllSlicesOf, SlicesOf
<1>. QED BY <1>3, <1>4, Zenon DEF lookupPorts

\* The slice handler notifies every resource that a change of a slice made
\* stale.
LEMMA SliceCovers ==
    ASSUME TypeOK, NEW s \in Slices, Restale,
           UNCHANGED <<lver, spec>>,
           \A t \in Slices \ {s} : sver'[t] = sver[t] /\ (t \in ported' <=> t \in ported),
           NEW r \in stale', r \notin stale
    PROVE  r \in SliceRefs(s)
<1>1. r \in Refs /\ Resolvable(r)' /\ (~Resolvable(r) \/ Content(r)' # Content(r))
  BY Zenon DEF Restale
<1>2. r.lis \in Listeners
  BY <1>1, RefShape, Zenon
<1>3. r.type = "endpoint"
  <2>1. CASE r.type = "listener"
    <3>1. Resolvable(r)' = resolveListener(r.lis)' /\ Resolvable(r) = resolveListener(r.lis)
      BY <1>1, <2>1, Zenon DEF Resolvable
    <3>2. Content(r)' = Content(r)
      BY <2>1, Zenon DEF Content
    <3>. QED BY <1>1, <3>1, <3>2, Zenon DEF resolveListener
  <2>2. CASE r.type = "cluster"
    <3>1. /\ Resolvable(r)' = resolveCluster(r.lis, r.backend)'
          /\ Resolvable(r) = resolveCluster(r.lis, r.backend)
      BY <1>1, <2>2, Zenon DEF Resolvable
    <3>2. Content(r)' = Content(r)
      BY <2>2, Zenon DEF Content
    <3>. QED BY <1>1, <3>1, <3>2, Zenon DEF resolveCluster, findBackendSpec
  <2>. QED BY <1>1, <2>1, <2>2, RefShape, Zenon
<1>4. /\ Resolvable(r)' = resolveEndpoint(r.lis, r.backend)'
      /\ Resolvable(r) = resolveEndpoint(r.lis, r.backend)
  BY <1>3, Zenon DEF Resolvable
<1>5. lver[r.lis] # 0 /\ r.backend \in DOMAIN spec[r.lis]
  BY <1>1, <1>4, Zenon DEF resolveEndpoint, findBackendSpec
<1>6. s \in AllSlicesOf(r.lis, r.backend) \/ s \in AllSlicesOf(r.lis, r.backend)'
  <2>. SUFFICES ASSUME s \notin AllSlicesOf(r.lis, r.backend),
                       s \notin AllSlicesOf(r.lis, r.backend)'
                PROVE  FALSE
    OBVIOUS
  <2>1. /\ AllSlicesOf(r.lis, r.backend)' = AllSlicesOf(r.lis, r.backend)
        /\ \A t \in AllSlicesOf(r.lis, r.backend) : sver'[t] = sver[t]
        /\ lookupPorts(r.lis, r.backend)' = lookupPorts(r.lis, r.backend)
    BY <1>2, OtherEndpoints
  <2>2. Resolvable(r)
    BY <1>1, <1>4, <2>1, Zenon DEF resolveEndpoint, findBackendSpec, makeLoadAssignment
  <2>3. Content(r)' = Content(r)
    <3>1. {<<t, sver'[t]>> : t \in AllSlicesOf(r.lis, r.backend)'}
            = {<<t, sver[t]>> : t \in AllSlicesOf(r.lis, r.backend)}
      BY <2>1, Zenon
    <3>. QED BY <3>1, Zenon DEF Content
  <2>. QED BY <1>1, <2>2, <2>3, Zenon
<1>7. matchesBackend(s, r.lis, spec[r.lis][r.backend])
  <2>1. CASE s \in AllSlicesOf(r.lis, r.backend)
    BY <1>2, <2>1, ListedMatches, Zenon
  <2>2. CASE s \in AllSlicesOf(r.lis, r.backend)'
    BY <2>2 DEF AllSlicesOf, SlicesOf, matchesBackend, matchesService
  <2>. QED BY <1>6, <2>1, <2>2, Zenon
<1>. QED BY <1>1, <1>3, <1>5, <1>7, RefShape DEF SliceRefs

-----------------------------------------------------------------------------
(* Each step preserves the invariant.                                      *)

\* A change of a listener: its own resources are covered by the new event, the
\* others are as they were.
LEMMA ListenerStep ==
    ASSUME IInv, NEW l \in Listeners, NEW sp \in SpecType, NEW v \in Nat, NEW e \in Events,
           lver' = [lver EXCEPT ![l] = v],
           spec' = [spec EXCEPT ![l] = sp],
           UNCHANGED <<sver, ported>>,
           Change(e),
           v # 0 => e.kind = "listener" /\ e.obj = l /\ e.spec = sp
    PROVE  IInv'
<1>1. TypeOK'
  BY DEF IInv, TypeOK, Change, Restale
<1>2. ASSUME NEW r \in stale'
      PROVE  \/ \E k \in Workers : r \in work'[k]
             \/ \E f \in pending' : r \in Handled(f)'
  <2>1. r \in Refs /\ Resolvable(r)' /\ (r \in stale \/ ~Resolvable(r) \/ Content(r)' # Content(r))
    BY <1>2, Zenon DEF Change, Restale
  <2>2. CASE r.lis = l
    <3>1. lver'[l] = v /\ spec'[l] = sp
      BY Zenon DEF IInv, TypeOK
    <3>2. v # 0
      BY <2>1, <2>2, <3>1, Zenon
      DEF Resolvable, Refs, resolveListener, resolveCluster, resolveEndpoint
    <3>3. r \in ListenerRefs(l, sp)
      <4>1. CASE r.type = "listener"
        BY <2>1, <2>2, <4>1, RefShape, Zenon DEF ListenerRefs
      <4>2. CASE r.type \in {"cluster", "endpoint"}
        <5>1. r.backend \in DOMAIN sp
          BY <2>1, <2>2, <3>1, <4>2, Zenon
          DEF Resolvable, resolveCluster, resolveEndpoint, findBackendSpec
        <5>. QED BY <2>1, <2>2, <4>2, <5>1, RefShape DEF ListenerRefs
      <4>. QED BY <2>1, <4>1, <4>2, RefShape, Zenon
    <3>4. Handled(e)' = ListenerRefs(l, sp)
      BY <3>2, Zenon DEF Handled, ListenerRefs
    <3>. QED BY <3>3, <3>4, Zenon DEF Change
  <2>3. CASE r.lis # l
    <3>0. r.lis \in Listeners
      BY <2>1, RefShape, Zenon
    <3>1. lver'[r.lis] = lver[r.lis] /\ spec'[r.lis] = spec[r.lis]
      BY <2>3, <3>0, Zenon DEF IInv, TypeOK
    <3>2. AllSlicesOf(r.lis, r.backend)' = AllSlicesOf(r.lis, r.backend)
      BY <3>1 DEF AllSlicesOf, SlicesOf
    <3>3. Resolvable(r)' = Resolvable(r)
      BY <3>1, <3>2, Zenon
      DEF Resolvable, resolveListener, resolveCluster, resolveEndpoint, findBackendSpec,
          makeLoadAssignment, lookupPorts
    <3>4. Content(r)' = Content(r)
      BY <3>1, <3>2, Zenon DEF Content
    <3>5. r \in stale
      BY <2>1, <3>3, <3>4, Zenon
    <3>6. CASE \E k \in Workers : r \in work[k]
      BY <3>6, Zenon DEF Change
    <3>7. ASSUME NEW f \in pending, r \in Handled(f) PROVE r \in Handled(f)'
      <4>1. f \in Events
        BY Zenon DEF IInv, TypeOK
      <4>2. CASE f.kind = "listener"
        BY <3>7, <4>2, Zenon DEF Handled, ListenerRefs
      <4>3. CASE f.kind = "slice"
        <5>1. r \in SliceRefs(f.obj)
          BY <3>7, <4>1, <4>3, HandledByKind, Zenon
        <5>2. r \in SliceRefs(f.obj)'
          BY <3>1, <5>1, Zenon DEF SliceRefs, matchesBackend, matchesService
        <5>. QED BY <4>3, <5>2, Zenon DEF Handled
      <4>4. CASE f.kind = "tombstone"
        BY <3>7, <4>1, <4>4, HandledByKind, Zenon
      <4>. QED BY <4>1, <4>2, <4>3, <4>4, HandledByKind, Zenon
    <3>. QED BY <3>5, <3>6, <3>7, Zenon DEF IInv, StaleIsCovered, Change
  <2>. QED BY <2>2, <2>3, Zenon
<1>. QED BY <1>1, <1>2, Zenon DEF IInv, StaleIsCovered

\* A change of a slice: what it makes stale is covered by its event, and the
\* events that wait cover what they did.
LEMMA SliceStep ==
    ASSUME IInv, NEW s \in Slices, NEW v \in Nat, NEW e \in Events,
           sver' = [sver EXCEPT ![s] = v],
           ported' = ported \cup {s} \/ ported' = ported \ {s},
           UNCHANGED <<lver, spec>>,
           Change(e),
           e.kind = "slice" /\ e.obj = s
    PROVE  IInv'
<1>1. TypeOK'
  BY DEF IInv, TypeOK, Change, Restale
<1>2. \A t \in Slices \ {s} : sver'[t] = sver[t] /\ (t \in ported' <=> t \in ported)
  BY Zenon DEF IInv, TypeOK
<1>3. \A f : Handled(f)' = Handled(f)
  BY Zenon DEF Handled, ListenerRefs, SliceRefs, matchesBackend, matchesService
<1>4. Handled(e) = SliceRefs(s)
  BY HandledByKind, Zenon
<1>5. ASSUME NEW r \in stale'
      PROVE  \/ \E k \in Workers : r \in work'[k]
             \/ \E f \in pending' : r \in Handled(f)'
  <2>1. CASE r \in stale
    BY <1>3, <2>1, Zenon DEF IInv, StaleIsCovered, Change
  <2>2. CASE r \notin stale
    <3>1. r \in SliceRefs(s)
      BY <1>2, <2>2, SliceCovers, Zenon DEF IInv, Change
    <3>. QED BY <1>3, <1>4, <3>1, Zenon DEF Change
  <2>. QED BY <2>1, <2>2, Zenon
<1>. QED BY <1>1, <1>5, Zenon DEF IInv, StaleIsCovered

\* A worker takes an event: what it covered is now the worker's.
LEMMA TakeStep ==
    ASSUME IInv, NEW k \in Workers, NEW e, takeEvent(k, e)
    PROVE  IInv'
<1>1. e \in Events /\ Handled(e) \subseteq Refs
  BY HandledType, Zenon DEF IInv, TypeOK, takeEvent
<1>2. TypeOK'
  BY <1>1, Zenon DEF IInv, TypeOK, takeEvent, storeVars
<1>3. \A f : Handled(f)' = Handled(f)
  BY Zenon DEF takeEvent, storeVars, Handled, ListenerRefs, SliceRefs, matchesBackend, matchesService
<1>4. work'[k] = Handled(e) /\ \A j \in Workers \ {k} : work'[j] = work[j]
  BY Zenon DEF IInv, TypeOK, takeEvent
<1>5. ASSUME NEW r \in stale
      PROVE  \/ \E j \in Workers : r \in work'[j]
             \/ \E f \in pending' : r \in Handled(f)'
  <2>1. CASE \E j \in Workers : r \in work[j]
    BY <1>4, <2>1, Zenon DEF takeEvent
  <2>2. CASE \E f \in pending : r \in Handled(f)
    BY <1>3, <1>4, <2>2, Zenon DEF takeEvent
  <2>. QED BY <2>1, <2>2, Zenon DEF IInv, StaleIsCovered
<1>. QED BY <1>2, <1>5, Zenon DEF IInv, StaleIsCovered, takeEvent

\* A worker notifies a resource: it is stale no more.
LEMMA NotifyStep ==
    ASSUME IInv, NEW k \in Workers, NEW r, notifyChanged(k, r)
    PROVE  IInv'
<1>1. TypeOK'
  BY Zenon DEF IInv, TypeOK, notifyChanged, storeVars
<1>2. \A f : Handled(f)' = Handled(f)
  BY Zenon DEF notifyChanged, storeVars, Handled, ListenerRefs, SliceRefs, matchesBackend, matchesService
<1>3. \A q : q # r => \A j \in Workers : q \in work[j] => q \in work'[j]
  BY Zenon DEF IInv, TypeOK, notifyChanged
<1>. QED BY <1>1, <1>2, <1>3, Zenon DEF IInv, StaleIsCovered, notifyChanged

-----------------------------------------------------------------------------
(* Theorems.                                                               *)

\* If no slice is deleted through a tombstone, the types and the coverage hold
\* in every state.
THEOREM Invariance == NoSliceTombstone => (Spec => []IInv)
<1>. SUFFICES ASSUME NoSliceTombstone PROVE Spec => []IInv
  OBVIOUS
<1>1. Init => IInv
  <2>. SUFFICES ASSUME Init PROVE IInv
    OBVIOUS
  <2>1. TypeOK
    BY NoSpecType, Zenon DEF Init, TypeOK
  <2>. QED BY <2>1, Zenon DEF Init, IInv, StaleIsCovered
<1>2. IInv /\ [Next]_vars => IInv'
  <2>. SUFFICES ASSUME IInv, [Next]_vars PROVE IInv'
    OBVIOUS
  <2>0. clock + 1 \in Nat /\ clock + 1 # 0
    BY DEF IInv, TypeOK
  <2>1. ASSUME NEW l \in Listeners, deleteListener(l) PROVE IInv'
    <3>1. spec[l] \in SpecType
      BY Zenon DEF IInv, TypeOK
    <3>. DEFINE full == [kind |-> "listener", obj |-> l, spec |-> spec[l], ver |-> clock + 1]
                tomb == [kind |-> "tombstone", ver |-> clock + 1]
    <3>2. full \in Events /\ tomb \in Events
      BY <2>0, <3>1, Zenon DEF Events
    <3>3. \E d \in {full, tomb} : Change(d)
      BY <2>1, Zenon DEF deleteListener, Deletion
    <3>4. PICK d \in Events : Change(d)
      BY <3>2, <3>3, Zenon
    <3>5. /\ lver' = [lver EXCEPT ![l] = 0]
          /\ spec' = [spec EXCEPT ![l] = NoSpec]
          /\ UNCHANGED <<sver, ported>>
      BY <2>1, Zenon DEF deleteListener
    <3>. QED BY <3>4, <3>5, NoSpecType, ListenerStep, Zenon
  <2>2. ASSUME NEW l \in Listeners, NEW sp \in Specs, applyListener(l, sp) PROVE IInv'
    <3>1. sp \in SpecType
      BY ObjectsAssumption, Zenon
    <3>. DEFINE full == [kind |-> "listener", obj |-> l, spec |-> sp, ver |-> clock + 1]
    <3>2. full \in Events /\ full.kind = "listener" /\ full.obj = l /\ full.spec = sp
      BY <2>0, <3>1, Zenon DEF Events
    <3>3. /\ lver' = [lver EXCEPT ![l] = clock + 1]
          /\ spec' = [spec EXCEPT ![l] = sp]
          /\ UNCHANGED <<sver, ported>>
          /\ Change(full)
      BY <2>2, Zenon DEF applyListener
    <3>. HIDE DEF full
    <3>. QED BY <2>0, <3>1, <3>2, <3>3, ListenerStep, Zenon
  <2>3. ASSUME NEW s \in Slices, NEW hasPort \in BOOLEAN, applySlice(s, hasPort) PROVE IInv'
    <3>. DEFINE full == [kind |-> "slice", obj |-> s, ver |-> clock + 1]
    <3>1. full \in Events /\ full.kind = "slice" /\ full.obj = s
      BY <2>0, Zenon DEF Events
    <3>2. /\ sver' = [sver EXCEPT ![s] = clock + 1]
          /\ ported' = ported \cup {s} \/ ported' = ported \ {s}
          /\ UNCHANGED <<lver, spec>>
          /\ Change(full)
      BY <2>3, Zenon DEF applySlice
    <3>. HIDE DEF full
    <3>. QED BY <2>0, <3>1, <3>2, SliceStep, Zenon
  <2>4. ASSUME NEW s \in Slices, deleteSlice(s) PROVE IInv'
    <3>. DEFINE full == [kind |-> "slice", obj |-> s, ver |-> clock + 1]
    <3>1. full \in Events /\ full.kind = "slice" /\ full.obj = s
      BY <2>0, Zenon DEF Events
    <3>2. Change(full)
      BY <2>4, Zenon DEF deleteSlice, Deletion, NoSliceTombstone
    <3>3. /\ sver' = [sver EXCEPT ![s] = 0]
          /\ ported' = ported \cup {s} \/ ported' = ported \ {s}
          /\ UNCHANGED <<lver, spec>>
      BY <2>4, Zenon DEF deleteSlice
    <3>. HIDE DEF full
    <3>. QED BY <3>1, <3>2, <3>3, SliceStep, Zenon
  <2>5. ASSUME NEW k \in Workers, WorkerStep(k) PROVE IInv'
    BY <2>5, TakeStep, NotifyStep, Zenon DEF WorkerStep
  <2>6. CASE UNCHANGED vars
    <3>1. TypeOK'
      BY <2>6, Zenon DEF IInv, TypeOK, vars, storeVars
    <3>2. \A f : Handled(f)' = Handled(f)
      BY <2>6, Zenon DEF vars, storeVars, Handled, ListenerRefs, SliceRefs, matchesBackend, matchesService
    <3>. QED BY <2>6, <3>1, <3>2, Zenon DEF IInv, StaleIsCovered, vars
  <2>. QED BY <2>1, <2>2, <2>3, <2>4, <2>5, <2>6, Zenon DEF Next
<1>. QED BY <1>1, <1>2, PTL DEF Spec

\* The caches, the events and the workers of notify.go keep their types.
THEOREM TypeCorrect == NoSliceTombstone => (Spec => []TypeOK)
<1>1. IInv => TypeOK
  BY Zenon DEF IInv
<1>. QED BY <1>1, Invariance, PTL

\* A resource whose content changed is always about to be notified (the two
\* handle functions of notify.go against the resolvers).
THEOREM ChangesAreCovered == NoSliceTombstone => (Spec => []StaleIsCovered)
<1>1. IInv => StaleIsCovered
  BY Zenon DEF IInv
<1>. QED BY <1>1, Invariance, PTL

\* When all events are handled, every resource was notified after its content
\* last changed.
THEOREM ChangesAreNotified == NoSliceTombstone => (Spec => []AllChangesNotified)
<1>1. IInv => AllChangesNotified
  BY Zenon DEF IInv, StaleIsCovered, AllChangesNotified
<1>. QED BY <1>1, Invariance, PTL
=============================================================================
