-------------------------------- MODULE Notify --------------------------------
(***************************************************************************)
(* From a change in Kubernetes to the notification of the resources it     *)
(* concerns: the handlers of src/gtc/notify.go, run by the workers of two  *)
(* event queues, next to what the resolvers of src/gtc/listener.go,        *)
(* cluster.go and endpoint.go read.  The question is whether the handlers  *)
(* notify every resource whose content a change alters.                    *)
(*                                                                         *)
(* The informer caches are external.  With ten workers for each queue,     *)
(* events are handled in any order, so the queues are a set; EventQueue    *)
(* has their details.  A spec maps the backends of a listener, numbered by *)
(* route and position, to the services their Service or Localities name.   *)
(* Of the rest of a spec only this matters here, whether the listener's    *)
(* resolver accepts it; of a slice, whether it has the wanted port.        *)
(***************************************************************************)
EXTENDS Naturals

CONSTANTS Listeners,   \* GRPCListener objects
          Slices,      \* EndpointSlice objects
          Backends,    \* positions <<route, backend>> in a listener's spec
          Services,    \* service names
          Namespaces,  \* Kubernetes namespaces
          NoNamespace, \* the empty namespace of a ServiceRef
          Specs,       \* the specs a listener may have
          Malformed,   \* the ones whose filters or routes cannot be translated
          NsOf,        \* namespace of each listener and slice
          LabelOf,     \* the kubernetes.io/service-name label of each slice
          Workers,     \* workers of the two event queues
          MaxChanges,  \* bound: changes in Kubernetes
          Tombstones   \* objects whose deletion may be reported without the object

ServiceRefs == [name : Services, ns : Namespaces \cup {NoNamespace}]
SpecType == UNION {[B -> SUBSET ServiceRefs] : B \in SUBSET Backends}

ASSUME ObjectsAssumption ==
    /\ NoNamespace \notin Namespaces
    /\ Specs \subseteq SpecType
    /\ Malformed \subseteq Specs
    /\ NsOf \in [Listeners \cup Slices -> Namespaces]
    /\ LabelOf \in [Slices -> Services]
ASSUME NotifyBoundsAssumption ==
    MaxChanges \in Nat /\ Tombstones \subseteq Listeners \cup Slices

VARIABLES
    lver, spec,  \* the listeners' cache: version (0 when absent) and spec
    sver,        \* the slices' cache: version, 0 when absent
    ported,      \* the slices with the port that the services want
    pending,     \* the events no worker has taken
    work,        \* the resources each worker has still to notify
    stale,       \* history: resources changed since they were last notified
    clock        \* version of the last change

storeVars == <<lver, spec, sver, ported, clock>>
vars == <<storeVars, pending, work, stale>>

NoSpec == [b \in {} |-> {}]

Refs == [type : {"listener"}, lis : Listeners]
        \cup [type : {"cluster", "endpoint"}, lis : Listeners, backend : Backends]

Events == [kind : {"listener"}, obj : Listeners, spec : SpecType, ver : Nat]
          \cup [kind : {"slice"}, obj : Slices, ver : Nat]
          \cup [kind : {"tombstone"}, ver : Nat]

TypeOK ==
    /\ lver \in [Listeners -> Nat]
    /\ spec \in [Listeners -> SpecType]
    /\ sver \in [Slices -> Nat]
    /\ ported \in SUBSET Slices
    /\ clock \in Nat
    /\ pending \in SUBSET Events
    /\ work \in [Workers -> SUBSET Refs]
    /\ stale \in SUBSET Refs

Init ==
    /\ lver = [l \in Listeners |-> 0]
    /\ spec = [l \in Listeners |-> NoSpec]
    /\ sver = [s \in Slices |-> 0]
    /\ ported = {}
    /\ clock = 0
    /\ pending = {}
    /\ work = [k \in Workers |-> {}]
    /\ stale = {}

-----------------------------------------------------------------------------
(* What the resolvers read.                                                *)

\* The slices that the endpoint resolver lists for service ref of listener l.
SlicesOf(l, ref) ==
    {s \in Slices : /\ sver[s] # 0
                    /\ LabelOf[s] = ref.name
                    /\ NsOf[s] = IF ref.ns = NoNamespace THEN NsOf[l] ELSE ref.ns}

AllSlicesOf(l, b) == UNION {SlicesOf(l, ref) : ref \in spec[l][b]}

\* Whether each resolver finds what it needs.
resolveListener(l) == lver[l] # 0 /\ spec[l] \notin Malformed

findBackendSpec(l, b) == b \in DOMAIN spec[l]

resolveCluster(l, b) == lver[l] # 0 /\ findBackendSpec(l, b)

\* A backend without a service is not supported.
makeLoadAssignment(l, b) == spec[l][b] # {}

\* One slice without the wanted port fails the resource.
lookupPorts(l, b) == AllSlicesOf(l, b) \subseteq ported

resolveEndpoint(l, b) ==
    /\ lver[l] # 0
    /\ findBackendSpec(l, b)
    /\ makeLoadAssignment(l, b)
    /\ lookupPorts(l, b)

\* resourceTypeResolver picks the resolver of the type.
Resolvable(r) ==
    CASE r.type = "listener" -> resolveListener(r.lis)
      [] r.type = "cluster" -> resolveCluster(r.lis, r.backend)
      [] r.type = "endpoint" -> resolveEndpoint(r.lis, r.backend)

\* The versions of the objects a resource is made from: what useResourceVersion
\* is called with.
Content(r) ==
    [lis |-> lver[r.lis],
     slices |-> IF r.type = "endpoint"
                THEN {<<s, sver[s]>> : s \in AllSlicesOf(r.lis, r.backend)}
                ELSE {}]

-----------------------------------------------------------------------------
(* What the handlers notify.                                               *)

\* Mutant: backends are counted from one.
ListenerRefsFromOne(l, sp) ==
    {[type |-> "listener", lis |-> l]}
    \cup [type : {"cluster", "endpoint"}, lis : {l},
          backend : {<<b[1], b[2] + 1>> : b \in DOMAIN sp}]

\* Mutant: the endpoints of the backends are not notified.
ListenerRefsNoEndpoint(l, sp) ==
    {[type |-> "listener", lis |-> l]}
    \cup [type : {"cluster"}, lis : {l}, backend : DOMAIN sp]

\* grpcListenerChangedHandler.handle, on the object of the event.
ListenerRefs(l, sp) ==
    {[type |-> "listener", lis |-> l]}
    \cup [type : {"cluster", "endpoint"}, lis : {l}, backend : DOMAIN sp]

\* Mutant: the namespace of the reference is not looked at.
matchesServiceName(s, l, ref) ==
    /\ LabelOf[s] = ref.name
    /\ NsOf[l] = NsOf[s]

matchesService(s, l, ref) ==
    /\ LabelOf[s] = ref.name
    /\ NsOf[l] = NsOf[s] \/ (ref.ns # NoNamespace /\ ref.ns = NsOf[s])

matchesBackend(s, l, backend) == \E ref \in backend : matchesService(s, l, ref)

\* endpointSliceChangedHandler.handle, on the listeners it lists.
SliceRefs(s) ==
    {r \in [type : {"endpoint"}, lis : Listeners, backend : Backends] :
        /\ lver[r.lis] # 0
        /\ r.backend \in DOMAIN spec[r.lis]
        /\ matchesBackend(s, r.lis, spec[r.lis][r.backend])}

-----------------------------------------------------------------------------
(* Changes: the cache changes first, then its event is queued.             *)

\* The resources that can be resolved and differ from their last notification.
Restale ==
    stale' = {r \in Refs :
                /\ Resolvable(r)'
                /\ r \in stale \/ ~Resolvable(r) \/ Content(r)' # Content(r)}

Change(e) ==
    /\ clock < MaxChanges
    /\ clock' = clock + 1
    /\ pending' = pending \cup {e}
    /\ Restale
    /\ UNCHANGED work

\* OnAdd and OnUpdate: the event carries the new object.
applyListener(l, sp) ==
    /\ lver' = [lver EXCEPT ![l] = clock + 1]
    /\ spec' = [spec EXCEPT ![l] = sp]
    /\ UNCHANGED <<sver, ported>>
    /\ Change([kind |-> "listener", obj |-> l, spec |-> sp, ver |-> clock + 1])

applySlice(s, hasPort) ==
    /\ sver' = [sver EXCEPT ![s] = clock + 1]
    /\ ported' = IF hasPort THEN ported \cup {s} ELSE ported \ {s}
    /\ UNCHANGED <<lver, spec>>
    /\ Change([kind |-> "slice", obj |-> s, ver |-> clock + 1])

\* OnDelete: the event carries the last known object, or, when the informer
\* missed the deletion and found out by listing, a DeletedFinalStateUnknown.
Deletion(o, e) ==
    \E d \in {e} \cup {[kind |-> "tombstone", ver |-> clock + 1] : t \in Tombstones \cap {o}} :
        Change(d)

deleteListener(l) ==
    /\ lver[l] # 0
    /\ lver' = [lver EXCEPT ![l] = 0]
    /\ spec' = [spec EXCEPT ![l] = NoSpec]
    /\ UNCHANGED <<sver, ported>>
    /\ Deletion(l, [kind |-> "listener", obj |-> l, spec |-> spec[l], ver |-> clock + 1])

deleteSlice(s) ==
    /\ sver[s] # 0
    /\ sver' = [sver EXCEPT ![s] = 0]
    /\ ported' = ported \ {s}
    /\ UNCHANGED <<lver, spec>>
    /\ Deletion(s, [kind |-> "slice", obj |-> s, ver |-> clock + 1])

-----------------------------------------------------------------------------
(* Workers.                                                                *)

\* The resources the handler of event e goes on to notify.  Neither handler
\* knows what to do with a tombstone: one finds the wrong type, the other no
\* metadata, both log that and return.
Handled(e) ==
    CASE e.kind = "listener" -> ListenerRefs(e.obj, e.spec)
      [] e.kind = "slice" -> SliceRefs(e.obj)
      [] e.kind = "tombstone" -> {}

takeEvent(k, e) ==
    /\ work[k] = {}
    /\ e \in pending
    /\ pending' = pending \ {e}
    /\ work' = [work EXCEPT ![k] = Handled(e)]
    /\ UNCHANGED <<storeVars, stale>>

\* watches.notifyChanged: the watchers of r will resolve it again.
notifyChanged(k, r) ==
    /\ r \in work[k]
    /\ work' = [work EXCEPT ![k] = @ \ {r}]
    /\ stale' = stale \ {r}
    /\ UNCHANGED <<storeVars, pending>>

WorkerStep(k) ==
    \/ \E e \in pending : takeEvent(k, e)
    \/ \E r \in work[k] : notifyChanged(k, r)

Next ==
    \/ \E l \in Listeners : deleteListener(l) \/ \E sp \in Specs : applyListener(l, sp)
    \/ \E s \in Slices : deleteSlice(s) \/ \E hasPort \in BOOLEAN : applySlice(s, hasPort)
    \/ \E k \in Workers : WorkerStep(k)

Spec == Init /\ [][Next]_vars

-----------------------------------------------------------------------------
(* Properties.                                                             *)

\* Whatever the order in which events of the two queues are handled, and
\* although the slice handler reads the listeners only when it runs, when the
\* workers are through with all events every resource was notified after its
\* content last changed.
AllChangesNotified ==
    pending = {} /\ (\A k \in Workers : work[k] = {}) => stale = {}

\* The same at every moment: a resource that changed and was not notified yet
\* is about to be, by a worker or by the handler of an event that waits.
StaleIsCovered ==
    \A r \in stale :
        \/ \E k \in Workers : r \in work[k]
        \/ \E e \in pending : r \in Handled(e)
=============================================================================
