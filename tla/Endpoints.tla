----------------------------- MODULE Endpoints -----------------------------
(***************************************************************************)
(* How the endpoint slices of a backend become a load assignment           *)
(* (endpoint.go): the port of each slice, the endpoints that are ready,    *)
(* and the two priorities of topology aware routing.                       *)
(*                                                                         *)
(* A slice has the sequences ports and endpoints.  An endpoint has its     *)
(* addresses, ready (TRUE, FALSE or Nil), its zone or Nil, and hints, the  *)
(* set of zones it is hinted for or Nil.                                   *)
(***************************************************************************)
EXTENDS Names

CONSTANT FoldZone  \* [zone -> its spelling in one case], for EqualFold

(* A pointer to a bool, false when it is nil. *)
derefBool(v) == v = TRUE

containsZone(zones, zone) == \E z \in zones : FoldZone[z] = FoldZone[zone]

(* The first port with the wanted name or, without a name, number. *)
lookupK8sPort(ref, ports) ==
    LET wanted(p) == /\ p.name # Nil
                     /\ p.port # Nil
                     /\ IF ref.name # "" THEN p.name = ref.name
                                         ELSE p.port = ref.number
        found == SelectSeq(ports, wanted)
    IN  IF found = <<>> THEN Error ELSE Head(found).port

(* The endpoints of a slice that are ready, with the port of the slice. *)
endpointData(endpoint, port) == [endpoint |-> endpoint, port |-> port]

ReadyOn(slice, port) ==
    LET ready == Keep(slice.endpoints, LAMBDA e : derefBool(e.ready))
    IN  [i \in DOMAIN ready |-> endpointData(ready[i], port)]

(* The data of all the slices, or an error if one has no such port. *)
ReadyOf(ref, slices) ==
    Then(Each([s \in DOMAIN slices |->
                  Then(lookupK8sPort(ref, slices[s].ports),
                       LAMBDA port : ReadyOn(slices[s], port))]), FlattenSeq)

makeLbEndpoints(data) ==
    [a \in DOMAIN data.endpoint.addresses |->
        [address |-> data.endpoint.addresses[a], port |-> data.port]]

LbEndpoints(datas) == FlattenSeq([i \in DOMAIN datas |-> makeLbEndpoints(datas[i])])

-----------------------------------------------------------------------------
(* A backend with one service: two groups, hinted endpoints first. *)

Priority(endpoint, zone) ==
    IF endpoint.hints # Nil /\ containsZone(endpoint.hints, zone) THEN 0 ELSE 1

(* The endpoints of each priority, in the order of the lists. *)
Group(datas, prio, zone) ==
    Keep(datas, LAMBDA d : Priority(d.endpoint, zone) = prio)

(* The first zone that an endpoint of the group has. *)
ZoneOf(datas) ==
    LET zoned == SelectSeq(datas, LAMBDA d : d.endpoint.zone \notin {Nil, ""})
    IN  IF zoned = <<>> THEN "" ELSE Head(zoned).endpoint.zone

(* Mutant: the position of the group, whether or not a hinted endpoint exists. *)
appliedPrioRaw(prio, hinted) == prio

(* Without a hinted endpoint the other group gets the first priority. *)
appliedPrio(prio, hinted) == IF hinted # <<>> THEN prio ELSE 0

makeLocality(datas, prio) ==
    [zone |-> ZoneOf(datas), priority |-> prio, weight |-> 1,
     endpoints |-> LbEndpoints(datas)]

(* One locality for each group that is not empty. *)
makeServiceEndpoints(zone, ref, slices) ==
    Then(ReadyOf(ref, slices), LAMBDA datas :
        LET hinted == Group(datas, 0, zone)
            locality(prio) ==
                LET group == Group(datas, prio, zone)
                IN  IF group = <<>>
                    THEN <<>>
                    ELSE <<makeLocality(group, appliedPrio(prio, hinted))>>
        IN  locality(0) \o locality(1))

-----------------------------------------------------------------------------
(* A backend with localities: one group each, with the priority it names. *)

makeFlatLocalityLbEndpoints(ref, slices, weight, priority) ==
    Then(ReadyOf(ref, slices), LAMBDA datas :
        [zone |-> "", priority |-> priority, weight |-> weight,
         endpoints |-> LbEndpoints(datas)])

-----------------------------------------------------------------------------
(* The load assignment *)

(* The slices of a service in the cache, in the order they are listed. *)
list(store, namespace, service) ==
    IF <<namespace, service>> \in DOMAIN store.slices
    THEN store.slices[<<namespace, service>>] ELSE <<>>

namespaceOf(service, listener) ==
    IF service.namespace = "" THEN listener.namespace ELSE service.namespace

makeServiceLoadAssignment(zone, listener, service, store) ==
    makeServiceEndpoints(zone, service.port,
                         list(store, namespaceOf(service, listener), service.name))

(* A locality may come without a service; its pointer is followed anyway. *)
makeLocalitiesLoadAssignment(listener, localities, store) ==
    LET locality(l) ==
            IF l.service = Nil
            THEN Panic
            ELSE makeFlatLocalityLbEndpoints(
                     l.service.port,
                     list(store, namespaceOf(l.service, listener), l.service.name),
                     l.weight, l.priority)
    IN  Each([i \in DOMAIN localities |-> locality(localities[i])])

(* A service wins over localities; a backend with neither is an error. *)
makeLoadAssignment(zone, ref, listener, backend, store) ==
    Then(CASE backend.service # Nil ->
                makeServiceLoadAssignment(zone, listener, backend.service, store)
           [] backend.service = Nil /\ backend.localities # <<>> ->
                makeLocalitiesLoadAssignment(listener, backend.localities, store)
           [] OTHER -> Error,
         LAMBDA endpoints : [clusterName |-> BackendString(ref),
                             endpoints |-> endpoints])
=============================================================================
