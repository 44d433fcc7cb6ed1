----------------------------- MODULE Resolution -----------------------------
(***************************************************************************)
(* A gRPC client that follows the resources of one listener: it asks for   *)
(* the listener, for the clusters its routes name, and for the endpoints   *)
(* of the clusters, while the objects behind them are edited.  Each pull   *)
(* is the answer of a resolver (listener.go, cluster.go, endpoint.go), for *)
(* all the names at first and for one name after a change; how answers     *)
(* travel is ConfigWatcher's matter.                                       *)
(***************************************************************************)
EXTENDS Routes, Endpoints

CONSTANTS Stores,    \* what the informers may hold: [listener, slices]
          Edits,     \* the members of Stores that take part in edits
          MaxEdits,  \* bound on the number of edits
          Zones,     \* the zones a client may run in, "" for none
          Targets,   \* the names a client may dial
          Calls      \* the methods a client may call

ASSUME ResolutionAssumption == Edits \subseteq Stores /\ MaxEdits \in Nat

(* What the API server admits: lists are sequences, and an endpoint of a *)
(* slice has at least one address.  Nothing keeps a slash out of a       *)
(* method matcher; one that has it names no call, and is left out.       *)
IsSeq(s) == s \in Seq(Range(s))

(* A protobuf package, or a service or method of one. *)
IsPackage(p) == IsSeq(p) /\ "/" \notin Range(p)
IsName(n) == IsPackage(n) /\ n # <<>> /\ "." \notin Range(n)

IsListener(l) ==
    /\ l \notin Failures /\ Range(l.routes) \cap Failures = {}
    /\ IsSeq(l.routes)
    /\ \A r \in Range(l.routes) : IsSeq(r.backends)
    /\ \A r \in Range(l.routes) : \A b \in Range(r.backends) : IsSeq(b.localities)
    /\ \A r \in Range(l.routes) :
          r.matcher # Nil /\ r.matcher.method # Nil =>
              \A part \in {"namespace", "service", "method"} :
                  IsPackage(r.matcher.method[part])

IsSlice(s) ==
    /\ IsSeq(s.endpoints)
    /\ \A e \in Range(s.endpoints) : IsSeq(e.addresses) /\ e.addresses # <<>>

ASSUME StoresAssumption ==
    \A s \in Stores :
        /\ s.listener # Nil => IsListener(s.listener)
        /\ \A key \in DOMAIN s.slices :
              IsSeq(s.slices[key]) /\ \A slice \in Range(s.slices[key]) : IsSlice(slice)

(* Calls are made by generated code: their parts are protobuf names. *)
ASSUME CallsAssumption ==
    /\ Calls \subseteq [namespace : Seq(STRING), service : Seq(STRING), method : Seq(STRING)]
    /\ \A call \in Calls :
          IsPackage(call.namespace) /\ IsName(call.service) /\ IsName(call.method)

(* Nil is no answer: a client that holds Nil holds no listener. *)
ASSUME NilAssumption ==
    \A s \in Stores, path \in Targets : makeListener(path, s) # Nil

VARIABLES store,  \* the caches of the informers
          edits,  \* the number of edits so far
          zone,   \* the locality of the client
          lds,    \* the listener the client holds, or Nil
          cds,    \* the clusters it holds, by name
          eds     \* the load assignments it holds, by name

vars == <<store, edits, zone, lds, cds, eds>>

-----------------------------------------------------------------------------
(* The resolvers, reading the caches *)

resolveListener(path) == makeListener(path, store)

(* What clusterHandler and endpointHandler do first. *)
findBackend(ref) ==
    Then(lookup(store, Word(ref.namespace), <<Word(ref.listener)>>),
         LAMBDA listener : findBackendSpec(ref, listener))

resolveCluster(path) ==
    Then(parseBackendName(path), LAMBDA ref :
    Then(findBackend(ref), LAMBDA backend : makeCluster(path, backend)))

resolveEndpoint(path) ==
    Then(parseBackendName(path), LAMBDA ref :
    Then(findBackend(ref), LAMBDA backend :
        makeLoadAssignment(zone, ref, store.listener, backend, store)))

-----------------------------------------------------------------------------
(* The client *)

ClusterNames(listener) ==
    {c.name : c \in UNION {Range(r.clusters.clusters) : r \in Range(listener.routes)}}

ServiceNames(clusters) == {clusters[n].serviceName : n \in DOMAIN clusters}

Init ==
    /\ store \in Stores
    /\ edits = 0
    /\ zone \in Zones
    /\ lds = Nil
    /\ cds = <<>>
    /\ eds = <<>>

(* A panic ends the server; like an error it leaves the client what it has. *)

(* A client drops the clusters that its routes no longer name. *)
pullListener(target) ==
    LET answer == resolveListener(target)
    IN  /\ answer \notin Failures
        /\ lds # Nil => lds.name = target
        /\ lds' = answer
        /\ cds' = RestrictDomain(cds, LAMBDA n : n \in ClusterNames(answer))
        /\ eds' = RestrictDomain(eds, LAMBDA n : n \in ServiceNames(cds'))
        /\ UNCHANGED <<store, edits, zone>>

(* The first request of a type names all the resources the client needs, *)
(* and one that cannot be resolved fails them all.                        *)
pullClusters ==
    LET names == ClusterNames(lds)
        answer == [n \in names |-> resolveCluster(n)]
    IN  /\ DOMAIN cds # names
        /\ \A n \in names : answer[n] \notin Failures
        /\ cds' = answer
        /\ UNCHANGED <<store, edits, zone, lds, eds>>

pullAllEndpoints ==
    LET names == ServiceNames(cds)
        answer == [n \in names |-> resolveEndpoint(n)]
    IN  /\ DOMAIN eds # names
        /\ \A n \in names : answer[n] \notin Failures
        /\ eds' = answer
        /\ UNCHANGED <<store, edits, zone, lds, cds>>

(* A change is answered with the one resource it is about. *)
pullCluster(n) ==
    LET answer == resolveCluster(n)
    IN  /\ edits > 0
        /\ answer \notin Failures
        /\ cds' = [m \in DOMAIN cds \cup {n} |-> IF m = n THEN answer ELSE cds[m]]
        /\ UNCHANGED <<store, edits, zone, lds, eds>>

pullEndpoints(n) ==
    LET answer == resolveEndpoint(n)
    IN  /\ edits > 0
        /\ answer \notin Failures
        /\ eds' = [m \in DOMAIN eds \cup {n} |-> IF m = n THEN answer ELSE eds[m]]
        /\ UNCHANGED <<store, edits, zone, lds, cds>>

(* An edit of the listener or of the slices reaches the caches. *)
edit(new) ==
    /\ edits < MaxEdits
    /\ store \in Edits
    /\ store' = new
    /\ edits' = edits + 1
    /\ UNCHANGED <<zone, lds, cds, eds>>

Next ==
    \/ \E target \in Targets : pullListener(target)
    \/ lds # Nil /\ (pullClusters \/ \E n \in ClusterNames(lds) : pullCluster(n))
    \/ pullAllEndpoints
    \/ \E n \in ServiceNames(cds) : pullEndpoints(n)
    \/ \E new \in Edits : edit(new)

Spec == Init /\ [][Next]_vars

-----------------------------------------------------------------------------
(* What the client holds that is up to date. *)
ListenerIsCurrent == lds # Nil /\ lds = resolveListener(lds.name)

EndpointsAreCurrent(n) ==
    /\ n \in DOMAIN cds
    /\ cds[n] = resolveCluster(n)
    /\ cds[n].serviceName \in DOMAIN eds
    /\ eds[cds[n].serviceName] = resolveEndpoint(cds[n].serviceName)

(* What the objects say, without the code's loops: the ready endpoints of *)
(* a service, each with the slice that lists it.                          *)
ServiceSlices(service) ==
    Range(list(store, IF service.namespace = "" THEN store.listener.namespace
               ELSE service.namespace, service.name))

ReadyIn(slice) == {e \in Range(slice.endpoints) : e.ready = TRUE}

Hosts(service, Chosen(_)) ==
    UNION {UNION {Range(e.addresses) : e \in {r \in ReadyIn(s) : Chosen(r)}} :
              s \in ServiceSlices(service)}

AllHosts(service) == Hosts(service, LAMBDA e : TRUE)

HintedHosts(service) ==
    Hosts(service, LAMBDA e : e.hints # Nil /\ \E z \in e.hints :
                                  FoldZone[z] = FoldZone[zone])

Services(backend) ==
    IF backend.service # Nil THEN {backend.service}
    ELSE {l.service : l \in Range(backend.localities)}

(* The hosts of one group, and of all the groups, of an answer. *)
GroupHosts(group) == {e.address : e \in Range(group.endpoints)}
ServedHosts(n) == UNION {GroupHosts(g) : g \in Range(eds[n].endpoints)}

(* The path of a call, and its match against a route, in the client: a *)
(* service outside a package has no dot before its name.               *)
FullMethod(call) ==
    LET package == IF call.namespace = <<>> THEN <<>> ELSE call.namespace \o Dot
    IN  <<"/">> \o package \o call.service \o <<"/">> \o call.method

HasPrefix(s, prefix) == Len(prefix) <= Len(s) /\ SubSeq(s, 1, Len(prefix)) = prefix

pathMatches(match, call) ==
    IF match.kind = "path" THEN match.path = FullMethod(call)
                           ELSE HasPrefix(FullMethod(call), match.path)

(* The calls that the matcher of a route names, by its most specific field. *)
IsNamed(matcher, call) ==
    CASE matcher = Nil -> TRUE
      [] matcher # Nil /\ matcher.method # Nil -> matcher.method = call
      [] matcher # Nil /\ matcher.method = Nil /\ matcher.service # Nil ->
            /\ matcher.service.namespace = call.namespace
            /\ matcher.service.service = call.service
      [] matcher # Nil /\ matcher.method = Nil /\ matcher.service = Nil
            /\ matcher.namespace # Nil -> matcher.namespace = call.namespace
      [] OTHER -> TRUE

-----------------------------------------------------------------------------
(***************************************************************************)
(* The client holds answers under the names it asked for, for the clusters *)
(* of its routes: a load assignment carries the name of its cluster.       *)
(***************************************************************************)
TypeOK ==
    /\ store \in Stores
    /\ edits \in 0..MaxEdits
    /\ zone \in Zones
    /\ lds # Nil => lds.name \in Targets
    /\ DOMAIN cds \subseteq IF lds = Nil THEN {} ELSE ClusterNames(lds)
    /\ \A n \in DOMAIN cds : cds[n].name = n
    /\ \A n \in DOMAIN eds : eds[n].clusterName = n

(***************************************************************************)
(* A client that is up to date reaches, through the names it was given for *)
(* a route and a backend, the ready hosts of the services of that very     *)
(* backend, and no other: the names that makeWeightedClusters writes are   *)
(* read back by parseBackendName and findBackendSpec.                      *)
(***************************************************************************)
RoutesReachTheirBackends ==
    ListenerIsCurrent =>
        /\ Len(lds.routes) = Len(store.listener.routes)
        /\ \A r \in DOMAIN lds.routes :
              LET clusters == lds.routes[r].clusters.clusters
                  backends == store.listener.routes[r].backends
              IN  /\ Len(clusters) = Len(backends)
                  /\ \A b \in DOMAIN clusters :
                        EndpointsAreCurrent(clusters[b].name) =>
                            ServedHosts(cds[clusters[b].name].serviceName)
                              = UNION {AllHosts(s) : s \in Services(backends[b])}

(***************************************************************************)
(* Topology aware routing of a backend with one service: the priorities    *)
(* start at 0 without a gap, the hosts hinted for the client's zone come   *)
(* first and alone, and without any such host all hosts share priority 0   *)
(* (makeServiceEndpoints).                                                 *)
(***************************************************************************)
HintedHostsComeFirst ==
    \A n \in DOMAIN eds :
        (EndpointsAreCurrent(n) /\ findBackend(parseBackendName(n)).service # Nil) =>
            LET groups == eds[n].endpoints
                service == findBackend(parseBackendName(n)).service
                hinted == HintedHosts(service)
            IN  /\ \A g \in DOMAIN groups : groups[g].priority = g - 1
                /\ groups # <<>> =>
                      GroupHosts(groups[1]) =
                          IF hinted = {} THEN AllHosts(service) ELSE hinted

(***************************************************************************)
(* A client may hold names of routes and backends that an edit has taken   *)
(* away: a name it holds still stands for a backend of the listener in the *)
(* cache, or is rejected with an error.  findBackendSpec never follows it  *)
(* past the end of a list, which would panic and end the server.           *)
(***************************************************************************)
HeldNamesStayInRange ==
    \A n \in DOMAIN cds \cup (IF lds = Nil THEN {} ELSE ClusterNames(lds)) :
        LET found == findBackend(parseBackendName(n))
        IN  \/ found = Error
            \/ \E r \in DOMAIN store.listener.routes :
                  found \in Range(store.listener.routes[r].backends)

(* The matchers of methods and of services write a dot before the name of a *)
(* service that has no package, and the path of its calls has none.         *)
IsOutsidePackage(matcher, call) ==
    /\ matcher # Nil
    /\ matcher.method # Nil \/ matcher.service # Nil
    /\ call.namespace = <<>>

(***************************************************************************)
(* No call slips past the route whose matcher names it: in an up-to-date   *)
(* listener that route or an earlier one matches the path of the call      *)
(* (makeRouteMatch, MethodMatcher.Path, ServiceMatcher.Prefix).  The calls *)
(* of a service without a package do when its matcher names the service or *)
(* one of its methods.                                                     *)
(***************************************************************************)
NamedCallsAreCaught ==
    ListenerIsCurrent =>
        \A call \in Calls, r \in DOMAIN lds.routes :
            LET matcher == store.listener.routes[r].matcher
            IN  (IsNamed(matcher, call) /\ ~IsOutsidePackage(matcher, call)) =>
                    \E q \in 1..r : pathMatches(lds.routes[q].match, call)

(***************************************************************************)
(* "Service allows to match a specific service" (types.go): the route of a *)
(* service matcher matches the calls of that service only.                 *)
(***************************************************************************)
ServiceMatchIsSpecific ==
    ListenerIsCurrent =>
        \A call \in Calls, r \in DOMAIN lds.routes :
            LET m == store.listener.routes[r].matcher
            IN  (m # Nil /\ m.method = Nil /\ m.service # Nil
                   /\ pathMatches(lds.routes[r].match, call)) => IsNamed(m, call)
=============================================================================
