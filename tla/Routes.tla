------------------------------- MODULE Routes -------------------------------
(***************************************************************************)
(* How a GRPCListener becomes a listener message: its filters, its routes  *)
(* and the weighted clusters they name (listener.go, route.go,             *)
(* interceptor.go, xds.go).  Durations, retry policies and the values of   *)
(* filters and matchers are copied by the code and left out; every         *)
(* choice, every error and every name is kept.  The names of protobuf      *)
(* packages, services and methods are sequences of letters, because the    *)
(* client compares the paths built from them by prefix.                    *)
(***************************************************************************)
EXTENDS Names

CONSTANTS
    FoldCase,  \* [spelling -> its spelling in one case], ToLower and ToUpper
    UintMod    \* 2^32 in the code: the weights are uint32

ASSUME UintModAssumption == UintMod \in Nat \ {0}

-----------------------------------------------------------------------------
(* interceptor.go and xds.go *)

Denominators == {"hundred", "ten_thousand", "million"}

makeFractionalPercent(fraction) ==
    IF FoldCase[fraction.denominator] \in Denominators
    THEN [fraction EXCEPT !.denominator = FoldCase[@]]
    ELSE Error

(* The delay or the abort of a fault: a value, else one from the metadata. *)
makeFault(fault) ==
    IF fault.value = Nil /\ ~fault.metadata
    THEN Error
    ELSE Then(Optional(fault.percentage, makeFractionalPercent),
              LAMBDA p : [header |-> fault.value = Nil, percentage |-> p])

makeFaultFilter(spec) ==
    Then(Optional(spec.delay, makeFault), LAMBDA delay :
    Then(Optional(spec.abort, makeFault), LAMBDA abort :
        [delay |-> delay, abort |-> abort]))

(* An interceptor is its fault; no other kind exists. *)
makeFilter(fault) ==
    IF fault = Nil
    THEN Error
    ELSE Then(makeFaultFilter(fault),
              LAMBDA config : [name |-> "fault", config |-> config])

Router == [name |-> "router", config |-> Nil]

(* The router comes last. *)
makeFilters(interceptors) ==
    Then(Each([i \in DOMAIN interceptors |-> makeFilter(interceptors[i])]),
         LAMBDA filters : Append(filters, Router))

(* One override per name: the last one. *)
makeFilterOverrides(interceptors) ==
    Then(Each([i \in DOMAIN interceptors |-> makeFilter(interceptors[i])]),
         LAMBDA filters : [name \in {f.name : f \in Range(filters)} |->
             LET named == {i \in DOMAIN filters : filters[i].name = name}
             IN  filters[CHOOSE i \in named : \A j \in named : j <= i].config])

-----------------------------------------------------------------------------
(* Matchers *)

(* path.Join of a first element that is not empty and a second one, neither *)
(* with a slash: empty elements and dots go, two dots take back the first.  *)
Dot == <<".">>
DotDot == <<".", ".">>

Join(a, b) ==
    CASE b \in {<<>>, Dot} -> a
      [] b \notin {<<>>, Dot} /\ a = Dot -> b
      [] b = DotDot /\ a \notin {Dot, DotDot} -> Dot
      [] OTHER -> a \o <<"/">> \o b

(* MethodMatcher.Path and ServiceMatcher.Prefix: the dot is written after an *)
(* empty namespace too.                                                      *)
Path(m) == <<"/">> \o Join(m.namespace \o Dot \o m.service, m.method)

(* Mutant: namespace and service joined like a service and its method. *)
PrefixJoined(m) == <<"/">> \o m.namespace \o <<"/">> \o m.service

Prefix(m) == <<"/">> \o m.namespace \o Dot \o m.service

makeRegexMatcher(spec) ==
    IF spec.engine # "re2" \/ spec.blank THEN Error ELSE "regex"

(* conditions maps each kind that is set to its value; the first in the    *)
(* order of the code is taken.                                              *)
makeMetadataMatcher(conditions) ==
    LET kinds == <<"exact", "regex", "range", "present", "prefix", "suffix">>
        given == SelectSeq(kinds, LAMBDA k : k \in DOMAIN conditions)
    IN  CASE given = <<>> -> Error
          [] given # <<>> /\ Head(given) = "regex" ->
                makeRegexMatcher(conditions["regex"])
          [] OTHER -> Head(given)

MatchAll == [kind |-> "prefix", path |-> <<"/">>, fraction |-> Nil, headers |-> <<>>]

PathSpecifier(m) ==
    CASE m.method # Nil -> [kind |-> "path", path |-> Path(m.method)]
      [] m.method = Nil /\ m.service # Nil ->
            [kind |-> "prefix", path |-> Prefix(m.service)]
      [] m.method = Nil /\ m.service = Nil /\ m.namespace # Nil ->
            [kind |-> "prefix", path |-> <<"/">> \o m.namespace]
      [] OTHER -> [kind |-> "prefix", path |-> MatchAll.path]

makeRouteMatch(route) ==
    IF route.matcher = Nil
    THEN MatchAll
    ELSE Then(Optional(route.matcher.fraction, makeFractionalPercent), LAMBDA fraction :
         Then(Each([i \in DOMAIN route.matcher.metadata |->
                       makeMetadataMatcher(route.matcher.metadata[i])]), LAMBDA headers :
            [kind |-> PathSpecifier(route.matcher).kind,
             path |-> PathSpecifier(route.matcher).path,
             fraction |-> fraction, headers |-> headers]))

-----------------------------------------------------------------------------
(* Routes *)

hashOf(policy) ==
    CASE policy.metadata # "" -> "header"
      [] policy.metadata = "" /\ policy.channel = TRUE -> "filter_state"
      [] OTHER -> Error

makeHashPolicy(policies) ==
    Each([i \in DOMAIN policies |-> hashOf(policies[i])])

TotalWeight(backends) ==
    SumFunction([b \in DOMAIN backends |-> backends[b].weight]) % UintMod

(* Indices are those of Go: the first route and the first backend are 0. *)
makeWeightedCluster(namespace, name, routeID, route, b) ==
    Then(makeFilterOverrides(route.backends[b].interceptors), LAMBDA overrides :
        [name |-> backendName(namespace, name, routeID, b - 1),
         weight |-> route.backends[b].weight,
         overrides |-> overrides])

makeWeightedClusters(namespace, name, routeID, route) ==
    Then(Each([b \in DOMAIN route.backends |->
                  makeWeightedCluster(namespace, name, routeID, route, b)]),
         LAMBDA clusters : [total |-> TotalWeight(route.backends),
                            clusters |-> clusters])

makeRoute(listener, routeID, route) ==
    Then(makeRouteMatch(route), LAMBDA match :
    Then(makeFilterOverrides(route.interceptors), LAMBDA overrides :
    Then(makeWeightedClusters(listener.namespace, listener.name, routeID, route),
         LAMBDA clusters :
    Then(makeHashPolicy(route.hashPolicy), LAMBDA hashPolicy :
        [match |-> match, overrides |-> overrides,
         clusters |-> clusters, hashPolicy |-> hashPolicy]))))

makeRouteConfig(listener) ==
    Each([r \in DOMAIN listener.routes |->
             makeRoute(listener, r - 1, listener.routes[r])])

(* The listener of that name in the cache, which holds at most one here. *)
lookup(store, namespace, name) ==
    LET l == store.listener
    IN  IF l # Nil /\ namespace = Word(l.namespace) /\ name = <<Word(l.name)>>
        THEN l ELSE Error

makeListener(path, store) ==
    Then(parseListenerName(path), LAMBDA ref :
    Then(lookup(store, ref.namespace, ref.name), LAMBDA listener :
    Then(makeFilters(listener.interceptors), LAMBDA filters :
    Then(makeRouteConfig(listener), LAMBDA routes :
        [name |-> path, filters |-> filters, routes |-> routes]))))

-----------------------------------------------------------------------------
(* The clusters (cluster.go) *)

makeLBPolicy(p) ==
    IF FoldCase[p] \in {"ringhash", "ring_hash"} THEN "RING_HASH" ELSE "ROUND_ROBIN"

makeCluster(path, backend) ==
    [name |-> path, lbPolicy |-> makeLBPolicy(backend.lbPolicy),
     serviceName |-> path]

(* Mutant: the length taken for the last index. *)
findBackendSpecPastEnd(ref, listener) ==
    IF ref.routeID > Len(listener.routes)
    THEN Error
    ELSE Then(At(listener.routes, ref.routeID), LAMBDA route :
            IF ref.backendID > Len(route.backends)
            THEN Error
            ELSE At(route.backends, ref.backendID))

(* Only the upper bound is checked: a negative index panics. *)
findBackendSpec(ref, listener) ==
    IF ref.routeID > Len(listener.routes) - 1
    THEN Error
    ELSE Then(At(listener.routes, ref.routeID), LAMBDA route :
            IF ref.backendID > Len(route.backends) - 1
            THEN Error
            ELSE At(route.backends, ref.backendID))
=============================================================================
