---------------------------- MODULE MCResolution ----------------------------
(***************************************************************************)
(* Stores of two kinds: one listener over every small list of slices, and  *)
(* every listener below over a fixed list; the latter may be edited.       *)
(***************************************************************************)
EXTENDS Resolution, TLC

MCFoldCase == [s \in {"hundred", "million", "round_robin", "ring_hash", "bogus"} |-> s]
                 @@ ("HUNDRED" :> "hundred") @@ ("ringHash" :> "ringhash")
MCFoldZone == [z \in {"", "a", "b"} |-> z] @@ ("A" :> "a")

(* Services and their slices *)
grpcPort == [name |-> "grpc", number |-> 0]
service(ns, n) == [namespace |-> ns, name |-> n, port |-> grpcPort]
byNumber(ns, n, p) == [service(ns, n) EXCEPT !.port = [name |-> "", number |-> p]]

ports == <<[name |-> Nil, port |-> 1], [name |-> "http", port |-> 2],
           [name |-> "grpc", port |-> 1]>>
slice(eps) == [ports |-> ports, endpoints |-> eps]
endpoint(address, ready, hints) ==
    [addresses |-> <<address>>, ready |-> ready, hints |-> hints, zone |-> "b"]

(* Every list of a slice of up to two endpoints and a slice of up to one, *)
(* with or without the wanted port.                                       *)
Variants(address) ==
    {[addresses |-> a, ready |-> r, hints |-> h, zone |-> z] :
        a \in {<<address>>, <<address, address + 10>>}, r \in {TRUE, Nil},
        h \in {Nil, {"A"}, {"a", "b"}}, z \in {Nil, "a"}}
Firsts == {<<x, y>> : x \in Variants(1), y \in {v \in Variants(2) : Len(v.addresses) = 1}}
Seconds == {<<>>, <<endpoint(3, FALSE, {"a"})>>, <<endpoint(3, TRUE, {"a"})>>,
            <<endpoint(3, TRUE, Nil)>>}
Lists == {<<slice(f), s>> : f \in Firsts, s \in {slice(x) : x \in Seconds}}
           \cup {<<slice(f), [ports |-> <<>>, endpoints |-> <<>>]>> : f \in Firsts}

(* Routes *)
backend(s) == [weight |-> 5, interceptors |-> <<>>, lbPolicy |-> "round_robin",
               service |-> s, localities |-> <<>>]
route(backends) == [matcher |-> Nil, interceptors |-> <<>>, hashPolicy |-> <<>>,
                    backends |-> backends]
anyCall == [method |-> Nil, service |-> Nil, namespace |-> Nil, fraction |-> Nil,
            metadata |-> <<>>]
on(m, backends) == [route(backends) EXCEPT !.matcher = m]
listener(routes) == [namespace |-> "default", name |-> "echo",
                     interceptors |-> <<>>, routes |-> routes]

b1 == backend(service("", "v1"))
b2 == [backend(service("other", "v1")) EXCEPT !.lbPolicy = "ringHash"]
b3 == backend(byNumber("", "v2", 2))
b4 == [b1 EXCEPT !.service = Nil,
                 !.localities = <<[weight |-> 1, priority |-> 1, service |-> service("", "v1")],
                                  [weight |-> 2, priority |-> 0, service |-> service("other", "v1")]>>]
b5 == [b4 EXCEPT !.localities = <<>>]
b6 == [b4 EXCEPT !.localities[2].service = Nil]

fault(d, a) == [delay |-> d, abort |-> a]
part(v, m, p) == [value |-> v, metadata |-> m, percentage |-> p]
percent(d) == [numerator |-> 1, denominator |-> d]

MCCalls == [namespace : {<<"e">>}, service : {<<"E">>, <<"E", "x">>}, method : {<<"m">>, <<"n">>}]
             \cup [namespace : {<<"f">>, <<>>}, service : {<<"E">>}, method : {<<"m">>}]
call == [namespace |-> <<"e">>, service |-> <<"E">>, method |-> <<"m">>]
aService == [namespace |-> <<"e">>, service |-> <<"E">>]

Listeners == {
    listener(<<route(<<b1, b2>>), route(<<b3>>)>>),
    listener(<<route(<<b3>>), route(<<b4, b1>>)>>),
    listener(<<on([anyCall EXCEPT !.method = call], <<b1>>),
               on([anyCall EXCEPT !.service = aService], <<b2>>),
               on([anyCall EXCEPT !.namespace = <<"e">>,
                                  !.fraction = percent("HUNDRED")], <<b4>>),
               on([anyCall EXCEPT !.metadata = <<("exact" :> "x")>>], <<b5>>)>>),
    listener(<<on([anyCall EXCEPT !.method = [call EXCEPT !.namespace = <<>>]], <<b1>>),
               on([anyCall EXCEPT !.service = [aService EXCEPT !.namespace = <<>>]], <<b3>>),
               on([anyCall EXCEPT !.method = [call EXCEPT !.method = <<>>]], <<b3>>),
               on([anyCall EXCEPT !.namespace = <<>>], <<b2, b6>>)>>)}

(* Twelve routes: indices of two digits. *)
Twelve == listener([r \in 1..12 |-> route(<<IF r < 11 THEN b1 ELSE b2>>)])

(* Listeners with an interceptor, or with one malformed part. *)
first == listener(<<route(<<b1>>)>>)
With(interceptor) == {
    [first EXCEPT !.interceptors = <<interceptor>>],
    [first EXCEPT !.routes[1].interceptors = <<interceptor, interceptor>>],
    [first EXCEPT !.routes[1].backends[1].interceptors = <<interceptor>>]}
Faults == {Nil, fault(part(1, FALSE, percent("million")), Nil),
           fault(Nil, part(Nil, TRUE, percent("bogus"))),
           fault(part(Nil, FALSE, Nil), part(1, FALSE, Nil))}
Parts == UNION {With(f) : f \in Faults}
    \cup {[first EXCEPT !.routes[1].hashPolicy = <<[metadata |-> m, channel |-> c]>>] :
             m \in {"", "x"}, c \in {Nil, TRUE}}
    \cup {[first EXCEPT !.routes[1].matcher =
              [anyCall EXCEPT !.metadata = <<("regex" :> [engine |-> e, blank |-> b])>>]] :
             e \in {"re2", "pcre"}, b \in BOOLEAN}
    \cup {[first EXCEPT !.routes[1].matcher = [anyCall EXCEPT !.metadata = <<<<>>>>]]}

fixedSlices ==
    (<<"default", "v1">> :> <<slice(<<endpoint(1, TRUE, Nil)>>)>>)
        @@ (<<"other", "v1">> :> <<slice(<<endpoint(2, TRUE, {"a"}), endpoint(3, TRUE, Nil)>>)>>)
        @@ (<<"default", "v2">> :> <<slice(<<endpoint(4, TRUE, Nil)>>)>>)

MCEdits == {[listener |-> l, slices |-> fixedSlices] : l \in Listeners \cup {Nil}}
MCStores ==
    {[listener |-> first, slices |-> (<<"default", "v1">> :> l)] : l \in Lists}
        \cup {[listener |-> l, slices |-> fixedSlices] : l \in Parts \cup {Twelve}}
        \cup MCEdits

MCTargets == {<<Word("echo")>>, listenerName("default", "echo"),
              <<Word("default"), Word("echo"), Word("x")>>}
=============================================================================
