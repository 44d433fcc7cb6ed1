------------------------------ MODULE DeepCopy ------------------------------
(***************************************************************************)
(* The generated copies of api/gtc/v1alpha1/zz_generated.deepcopy.go: what *)
(* each DeepCopyInto does to each field it names, and which blocks of      *)
(* memory of an object its copy ends up owning. The statements are         *)
(*   new:     the block is allocated and its content assigned              *)
(*            (new of the type and an assignment, or make and copy);       *)
(*   into:    the block is allocated and its content copied by the         *)
(*            DeepCopyInto of its type, once per element of a slice;       *)
(*   inside:  the DeepCopyInto of a struct held in this one;               *)
(*   assign:  out.F = in.F, which is also what the assignment of the whole *)
(*            struct does to every field a DeepCopyInto does not name.     *)
(* The tables stand in the order of the file.                              *)
(***************************************************************************)
EXTENDS Schema

copyBackendToFaultInterceptor ==
  [Backend |-> [MaxRequests |-> "new", RingHashConfig |-> "new", Interceptors |-> "into",
                Service |-> "new", Localities |-> "into"],
   FaultAbort |-> [Code |-> "new", Metadata |-> "new", Percentage |-> "new"],
   FaultDelay |-> [Fixed |-> "new", Metadata |-> "new", Percentage |-> "new"],
   FaultInterceptor |-> [Delay |-> "into", Abort |-> "into", MaxActiveFaults |-> "new",
                         Headers |-> "into"]]

copyFractionToHashPolicy ==
  [Fraction |-> <<>>,
   GRPCListener |-> [TypeMeta |-> "assign", ObjectMeta |-> "inside", Spec |-> "inside"],
   GRPCListenerList |-> [TypeMeta |-> "assign", ListMeta |-> "inside", Items |-> "into"],
   GRPCListenerSpec |-> [MaxStreamDuration |-> "new", Interceptors |-> "into",
                         Retry |-> "into", Routes |-> "into"],
   HashPolicy |-> [Channel |-> "new"]]

copyHeaderMatcherToMetadataMatcher ==
  [HeaderMatcher |-> [Exact |-> "new", Regex |-> "new", Range |-> "new",
                      Present |-> "new", Prefix |-> "new", Suffix |-> "new"],
   Interceptor |-> [Fault |-> "into"],
   Locality |-> [Service |-> "new"],
   MetadataFault |-> <<>>,
   MetadataMatcher |-> [Exact |-> "new", Regex |-> "new", Range |-> "new",
                        Present |-> "new", Prefix |-> "new", Suffix |-> "new"]]

copyMethodMatcherToRetryPolicy ==
  [MethodMatcher |-> <<>>,
   PathMatcher |-> [Regex |-> "new"],
   PortRef |-> <<>>,
   RangeMatcher |-> <<>>,
   RegexMatcher |-> <<>>,
   RetryBackoff |-> [BaseInterval |-> "assign", MaxInterval |-> "new"],
   RetryPolicy |-> [RetryOn |-> "new", NumRetries |-> "new", Backoff |-> "into"]]

\* Route.Retry is copied as if RetryPolicy had no references in it.
copyRetryShallow ==
  [RingHashConfig |-> <<>>,
   Route |-> [Matcher |-> "into", Interceptors |-> "into", HashPolicy |-> "into",
              MaxStreamDuration |-> "new", GrpcTimeoutHeaderMax |-> "new",
              Retry |-> "new", Backends |-> "into"],
   RouteMatcher |-> [Method |-> "new", Service |-> "new", Namespace |-> "new",
                     Metadata |-> "into", Fraction |-> "new"],
   ServiceMatcher |-> <<>>,
   ServiceRef |-> [Port |-> "assign"]]

copyRingHashConfigToServiceRef ==
  [RingHashConfig |-> <<>>,
   Route |-> [Matcher |-> "into", Interceptors |-> "into", HashPolicy |-> "into",
              MaxStreamDuration |-> "new", GrpcTimeoutHeaderMax |-> "new",
              Retry |-> "into", Backends |-> "into"],
   RouteMatcher |-> [Method |-> "new", Service |-> "new", Namespace |-> "new",
                     Metadata |-> "into", Fraction |-> "new"],
   ServiceMatcher |-> <<>>,
   ServiceRef |-> [Port |-> "assign"]]

\* The DeepCopyInto of the library's ObjectMeta.
copyLibraryTypes == [ObjectMeta |-> [Labels |-> "new"]]

Copies ==
  copyBackendToFaultInterceptor @@ copyFractionToHashPolicy
    @@ copyHeaderMatcherToMetadataMatcher @@ copyMethodMatcherToRetryPolicy
    @@ copyRingHashConfigToServiceRef @@ copyLibraryTypes

\* What the DeepCopyInto of a type does to one of the type's fields.
Statement(type, field) ==
  IF type \in DOMAIN Copies /\ field \in DOMAIN Copies[type]
  THEN Copies[type][field] ELSE "assign"

(***************************************************************************)
(* A place in an object: the fields that lead to it from the root, its     *)
(* type, whether it is the start of a block of memory of its own, whether  *)
(* the copy owns that block, and whether the copy runs the place's         *)
(* DeepCopyInto rather than assigning its content.                         *)
(***************************************************************************)
Root(type) == [path |-> <<>>, type |-> type, block |-> TRUE, owned |-> TRUE, copied |-> TRUE]

Child(place, field) ==
  LET kind == FieldsOf(place.type)[field]
      how  == IF place.copied THEN Statement(place.type, field) ELSE "assign"
  IN [path   |-> Append(place.path, field),
      type   |-> kind.type,
      block  |-> kind.outside,
      owned  |-> IF kind.outside THEN how \in {"new", "into"} ELSE place.owned,
      copied |-> how \in {"into", "inside"}]

\* The places of an object of a type, down to the depth the types reach.
MaxDepth == 9

Places(type) ==
  LET within[n \in 0..MaxDepth] ==
        IF n = 0 THEN {Root(type)}
        ELSE within[n - 1] \cup
             UNION {{Child(place, field) : field \in DOMAIN FieldsOf(place.type)} :
                    place \in {q \in within[n - 1] : Len(q.path) = n - 1}}
  IN within[MaxDepth]

ObjectPlaces == Places("GRPCListener")
ListPlaces   == Places("GRPCListenerList")

\* The blocks of memory a GRPCListener is made of, each named by its path.
Blocks == {place.path : place \in {p \in ObjectPlaces : p.block}}

\* Whether the DeepCopyObject of a listener, and of a list that holds it, has
\* a block of its own at this path.
OwnedByCopy(path) == \E place \in ObjectPlaces : place.path = path /\ place.owned
OwnedByListCopy(path) ==
  \E place \in ListPlaces : place.path = <<"Items">> \o path /\ place.owned
=============================================================================
