------------------------------- MODULE Schema -------------------------------
(***************************************************************************)
(* The types of api/gtc/v1alpha1: which of their fields refer to memory    *)
(* outside of the struct (a pointer, or a slice and its array) and which   *)
(* are structs held inside of it. A field of a plain value is part of the  *)
(* struct's own memory and is not listed. A type that is not listed has no *)
(* field of either sort.                                                   *)
(***************************************************************************)
EXTENDS Naturals, Sequences, TLC

ref(type) == [type |-> type, outside |-> TRUE]
struct(type) == [type |-> type, outside |-> FALSE]

\* GRPCListener to ServiceMatcher. ObjectMeta is a type of the Kubernetes
\* library and keeps its labels in a map.
listenerTypes ==
  [ObjectMeta |-> [Labels |-> ref("map")],
   GRPCListener |-> [TypeMeta |-> struct("TypeMeta"), ObjectMeta |-> struct("ObjectMeta"),
                     Spec |-> struct("GRPCListenerSpec")],
   GRPCListenerSpec |-> [MaxStreamDuration |-> ref("Duration"),
                         Interceptors |-> ref("Interceptor"),
                         Retry |-> ref("RetryPolicy"), Routes |-> ref("Route")],
   Route |-> [Matcher |-> ref("RouteMatcher"), Interceptors |-> ref("Interceptor"),
              HashPolicy |-> ref("HashPolicy"), MaxStreamDuration |-> ref("Duration"),
              GrpcTimeoutHeaderMax |-> ref("Duration"), Retry |-> ref("RetryPolicy"),
              Backends |-> ref("Backend")],
   RouteMatcher |-> [Method |-> ref("MethodMatcher"), Service |-> ref("ServiceMatcher"),
                     Namespace |-> ref("string"), Metadata |-> ref("MetadataMatcher"),
                     Fraction |-> ref("Fraction")],
   MetadataMatcher |-> [Exact |-> ref("string"), Regex |-> ref("RegexMatcher"),
                        Range |-> ref("RangeMatcher"), Present |-> ref("bool"),
                        Prefix |-> ref("string"), Suffix |-> ref("string")]]

\* Backend to GRPCListenerList.
backendTypes ==
  [Backend |-> [MaxRequests |-> ref("uint32"), RingHashConfig |-> ref("RingHashConfig"),
                Interceptors |-> ref("Interceptor"), Service |-> ref("ServiceRef"),
                Localities |-> ref("Locality")],
   Locality |-> [Service |-> ref("ServiceRef")],
   ServiceRef |-> [Port |-> struct("PortRef")],
   RetryPolicy |-> [RetryOn |-> ref("string"), NumRetries |-> ref("uint32"),
                    Backoff |-> ref("RetryBackoff")],
   RetryBackoff |-> [BaseInterval |-> struct("Duration"), MaxInterval |-> ref("Duration")],
   HashPolicy |-> [Channel |-> ref("bool")],
   GRPCListenerList |-> [TypeMeta |-> struct("TypeMeta"), ListMeta |-> struct("ListMeta"),
                         Items |-> ref("GRPCListener")]]

matcherTypes ==
  [PathMatcher |-> [Regex |-> ref("RegexMatcher")],
   HeaderMatcher |-> [Exact |-> ref("string"), Regex |-> ref("RegexMatcher"),
                      Range |-> ref("RangeMatcher"), Present |-> ref("bool"),
                      Prefix |-> ref("string"), Suffix |-> ref("string")]]

interceptorTypes ==
  [Interceptor |-> [Fault |-> ref("FaultInterceptor")],
   FaultInterceptor |-> [Delay |-> ref("FaultDelay"), Abort |-> ref("FaultAbort"),
                         MaxActiveFaults |-> ref("uint32"), Headers |-> ref("HeaderMatcher")],
   FaultAbort |-> [Code |-> ref("uint32"), Metadata |-> ref("MetadataFault"),
                   Percentage |-> ref("Fraction")],
   FaultDelay |-> [Fixed |-> ref("Duration"), Metadata |-> ref("MetadataFault"),
                   Percentage |-> ref("Fraction")]]

Types == listenerTypes @@ backendTypes @@ matcherTypes @@ interceptorTypes

FieldsOf(type) == IF type \in DOMAIN Types THEN Types[type] ELSE <<>>
=============================================================================
