---------------------------- MODULE MCLifecycle ----------------------------
(* Two clients and the two queues of the controller. *)
EXTENDS Lifecycle

MCQueues == {"grpc-listeners-changes", "endpointslices-changes"}
=============================================================================
