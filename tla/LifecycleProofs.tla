-------------------------- MODULE LifecycleProofs --------------------------
(***************************************************************************)
(* That an orderly stop cuts no stream, for any number of clients and of   *)
(* event queues.                                                           *)
(***************************************************************************)
EXTENDS Lifecycle, TLAPS

(* A completed graceful stop has no stream left, and no stream opens after *)
(* it, because a stop is never undone; Serve returns without an error only *)
(* after it; and Run returns only after the goroutine that serves.         *)
IInv ==
    /\ TypeOK
    /\ stop = "stopped" => streams = {}
    /\ grpc = "returned" /\ ~grpcErr => stop = "stopped"
    /\ grpc = "unbound" => grpcErr
    /\ run = "returned" => grpc \in {"unbound", "returned"}

-----------------------------------------------------------------------------

(* The process starts with nothing bound and no stream. *)
LEMMA InitHolds == Init => IInv
  BY Zenon DEF Init, IInv, TypeOK

(* The steps of XDSServer.Run keep the invariant. *)
LEMMA Step_run ==
  ASSUME IInv, UNCHANGED exited,
         \/ \E q \in Queues : returnQueue(q)
         \/ bind \/ bindFails \/ serve \/ beginStop \/ endStop
         \/ returnServe \/ acceptFails \/ returnRun
  PROVE  IInv'
  <1> USE DEF IInv, TypeOK, webVars
  <1>1. ASSUME NEW q \in Queues, returnQueue(q) PROVE IInv'
    BY <1>1 DEF returnQueue
  <1>2. CASE bind
    BY <1>2, Zenon DEF bind
  <1>3. CASE bindFails
    BY <1>3, Zenon DEF bindFails
  <1>4. CASE serve
    <2>1. CASE stop = "waiting"
      BY <1>4, <2>1, Zenon DEF serve
    <2>2. CASE stop # "waiting"
      BY <1>4, <2>2, Zenon DEF serve
    <2> QED BY <2>1, <2>2, Zenon
  <1>5. CASE beginStop
    BY <1>5 DEF beginStop
  <1>6. CASE endStop
    BY <1>6 DEF endStop
  <1>7. CASE returnServe
    BY <1>7, Zenon DEF returnServe
  <1>8. CASE acceptFails
    BY <1>8, Zenon DEF acceptFails
  <1>9. CASE returnRun
    BY <1>9 DEF returnRun
  <1> QED BY <1>1, <1>2, <1>3, <1>4, <1>5, <1>6, <1>7, <1>8, <1>9, Zenon

(* Streams open only before the stop and close at any time. *)
LEMMA Step_streams ==
  ASSUME IInv, UNCHANGED exited, NEW c \in Clients,
         openStream(c) \/ leaveStream(c) \/ endStream(c)
  PROVE  IInv'
  <1> USE DEF IInv, TypeOK, serverVars, webVars
  <1>1. CASE openStream(c)
    BY <1>1, Zenon DEF openStream
  <1>2. CASE leaveStream(c)
    BY <1>2 DEF leaveStream
  <1>3. CASE endStream(c)
    BY <1>3 DEF endStream
  <1> QED BY <1>1, <1>2, <1>3, Zenon

(* The web server, the signal and the exit leave the gRPC server alone. *)
LEMMA Step_main ==
  ASSUME IInv,
         \/ /\ failWeb \/ serveWeb \/ stopWeb \/ returnWeb \/ receiveSignal
            /\ UNCHANGED exited
         \/ exit
  PROVE  IInv'
  <1> USE DEF IInv, TypeOK, serverVars, webVars
  <1>1. CASE failWeb /\ UNCHANGED exited
    BY <1>1, Zenon DEF failWeb
  <1>2. CASE serveWeb /\ UNCHANGED exited
    BY <1>2 DEF serveWeb
  <1>3. CASE stopWeb /\ UNCHANGED exited
    BY <1>3 DEF stopWeb
  <1>4. CASE returnWeb /\ UNCHANGED exited
    BY <1>4, Zenon DEF returnWeb
  <1>5. CASE receiveSignal /\ UNCHANGED exited
    BY <1>5 DEF receiveSignal
  <1>6. CASE exit
    BY <1>6, Zenon DEF exit
  <1> QED BY <1>1, <1>2, <1>3, <1>4, <1>5, <1>6, Zenon

(* IInv is an invariant of the process. *)
THEOREM Invariance == Spec => []IInv
  <1>1. IInv /\ [Next]_vars => IInv'
    <2> SUFFICES ASSUME IInv, [Next]_vars PROVE IInv'
      OBVIOUS
    <2>1. CASE Progress /\ UNCHANGED exited
      BY <2>1, Step_run, Step_streams, Step_main, Zenon DEF Progress
    <2>2. CASE Environment /\ UNCHANGED exited
      BY <2>2, Step_run, Step_streams, Step_main, Zenon DEF Environment
    <2>3. CASE exit
      BY <2>3, Step_main, Zenon
    <2>4. CASE UNCHANGED vars
      BY <2>4 DEF vars, IInv, TypeOK
    <2> QED BY <2>1, <2>2, <2>3, <2>4, Zenon DEF Next
  <1> QED BY InitHolds, <1>1, PTL DEF Spec

(* The goroutines of server.go and main.go keep their types, and the stop  *)
(* goroutine exists exactly once the listener is bound.                    *)
THEOREM TypeCorrect == Spec => []TypeOK
  <1>1. IInv => TypeOK
    BY Zenon DEF IInv
  <1> QED BY Invariance, <1>1, PTL

(* When XDSServer.Run has returned without an error, GracefulStop has seen *)
(* the handler of every stream return.                                     *)
THEOREM OrderlyStop == Spec => []NoStreamCut
  <1>1. IInv => NoStreamCut
    BY Zenon DEF IInv, NoStreamCut
  <1> QED BY Invariance, <1>1, PTL
=============================================================================
