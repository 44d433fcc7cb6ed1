----------------------------- MODULE Lifecycle -----------------------------
(***************************************************************************)
(* The life of the controller process: the goroutines that main and        *)
(* XDSServer.Run start, the contexts that tie them together, and the ADS   *)
(* streams that hold up a graceful stop.                                   *)
(*                                                                         *)
(* main waits for a group of two goroutines, XDSServer.Run and the web     *)
(* server; Run waits for a group of three, the two event queues and the    *)
(* gRPC server.  A group cancels its context when a member returns an      *)
(* error, and a cancelled context cancels the contexts derived from it at  *)
(* once, so both contexts are functions of the rest of the state.  The     *)
(* gRPC and HTTP servers are libraries, modelled by what Run and main rely *)
(* on.                                                                     *)
(***************************************************************************)
CONSTANTS Clients,  \* the clients that may open an ADS stream
          Queues    \* the event queues that Run runs

VARIABLES signal,   \* has the process been told to stop? (main's first ctx)
          queues,   \* the queues whose Run has not returned
          grpc,     \* what the goroutine that binds and serves is doing
          grpcErr,  \* did that goroutine return an error?
          stop,     \* what the goroutine that calls GracefulStop is doing
          run,      \* has XDSServer.Run returned?
          web,      \* what runWebserver is doing
          webErr,   \* did runWebserver return an error?
          webStop,  \* has its goroutine called Shutdown?
          streams,  \* the clients whose stream is being handled
          exited    \* has main returned?

vars == <<signal, queues, grpc, grpcErr, stop, run, web, webErr, webStop,
          streams, exited>>

serverVars == <<queues, grpc, grpcErr, stop, run>>
webVars    == <<web, webErr, webStop>>

Failed == grpcErr \/ webErr

(***************************************************************************)
(* Both servers end in the state "returned".  A goroutine that calls        *)
(* GracefulStop exists exactly when the address was bound.                  *)
(***************************************************************************)
TypeOK ==
    /\ signal \in BOOLEAN
    /\ queues \subseteq Queues
    /\ grpc \in {"binding", "unbound", "bound", "serving", "returned"}
    /\ grpcErr \in BOOLEAN
    /\ stop \in {"none", "waiting", "stopping", "stopped"}
    /\ stop = "none" <=> grpc \in {"binding", "unbound"}
    /\ run \in {"waiting", "returned"}
    /\ web \in {"starting", "serving", "returned"}
    /\ webErr \in BOOLEAN
    /\ webStop \in BOOLEAN
    /\ streams \subseteq Clients
    /\ exited \in BOOLEAN

Init ==
    /\ signal = FALSE
    /\ queues = Queues
    /\ grpc = "binding"
    /\ grpcErr = FALSE
    /\ stop = "none"
    /\ run = "waiting"
    /\ web = "starting"
    /\ webErr = FALSE
    /\ webStop = FALSE
    /\ streams = {}
    /\ exited = FALSE

(* The context of main's group: the signal, or an error of a member. *)
MainDone == signal \/ webErr \/ (run = "returned" /\ grpcErr)

(* The context of Run's group, derived from the one Run is given. *)
RunDone == MainDone \/ grpcErr

-----------------------------------------------------------------------------
(* XDSServer.Run *)

(* Mutant: a queue run with the context Run is given, not with its group's. *)
returnQueueOuter(q) ==
    /\ q \in queues
    /\ MainDone
    /\ queues' = queues \ {q}
    /\ UNCHANGED <<signal, grpc, grpcErr, stop, run, webVars, streams>>

(* The Run of a queue waits for its context and returns no error. *)
returnQueue(q) ==
    /\ q \in queues
    /\ RunDone
    /\ queues' = queues \ {q}
    /\ UNCHANGED <<signal, grpc, grpcErr, stop, run, webVars, streams>>

(* Mutant: the stopping goroutine started before the error of net.Listen is read. *)
bindFailsLate ==
    /\ grpc = "binding"
    /\ grpc' = "unbound"
    /\ grpcErr' = TRUE
    /\ stop' = "waiting"
    /\ UNCHANGED <<signal, queues, run, webVars, streams>>

bindFails ==
    /\ grpc = "binding"
    /\ grpc' = "unbound"
    /\ grpcErr' = TRUE
    /\ UNCHANGED <<signal, queues, stop, run, webVars, streams>>

bind ==
    /\ grpc = "binding"
    /\ grpc' = "bound"
    /\ stop' = "waiting"
    /\ UNCHANGED <<signal, queues, grpcErr, run, webVars, streams>>

(* Serve refuses, with an error, a server that was stopped before. *)
serve ==
    /\ grpc = "bound"
    /\ IF stop = "waiting"
       THEN grpc' = "serving" /\ UNCHANGED grpcErr
       ELSE grpc' = "returned" /\ grpcErr' = TRUE
    /\ UNCHANGED <<signal, queues, stop, run, webVars, streams>>

(* GracefulStop refuses new streams, then waits for the open ones. *)
beginStop ==
    /\ stop = "waiting"
    /\ RunDone
    /\ stop' = "stopping"
    /\ UNCHANGED <<signal, queues, grpc, grpcErr, run, webVars, streams>>

(* Mutant: stop in place of GracefulStop. *)
endStopAtOnce ==
    /\ stop = "stopping"
    /\ stop' = "stopped"
    /\ UNCHANGED <<signal, queues, grpc, grpcErr, run, webVars, streams>>

endStop ==
    /\ stop = "stopping"
    /\ streams = {}
    /\ stop' = "stopped"
    /\ UNCHANGED <<signal, queues, grpc, grpcErr, run, webVars, streams>>

(* Serve returns no error once the stop it was interrupted by is over, *)
(* and the error of Accept when no stop has begun.                     *)
returnServe ==
    /\ grpc = "serving"
    /\ stop = "stopped"
    /\ grpc' = "returned"
    /\ UNCHANGED <<signal, queues, grpcErr, stop, run, webVars, streams>>

acceptFails ==
    /\ grpc = "serving"
    /\ stop = "waiting"
    /\ grpc' = "returned"
    /\ grpcErr' = TRUE
    /\ UNCHANGED <<signal, queues, stop, run, webVars, streams>>

(* errGroup.Wait *)
returnRun ==
    /\ run = "waiting"
    /\ queues = {}
    /\ grpc \in {"unbound", "returned"}
    /\ run' = "returned"
    /\ UNCHANGED <<signal, queues, grpc, grpcErr, stop, webVars, streams>>

-----------------------------------------------------------------------------
(* The ADS streams *)

openStream(c) ==
    /\ c \notin streams
    /\ grpc = "serving"
    /\ stop = "waiting"
    /\ streams' = streams \cup {c}
    /\ UNCHANGED <<signal, serverVars, webVars>>

(* The client goes away, or the keepalive finds that it has. *)
leaveStream(c) ==
    /\ c \in streams
    /\ streams' = streams \ {c}
    /\ UNCHANGED <<signal, serverVars, webVars>>

(* Mutant: an xDS server built with a context that nothing cancels. *)
endStreamNever(c) ==
    /\ c \in streams
    /\ FALSE
    /\ UNCHANGED vars

(* The handler of a stream returns when the context that main gave to *)
(* NewXDSServer is done; it is the signal's, not the group's.          *)
endStream(c) ==
    /\ c \in streams
    /\ signal
    /\ streams' = streams \ {c}
    /\ UNCHANGED <<signal, serverVars, webVars>>

-----------------------------------------------------------------------------
(* runWebserver and main *)

(* ListenAndServe: the address is taken, or Accept fails later. *)
failWeb ==
    /\ web \in {"starting", "serving"}
    /\ ~webStop
    /\ web' = "returned"
    /\ webErr' = TRUE
    /\ UNCHANGED <<signal, serverVars, webStop, streams>>

serveWeb ==
    /\ web = "starting"
    /\ ~webStop
    /\ web' = "serving"
    /\ UNCHANGED <<signal, serverVars, webErr, webStop, streams>>

stopWeb ==
    /\ ~webStop
    /\ MainDone
    /\ webStop' = TRUE
    /\ UNCHANGED <<signal, serverVars, web, webErr, streams>>

(* ErrServerClosed, which runWebserver does not report. *)
returnWeb ==
    /\ web \in {"starting", "serving"}
    /\ webStop
    /\ web' = "returned"
    /\ UNCHANGED <<signal, serverVars, webErr, webStop, streams>>

receiveSignal ==
    /\ ~signal
    /\ signal' = TRUE
    /\ UNCHANGED <<serverVars, webVars, streams>>

(* group.Wait, after which main returns and every goroutine is gone. *)
exit ==
    /\ run = "returned"
    /\ web = "returned"
    /\ exited' = TRUE
    /\ UNCHANGED <<signal, serverVars, webVars, streams>>

-----------------------------------------------------------------------------
(* What the process does by itself, and what happens to it. *)
Progress ==
    \/ \E q \in Queues : returnQueue(q)
    \/ bind
    \/ serve
    \/ beginStop
    \/ endStop
    \/ returnServe
    \/ returnRun
    \/ \E c \in Clients : endStream(c)
    \/ serveWeb
    \/ stopWeb
    \/ returnWeb

Environment ==
    \/ bindFails
    \/ acceptFails
    \/ \E c \in Clients : openStream(c) \/ leaveStream(c)
    \/ failWeb
    \/ receiveSignal

Next ==
    /\ ~exited
    /\ \/ (Progress \/ Environment) /\ UNCHANGED exited
       \/ exit

Spec == Init /\ [][Next]_vars

(* Goroutines that can run do: weak fairness of each step of the process.  *)
(* Nothing is assumed of signals, failures and clients.                     *)
Running(A) == ~exited /\ A /\ UNCHANGED exited

Fairness ==
    /\ \A q \in Queues : WF_vars(Running(returnQueue(q)))
    /\ WF_vars(Running(bind \/ bindFails))
    /\ WF_vars(Running(serve))
    /\ WF_vars(Running(beginStop))
    /\ WF_vars(Running(endStop))
    /\ WF_vars(Running(returnServe))
    /\ WF_vars(Running(returnRun))
    /\ \A c \in Clients : WF_vars(Running(endStream(c)))
    /\ WF_vars(Running(stopWeb))
    /\ WF_vars(Running(returnWeb))
    /\ WF_vars(~exited /\ exit)

FairSpec == Spec /\ Fairness

-----------------------------------------------------------------------------
(***************************************************************************)
(* An orderly stop cuts no stream: when Run has returned without an error, *)
(* the handler of every stream has returned (GracefulStop, server.go).     *)
(***************************************************************************)
NoStreamCut == run = "returned" /\ ~grpcErr => streams = {}

(***************************************************************************)
(* A signal ends the process, whatever the clients do: the context of the  *)
(* signal reaches the queues, the servers and the handler of each stream,  *)
(* so that the graceful stop does not wait for clients that stay.          *)
(***************************************************************************)
StopsOnSignal == signal ~> exited

(***************************************************************************)
(* A server that cannot bind or accept takes the process down with it      *)
(* (errgroup, in main and in Run), provided the streams are not held open  *)
(* for ever: only they can keep the process from ending.                   *)
(***************************************************************************)
FailureStops == []<>(streams = {}) => (Failed ~> exited)
=============================================================================
