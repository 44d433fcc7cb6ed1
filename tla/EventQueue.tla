------------------------------ MODULE EventQueue ------------------------------
(***************************************************************************)
(* QueuedEventHandler, src/pkg/controllersupport/handler.go: informer      *)
(* events go through a work queue to a pool of workers, each of which      *)
(* hands one event at a time to the handler.  The work queue of client-go  *)
(* is external: an item added while it waits is merged with the waiting    *)
(* one, an item added while it is handled waits until that is over.        *)
(* An item is a queueEvent, compared by value: the resync of an object     *)
(* that has not changed adds an equal item again.                          *)
(***************************************************************************)
EXTENDS Naturals, Sequences

CONSTANTS Items,     \* queueEvent values
          Workers,   \* the goroutines that Run starts
          NoItem,    \* the item of a worker that has none
          MaxAdds    \* bound: events reported by the informer

ASSUME QueueAssumption == NoItem \notin Items /\ MaxAdds \in Nat

VARIABLES
    queue,         \* items waiting for a worker, in order
    dirty,         \* items to be handled, or handled once more
    processing,    \* items a worker has taken and not reported done
    shuttingDown,  \* ShutDown was called
    run,           \* where Run is, and the process that called it
    wpc,           \* where each worker is
    item,          \* the item of each worker
    adds,          \* events reported so far
    ctxDone        \* the context of Run and of its workers is done

queueVars == <<queue, dirty, processing, shuttingDown>>
workerVars == <<wpc, item>>
vars == <<queueVars, workerVars, run, adds, ctxDone>>

TypeOK ==
    /\ queue \in Seq(Items)
    /\ dirty \in SUBSET Items
    /\ processing \in SUBSET Items
    /\ shuttingDown \in BOOLEAN
    /\ run \in {"new", "running", "returned", "exited"}
    /\ wpc \in [Workers -> {"none", "started", "get", "handle", "ended"}]
    /\ item \in [Workers -> Items \cup {NoItem}]
    /\ adds \in Nat
    /\ ctxDone \in BOOLEAN

Init ==
    /\ queue = <<>>
    /\ dirty = {}
    /\ processing = {}
    /\ shuttingDown = FALSE
    /\ run = "new"
    /\ wpc = [k \in Workers |-> "none"]
    /\ item = [k \in Workers |-> NoItem]
    /\ adds = 0
    /\ ctxDone = FALSE

-----------------------------------------------------------------------------
\* OnAdd, OnUpdate and OnDelete: workqueue.Add.  After ShutDown it does nothing.
enqueue(i) ==
    /\ adds < MaxAdds
    /\ adds' = adds + 1
    /\ IF shuttingDown
       THEN UNCHANGED <<dirty, queue>>
       ELSE /\ dirty' = dirty \cup {i}
            /\ queue' = IF i \in dirty \/ i \in processing
                        THEN queue
                        ELSE Append(queue, i)
    /\ UNCHANGED <<processing, shuttingDown, workerVars, run, ctxDone>>

\* Run starts the workers and waits for the context.
startWorkers ==
    /\ run = "new"
    /\ run' = "running"
    /\ wpc' = [k \in Workers |-> "started"]
    /\ UNCHANGED <<queueVars, item, adds, ctxDone>>

\* Mutant: Run returns without ShutDown.
returnRunOpen ==
    /\ run = "running"
    /\ ctxDone
    /\ run' = "returned"
    /\ UNCHANGED <<queueVars, workerVars, adds, ctxDone>>

\* The deferred ShutDown, and Run returns.
returnRun ==
    /\ run = "running"
    /\ ctxDone
    /\ shuttingDown' = TRUE
    /\ run' = "returned"
    /\ UNCHANGED <<queue, dirty, processing, workerVars, adds, ctxDone>>

\* The queues have returned, and main after them.  Neither waits for the workers,
\* which end with the process wherever they are.
exit ==
    /\ run = "returned"
    /\ run' = "exited"
    /\ UNCHANGED <<queueVars, workerVars, adds, ctxDone>>

\* wait.UntilWithContext calls runWorker unless the context is done already.
runWorker(k) ==
    /\ wpc[k] = "started"
    /\ wpc' = [wpc EXCEPT ![k] = IF ctxDone THEN "ended" ELSE "get"]
    /\ UNCHANGED <<queueVars, item, run, adds, ctxDone>>

\* Mutant: the shutdown flag that Get returns is ignored.
getItemIgnoringShutdown(k) ==
    LET i == IF queue = <<>> THEN NoItem ELSE Head(queue) IN
    /\ wpc[k] = "get"
    /\ queue # <<>> \/ shuttingDown
    /\ queue' = IF queue = <<>> THEN <<>> ELSE Tail(queue)
    /\ dirty' = dirty \ {i}
    /\ processing' = processing \cup {i}
    /\ item' = [item EXCEPT ![k] = i]
    /\ wpc' = [wpc EXCEPT ![k] = "handle"]
    /\ UNCHANGED <<shuttingDown, run, adds, ctxDone>>

\* Mutant: Done is called at once instead of being deferred.
getItemDoneFirst(k) ==
    /\ wpc[k] = "get"
    /\ queue # <<>>
    /\ queue' = Tail(queue)
    /\ dirty' = dirty \ {Head(queue)}
    /\ item' = [item EXCEPT ![k] = Head(queue)]
    /\ wpc' = [wpc EXCEPT ![k] = "handle"]
    /\ UNCHANGED <<processing, shuttingDown, run, adds, ctxDone>>

\* processItem: Get hands out the first waiting item.
getItem(k) ==
    /\ wpc[k] = "get"
    /\ queue # <<>>
    /\ queue' = Tail(queue)
    /\ dirty' = dirty \ {Head(queue)}
    /\ processing' = processing \cup {Head(queue)}
    /\ item' = [item EXCEPT ![k] = Head(queue)]
    /\ wpc' = [wpc EXCEPT ![k] = "handle"]
    /\ UNCHANGED <<shuttingDown, run, adds, ctxDone>>

\* processItem: Get reports the shutdown once no item waits; runWorker returns,
\* and so does wait.UntilWithContext.
getShutdown(k) ==
    /\ wpc[k] = "get"
    /\ queue = <<>>
    /\ shuttingDown
    /\ wpc' = [wpc EXCEPT ![k] = "ended"]
    /\ UNCHANGED <<queueVars, item, run, adds, ctxDone>>

\* Mutant: Done is never called.
finishItemNotDone(k) ==
    /\ wpc[k] = "handle"
    /\ item' = [item EXCEPT ![k] = NoItem]
    /\ wpc' = [wpc EXCEPT ![k] = "get"]
    /\ UNCHANGED <<queueVars, run, adds, ctxDone>>

\* The handler returned, whether with an error or not: Forget, then Done, which
\* queues the item again if it was added meanwhile.
finishItem(k) ==
    /\ wpc[k] = "handle"
    /\ processing' = processing \ {item[k]}
    /\ queue' = IF item[k] \in dirty THEN Append(queue, item[k]) ELSE queue
    /\ item' = [item EXCEPT ![k] = NoItem]
    /\ wpc' = [wpc EXCEPT ![k] = "get"]
    /\ UNCHANGED <<dirty, shuttingDown, run, adds, ctxDone>>

cancelCtx ==
    /\ ~ctxDone
    /\ ctxDone' = TRUE
    /\ UNCHANGED <<queueVars, workerVars, run, adds>>

-----------------------------------------------------------------------------
WorkerStep(k) ==
    /\ run # "exited"
    /\ runWorker(k) \/ getItem(k) \/ getShutdown(k) \/ finishItem(k)

Next ==
    \/ run # "exited" /\ \E i \in Items : enqueue(i)
    \/ startWorkers
    \/ returnRun
    \/ exit
    \/ \E k \in Workers : WorkerStep(k)
    \/ cancelCtx

Spec == Init /\ [][Next]_vars

\* Goroutines run; handlers return.  Events, the end of the context and how long
\* the process outlives Run are up to the environment.
Fairness ==
    /\ WF_vars(startWorkers)
    /\ WF_vars(returnRun)
    /\ \A k \in Workers : WF_vars(WorkerStep(k))

FairSpec == Spec /\ Fairness

-----------------------------------------------------------------------------
(* Properties.                                                             *)

Handling(k) == wpc[k] = "handle"

\* Two workers never handle equal events at the same time, however often the
\* informer reports them again meanwhile.
ExclusiveHandling ==
    \A j, k \in Workers : Handling(j) /\ Handling(k) /\ j # k => item[j] # item[k]

\* An event is never forgotten between the queue and its workers: what has to be
\* handled waits in the queue, once, or is handled right now and will be queued
\* again by the worker that handles it.
NothingForgotten ==
    /\ \A i \in dirty :
          \/ \E p \in 1 .. Len(queue) : queue[p] = i
          \/ \E k \in Workers : Handling(k) /\ item[k] = i
    /\ \A p, q \in 1 .. Len(queue) : p # q => queue[p] # queue[q]

\* Once a worker has started, an event that was accepted is handled after it was
\* accepted, by workers that are never stuck on other events.  Only the end of the
\* process takes it away: Run calls ShutDown and returns (handler.go:62-77) without
\* waiting for its workers.
AcceptedIsHandled ==
    \A i \in Items :
        (i \in dirty /\ \E k \in Workers : wpc[k] \in {"get", "handle"})
            ~> (i \notin dirty \/ run = "exited")

\* Cancelling the context ends every worker, also those that wait for an event,
\* unless the process is gone before: the deferred ShutDown wakes them up.
WorkersEnd ==
    ctxDone ~> (run = "exited" \/ \A k \in Workers : wpc[k] = "ended")
=============================================================================
