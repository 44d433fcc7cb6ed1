--------------------------- MODULE EventQueueProofs ---------------------------
(***************************************************************************)
(* Proofs about the queued event handler, for any number of workers and    *)
(* events.                                                                 *)
(***************************************************************************)
EXTENDS EventQueue, SequenceTheorems, TLAPS

\* What waits in the queue is what has to be handled and is not handled now, ...
QueueIsDirty ==
    \A i \in Items :
        (\E p \in 1 .. Len(queue) : queue[p] = i) <=> (i \in dirty /\ i \notin processing)

\* ... once.
QueueDistinct == \A p, q \in 1 .. Len(queue) : p # q => queue[p] # queue[q]

\* What is processed is what the workers have in hand, each one item.
ProcessingIsHandled ==
    /\ \A k \in Workers : Handling(k) => item[k] \in processing
    /\ \A i \in processing : \E k \in Workers : Handling(k) /\ item[k] = i

\* There is no worker before Run.
NotStarted == run = "new" => \A k \in Workers : wpc[k] = "none"

IInv == /\ TypeOK
        /\ QueueIsDirty
        /\ QueueDistinct
        /\ ProcessingIsHandled
        /\ ExclusiveHandling
        /\ NotStarted

-----------------------------------------------------------------------------
\* The items of a queue to which one was added.
LEMMA Appended ==
    ASSUME NEW q \in Seq(Items), NEW i \in Items
    PROVE  /\ Append(q, i) \in Seq(Items)
           /\ Len(Append(q, i)) = Len(q) + 1
           /\ \A p \in 1 .. Len(q) : Append(q, i)[p] = q[p]
           /\ Append(q, i)[Len(q) + 1] = i
BY AppendProperties

\* The items of a queue from which the first was taken.
LEMMA Shortened ==
    ASSUME NEW q \in Seq(Items), q # <<>>
    PROVE  /\ Tail(q) \in Seq(Items)
           /\ Head(q) \in Items
           /\ Head(q) = q[1]
           /\ Len(q) \in Nat \ {0}
           /\ Len(Tail(q)) = Len(q) - 1
           /\ \A p \in 1 .. Len(q) - 1 : Tail(q)[p] = q[p + 1]
BY HeadTailProperties, EmptySeq

\* Adding an item that waits nowhere keeps the items of the queue distinct.
LEMMA AppendDistinct ==
    ASSUME NEW q \in Seq(Items), NEW i \in Items,
           \A p, r \in 1 .. Len(q) : p # r => q[p] # q[r],
           \A p \in 1 .. Len(q) : q[p] # i
    PROVE  /\ \A p, r \in 1 .. Len(Append(q, i)) :
                  p # r => Append(q, i)[p] # Append(q, i)[r]
           /\ \A j \in Items :
                  (\E p \in 1 .. Len(Append(q, i)) : Append(q, i)[p] = j)
                    <=> (j = i \/ \E p \in 1 .. Len(q) : q[p] = j)
<1>. DEFINE a == Append(q, i)
<1>1. /\ Len(a) = Len(q) + 1 /\ Len(q) \in Nat
      /\ \A p \in 1 .. Len(q) : a[p] = q[p]
      /\ a[Len(q) + 1] = i
  BY Appended, LenProperties, Zenon
<1>. HIDE DEF a
<1>2. \A p, r \in 1 .. Len(a) : p # r => a[p] # a[r]
  <2>. SUFFICES ASSUME NEW p \in 1 .. Len(a), NEW r \in 1 .. Len(a), p # r
                PROVE  a[p] # a[r]
    OBVIOUS
  <2>1. (p \in 1 .. Len(q) \/ p = Len(q) + 1) /\ (r \in 1 .. Len(q) \/ r = Len(q) + 1)
    BY <1>1
  <2>. QED BY <1>1, <2>1, Zenon
<1>3. \A j \in Items : (\E p \in 1 .. Len(a) : a[p] = j)
                          <=> (j = i \/ \E p \in 1 .. Len(q) : q[p] = j)
  <2>. SUFFICES ASSUME NEW j \in Items
                PROVE  (\E p \in 1 .. Len(a) : a[p] = j)
                          <=> (j = i \/ \E p \in 1 .. Len(q) : q[p] = j)
    OBVIOUS
  <2>1. ASSUME NEW p \in 1 .. Len(a), a[p] = j
        PROVE  j = i \/ \E r \in 1 .. Len(q) : q[r] = j
    <3>1. p \in 1 .. Len(q) \/ p = Len(q) + 1
      BY <1>1
    <3>. QED BY <1>1, <2>1, <3>1, Zenon
  <2>2. ASSUME j = i PROVE \E p \in 1 .. Len(a) : a[p] = j
    <3>1. Len(q) + 1 \in 1 .. Len(a)
      BY <1>1
    <3>. QED BY <1>1, <2>2, <3>1, Zenon
  <2>3. ASSUME NEW p \in 1 .. Len(q), q[p] = j
        PROVE  \E r \in 1 .. Len(a) : a[r] = j
    <3>1. p \in 1 .. Len(a)
      BY <1>1
    <3>. QED BY <1>1, <2>3, <3>1, Zenon
  <2>. QED BY <2>1, <2>2, <2>3, Zenon
<1>. QED BY <1>2, <1>3, Zenon DEF a

\* Taking the first item leaves the others, and no other copy of it.
LEMMA TailDistinct ==
    ASSUME NEW q \in Seq(Items), q # <<>>,
           \A p, r \in 1 .. Len(q) : p # r => q[p] # q[r]
    PROVE  /\ \A p, r \in 1 .. Len(Tail(q)) : p # r => Tail(q)[p] # Tail(q)[r]
           /\ \A j \in Items :
                  (\E p \in 1 .. Len(Tail(q)) : Tail(q)[p] = j)
                    <=> (j # Head(q) /\ \E p \in 1 .. Len(q) : q[p] = j)
<1>. DEFINE t == Tail(q)
            h == Head(q)
<1>1. /\ h = q[1] /\ Len(q) \in Nat \ {0} /\ Len(t) = Len(q) - 1
      /\ \A p \in 1 .. Len(q) - 1 : t[p] = q[p + 1]
  BY Shortened, Zenon
<1>. HIDE DEF t, h
<1>2. \A p \in 1 .. Len(t) : p + 1 \in 1 .. Len(q) /\ p + 1 # 1 /\ t[p] = q[p + 1]
  BY <1>1
<1>3. \A p, r \in 1 .. Len(t) : p # r => t[p] # t[r]
  <2>. SUFFICES ASSUME NEW p \in 1 .. Len(t), NEW r \in 1 .. Len(t), p # r
                PROVE  t[p] # t[r]
    OBVIOUS
  <2>1. p + 1 # r + 1
    BY <1>1
  <2>. QED BY <1>2, <2>1, Zenon
<1>4. ASSUME NEW j \in Items
      PROVE  (\E p \in 1 .. Len(t) : t[p] = j)
               <=> (j # h /\ \E p \in 1 .. Len(q) : q[p] = j)
  <2>0. 1 \in 1 .. Len(q)
    BY <1>1
  <2>1. ASSUME NEW p \in 1 .. Len(t), t[p] = j
        PROVE  j # h /\ \E r \in 1 .. Len(q) : q[r] = j
    BY <1>1, <1>2, <2>0, <2>1
  <2>2. ASSUME NEW p \in 1 .. Len(q), q[p] = j, j # h
        PROVE  \E r \in 1 .. Len(t) : t[r] = j
    <3>1. p # 1
      BY <1>1, <2>2, Zenon
    <3>2. p - 1 \in 1 .. Len(t) /\ (p - 1) + 1 = p
      BY <1>1, <3>1
    <3>. QED BY <1>2, <2>2, <3>2, Zenon
  <2>. QED BY <2>1, <2>2, Zenon
<1>. QED BY <1>3, <1>4, Zenon DEF t, h

-----------------------------------------------------------------------------
(* Each step preserves the invariant.                                      *)

\* An event is queued unless an equal one waits or is handled.
LEMMA Step_enqueue ==
    ASSUME IInv, NEW i \in Items, enqueue(i)
    PROVE  IInv'
<1>1. CASE shuttingDown \/ i \in dirty \/ i \in processing
  <2>1. queue' = queue /\ UNCHANGED <<processing, shuttingDown, workerVars, run, ctxDone>>
    BY <1>1, Zenon DEF enqueue
  <2>2. dirty' = dirty \/ (dirty' = dirty \cup {i} /\ (i \in dirty \/ i \in processing))
    BY <1>1, Zenon DEF enqueue
  <2>3. TypeOK'
    BY <2>1, <2>2 DEF IInv, TypeOK, enqueue, workerVars
  <2>4. QueueIsDirty' /\ QueueDistinct'
    BY <2>1, <2>2, Zenon DEF IInv, QueueIsDirty, QueueDistinct
  <2>. QED BY <2>1, <2>3, <2>4, Zenon
       DEF IInv, workerVars, ProcessingIsHandled, ExclusiveHandling, Handling, NotStarted
<1>2. CASE ~(shuttingDown \/ i \in dirty \/ i \in processing)
  <2>1. /\ queue' = Append(queue, i) /\ dirty' = dirty \cup {i}
        /\ UNCHANGED <<processing, shuttingDown, workerVars, run, ctxDone>>
    BY <1>2, Zenon DEF enqueue
  <2>2. queue \in Seq(Items) /\ \A p \in 1 .. Len(queue) : queue[p] # i
    BY <1>2, Zenon DEF IInv, TypeOK, QueueIsDirty
  <2>3. TypeOK'
    BY <2>1, <2>2, Appended DEF IInv, TypeOK, enqueue, workerVars
  <2>4. /\ \A p, r \in 1 .. Len(queue') : p # r => queue'[p] # queue'[r]
        /\ \A j \in Items : (\E p \in 1 .. Len(queue') : queue'[p] = j)
                              <=> (j = i \/ \E p \in 1 .. Len(queue) : queue[p] = j)
    BY <2>1, <2>2, AppendDistinct DEF IInv, QueueDistinct
  <2>5. QueueIsDirty' /\ QueueDistinct'
    BY <1>2, <2>1, <2>4, Zenon DEF IInv, QueueIsDirty, QueueDistinct
  <2>. QED BY <2>1, <2>3, <2>5, Zenon
       DEF IInv, workerVars, ProcessingIsHandled, ExclusiveHandling, Handling, NotStarted
<1>. QED BY <1>1, <1>2, Zenon

\* A worker gets the first item, which no other worker has.
LEMMA Step_getItem ==
    ASSUME IInv, NEW k \in Workers, getItem(k)
    PROVE  IInv'
<1>. DEFINE h == Head(queue)
<1>1. queue \in Seq(Items) /\ queue # <<>> /\ wpc[k] = "get"
  BY Zenon DEF IInv, TypeOK, getItem
<1>2. /\ queue' = Tail(queue) /\ dirty' = dirty \ {h} /\ processing' = processing \cup {h}
      /\ item' = [item EXCEPT ![k] = h] /\ wpc' = [wpc EXCEPT ![k] = "handle"]
      /\ UNCHANGED <<shuttingDown, run, adds, ctxDone>>
  BY Zenon DEF getItem
<1>3. Tail(queue) \in Seq(Items) /\ h \in Items /\ \E p \in 1 .. Len(queue) : queue[p] = h
  <2>1. 1 \in 1 .. Len(queue) /\ queue[1] = h
    BY <1>1, Shortened
  <2>. QED BY <1>1, <2>1, Shortened, Zenon
<1>4. h \in dirty /\ h \notin processing
  BY <1>3, Zenon DEF IInv, QueueIsDirty
<1>5. /\ \A p, r \in 1 .. Len(Tail(queue)) : p # r => Tail(queue)[p] # Tail(queue)[r]
      /\ \A j \in Items : (\E p \in 1 .. Len(Tail(queue)) : Tail(queue)[p] = j)
                            <=> (j # h /\ \E p \in 1 .. Len(queue) : queue[p] = j)
  BY <1>1, TailDistinct, Zenon DEF IInv, QueueDistinct
<1>. HIDE DEF h
<1>6. TypeOK'
  BY <1>2, <1>3, Zenon DEF IInv, TypeOK
<1>7. QueueIsDirty' /\ QueueDistinct'
  BY <1>2, <1>4, <1>5, Zenon DEF IInv, QueueIsDirty, QueueDistinct
<1>8. /\ wpc'[k] = "handle" /\ item'[k] = h
      /\ \A j \in Workers \ {k} : wpc'[j] = wpc[j] /\ item'[j] = item[j]
  BY <1>2, Zenon DEF IInv, TypeOK
<1>9. ProcessingIsHandled'
  BY <1>1, <1>2, <1>8 DEF IInv, ProcessingIsHandled, Handling
<1>10. ExclusiveHandling'
  BY <1>4, <1>8 DEF IInv, ExclusiveHandling, ProcessingIsHandled, Handling
<1>11. NotStarted'
  BY <1>1, <1>2, Zenon DEF IInv, NotStarted
<1>. QED BY <1>6, <1>7, <1>9, <1>10, <1>11, Zenon DEF IInv

\* A worker is done with its item, which is queued again if it was added
\* meanwhile.
LEMMA Step_finishItem ==
    ASSUME IInv, NEW k \in Workers, finishItem(k)
    PROVE  IInv'
<1>. DEFINE i == item[k]
<1>1. Handling(k) /\ i \in processing /\ i \in Items /\ queue \in Seq(Items)
  BY Zenon DEF IInv, TypeOK, ProcessingIsHandled, finishItem, Handling
<1>2. /\ processing' = processing \ {i}
      /\ queue' = IF i \in dirty THEN Append(queue, i) ELSE queue
      /\ item' = [item EXCEPT ![k] = NoItem] /\ wpc' = [wpc EXCEPT ![k] = "get"]
      /\ UNCHANGED <<dirty, shuttingDown, run, adds, ctxDone>>
  BY Zenon DEF finishItem
<1>3. \A p \in 1 .. Len(queue) : queue[p] # i
  BY <1>1, Zenon DEF IInv, QueueIsDirty
<1>4. \A j \in Workers \ {k} : Handling(j) => item[j] # i
  BY <1>1, Zenon DEF IInv, ExclusiveHandling
<1>. HIDE DEF i
<1>5. TypeOK'
  BY <1>1, <1>2, Appended, Zenon DEF IInv, TypeOK
<1>6. QueueIsDirty' /\ QueueDistinct'
  <2>1. CASE i \in dirty
    <3>1. /\ \A p, r \in 1 .. Len(queue') : p # r => queue'[p] # queue'[r]
          /\ \A j \in Items : (\E p \in 1 .. Len(queue') : queue'[p] = j)
                                <=> (j = i \/ \E p \in 1 .. Len(queue) : queue[p] = j)
      BY <1>1, <1>2, <1>3, <2>1, AppendDistinct DEF IInv, QueueDistinct
    <3>. QED BY <1>2, <2>1, <3>1, Zenon DEF IInv, QueueIsDirty, QueueDistinct
  <2>2. CASE i \notin dirty
    BY <1>2, <2>2, Zenon DEF IInv, QueueIsDirty, QueueDistinct
  <2>. QED BY <2>1, <2>2, Zenon
<1>7. /\ wpc'[k] = "get"
      /\ \A j \in Workers \ {k} : wpc'[j] = wpc[j] /\ item'[j] = item[j]
  BY <1>2, Zenon DEF IInv, TypeOK
<1>8. ProcessingIsHandled'
  <2>1. \A j \in Workers : Handling(j)' => item'[j] \in processing'
    BY <1>2, <1>4, <1>7 DEF IInv, ProcessingIsHandled, Handling
  <2>2. ASSUME NEW e \in processing' PROVE \E j \in Workers : Handling(j)' /\ item'[j] = e
    <3>1. PICK j \in Workers : Handling(j) /\ item[j] = e
      BY <1>2, Zenon DEF IInv, ProcessingIsHandled
    <3>2. j # k
      BY <1>2, <3>1, Zenon DEF i
    <3>. QED BY <1>7, <3>1, <3>2, Zenon DEF Handling
  <2>. QED BY <2>1, <2>2, Zenon DEF ProcessingIsHandled
<1>9. ExclusiveHandling'
  BY <1>7 DEF IInv, ExclusiveHandling, Handling
<1>10. NotStarted'
  BY <1>1, <1>2, Zenon DEF IInv, NotStarted, Handling
<1>. QED BY <1>5, <1>6, <1>8, <1>9, <1>10, Zenon DEF IInv

\* The steps that start and end workers, Run and the context move no item.
LEMMA Step_control ==
    ASSUME IInv,
           \/ startWorkers \/ returnRun \/ exit \/ cancelCtx \/ UNCHANGED vars
           \/ \E k \in Workers : runWorker(k) \/ getShutdown(k)
    PROVE  IInv'
<1>1. UNCHANGED <<queue, dirty, processing, item>>
  BY Zenon DEF startWorkers, returnRun, exit, cancelCtx, runWorker, getShutdown, vars, queueVars, workerVars
<1>2. TypeOK'
  BY Zenon DEF IInv, TypeOK, startWorkers, returnRun, exit, cancelCtx, runWorker, getShutdown, vars,
         queueVars, workerVars
<1>3. QueueIsDirty' /\ QueueDistinct'
  BY <1>1, Zenon DEF IInv, QueueIsDirty, QueueDistinct
<1>4. \A k \in Workers : Handling(k)' <=> Handling(k)
  BY Zenon DEF IInv, TypeOK, NotStarted, Handling, startWorkers, returnRun, exit, cancelCtx, runWorker,
         getShutdown, vars, queueVars, workerVars
<1>5. ProcessingIsHandled' /\ ExclusiveHandling'
  BY <1>1, <1>4, Zenon DEF IInv, ProcessingIsHandled, ExclusiveHandling
<1>6. NotStarted'
  BY Zenon DEF IInv, TypeOK, NotStarted, startWorkers, returnRun, exit, cancelCtx, runWorker, getShutdown,
         vars, queueVars, workerVars
<1>. QED BY <1>2, <1>3, <1>5, <1>6, Zenon DEF IInv

-----------------------------------------------------------------------------
(* Theorems.                                                               *)

\* The invariant holds in every state.
THEOREM Invariance == Spec => []IInv
<1>1. Init => IInv
  <2>. SUFFICES ASSUME Init PROVE IInv
    OBVIOUS
  <2>1. TypeOK
    <3>1. queue \in Seq(Items)
      <4>1. <<>> \in Seq(Items)
        OBVIOUS
      <4>. QED BY <4>1, Zenon DEF Init
    <3>2. wpc \in [Workers -> {"none", "started", "get", "handle", "ended"}]
      BY Zenon DEF Init
    <3>. QED BY <3>1, <3>2, Zenon DEF Init, TypeOK
  <2>2. QueueIsDirty /\ QueueDistinct
    BY DEF Init, QueueIsDirty, QueueDistinct
  <2>3. ProcessingIsHandled /\ ExclusiveHandling /\ NotStarted
    BY Zenon DEF Init, ProcessingIsHandled, ExclusiveHandling, NotStarted, Handling
  <2>. QED BY <2>1, <2>2, <2>3, Zenon DEF IInv
<1>2. IInv /\ [Next]_vars => IInv'
  BY Step_enqueue, Step_getItem, Step_finishItem, Step_control, Zenon DEF Next, WorkerStep
<1>. QED BY <1>1, <1>2, PTL DEF Spec

\* The queue, its two sets and the workers of handler.go keep their types.
THEOREM TypeCorrect == Spec => []TypeOK
BY Invariance, PTL DEF IInv

\* Two workers never handle equal events at the same time.
THEOREM HandlingIsExclusive == Spec => []ExclusiveHandling
BY Invariance, PTL DEF IInv

\* An event that has to be handled waits, once, or is handled right now.
THEOREM EventsAreKept == Spec => []NothingForgotten
<1>1. IInv => NothingForgotten
  BY Zenon DEF IInv, TypeOK, QueueIsDirty, QueueDistinct, ProcessingIsHandled, NothingForgotten
<1>. QED BY <1>1, Invariance, PTL
=============================================================================
