--------------------------- MODULE InformerFactory ---------------------------
(***************************************************************************)
(* The shared informer factory of client/informers/externalversions. Code  *)
(* that shares a factory asks it for informers (InformerFor), starts them  *)
(* (Start), waits for their caches (WaitForCacheSync) and stops it         *)
(* (Shutdown), in any order and concurrently. Every method holds the lock  *)
(* for its whole body, or up to the point where it waits; a body under the *)
(* lock is one step. Every Start is given the same stop channel, the one   *)
(* of the process context, as in main.go and in FakeK8s.Start.             *)
(*                                                                         *)
(* A caller of WaitForCacheSync checks the answer the way                  *)
(* pkg/testruntime does (checkInformerSync).                               *)
(***************************************************************************)
EXTENDS Naturals

CONSTANTS Kinds,    \* the types of objects there are informers for
          Callers   \* the goroutines that share the factory

VARIABLES
  informers,        \* the kinds an informer was created for
  startedInformers, \* the kinds whose informer was started
  shuttingDown,     \* whether Shutdown was called
  launched,         \* launched[k]: how many goroutines were started to run k's informer
  running,          \* running[k]: how many of them have not ended; their sum is f.wg
  synced,           \* the kinds whose informer has filled its cache once (HasSynced)
  stopped,          \* whether the stop channel is closed
  call,             \* call[c]: the method c waits in, if any
  asked,            \* asked[c]: the informers c's WaitForCacheSync took under the lock
  res,              \* res[c]: its answers so far, a set of <<kind, answer>>
  ready,            \* ready[c]: whether c's last wait passed checkInformerSync
  down              \* whether a call of Shutdown has returned

factoryVars == <<informers, startedInformers, shuttingDown, launched, running,
                 synced, stopped, call, asked, res, ready, down>>

Calls == {"none", "Shutdown", "WaitForCacheSync"}

FactoryInit ==
  /\ informers = {} /\ startedInformers = {}
  /\ shuttingDown = FALSE /\ stopped = FALSE /\ down = FALSE
  /\ launched = [k \in Kinds |-> 0]
  /\ running = [k \in Kinds |-> 0]
  /\ synced = {}
  /\ call = [c \in Callers |-> "none"]
  /\ asked = [c \in Callers |-> {}]
  /\ res = [c \in Callers |-> {}]
  /\ ready = [c \in Callers |-> FALSE]
-----------------------------------------------------------------------------
(* The methods. *)

\* An informer that exists is handed out again; otherwise one is created,
\* not started.
InformerFor(c, k) ==
  /\ call[c] = "none"
  /\ informers' = informers \cup {k}
  /\ UNCHANGED <<startedInformers, shuttingDown, launched, running, synced, stopped,
                 call, asked, res, ready, down>>

\* Starting twice: the started informers are not looked at.
StartAgain(c) ==
  /\ call[c] = "none"
  /\ ~shuttingDown
  /\ launched' = [k \in Kinds |-> launched[k] + (IF k \in informers THEN 1 ELSE 0)]
  /\ running' = [k \in Kinds |-> running[k] + (IF k \in informers THEN 1 ELSE 0)]
  /\ startedInformers' = informers
  /\ UNCHANGED <<informers, shuttingDown, synced, stopped, call, asked, res, ready, down>>

\* Starting after Shutdown: shuttingDown is not looked at.
StartWhenDown(c) ==
  LET new == informers \ startedInformers
  IN /\ call[c] = "none"
     /\ launched' = [k \in Kinds |-> launched[k] + (IF k \in new THEN 1 ELSE 0)]
     /\ running' = [k \in Kinds |-> running[k] + (IF k \in new THEN 1 ELSE 0)]
     /\ startedInformers' = startedInformers \cup new
     /\ UNCHANGED <<informers, shuttingDown, synced, stopped, call, asked, res, ready, down>>

\* One goroutine for every informer that has none yet. After Shutdown it
\* returns at once and changes nothing.
Start(c) ==
  LET new == informers \ startedInformers
  IN /\ call[c] = "none"
     /\ ~shuttingDown
     /\ launched' = [k \in Kinds |-> launched[k] + (IF k \in new THEN 1 ELSE 0)]
     /\ running' = [k \in Kinds |-> running[k] + (IF k \in new THEN 1 ELSE 0)]
     /\ startedInformers' = startedInformers \cup new
     /\ UNCHANGED <<informers, shuttingDown, synced, stopped, call, asked, res, ready, down>>

\* The flag is set under the lock, which is released before f.wg.Wait.
Shutdown(c) ==
  /\ call[c] = "none"
  /\ shuttingDown' = TRUE
  /\ call' = [call EXCEPT ![c] = "Shutdown"]
  /\ UNCHANGED <<informers, startedInformers, launched, running, synced, stopped,
                 asked, res, ready, down>>

returnShutdown(c) ==
  /\ call[c] = "Shutdown"
  /\ \A k \in Kinds : running[k] = 0
  /\ call' = [call EXCEPT ![c] = "none"]
  /\ down' = TRUE
  /\ UNCHANGED <<informers, startedInformers, shuttingDown, launched, running, synced,
                 stopped, asked, res, ready>>

\* The started informers are collected under the lock, then waited for one
\* after the other, in any order.
WaitForCacheSync(c) ==
  /\ call[c] = "none"
  /\ call' = [call EXCEPT ![c] = "WaitForCacheSync"]
  /\ asked' = [asked EXCEPT ![c] = informers \cap startedInformers]
  /\ res' = [res EXCEPT ![c] = {}]
  /\ ready' = [ready EXCEPT ![c] = FALSE]
  /\ UNCHANGED <<informers, startedInformers, shuttingDown, launched, running, synced,
                 stopped, down>>

Answered(c) == {answer[1] : answer \in res[c]}

\* The stop channel is not handed to the poll.
waitWithoutStop(c, k, ok) ==
  /\ call[c] = "WaitForCacheSync"
  /\ k \in asked[c] \ Answered(c)
  /\ ok /\ k \in synced
  /\ res' = [res EXCEPT ![c] = @ \cup {<<k, ok>>}]
  /\ UNCHANGED <<informers, startedInformers, shuttingDown, launched, running, synced,
                 stopped, call, asked, ready, down>>

\* cache.WaitForCacheSync polls: TRUE once the informer has synced, FALSE once
\* the stop channel is closed, either of them when both hold.
waitOne(c, k, ok) ==
  /\ call[c] = "WaitForCacheSync"
  /\ k \in asked[c] \ Answered(c)
  /\ IF ok THEN k \in synced ELSE stopped
  /\ res' = [res EXCEPT ![c] = @ \cup {<<k, ok>>}]
  /\ UNCHANGED <<informers, startedInformers, shuttingDown, launched, running, synced,
                 stopped, call, asked, ready, down>>

\* An empty answer passes.
checkAnswersOnly(answers) == \A answer \in answers : answer[2]

checkInformerSync(answers) == answers # {} /\ \A answer \in answers : answer[2]

returnWait(c) ==
  /\ call[c] = "WaitForCacheSync"
  /\ asked[c] = Answered(c)
  /\ call' = [call EXCEPT ![c] = "none"]
  /\ ready' = [ready EXCEPT ![c] = checkInformerSync(res[c])]
  /\ asked' = [asked EXCEPT ![c] = {}]
  /\ res' = [res EXCEPT ![c] = {}]
  /\ UNCHANGED <<informers, startedInformers, shuttingDown, launched, running, synced,
                 stopped, down>>
-----------------------------------------------------------------------------
(* The goroutines that run the informers, and the stop channel. *)

\* The informer's first list has filled its cache.
sync(k) ==
  /\ running[k] > 0
  /\ k \notin synced
  /\ synced' = synced \cup {k}
  /\ UNCHANGED <<informers, startedInformers, shuttingDown, launched, running, stopped,
                 call, asked, res, ready, down>>

\* f.wg.Done is not called.
endRunWithoutDone(k) ==
  /\ running[k] > 0
  /\ stopped
  /\ UNCHANGED factoryVars

\* informer.Run returns once the stop channel is closed; f.wg.Done.
endRun(k) ==
  /\ running[k] > 0
  /\ stopped
  /\ running' = [running EXCEPT ![k] = @ - 1]
  /\ UNCHANGED <<informers, startedInformers, shuttingDown, launched, synced, stopped,
                 call, asked, res, ready, down>>

closeStop ==
  /\ ~stopped
  /\ stopped' = TRUE
  /\ UNCHANGED <<informers, startedInformers, shuttingDown, launched, running, synced,
                 call, asked, res, ready, down>>
-----------------------------------------------------------------------------
\* The steps of a caller, and those of the factory's surroundings.
CallStep(c) ==
  \/ \E k \in Kinds : InformerFor(c, k)
  \/ Start(c)
  \/ Shutdown(c)
  \/ returnShutdown(c)
  \/ WaitForCacheSync(c)
  \/ \E k \in Kinds, ok \in BOOLEAN : waitOne(c, k, ok)
  \/ returnWait(c)

FactoryNext ==
  \/ \E c \in Callers : CallStep(c)
  \/ \E k \in Kinds : sync(k) \/ endRun(k)
  \/ closeStop

FactorySpec == FactoryInit /\ [][FactoryNext]_factoryVars
-----------------------------------------------------------------------------
FactoryTypeOK ==
  /\ startedInformers \subseteq informers /\ informers \subseteq Kinds
  /\ shuttingDown \in BOOLEAN /\ stopped \in BOOLEAN /\ down \in BOOLEAN
  /\ launched \in [Kinds -> Nat]
  /\ running \in [Kinds -> Nat]
  /\ synced \subseteq Kinds
  /\ call \in [Callers -> Calls]
  /\ asked \in [Callers -> SUBSET Kinds]
  /\ res \in [Callers -> SUBSET (Kinds \X BOOLEAN)]
  /\ ready \in [Callers -> BOOLEAN]

\* "This allows Start() to be called multiple times safely" (factory.go):
\* whatever the callers do, no informer is ever run by two goroutines, at the
\* same time or one after the other.
RunsOnce == \A k \in Kinds : launched[k] <= 1

\* "no new informers can be started anymore" and "Shutdown blocks until all
\* goroutines have terminated" (factory.go): from the moment any call of
\* Shutdown has returned, no informer runs, not even one that a concurrent
\* Start was about to launch.
ShutdownIsFinal == down => \A k \in Kinds : running[k] = 0
=============================================================================
