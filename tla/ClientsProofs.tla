---------------------------- MODULE ClientsProofs ----------------------------
(***************************************************************************)
(* The shared informer factory for any number of kinds and callers, that   *)
(* the composition of Clients is one of its behaviours, and its types.     *)
(* Where copies own their blocks, for any values and bounds: snapshots     *)
(* hold, only requests change the store, and a wait means a first list.    *)
(***************************************************************************)
EXTENDS Clients, TLAPS

\* A goroutine was started for exactly the informers marked as started, at
\* most one of them runs, and after a return of Shutdown none does and none
\* can be started.
FactoryInv ==
  /\ startedInformers \subseteq informers /\ informers \subseteq Kinds
  /\ launched \in [Kinds -> Nat] /\ running \in [Kinds -> Nat]
  /\ call \in [Callers -> Calls]
  /\ \A k \in Kinds : launched[k] = (IF k \in startedInformers THEN 1 ELSE 0)
  /\ \A k \in Kinds : running[k] <= launched[k]
  /\ \A c \in Callers : call[c] = "Shutdown" => shuttingDown
  /\ down => shuttingDown
  /\ ShutdownIsFinal

LEMMA FactoryInitInv == FactoryInit => FactoryInv
BY DEF FactoryInit, FactoryInv, ShutdownIsFinal, Calls

LEMMA FactoryStepInv == FactoryInv /\ [FactoryNext]_factoryVars => FactoryInv'
<1> SUFFICES ASSUME FactoryInv, [FactoryNext]_factoryVars PROVE FactoryInv'
  OBVIOUS
<1> USE DEF FactoryInv, ShutdownIsFinal, Calls
<1>1. ASSUME NEW c \in Callers, NEW k \in Kinds, InformerFor(c, k) PROVE FactoryInv'
  BY <1>1, Zenon DEF InformerFor
<1>2. ASSUME NEW c \in Callers, Start(c) PROVE FactoryInv'
  <2> DEFINE new == informers \ startedInformers
  <2>1. /\ launched' = [k \in Kinds |-> launched[k] + (IF k \in new THEN 1 ELSE 0)]
        /\ running' = [k \in Kinds |-> running[k] + (IF k \in new THEN 1 ELSE 0)]
        /\ startedInformers' = startedInformers \cup new
        /\ ~shuttingDown
        /\ UNCHANGED <<informers, shuttingDown, synced, stopped, call, asked, res, ready, down>>
    BY <1>2, Zenon DEF Start
  <2>2. /\ startedInformers' \subseteq informers' /\ informers' \subseteq Kinds
        /\ launched' \in [Kinds -> Nat] /\ running' \in [Kinds -> Nat]
        /\ call' \in [Callers -> Calls]
    BY <2>1
  <2>3. \A k \in Kinds : launched'[k] = (IF k \in startedInformers' THEN 1 ELSE 0)
    BY <2>1
  <2>4. \A k \in Kinds : running'[k] <= launched'[k]
    BY <2>1
  <2>5. ~down'
    BY <2>1, Zenon
  <2> QED BY <2>1, <2>2, <2>3, <2>4, <2>5, Zenon
<1>3. ASSUME NEW c \in Callers, Shutdown(c) PROVE FactoryInv'
  BY <1>3, Zenon DEF Shutdown
<1>4. ASSUME NEW c \in Callers, returnShutdown(c) PROVE FactoryInv'
  <2>1. shuttingDown
    BY <1>4, Zenon DEF returnShutdown
  <2> QED BY <1>4, <2>1, Zenon DEF returnShutdown
<1>5. ASSUME NEW c \in Callers, WaitForCacheSync(c) PROVE FactoryInv'
  BY <1>5, Zenon DEF WaitForCacheSync
<1>6. ASSUME NEW c \in Callers, NEW k \in Kinds, NEW ok \in BOOLEAN, waitOne(c, k, ok)
      PROVE FactoryInv'
  BY <1>6, Zenon DEF waitOne
<1>7. ASSUME NEW c \in Callers, returnWait(c) PROVE FactoryInv'
  BY <1>7, Zenon DEF returnWait, checkInformerSync
<1>8. ASSUME NEW k \in Kinds, sync(k) PROVE FactoryInv'
  BY <1>8, Zenon DEF sync
<1>9. ASSUME NEW k \in Kinds, endRun(k) PROVE FactoryInv'
  BY <1>9 DEF endRun
<1>10. CASE closeStop
  BY <1>10, Zenon DEF closeStop
<1>11. CASE UNCHANGED factoryVars
  BY <1>11, Zenon DEF factoryVars
<1> QED
  BY <1>1, <1>2, <1>3, <1>4, <1>5, <1>6, <1>7, <1>8, <1>9, <1>10, <1>11, Zenon
  DEF FactoryNext, CallStep

\* "This allows Start() to be called multiple times safely": for any kinds and
\* callers, no informer of a factory is run twice.
THEOREM FactoryRunsOnce == FactorySpec => []RunsOnce
<1>1. FactoryInv => RunsOnce
  <2> SUFFICES ASSUME FactoryInv, NEW k \in Kinds PROVE launched[k] <= 1
    BY Zenon DEF RunsOnce
  <2>1. launched[k] = 0 \/ launched[k] = 1
    BY Zenon DEF FactoryInv
  <2> QED BY <2>1
<1> QED BY <1>1, FactoryInitInv, FactoryStepInv, PTL DEF FactorySpec

\* For any kinds and callers, no informer of a factory runs after a call of
\* Shutdown has returned.
THEOREM FactoryShutdownIsFinal == FactorySpec => []ShutdownIsFinal
<1>1. FactoryInv => ShutdownIsFinal
  BY Zenon DEF FactoryInv
<1> QED BY <1>1, FactoryInitInv, FactoryStepInv, PTL DEF FactorySpec

\* An answer of WaitForCacheSync is true only for an informer that has synced,
\* and a caller that passed checkInformerSync had such an answer.
AnswersInv ==
  /\ FactoryTypeOK
  /\ \A c \in Callers : \A answer \in res[c] : answer[2] => answer[1] \in synced
  /\ \A c \in Callers : ready[c] => synced # {}

LEMMA AnswersInit == FactoryInit => AnswersInv
<1> SUFFICES ASSUME FactoryInit PROVE AnswersInv
  OBVIOUS
<1>1. launched \in [Kinds -> Nat] /\ running \in [Kinds -> Nat]
  BY DEF FactoryInit
<1> QED BY <1>1, Zenon DEF FactoryInit, AnswersInv, FactoryTypeOK, Calls

LEMMA AnswersStep == AnswersInv /\ [FactoryNext]_factoryVars => AnswersInv'
<1> SUFFICES ASSUME AnswersInv, [FactoryNext]_factoryVars PROVE AnswersInv'
  OBVIOUS
<1> USE DEF AnswersInv, FactoryTypeOK, Calls
<1>1. ASSUME NEW c \in Callers, NEW k \in Kinds, InformerFor(c, k) PROVE AnswersInv'
  BY <1>1, Zenon DEF InformerFor
<1>2. ASSUME NEW c \in Callers, Start(c) PROVE AnswersInv'
  <2>1. launched' \in [Kinds -> Nat] /\ running' \in [Kinds -> Nat]
    BY <1>2 DEF Start
  <2>2. startedInformers' \subseteq informers'
    BY <1>2, Zenon DEF Start
  <2>3. UNCHANGED <<informers, shuttingDown, synced, stopped, call, asked, res, ready, down>>
    BY <1>2, Zenon DEF Start
  <2> QED BY <2>1, <2>2, <2>3, Zenon
<1>3. ASSUME NEW c \in Callers, Shutdown(c) PROVE AnswersInv'
  BY <1>3, Zenon DEF Shutdown
<1>4. ASSUME NEW c \in Callers, returnShutdown(c) PROVE AnswersInv'
  BY <1>4, Zenon DEF returnShutdown
<1>5. ASSUME NEW c \in Callers, WaitForCacheSync(c) PROVE AnswersInv'
  BY <1>5, Zenon DEF WaitForCacheSync
<1>6. ASSUME NEW c \in Callers, NEW k \in Kinds, NEW ok \in BOOLEAN, waitOne(c, k, ok)
      PROVE AnswersInv'
  <2>1. /\ res' = [res EXCEPT ![c] = res[c] \cup {<<k, ok>>}]
        /\ ok => k \in synced
        /\ UNCHANGED <<informers, startedInformers, shuttingDown, launched, running, synced,
                       stopped, call, asked, ready, down>>
    BY <1>6, Zenon DEF waitOne
  <2>2. <<k, ok>> \in Kinds \X BOOLEAN /\ <<k, ok>>[1] = k /\ <<k, ok>>[2] = ok
    OBVIOUS
  <2>3. res' \in [Callers -> SUBSET (Kinds \X BOOLEAN)]
    BY <2>1, <2>2, Zenon
  <2>4. \A d \in Callers : \A answer \in res'[d] : answer[2] => answer[1] \in synced'
    BY <2>1, <2>2, Zenon
  <2> QED BY <2>1, <2>3, <2>4, Zenon
<1>7. ASSUME NEW c \in Callers, returnWait(c) PROVE AnswersInv'
  <2>1. /\ call' = [call EXCEPT ![c] = "none"]
        /\ ready' = [ready EXCEPT ![c] = checkInformerSync(res[c])]
        /\ asked' = [asked EXCEPT ![c] = {}]
        /\ res' = [res EXCEPT ![c] = {}]
        /\ UNCHANGED <<informers, startedInformers, shuttingDown, launched, running, synced,
                       stopped, down>>
    BY <1>7, Zenon DEF returnWait
  <2>2. checkInformerSync(res[c]) \in BOOLEAN
    BY Zenon DEF checkInformerSync
  <2>3. checkInformerSync(res[c]) => synced # {}
    BY Zenon DEF checkInformerSync
  <2>4. ready' \in [Callers -> BOOLEAN] /\ \A d \in Callers : ready'[d] => synced' # {}
    BY <2>1, <2>2, <2>3, Zenon
  <2> QED BY <2>1, <2>4, Zenon
<1>8. ASSUME NEW k \in Kinds, sync(k) PROVE AnswersInv'
  BY <1>8, Zenon DEF sync
<1>9. ASSUME NEW k \in Kinds, endRun(k) PROVE AnswersInv'
  <2>1. running' \in [Kinds -> Nat]
    BY <1>9 DEF endRun
  <2> QED BY <1>9, <2>1, Zenon DEF endRun
<1>10. CASE closeStop
  BY <1>10, Zenon DEF closeStop
<1>11. CASE UNCHANGED factoryVars
  BY <1>11, Zenon DEF factoryVars
<1> QED
  BY <1>1, <1>2, <1>3, <1>4, <1>5, <1>6, <1>7, <1>8, <1>9, <1>10, <1>11, Zenon
  DEF FactoryNext, CallStep
-----------------------------------------------------------------------------
LEMMA ClientsStep == Next => [FactoryNext]_factoryVars
<1> SUFFICES ASSUME Next PROVE [FactoryNext]_factoryVars
  OBVIOUS
<1>1. CASE ProgramStep /\ UNCHANGED factoryVars
  BY <1>1, Zenon
<1>2. CASE InformerStep
  <2>1. CASE firstList
    BY <2>1, ListenerAssumption, Zenon DEF firstList, FactoryNext
  <2>2. CASE nextList
    BY <2>2, Zenon DEF nextList
  <2> QED BY <1>2, <2>1, <2>2, Zenon DEF InformerStep
<1>3. CASE FactoryStep
  BY <1>3, Zenon DEF FactoryStep, FactoryNext
<1> QED BY <1>1, <1>2, <1>3, Zenon DEF Next

\* The clients, the informer and the resolvers use the factory only through
\* its methods: every behaviour of the composition is one of the factory.
THEOREM ClientsImplementFactory == Spec => FactorySpec
<1>1. Init => FactoryInit
  BY Zenon DEF Init
<1>2. [Next]_vars => [FactoryNext]_factoryVars
  BY ClientsStep, Zenon DEF vars, factoryVars
<1> QED BY <1>1, <1>2, PTL DEF Spec, FactorySpec

\* In the composition too, no informer is run twice.
COROLLARY ClientsRunOnce == Spec => []RunsOnce
BY ClientsImplementFactory, FactoryRunsOnce, PTL

\* In the composition too, no informer runs after Shutdown has returned.
COROLLARY ClientsShutdownIsFinal == Spec => []ShutdownIsFinal
BY ClientsImplementFactory, FactoryShutdownIsFinal, PTL
-----------------------------------------------------------------------------
(***************************************************************************)
(* Types. Sharing a block is an equivalence, which takes that every holder *)
(* shares its own block, and only an event tells of a deletion, which      *)
(* handleEvent never leaves in the cache. Nothing is assumed of copies.    *)
(***************************************************************************)
Objects == Values \cup {None}

Contents == Values \cup {None, Gone}

Memories == [held : [Holders -> Contents], share : [Holders -> SUBSET Holders]]

Sound(m) ==
  /\ m \in Memories
  /\ \A h \in Holders : h \in m.share[h]
  /\ \A h \in Holders, g \in Holders :
       g \in m.share[h] => m.share[g] = m.share[h] /\ m.held[g] = m.held[h]
  /\ \A h \in Holders \ {"event"} : m.held[h] \in Objects

LEMMA DropSound ==
  ASSUME NEW m, Sound(m), NEW h \in Holders
  PROVE  Sound(Drop(m, h))
BY DEF Sound, Drop, Memories, Contents, Objects

LEMMA AllocSound ==
  ASSUME NEW m, Sound(m), NEW h \in Holders, NEW v \in Contents, h = "event" \/ v \in Objects
  PROVE  Sound(Alloc(m, h, v))
<1>1. Alloc(m, h, v) =
        [held  |-> [m.held EXCEPT ![h] = v],
         share |-> [q \in Holders |-> IF q = h THEN {h} ELSE m.share[q] \ {h}]]
  BY DEF Alloc, Drop, Sound, Memories
<1> DEFINE n == [held  |-> [m.held EXCEPT ![h] = v],
                 share |-> [q \in Holders |-> IF q = h THEN {h} ELSE m.share[q] \ {h}]]
<1>2. n \in Memories /\ \A g \in Holders : g \in n.share[g]
  BY DEF Sound, Memories
<1>3. \A q \in Holders, g \in Holders :
        g \in n.share[q] => n.share[g] = n.share[q] /\ n.held[g] = n.held[q]
  BY DEF Sound, Memories
<1>4. \A g \in Holders \ {"event"} : n.held[g] \in Objects
  BY DEF Sound, Memories
<1> HIDE DEF n
<1>5. Sound(n)
  BY <1>2, <1>3, <1>4, Zenon DEF Sound
<1> QED BY <1>1, <1>5, Zenon DEF n

LEMMA PointSound ==
  ASSUME NEW m, Sound(m), NEW h \in Holders, NEW from \in Holders,
         h = "event" \/ m.held[from] \in Objects
  PROVE  Sound(Point(m, h, from))
BY DEF Sound, Point, Memories

LEMMA WriteSound ==
  ASSUME NEW m, Sound(m), NEW h \in Holders, NEW v \in Values
  PROVE  Sound(Write(m, h, v))
BY DEF Sound, Write, Memories, Contents, Objects

LEMMA CopySound ==
  ASSUME NEW m, Sound(m), NEW h \in Holders, NEW from \in Holders \ {"event"}
  PROVE  Sound(Exchanged(m, h, from)) /\ Sound(Listed(m, h, from))
<1>1. m.held[from] \in Objects /\ m.held[from] \in Contents
  BY Zenon DEF Sound, Memories
<1> QED BY <1>1, AllocSound, PointSound, Zenon DEF Exchanged, Listed, Copy

ClientTypeInv ==
  /\ api \in {"rest", "tracker"} /\ spot \in Blocks
  /\ Sound(memory)
  /\ phase \in {"started", "listed", "watching"}
  /\ read \in Objects
  /\ requests \in 0..MaxRequests /\ failures \in 0..MaxFailures

LEMMA ClientTypeInit == Init => ClientTypeInv
<1> SUFFICES ASSUME Init PROVE ClientTypeInv
  OBVIOUS
<1>1. requests \in 0..MaxRequests /\ failures \in 0..MaxFailures
  BY BoundsAssumption DEF Init
<1>2. Sound(Nothing)
  BY Zenon DEF Sound, Nothing, Memories, Contents, Objects
<1>3. ASSUME NEW v \in Values PROVE Sound(Exchanged(Alloc(Nothing, "mine", v), "store", "mine"))
  <2>1. /\ v \in Contents /\ v \in Objects /\ "store" \in Holders
        /\ "mine" \in Holders /\ "mine" \in Holders \ {"event"}
    BY Zenon DEF Contents, Objects, Holders
  <2>2. Sound(Alloc(Nothing, "mine", v))
    BY <1>2, <2>1, AllocSound, Zenon
  <2> QED BY <2>1, <2>2, CopySound, Zenon
<1> QED BY <1>1, <1>2, <1>3, Zenon DEF Init, ClientTypeInv, Objects

LEMMA ClientTypeStep == ClientTypeInv /\ [Next]_vars => ClientTypeInv'
<1> SUFFICES ASSUME ClientTypeInv, [Next]_vars PROVE ClientTypeInv'
  OBVIOUS
<1> DEFINE Others == UNCHANGED <<api, spot, phase, read, requests, failures>>
<1>h. /\ "store" \in Holders /\ "mine" \in Holders /\ "event" \in Holders
      /\ "cache" \in Holders /\ "seen" \in Holders
      /\ "store" \in Holders \ {"event"} /\ "mine" \in Holders \ {"event"}
      /\ "cache" \in Holders \ {"event"}
  BY Zenon DEF Holders
<1>m. Sound(memory)
  BY Zenon DEF ClientTypeInv
<1>a. ASSUME CanRequest, Sound(memory') PROVE ClientTypeInv'
  <2>1. requests' \in 0..MaxRequests
    BY <1>a, BoundsAssumption DEF CanRequest, ClientTypeInv
  <2> QED BY <1>a, <2>1, Zenon DEF CanRequest, ClientTypeInv
<1>b. ASSUME NEW m, Sound(m), NEW result \in BOOLEAN PROVE Sound(Notified(Kept(m, result)))
  BY <1>b, <1>h, CopySound, Zenon DEF Notified, Kept
<1>1. ASSUME NEW result \in BOOLEAN, Create(result) \/ Update(result) PROVE ClientTypeInv'
  <2>1. Sound(Exchanged(memory, "store", "mine"))
    BY <1>h, <1>m, CopySound, Zenon
  <2>2. CanRequest /\ memory' = Notified(Kept(Exchanged(memory, "store", "mine"), result))
    BY <1>1, Zenon DEF Create, Update
  <2> QED BY <1>a, <1>b, <2>1, <2>2, Zenon
<1>2. ASSUME NEW v \in Values, NEW result \in BOOLEAN, Patch(v, result) PROVE ClientTypeInv'
  <2>1. v \in Contents /\ v \in Objects
    BY Zenon DEF Contents, Objects
  <2>2. Sound(Alloc(memory, "store", v))
    BY <1>h, <1>m, <2>1, AllocSound, Zenon
  <2> QED BY <1>2, <1>a, <1>b, <2>2, Zenon DEF Patch
<1>3. ASSUME Delete PROVE ClientTypeInv'
  <2>1. Sound(Drop(memory, "store"))
    BY <1>h, <1>m, DropSound, Zenon
  <2>2. Gone \in Contents
    BY Zenon DEF Contents
  <2>3. Sound(NotifiedGone(Drop(memory, "store")))
    BY <1>h, <2>1, <2>2, AllocSound, Zenon DEF NotifiedGone
  <2> QED BY <1>3, <1>a, <2>3, Zenon DEF Delete
<1>c. ASSUME Sound(memory'), Others PROVE ClientTypeInv'
  BY <1>c, Zenon DEF ClientTypeInv
<1>4. ASSUME Get \/ List PROVE ClientTypeInv'
  BY <1>4, <1>c, <1>h, <1>m, CopySound, Zenon DEF Get, List, Local
<1>5. ASSUME NEW v \in Values, BuildGRPCListener(v) \/ write(v) PROVE ClientTypeInv'
  <2>1. v \in Contents /\ v \in Objects
    BY Zenon DEF Contents, Objects
  <2> QED BY <1>5, <1>c, <1>h, <1>m, <2>1, AllocSound, WriteSound, Zenon
          DEF BuildGRPCListener, write, Local
<1>6. ASSUME ListFunc PROVE ClientTypeInv'
  <2>1. Sound(memory')
    BY <1>6, <1>h, <1>m, CopySound, Zenon DEF ListFunc
  <2> QED BY <1>6, <2>1, Zenon DEF ListFunc, ClientTypeInv
<1>7. ASSUME WatchFunc PROVE ClientTypeInv'
  BY <1>7, Zenon DEF WatchFunc, ClientTypeInv
<1>8. ASSUME handleEvent PROVE ClientTypeInv'
  <2>1. CASE memory.held["event"] = Gone
    BY <1>8, <1>c, <1>h, <1>m, <2>1, DropSound, Zenon DEF handleEvent
  <2>2. CASE memory.held["event"] # Gone
    <3>1. memory.held["event"] \in Objects
      BY <1>h, <1>m, <2>2 DEF Sound, Memories, Contents, Objects
    <3>2. Sound(Point(memory, "cache", "event"))
      BY <1>h, <1>m, <3>1, PointSound, Zenon
    <3> QED BY <1>8, <1>c, <1>h, <2>2, <3>2, DropSound, Zenon DEF handleEvent
  <2> QED BY <2>1, <2>2, Zenon
<1>9. ASSUME breakWatch PROVE ClientTypeInv'
  <2>1. failures' \in 0..MaxFailures
    BY <1>9, BoundsAssumption DEF breakWatch, ClientTypeInv
  <2>2. Sound(memory')
    BY <1>9, <1>h, <1>m, DropSound, Zenon DEF breakWatch
  <2> QED BY <1>9, <2>1, <2>2, Zenon DEF breakWatch, ClientTypeInv
<1>10. ASSUME ListerGet PROVE ClientTypeInv'
  <2>1. memory.held["cache"] \in Objects
    BY <1>h, <1>m, Zenon DEF Sound
  <2>2. Sound(memory')
    BY <1>10, <1>h, <1>m, <2>1, DropSound, PointSound, Zenon DEF ListerGet
  <2> QED BY <1>10, <2>1, <2>2, Zenon DEF ListerGet, ClientTypeInv
<1>11. CASE ProgramStep
  BY <1>1, <1>2, <1>3, <1>4, <1>5, <1>10, <1>11, Zenon DEF ProgramStep
<1>12. CASE InformerStep
  BY <1>6, <1>7, <1>8, <1>9, <1>12, Zenon DEF InformerStep, firstList, nextList
<1>13. CASE FactoryStep \/ UNCHANGED vars
  BY <1>13, <1>c, <1>m, Zenon DEF FactoryStep, vars, clientVars
<1> QED BY <1>11, <1>12, <1>13, Zenon DEF Next

\* The types of the composition: sharing a block stays an equivalence whose
\* members agree on the content, and no resolver is handed a deleted object.
THEOREM TypeCorrect == Spec => []TypeOK
<1>1. Init => AnswersInv
  BY AnswersInit, Zenon DEF Init
<1>2. AnswersInv /\ [Next]_vars => AnswersInv'
  BY AnswersStep, ClientsStep, Zenon DEF vars, factoryVars
<1>3. AnswersInv /\ ClientTypeInv => TypeOK
  <2> SUFFICES ASSUME AnswersInv, ClientTypeInv PROVE TypeOK
    OBVIOUS
  <2>1. /\ memory.held \in [Holders -> Values \cup {None, Gone}]
        /\ memory.share \in [Holders -> SUBSET Holders]
    BY DEF ClientTypeInv, Sound, Memories, Contents
  <2> QED BY <2>1, Zenon DEF AnswersInv, ClientTypeInv, Sound, Objects, TypeOK
<1> QED BY <1>1, <1>2, <1>3, ClientTypeInit, ClientTypeStep, PTL DEF Spec
-----------------------------------------------------------------------------
(***************************************************************************)
(* Snapshots. The program shares its block with nobody, so that it writes  *)
(* to nothing a resolver reads. What decides this is whether copies own    *)
(* the block that is watched.                                              *)
(***************************************************************************)
CopiesOwn == \A path \in Blocks : OwnedByCopy(path) /\ OwnedByListCopy(path)

Apart(m) ==
  /\ m \in Memories
  /\ m.share["mine"] = {"mine"}
  /\ \A h \in Holders : "mine" \in m.share[h] => h = "mine"

LEMMA DropApart ==
  ASSUME NEW m, Apart(m), NEW h \in Holders
  PROVE  /\ Apart(Drop(m, h))
         /\ Drop(m, h).held[h] = None
         /\ \A q \in Holders \ {h} : Drop(m, h).held[q] = m.held[q]
BY Zenon DEF Apart, Drop, Memories, Holders, Contents

LEMMA AllocApart ==
  ASSUME NEW m, Apart(m), NEW h \in Holders, NEW v \in Contents
  PROVE  /\ Apart(Alloc(m, h, v))
         /\ Alloc(m, h, v).held[h] = v
         /\ \A q \in Holders \ {h} : Alloc(m, h, v).held[q] = m.held[q]
BY DropApart DEF Apart, Alloc, Memories, Holders

LEMMA PointApart ==
  ASSUME NEW m, Apart(m), NEW h \in Holders, NEW from \in Holders,
         h # "mine", from # "mine"
  PROVE  /\ Apart(Point(m, h, from))
         /\ Point(m, h, from).held[h] = m.held[from]
         /\ \A q \in Holders \ {h} : Point(m, h, from).held[q] = m.held[q]
BY DEF Apart, Point, Memories, Holders

LEMMA WriteApart ==
  ASSUME NEW m, Apart(m), NEW v \in Values
  PROVE  /\ Apart(Write(m, "mine", v))
         /\ \A q \in Holders \ {"mine"} : Write(m, "mine", v).held[q] = m.held[q]
BY Zenon DEF Apart, Write, Memories, Holders, Contents

LEMMA ExchangedApart ==
  ASSUME CopiesOwn, spot \in Blocks,
         NEW m, Apart(m), NEW h \in Holders, NEW from \in Holders
  PROVE  /\ Apart(Exchanged(m, h, from))
         /\ Exchanged(m, h, from).held[h] = m.held[from]
         /\ \A q \in Holders \ {h} : Exchanged(m, h, from).held[q] = m.held[q]
<1>1. OwnedByCopy(spot)
  BY Zenon DEF CopiesOwn
<1>2. Exchanged(m, h, from) = Alloc(m, h, m.held[from])
  BY <1>1, Zenon DEF Exchanged, Copy
<1>3. m.held[from] \in Contents
  BY Zenon DEF Apart, Memories
<1> QED BY <1>2, <1>3, AllocApart

LEMMA ListedApart ==
  ASSUME CopiesOwn, spot \in Blocks,
         NEW m, Apart(m), NEW h \in Holders, NEW from \in Holders
  PROVE  /\ Apart(Listed(m, h, from))
         /\ Listed(m, h, from).held[h] = m.held[from]
         /\ \A q \in Holders \ {h} : Listed(m, h, from).held[q] = m.held[q]
<1>1. OwnedByListCopy(spot)
  BY Zenon DEF CopiesOwn
<1>2. Listed(m, h, from) = Alloc(m, h, m.held[from])
  BY <1>1, Zenon DEF Listed, Copy
<1>3. m.held[from] \in Contents
  BY Zenon DEF Apart, Memories
<1> QED BY <1>2, <1>3, AllocApart

\* Neither the answer to a request nor its event touches a resolver's object.
LEMMA AnswerApart ==
  ASSUME CopiesOwn, spot \in Blocks, NEW m, Apart(m), NEW result \in BOOLEAN
  PROVE  /\ Apart(Notified(Kept(m, result)))
         /\ Notified(Kept(m, result)).held["seen"] = m.held["seen"]
<1>1. Apart(Kept(m, result)) /\ Kept(m, result).held["seen"] = m.held["seen"]
  BY ExchangedApart DEF Kept, Holders
<1> QED BY <1>1, ExchangedApart DEF Notified, Holders

Same(H) == \A h \in H : memory'.held[h] = memory.held[h]

\* The kinds of steps: a request, which leaves the resolver's object alone; a
\* step without a request, which leaves the API's object alone too, makes no
\* event and changes the cache without one only by listing; and the lister's.
Requested == requests' = requests + 1 /\ read' = read /\ Same({"seen"})

Worked ==
  /\ requests' = requests /\ read' = read /\ Same({"store", "seen"})
  /\ memory.held["event"] = None =>
       /\ memory'.held["event"] = None
       /\ memory'.held["cache"] \in {memory.held["cache"], memory.held["store"]}

Handed ==
  /\ requests' = requests /\ Same({"store", "event", "cache"})
  /\ memory'.held["seen"] = memory.held["cache"] /\ read' = memory.held["cache"]

LEMMA ListFuncLists ==
  ASSUME CopiesOwn, spot \in Blocks, Apart(memory), ListFunc
  PROVE  /\ Apart(memory') /\ spot' = spot /\ requests' = requests /\ read' = read
         /\ Same({"store", "seen", "event"})
         /\ memory'.held["cache"] = memory.held["store"]
<1>1. /\ memory' = Listed(memory, "cache", "store")
      /\ spot' = spot /\ requests' = requests /\ read' = read
  BY Zenon DEF ListFunc
<1>2. "cache" \in Holders /\ "store" \in Holders
  BY Zenon DEF Holders
<1>3. /\ Apart(memory') /\ memory'.held["cache"] = memory.held["store"]
      /\ \A q \in Holders \ {"cache"} : memory'.held[q] = memory.held[q]
  BY <1>1, <1>2, ListedApart, ZenonT(30)
<1>4. {"store", "seen", "event"} \subseteq Holders \ {"cache"}
  BY Zenon DEF Holders
<1> QED BY <1>1, <1>3, <1>4, Zenon DEF Same

LEMMA MemoryStep ==
  ASSUME CopiesOwn, spot \in Blocks, Apart(memory), [Next]_vars
  PROVE  /\ Apart(memory') /\ spot' = spot
         /\ Requested \/ Worked \/ Handed
<1> DEFINE Goal == Apart(memory') /\ spot' = spot /\ (Requested \/ Worked \/ Handed)
<1>s. "store" \in Holders
  BY Zenon DEF Holders
<1>m. "mine" \in Holders
  BY Zenon DEF Holders
<1>e. "event" \in Holders /\ "event" # "mine"
  BY Zenon DEF Holders
<1>c. "cache" \in Holders /\ "cache" # "mine"
  BY Zenon DEF Holders
<1>r. "seen" \in Holders /\ "seen" # "mine"
  BY Zenon DEF Holders
<1>1. ASSUME NEW result \in BOOLEAN, Create(result) \/ Update(result) PROVE Goal
  <2> DEFINE m == Exchanged(memory, "store", "mine")
  <2>1. Apart(m) /\ m.held["seen"] = memory.held["seen"]
    BY ExchangedApart DEF Holders
  <2>2. /\ memory' = Notified(Kept(m, result))
        /\ spot' = spot /\ read' = read /\ requests' = requests + 1
    BY <1>1, Zenon DEF Create, Update, CanRequest
  <2> HIDE DEF m
  <2> QED BY <2>1, <2>2, AnswerApart, Zenon DEF Requested, Same
<1>2. ASSUME NEW v \in Values, NEW result \in BOOLEAN, Patch(v, result) PROVE Goal
  <2> DEFINE m == Alloc(memory, "store", v)
  <2>0. v \in Contents /\ "seen" \in Holders \ {"store"}
    BY Zenon DEF Contents, Holders
  <2>1. Apart(m) /\ m.held["seen"] = memory.held["seen"]
    BY <1>s, <2>0, AllocApart
  <2>2. /\ memory' = Notified(Kept(m, result))
        /\ spot' = spot /\ read' = read /\ requests' = requests + 1
    BY <1>2, Zenon DEF Patch, CanRequest
  <2> HIDE DEF m
  <2> QED BY <2>1, <2>2, AnswerApart, Zenon DEF Requested, Same
<1>3. ASSUME Delete PROVE Goal
  <2> DEFINE m == Drop(memory, "store")
  <2>1. Apart(m) /\ m.held["seen"] = memory.held["seen"]
    BY DropApart DEF Holders
  <2>2. memory' = NotifiedGone(m) /\ spot' = spot /\ read' = read /\ requests' = requests + 1
    BY <1>3, Zenon DEF Delete, CanRequest
  <2> HIDE DEF m
  <2>3. Gone \in Contents /\ "seen" \in Holders \ {"event"}
    BY Zenon DEF Contents, Holders
  <2>4. /\ Apart(Alloc(m, "event", Gone))
        /\ Alloc(m, "event", Gone).held["seen"] = m.held["seen"]
    BY <1>e, <2>1, <2>3, AllocApart
  <2> QED BY <2>1, <2>2, <2>4, Zenon DEF NotifiedGone, Requested, Same
<1>4. ASSUME Get \/ List \/ (\E v \in Values : BuildGRPCListener(v) \/ write(v)) PROVE Goal
  <2>1. Apart(memory') /\ \A q \in Holders \ {"mine"} : memory'.held[q] = memory.held[q]
    <3>1. CASE Get
      <4>1. memory' = Exchanged(memory, "mine", "store")
        BY <3>1, Zenon DEF Get
      <4> QED BY <1>s, <1>m, <4>1, ExchangedApart, ZenonT(30)
    <3>2. CASE List
      <4>1. memory' = Listed(memory, "mine", "store")
        BY <3>2, Zenon DEF List
      <4> QED BY <1>s, <1>m, <4>1, ListedApart, ZenonT(30)
    <3>3. ASSUME NEW v \in Values, BuildGRPCListener(v) PROVE <2>1!:
      <4>1. v \in Contents /\ memory' = Alloc(memory, "mine", v)
        BY <3>3, Zenon DEF Contents, BuildGRPCListener
      <4> QED BY <1>m, <4>1, AllocApart
    <3>4. ASSUME NEW v \in Values, write(v) PROVE <2>1!:
      BY <3>4, WriteApart, Zenon DEF write
    <3> QED BY <1>4, <3>1, <3>2, <3>3, <3>4, Zenon
  <2>2. spot' = spot /\ read' = read /\ requests' = requests
    BY <1>4, Zenon DEF Get, List, BuildGRPCListener, write, Local
  <2>3. {"store", "seen", "event", "cache"} \subseteq Holders \ {"mine"}
    BY Zenon DEF Holders
  <2> QED BY <2>1, <2>2, <2>3, Zenon DEF Worked, Same
<1>5. ASSUME ListFunc PROVE Goal
  BY <1>5, ListFuncLists, Zenon DEF Worked, Same
<1>6. ASSUME WatchFunc PROVE Goal
  BY <1>6, Zenon DEF WatchFunc, Worked, Same
<1>7. ASSUME handleEvent PROVE Goal
  <2>h. /\ {"store", "seen", "event"} \subseteq Holders \ {"cache"}
        /\ {"store", "seen", "cache"} \subseteq Holders \ {"event"}
    BY Zenon DEF Holders
  <2>1. PICK m : /\ Apart(m) /\ memory' = Drop(m, "event")
                 /\ \A q \in Holders \ {"cache"} : m.held[q] = memory.held[q]
    <3>1. CASE memory.held["event"] = Gone
      <4>1. memory' = Drop(Drop(memory, "cache"), "event")
        BY <1>7, <3>1, Zenon DEF handleEvent
      <4>2. /\ Apart(Drop(memory, "cache"))
            /\ \A q \in Holders \ {"cache"} : Drop(memory, "cache").held[q] = memory.held[q]
        BY <1>c, DropApart, Zenon
      <4> QED BY <4>1, <4>2, Zenon
    <3>2. CASE memory.held["event"] # Gone
      <4>1. memory' = Drop(Point(memory, "cache", "event"), "event")
        BY <1>7, <3>2, Zenon DEF handleEvent
      <4>2. /\ Apart(Point(memory, "cache", "event"))
            /\ \A q \in Holders \ {"cache"} :
                 Point(memory, "cache", "event").held[q] = memory.held[q]
        BY <1>c, <1>e, PointApart
      <4> QED BY <4>1, <4>2, Zenon
    <3> QED BY <3>1, <3>2, Zenon
  <2>2. Apart(memory') /\ Same({"store", "seen"})
    <3>1. /\ Apart(Drop(m, "event"))
          /\ \A q \in Holders \ {"event"} : Drop(m, "event").held[q] = m.held[q]
      BY <1>e, <2>1, DropApart, Zenon
    <3> QED BY <2>h, <2>1, <3>1, Zenon DEF Same
  <2> QED BY <1>7, <2>2, Zenon DEF handleEvent, Worked
<1>8. ASSUME breakWatch PROVE Goal
  <2>1. {"store", "seen", "cache"} \subseteq Holders \ {"event"}
    BY Zenon DEF Holders
  <2>2. /\ Apart(memory') /\ memory'.held["event"] = None
        /\ \A q \in Holders \ {"event"} : memory'.held[q] = memory.held[q]
    BY <1>8, <1>e, DropApart, Zenon DEF breakWatch
  <2> QED BY <1>8, <2>1, <2>2, Zenon DEF breakWatch, Worked, Same
<1>9. ASSUME ListerGet PROVE Goal
  <2>h. {"store", "event", "cache"} \subseteq Holders \ {"seen"}
    BY Zenon DEF Holders
  <2>1. CASE memory.held["cache"] = None
    <3>1. memory' = Drop(memory, "seen")
      BY <1>9, <2>1, Zenon DEF ListerGet
    <3>2. /\ Apart(memory') /\ memory'.held["seen"] = memory.held["cache"]
          /\ \A q \in Holders \ {"seen"} : memory'.held[q] = memory.held[q]
      BY <1>r, <2>1, <3>1, DropApart, Zenon
    <3> QED BY <1>9, <2>h, <3>2, Zenon DEF ListerGet, Handed, Same
  <2>2. CASE memory.held["cache"] # None
    <3>1. memory' = Point(memory, "seen", "cache")
      BY <1>9, <2>2, Zenon DEF ListerGet
    <3>2. /\ Apart(memory') /\ memory'.held["seen"] = memory.held["cache"]
          /\ \A q \in Holders \ {"seen"} : memory'.held[q] = memory.held[q]
      BY <1>r, <1>c, <3>1, PointApart
    <3> QED BY <1>9, <2>h, <3>2, Zenon DEF ListerGet, Handed, Same
  <2> QED BY <2>1, <2>2, Zenon
<1>10. ASSUME UNCHANGED clientVars PROVE Goal
  BY <1>10, Zenon DEF clientVars, Worked, Same
<1>11. CASE ProgramStep
  BY <1>1, <1>2, <1>3, <1>4, <1>9, <1>11, Zenon DEF ProgramStep
<1>12. CASE InformerStep
  BY <1>5, <1>6, <1>7, <1>8, <1>12, Zenon DEF InformerStep, firstList, nextList
<1>13. CASE FactoryStep \/ UNCHANGED vars
  BY <1>10, <1>13, Zenon DEF FactoryStep, vars, clientVars
<1> QED BY <1>11, <1>12, <1>13, Zenon DEF Next

\* What Init leaves in memory: nothing, or what the API was created with.
LEMMA MemoryInit ==
  ASSUME CopiesOwn, Init
  PROVE  Apart(memory) /\ memory.held["seen"] = None /\ memory.held["event"] = None
<1>1. /\ Apart(Nothing)
      /\ Nothing.held["seen"] = None /\ Nothing.held["event"] = None
  BY Zenon DEF Apart, Nothing, Memories, Holders, Contents
<1>2. ASSUME NEW v \in Values, memory = Exchanged(Alloc(Nothing, "mine", v), "store", "mine")
      PROVE  Apart(memory) /\ memory.held["seen"] = None /\ memory.held["event"] = None
  <2> DEFINE m == Alloc(Nothing, "mine", v)
  <2>0. v \in Contents /\ spot \in Blocks
    BY Zenon DEF Contents, Init
  <2>h. "mine" \in Holders /\ "store" \in Holders
    BY Zenon DEF Holders
  <2>i. {"seen", "event"} \subseteq (Holders \ {"mine"}) \cap (Holders \ {"store"})
    BY Zenon DEF Holders
  <2>1. Apart(m) /\ m.held["seen"] = None /\ m.held["event"] = None
    <3>1. Apart(m) /\ \A q \in Holders \ {"mine"} : m.held[q] = Nothing.held[q]
      BY <1>1, <2>0, <2>h, AllocApart
    <3> HIDE DEF m
    <3> QED BY <1>1, <2>i, <3>1, Zenon
  <2> HIDE DEF m
  <2>2. /\ Apart(Exchanged(m, "store", "mine"))
        /\ \A q \in {"seen", "event"} : Exchanged(m, "store", "mine").held[q] = m.held[q]
    <3>1. /\ Apart(Exchanged(m, "store", "mine"))
          /\ \A q \in Holders \ {"store"} : Exchanged(m, "store", "mine").held[q] = m.held[q]
      BY <2>0, <2>1, <2>h, ExchangedApart
    <3> QED BY <2>i, <3>1, Zenon
  <2> QED BY <1>2, <2>1, <2>2, Zenon DEF m
<1> QED BY <1>1, <1>2, Zenon DEF Init

SnapshotInv == spot \in Blocks /\ Apart(memory) /\ SnapshotsHold

LEMMA SnapshotInit == CopiesOwn /\ Init => SnapshotInv
BY MemoryInit, Zenon DEF Init, SnapshotInv, SnapshotsHold

LEMMA SnapshotStep == CopiesOwn /\ SnapshotInv /\ [Next]_vars => SnapshotInv'
BY MemoryStep, Zenon DEF SnapshotInv, SnapshotsHold, Requested, Worked, Handed, Same

\* Where the copies that DeepCopyObject makes own every block of an object,
\* nothing a resolver got from the lister changes while it reads it, whatever
\* the program, the informer and the API do.
THEOREM OwnedSnapshotsHold == ASSUME CopiesOwn PROVE Spec => []SnapshotsHold
<1>1. Init => SnapshotInv
  BY SnapshotInit, Zenon
<1>2. SnapshotInv /\ [Next]_vars => SnapshotInv'
  BY SnapshotStep, Zenon
<1>3. SnapshotInv => SnapshotsHold
  BY Zenon DEF SnapshotInv
<1> QED BY <1>1, <1>2, <1>3, PTL DEF Spec

(***************************************************************************)
(* What the API holds, and the first list. As long as no change was asked  *)
(* for there is no event, so that the cache of an informer that has synced *)
(* is still what it listed.                                                *)
(***************************************************************************)
ListedInv ==
  /\ spot \in Blocks /\ Apart(memory)
  /\ requests \in Nat
  /\ requests = 0 =>
       /\ memory.held["event"] = None
       /\ Listener \in synced => memory.held["cache"] = memory.held["store"]

LEMMA ListedInit == CopiesOwn /\ Init => ListedInv
<1> SUFFICES ASSUME CopiesOwn, Init PROVE ListedInv
  OBVIOUS
<1>1. spot \in Blocks /\ requests = 0 /\ synced = {}
  BY Zenon DEF Init, FactoryInit
<1>2. Apart(memory) /\ memory.held["event"] = None
  BY MemoryInit, Zenon
<1>3. requests \in Nat
  BY <1>1
<1> QED BY <1>1, <1>2, <1>3, Zenon DEF ListedInv

\* An informer becomes synced with its first list only.
LEMMA SyncedStep == [Next]_vars => synced' = synced \/ firstList
<1> SUFFICES ASSUME [Next]_vars, ~firstList PROVE synced' = synced
  OBVIOUS
<1>1. ASSUME NEW c \in Callers, CallStep(c) PROVE synced' = synced
  BY <1>1, Zenon DEF CallStep, InformerFor, Start, Shutdown, returnShutdown, WaitForCacheSync,
                     waitOne, returnWait
<1>2. ASSUME FactoryStep PROVE synced' = synced
  BY <1>1, <1>2, Zenon DEF FactoryStep, endRun, closeStop
<1> QED BY <1>2, Zenon DEF Next, InformerStep, nextList, vars, factoryVars

LEMMA ListedStep == CopiesOwn /\ ListedInv /\ [Next]_vars => ListedInv'
<1> SUFFICES ASSUME CopiesOwn, ListedInv, [Next]_vars PROVE ListedInv'
  OBVIOUS
<1>1. /\ Apart(memory') /\ spot' = spot
      /\ Requested \/ Worked \/ Handed
  BY MemoryStep, Zenon DEF ListedInv
<1>2. CASE Requested
  <2>1. requests' \in Nat /\ requests' # 0
    BY <1>2 DEF ListedInv, Requested
  <2> QED BY <1>1, <2>1, Zenon DEF ListedInv
<1>3. ASSUME Worked \/ Handed, requests = 0
      PROVE  /\ memory'.held["event"] = None
             /\ Listener \in synced' => memory'.held["cache"] = memory'.held["store"]
  <2>1. /\ memory'.held["event"] = None /\ memory'.held["store"] = memory.held["store"]
        /\ memory'.held["cache"] \in {memory.held["cache"], memory.held["store"]}
    BY <1>3, Zenon DEF ListedInv, Worked, Handed, Same
  <2>2. CASE synced' = synced
    BY <1>3, <2>1, <2>2, Zenon DEF ListedInv
  <2>3. CASE firstList
    BY <2>1, <2>3, ListFuncLists, Zenon DEF ListedInv, firstList
  <2> QED BY <2>1, <2>2, <2>3, SyncedStep, Zenon
<1>4. CASE Worked \/ Handed
  BY <1>1, <1>3, <1>4, Zenon DEF ListedInv, Worked, Handed
<1> QED BY <1>1, <1>2, <1>4, Zenon

\* Where copies own every block, only a request changes what the API holds: no
\* program, informer or resolver reaches a stored object through one it has.
THEOREM StoreChangesByRequest == ASSUME CopiesOwn PROVE Spec => StoreChangesOnlyByRequest
<1>1. ListedInv /\ [Next]_vars =>
        [memory'.held["store"] # memory.held["store"] => requests' # requests]_vars
  <2> SUFFICES ASSUME ListedInv, [Next]_vars, memory'.held["store"] # memory.held["store"]
               PROVE  requests' # requests
    BY Zenon
  <2>1. Requested \/ Worked \/ Handed
    BY MemoryStep, Zenon DEF ListedInv
  <2>2. Requested
    BY <2>1, Zenon DEF Worked, Handed, Same
  <2> QED BY <2>2 DEF ListedInv, Requested
<1> QED BY <1>1, ListedInit, ListedStep, PTL DEF Spec, StoreChangesOnlyByRequest

\* Where copies own every block, a wait for the caches that passed
\* checkInformerSync means that the cache shows what the API was created with,
\* for any number of callers and in whatever order they use the factory.
THEOREM WaitMeansListed == ASSUME CopiesOwn PROVE Spec => []ReadyMeansListed
<1>1. Init => AnswersInv
  BY AnswersInit, Zenon DEF Init
<1>2. AnswersInv /\ [Next]_vars => AnswersInv'
  BY AnswersStep, ClientsStep, Zenon DEF vars, factoryVars
<1>3. AnswersInv /\ ListedInv => ReadyMeansListed
  <2> SUFFICES ASSUME AnswersInv, ListedInv, requests = 0, NEW c \in Callers, ready[c]
               PROVE  memory.held["cache"] = memory.held["store"]
    BY Zenon DEF ReadyMeansListed
  <2>1. synced # {} /\ synced \subseteq {Listener}
    BY ListenerAssumption, Zenon DEF AnswersInv, FactoryTypeOK
  <2> QED BY <2>1, Zenon DEF ListedInv
<1> QED BY <1>1, <1>2, <1>3, ListedInit, ListedStep, PTL DEF Spec
=============================================================================
