------------------------- MODULE ConfigWatcherProofs -------------------------
(***************************************************************************)
(* Proofs about a stream and its watches, for any names, plan of the       *)
(* client, number of changes and number of watches.                        *)
(***************************************************************************)
EXTENDS ConfigWatcher, Integers, TLAPS

\* A sequence to which an element was added.
LEMMA Appended ==
    ASSUME NEW S, NEW q \in Seq(S), NEW e \in S
    PROVE  /\ Append(q, e) \in Seq(S)
           /\ Append(q, e) # <<>>
           /\ Len(q) \in Nat
           /\ Len(Append(q, e)) = Len(q) + 1
           /\ \A p \in 1 .. Len(q) : Append(q, e)[p] = q[p]
           /\ Append(q, e)[Len(q) + 1] = e
OBVIOUS

\* A sequence from which the first element was taken.
LEMMA Shortened ==
    ASSUME NEW S, NEW q \in Seq(S), q # <<>>
    PROVE  /\ Tail(q) \in Seq(S)
           /\ Head(q) \in S
           /\ Head(q) = q[1]
           /\ Len(q) \in Nat \ {0}
           /\ Len(Tail(q)) = Len(q) - 1
           /\ \A p \in 1 .. Len(q) - 1 : Tail(q)[p] = q[p + 1]
OBVIOUS

\* The elements of a sequence.
LEMMA LenProperties ==
    ASSUME NEW S, NEW q \in Seq(S)
    PROVE  /\ Len(q) \in Nat
           /\ DOMAIN q = 1 .. Len(q)
           /\ \A i \in 1 .. Len(q) : q[i] \in S
OBVIOUS

\* The empty sequence is the one of length zero.
LEMMA EmptySeq ==
    ASSUME NEW S
    PROVE  /\ <<>> \in Seq(S) /\ Len(<<>>) = 0
           /\ \A q \in Seq(S) : q # <<>> => Len(q) \in Nat \ {0}
OBVIOUS

LEMMA OverlayType ==
    ASSUME NEW old \in Versions, NEW new \in Versions
    PROVE  Overlay(old, new) \in Versions
BY Zenon DEF Overlay, Versions

-----------------------------------------------------------------------------
(* Types.                                                                  *)

Request == [names : SUBSET Names, nonce : Nat]
Response == [res : Versions, nonce : Nat]

LEMMA TypeInit == Init => TypeOK
<1>. SUFFICES ASSUME Init PROVE TypeOK
  OBVIOUS
<1>. USE PlanAssumption, BoundsAssumption
<1>1. NoVersions \in Versions /\ ver \in Versions
  BY Zenon DEF NoVersions, Versions, Init
<1>2. Len(Plan) \in Nat
  BY LenProperties, Zenon
<1>. QED BY <1>1, <1>2 DEF Init, TypeOK

LEMMA TypeWatch ==
    ASSUME TypeOK, NEW w \in WatchIds,
           WatchStep(w) \/ exitWatch(w) \/ \E n \in Names : takeChange(w, n)
    PROVE  TypeOK'
<1>. USE DEF TypeOK, storeVars, registryVars, watchVars, serverVars, wires, clientVars
<1>0. NoVersions \in Versions
  BY Zenon DEF NoVersions, Versions
<1>1. ASSUME NEW n \in Names, watchName(w, n) PROVE TypeOK'
  BY <1>1 DEF watchName
<1>2. ASSUME NEW n \in Names, resolveName(w, n) PROVE TypeOK'
  <2>1. [draft[w] EXCEPT ![n] = ver[n]] \in Versions
    BY Zenon DEF Versions
  <2>2. /\ draft' \in [WatchIds -> Versions] /\ goal' \in [WatchIds -> SUBSET Names]
        /\ pc' \in [WatchIds -> {"new", "register", "resolve", "send", "serve", "exited"}]
    <3>1. CASE n \in present
      <4>1. /\ draft' = [draft EXCEPT ![w] = [draft[w] EXCEPT ![n] = ver[n]]] /\ goal' = goal
            /\ pc' = pc \/ pc' = [pc EXCEPT ![w] = "send"]
        BY <1>2, <3>1, Zenon DEF resolveName
      <4>. QED BY <2>1, <4>1, Zenon
    <3>2. CASE n \notin present
      <4>1. Respond(w)
        BY <1>2, <3>2, Zenon DEF resolveName
      <4>. QED BY <1>0, <4>1, Zenon DEF Respond
    <3>. QED BY <3>1, <3>2, Zenon
  <2>3. UNCHANGED <<storeVars, registryVars, asked, respCh, cancelled, sent,
                    serverVars, wires, clientVars>>
    BY <1>2, Zenon DEF resolveName
  <2>. QED BY <2>2, <2>3, Zenon
<1>3. CASE checkDiff(w)
  BY <1>3, Zenon DEF checkDiff
<1>4. CASE sendResponse(w)
  <2>1. Append(respCh[w], draft[w]) \in Seq(Versions)
    BY Appended, Zenon
  <2>2. Overlay(sent[w], draft[w]) \in Versions
    BY OverlayType, Zenon
  <2>. QED BY <1>0, <1>4, <2>1, <2>2, Zenon DEF sendResponse, Respond
<1>5. CASE dropResponse(w)
  BY <1>0, <1>5, Zenon DEF dropResponse, Respond
<1>6. CASE exitWatch(w)
  <2>1. <<>> \in Seq(Versions)
    OBVIOUS
  <2>. QED BY <1>0, <1>6, <2>1, Zenon DEF exitWatch
<1>7. ASSUME NEW n \in Names, takeChange(w, n) PROVE TypeOK'
  <2>1. [inbox[w] EXCEPT ![n] = @ - 1] \in Versions
    BY <1>7 DEF Versions, takeChange
  <2>. QED BY <1>7, <2>1 DEF takeChange
<1>. QED BY <1>1, <1>2, <1>3, <1>4, <1>5, <1>6, <1>7, Zenon DEF WatchStep

LEMMA TypeStream ==
    ASSUME TypeOK, handleRequest \/ forwardResponse \/ closeStream
                     \/ subscribe \/ receiveResponse
    PROVE  TypeOK'
<1>. USE PlanAssumption, BoundsAssumption
<1>. USE DEF TypeOK, storeVars, registryVars, watchVars, serverVars, wires, clientVars
<1>1. CASE handleRequest
  <2>1. Tail(reqs) \in Seq(Request) /\ Head(reqs) \in Request
    BY <1>1, Shortened, Zenon DEF handleRequest, Request
  <2>2. reqs' = Tail(reqs) /\ known' \in SUBSET Names
    BY <1>1, Zenon DEF handleRequest
  <2>3. /\ cancelled' \in SUBSET WatchIds /\ cur' \in 0 .. MaxWatches
        /\ watchNonce' \in Nat
        /\ pc' \in [WatchIds -> {"new", "register", "resolve", "send", "serve", "exited"}]
        /\ asked' \in [WatchIds -> SUBSET Names]
    <3>1. CASE CreateWatch(Head(reqs).names)
      <4>0. cur \in 0 .. MaxWatches /\ MaxWatches \in Nat /\ cur < MaxWatches
        BY <3>1, Zenon DEF CreateWatch
      <4>1. cur + 1 \in WatchIds /\ Head(reqs).names \subseteq Names
        <5>1. Head(reqs).names \subseteq Names
          BY <2>1, Zenon DEF Request
        <5>. HIDE DEF TypeOK
        <5>. QED BY <4>0, <5>1 DEF WatchIds
      <4>2. cancelled' \in SUBSET WatchIds
        <5>1. cancelled' \subseteq cancelled \cup (IF cur = 0 THEN {} ELSE {cur})
          BY <3>1, Zenon DEF CreateWatch
        <5>2. cur # 0 => cur \in WatchIds
          <6>. HIDE DEF TypeOK
          <6>. QED BY <4>0 DEF WatchIds
        <5>. QED BY <5>1, <5>2, Zenon
      <4>3. cur' \in 0 .. MaxWatches /\ watchNonce' \in Nat
        <5>1. cur' = cur + 1 /\ watchNonce' = 0
          BY <3>1, Zenon DEF CreateWatch
        <5>. HIDE DEF TypeOK
        <5>. QED BY <4>0, <5>1
      <4>4. /\ pc' \in [WatchIds -> {"new", "register", "resolve", "send", "serve", "exited"}]
            /\ asked' \in [WatchIds -> SUBSET Names]
        BY <3>1, <4>1, Zenon DEF CreateWatch
      <4>. QED BY <4>2, <4>3, <4>4, Zenon
    <3>2. CASE UNCHANGED <<cancelled, cur, pc, asked, watchNonce>>
      BY <3>2, Zenon
    <3>. QED BY <1>1, <3>1, <3>2, Zenon DEF handleRequest
  <2>4. UNCHANGED <<storeVars, registryVars, goal, draft, respCh, sent,
                    lastNonce, lastNames, open, resps, clientVars>>
    BY <1>1, Zenon DEF handleRequest
  <2>. QED BY <2>1, <2>2, <2>3, <2>4, Zenon DEF Request
<1>2. CASE forwardResponse
  <2>1. cur \in WatchIds /\ respCh[cur] \in Seq(Versions) /\ respCh[cur] # <<>>
    BY <1>2 DEF forwardResponse, WatchIds
  <2>2. Tail(respCh[cur]) \in Seq(Versions) /\ Head(respCh[cur]) \in Versions
    BY <2>1, Shortened, Zenon
  <2>3. Append(resps, [res |-> Head(respCh[cur]), nonce |-> lastNonce + 1]) \in Seq(Response)
    BY <2>2, Appended DEF Response
  <2>4. /\ lastNonce' \in Nat /\ watchNonce' \in Nat /\ lastNames' \in SUBSET Names
        /\ respCh' \in [WatchIds -> Seq(Versions)] /\ resps' \in Seq(Response)
    BY <1>2, <2>1, <2>2, <2>3 DEF forwardResponse, GetRequest
  <2>5. UNCHANGED <<storeVars, registryVars, pc, asked, goal, draft, cancelled, sent,
                    cur, known, open, reqs, clientVars>>
    BY <1>2, Zenon DEF forwardResponse
  <2>. QED BY <2>4, <2>5, Zenon DEF Response
<1>3. CASE closeStream
  <2>1. cancelled' \in SUBSET WatchIds
    BY <1>3 DEF closeStream, WatchIds
  <2>2. open' \in BOOLEAN
    BY <1>3, Zenon DEF closeStream
  <2>. QED BY <1>3, <2>1, <2>2, Zenon DEF closeStream
<1>4. CASE subscribe
  <2>1. step + 1 \in 1 .. Len(Plan) /\ Plan[step + 1] \subseteq Names
    BY <1>4, LenProperties DEF subscribe
  <2>2. Append(reqs, [names |-> Plan[step + 1], nonce |-> ackNonce]) \in Seq(Request)
    BY <2>1, Appended, Zenon DEF Request
  <2>. QED BY <1>4, <2>1, <2>2 DEF subscribe, Request
<1>5. CASE receiveResponse
  <2>1. Tail(resps) \in Seq(Response) /\ Head(resps) \in Response
    BY <1>5, Shortened, Zenon DEF receiveResponse, Response
  <2>2. want \subseteq Names
    BY LenProperties DEF want
  <2>3. Append(reqs, [names |-> want, nonce |-> Head(resps).nonce]) \in Seq(Request)
    BY <2>1, <2>2, Appended, Zenon DEF Request, Response
  <2>4. Overlay(got, Head(resps).res) \in Versions
    BY <2>1, OverlayType, Zenon DEF Response
  <2>5. /\ resps' \in Seq(Response) /\ reqs' \in Seq(Request) /\ got' \in Versions
        /\ holds' \in SUBSET Names /\ ackNonce' \in Nat
    BY <1>5, <2>1, <2>2, <2>3, <2>4, Zenon DEF receiveResponse, Response
  <2>6. UNCHANGED <<storeVars, registryVars, watchVars, serverVars, step>>
    BY <1>5, Zenon DEF receiveResponse
  <2>. QED BY <2>5, <2>6, Zenon DEF Request, Response
<1>. QED BY <1>1, <1>2, <1>3, <1>4, <1>5, Zenon

LEMMA TypeStore ==
    ASSUME TypeOK,
           resync \/ \E n \in Names : applyObject(n) \/ deleteObject(n) \/ notifyChanged(n)
    PROVE  TypeOK'
<1>. USE DEF TypeOK, storeVars, registryVars, watchVars, serverVars, wires, clientVars
<1>1. CASE resync
  <2>1. events' \in Versions /\ changes' \in Nat
    BY <1>1 DEF resync, Change, Versions
  <2>. QED BY <1>1, <2>1, Zenon DEF resync, Change
<1>2. ASSUME NEW n \in Names, applyObject(n) \/ deleteObject(n) PROVE TypeOK'
  <2>0. /\ ver' = [ver EXCEPT ![n] = @ + 1] /\ events' = [events EXCEPT ![n] = @ + 1]
        /\ changes' = changes + 1
    BY <1>2, Zenon DEF applyObject, deleteObject, Change
  <2>1. ver' \in Versions /\ events' \in Versions /\ changes' \in Nat
    BY <2>0 DEF Versions
  <2>2. present' \in SUBSET Names
    BY <1>2, Zenon DEF applyObject, deleteObject
  <2>3. UNCHANGED <<registryVars, watchVars, serverVars, wires, clientVars>>
    BY <1>2, Zenon DEF applyObject, deleteObject, Change
  <2>. QED BY <2>1, <2>2, <2>3, Zenon
<1>3. ASSUME NEW n \in Names, notifyChanged(n) PROVE TypeOK'
  <2>1. events' \in Versions
    BY <1>3 DEF notifyChanged, Versions
  <2>2. \A u \in WatchIds : [inbox[u] EXCEPT ![n] = @ + 1] \in Versions
    BY DEF Versions
  <2>3. inbox' \in [WatchIds -> Versions]
    BY <1>3, <2>2, Zenon DEF notifyChanged, Registry!Published
  <2>. QED BY <1>3, <2>1, <2>3, Zenon DEF notifyChanged
<1>. QED BY <1>1, <1>2, <1>3, Zenon

LEMMA TypeStep == TypeOK /\ [Next]_vars => TypeOK'
<1>. SUFFICES ASSUME TypeOK, [Next]_vars PROVE TypeOK'
  OBVIOUS
<1>1. CASE UNCHANGED vars
  BY <1>1, Zenon DEF vars, TypeOK, storeVars, registryVars, watchVars, serverVars, wires, clientVars
<1>. QED BY <1>1, TypeWatch, TypeStream, TypeStore, Zenon DEF Next

\* The state of a stream, of its watches and of its client keeps its types.
THEOREM TypeCorrect == Spec => []TypeOK
BY TypeInit, TypeStep, PTL DEF Spec

-----------------------------------------------------------------------------
(***************************************************************************)
(* Subscriptions settle.  The nonces on the wire count up to the last one  *)
(* the server has used, and the client has the one before them.  So if no  *)
(* response is on its way, the last request on the wire carries the last   *)
(* nonce and is not ignored.                                               *)
(***************************************************************************)
Nonces ==
    /\ ackNonce + Len(resps) = lastNonce
    /\ \A i \in 1 .. Len(resps) : resps[i].nonce = ackNonce + i
    /\ watchNonce \in {0, lastNonce}

OpenWatch ==
    /\ cancelled \subseteq 1 .. cur
    /\ open => cur \notin cancelled

LastRequest ==
    open /\ step > 0 /\ resps = <<>> =>
        IF reqs = <<>> THEN cur > 0 /\ asked[cur] = want
        ELSE reqs[Len(reqs)] = [names |-> want, nonce |-> ackNonce]

SettleInv == Nonces /\ OpenWatch /\ LastRequest

LEMMA SettleWatch ==
    ASSUME TypeOK, SettleInv, NEW w \in WatchIds,
           WatchStep(w) \/ exitWatch(w) \/ \E n \in Names : takeChange(w, n)
    PROVE  SettleInv'
<1>1. UNCHANGED <<ackNonce, resps, reqs, lastNonce, watchNonce, cancelled, cur, open, step>>
  BY Zenon DEF WatchStep, watchName, resolveName, checkDiff, sendResponse, dropResponse, exitWatch,
         takeChange, watchVars, serverVars, wires, clientVars
<1>2. open /\ cur > 0 => asked'[cur] = asked[cur]
  <2>1. CASE exitWatch(w)
    BY <2>1 DEF exitWatch, SettleInv, OpenWatch, TypeOK
  <2>2. CASE ~exitWatch(w)
    BY <2>2, Zenon DEF WatchStep, watchName, resolveName, checkDiff, sendResponse, dropResponse,
                takeChange, watchVars
  <2>. QED BY <2>1, <2>2, Zenon
<1>. QED BY <1>1, <1>2, Zenon DEF SettleInv, Nonces, OpenWatch, LastRequest, want

LEMMA SettleStep == TypeOK /\ SettleInv /\ [Next]_vars => SettleInv'
<1>. SUFFICES ASSUME TypeOK, SettleInv, [Next]_vars PROVE SettleInv'
  OBVIOUS
<1>. USE PlanAssumption, BoundsAssumption
<1>1. CASE handleRequest
  <2>1. /\ reqs \in Seq(Request) /\ reqs # <<>> /\ open
        /\ reqs' = Tail(reqs) /\ UNCHANGED <<ackNonce, resps, lastNonce, open, step>>
    BY <1>1, Zenon DEF handleRequest, clientVars, TypeOK, Request
  <2>2. /\ Head(reqs) = reqs[1] /\ Len(reqs) \in Nat \ {0} /\ Len(reqs') = Len(reqs) - 1
        /\ \A p \in 1 .. Len(reqs) - 1 : reqs'[p] = reqs[p + 1]
        /\ reqs' \in Seq(Request) /\ Head(reqs) \in Request
    BY <2>1, Shortened, Zenon
  <2>3. reqs' = <<>> <=> Len(reqs) = 1
    <3>1. \A q \in Seq(Request) : q = <<>> <=> Len(q) = 0
      BY EmptySeq, Zenon
    <3>. QED BY <2>2, <3>1
  <2>4. CASE /\ cur = 0 \/ watchNonce = 0 \/ watchNonce = Head(reqs).nonce
             /\ CreateWatch(Head(reqs).names)
    <3>1. /\ cur' = cur + 1 /\ cur \in Nat /\ cur + 1 \in WatchIds /\ watchNonce' = 0
          /\ asked'[cur'] = Head(reqs).names
      BY <2>4 DEF CreateWatch, TypeOK, WatchIds
    <3>2. OpenWatch'
      BY <2>1, <2>4, <3>1 DEF CreateWatch, SettleInv, OpenWatch
    <3>3. LastRequest'
      BY <2>1, <2>2, <2>3, <3>1 DEF SettleInv, LastRequest, want
    <3>. QED BY <2>1, <3>1, <3>2, <3>3, Zenon DEF SettleInv, Nonces
  <2>5. CASE /\ ~(cur = 0 \/ watchNonce = 0 \/ watchNonce = Head(reqs).nonce)
             /\ UNCHANGED <<cancelled, cur, pc, asked, watchNonce>>
    <3>1. resps = <<>> => lastNonce = ackNonce
      BY DEF SettleInv, Nonces, TypeOK
    <3>2. LastRequest'
      BY <2>1, <2>2, <2>3, <2>5, <3>1 DEF SettleInv, Nonces, LastRequest, want
    <3>. QED BY <2>1, <2>5, <3>2, Zenon DEF SettleInv, Nonces, OpenWatch
  <2>. QED BY <1>1, <2>4, <2>5, Zenon DEF handleRequest
<1>2. CASE forwardResponse
  <2>1. /\ resps \in Seq(Response) /\ cur \in WatchIds /\ respCh[cur] \in Seq(Versions)
        /\ respCh[cur] # <<>>
    BY <1>2 DEF forwardResponse, TypeOK, Response, WatchIds
  <2>. DEFINE resp == [res |-> Head(respCh[cur]), nonce |-> lastNonce + 1]
  <2>2. resp \in Response /\ resp.nonce = lastNonce + 1
    BY <2>1, Shortened DEF TypeOK, Response
  <2>3. /\ resps' = Append(resps, resp)
        /\ lastNonce' = lastNonce + 1 /\ watchNonce' = lastNonce + 1
        /\ UNCHANGED <<cancelled, cur, open, ackNonce>>
    BY <1>2, Zenon DEF forwardResponse, clientVars
  <2>. HIDE DEF resp
  <2>4. /\ resps' # <<>> /\ Len(resps) \in Nat /\ Len(resps') = Len(resps) + 1
        /\ \A p \in 1 .. Len(resps) : resps'[p] = resps[p]
        /\ resps'[Len(resps) + 1] = resp
    BY <2>1, <2>2, <2>3, Appended
  <2>5. Nonces'
    <3>0. /\ ackNonce + Len(resps) = lastNonce /\ ackNonce \in Nat /\ lastNonce \in Nat
          /\ \A i \in 1 .. Len(resps) : resps[i].nonce = ackNonce + i
      BY Zenon DEF SettleInv, Nonces, TypeOK
    <3>1. ASSUME NEW i \in 1 .. Len(resps') PROVE resps'[i].nonce = ackNonce + i
      <4>1. CASE i \in 1 .. Len(resps)
        BY <2>4, <3>0, <4>1, Zenon
      <4>2. CASE i = Len(resps) + 1
        <5>1. resps'[i] = resp
          BY <2>4, <4>2, Zenon
        <5>2. resp.nonce = ackNonce + i
          BY <2>2, <2>4, <3>0, <4>2
        <5>. QED BY <5>1, <5>2, Zenon
      <4>. QED BY <2>4, <4>1, <4>2
    <3>2. ackNonce' + Len(resps') = lastNonce' /\ watchNonce' = lastNonce'
      BY <2>3, <2>4, <3>0
    <3>. QED BY <2>3, <3>1, <3>2, Zenon DEF Nonces
  <2>. QED BY <2>3, <2>4, <2>5, Zenon DEF SettleInv, OpenWatch, LastRequest
<1>3. CASE closeStream
  <2>1. ~open' /\ UNCHANGED <<cur, ackNonce, resps, lastNonce, watchNonce>>
    BY <1>3, Zenon DEF closeStream, wires, clientVars
  <2>2. cancelled' \subseteq 1 .. cur
    BY <1>3 DEF closeStream, SettleInv, OpenWatch, TypeOK
  <2>. QED BY <2>1, <2>2, Zenon DEF SettleInv, Nonces, OpenWatch, LastRequest
<1>4. CASE subscribe
  <2>1. step + 1 \in 1 .. Len(Plan) /\ Plan[step + 1] \subseteq Names
    BY <1>4, LenProperties DEF subscribe, TypeOK
  <2>2. /\ reqs' = Append(reqs, [names |-> Plan[step + 1], nonce |-> ackNonce])
        /\ step' = step + 1
        /\ UNCHANGED <<cancelled, cur, open, ackNonce, resps, lastNonce, watchNonce>>
    BY <1>4, Zenon DEF subscribe, watchVars, serverVars
  <2>3. reqs' # <<>> /\ reqs'[Len(reqs')] = [names |-> Plan[step + 1], nonce |-> ackNonce]
    <3>1. reqs \in Seq(Request) /\ [names |-> Plan[step + 1], nonce |-> ackNonce] \in Request
      BY <2>1, Zenon DEF TypeOK, Request
    <3>. QED BY <2>2, <3>1, Appended
  <2>4. LastRequest'
    BY <2>1, <2>2, <2>3 DEF LastRequest, want
  <2>. QED BY <2>2, <2>4, Zenon DEF SettleInv, Nonces, OpenWatch
<1>5. CASE receiveResponse
  <2>1. /\ resps \in Seq(Response) /\ resps # <<>> /\ resps' = Tail(resps)
        /\ ackNonce' = Head(resps).nonce
        /\ reqs' = Append(reqs, [names |-> want, nonce |-> Head(resps).nonce])
        /\ UNCHANGED <<cancelled, cur, open, lastNonce, watchNonce, step>>
    BY <1>5, Zenon DEF receiveResponse, TypeOK, Response, watchVars, serverVars
  <2>2. /\ Head(resps) = resps[1] /\ Len(resps) \in Nat \ {0} /\ Len(resps') = Len(resps) - 1
        /\ \A p \in 1 .. Len(resps) - 1 : resps'[p] = resps[p + 1]
        /\ Head(resps) \in Response
    BY <2>1, Shortened, Zenon
  <2>3. ackNonce' = ackNonce + 1
    BY <2>1, <2>2 DEF SettleInv, Nonces
  <2>4. Nonces'
    <3>1. \A i \in 1 .. Len(resps') : resps'[i].nonce = ackNonce' + i
      <4>. SUFFICES ASSUME NEW i \in 1 .. Len(resps') PROVE resps'[i].nonce = ackNonce' + i
        OBVIOUS
      <4>1. i + 1 \in 1 .. Len(resps) /\ resps'[i] = resps[i + 1]
        BY <2>2
      <4>2. resps[i + 1].nonce = ackNonce + (i + 1)
        BY <4>1, Zenon DEF SettleInv, Nonces
      <4>3. ackNonce \in Nat /\ i \in Int
        BY DEF TypeOK
      <4>4. ackNonce + (i + 1) = (ackNonce + 1) + i
        BY <4>3
      <4>. QED BY <2>3, <4>1, <4>2, <4>4, Zenon
    <3>. QED BY <2>1, <2>2, <2>3, <3>1 DEF SettleInv, Nonces, TypeOK
  <2>5. want \subseteq Names
    BY LenProperties DEF want, TypeOK
  <2>6. reqs' # <<>> /\ reqs'[Len(reqs')] = [names |-> want, nonce |-> ackNonce']
    <3>1. reqs \in Seq(Request) /\ [names |-> want, nonce |-> Head(resps).nonce] \in Request
      BY <2>2, <2>5, Zenon DEF TypeOK, Request, Response
    <3>2. reqs' = Append(reqs, [names |-> want, nonce |-> ackNonce'])
      BY <2>1, Zenon
    <3>3. [names |-> want, nonce |-> ackNonce'] \in Request
      BY <2>1, <3>1, Zenon
    <3>4. reqs' # <<>> /\ Len(reqs') = Len(reqs) + 1
          /\ reqs'[Len(reqs) + 1] = [names |-> want, nonce |-> ackNonce']
      <4>. DEFINE q == [names |-> want, nonce |-> ackNonce']
      <4>. HIDE DEF q
      <4>1. reqs' = Append(reqs, q) /\ q \in Request /\ reqs \in Seq(Request)
        BY <3>1, <3>2, <3>3, Zenon DEF q
      <4>2. reqs' # <<>> /\ Len(reqs') = Len(reqs) + 1 /\ reqs'[Len(reqs) + 1] = q
        BY <4>1, Appended
      <4>. QED BY <4>2, Zenon DEF q
    <3>. QED BY <3>4, Zenon
  <2>7. want' = want
    BY <2>1, Zenon DEF want
  <2>. QED BY <2>1, <2>4, <2>6, <2>7, Zenon DEF SettleInv, OpenWatch, LastRequest
<1>6. CASE \/ resync \/ UNCHANGED vars
           \/ \E n \in Names : applyObject(n) \/ deleteObject(n) \/ notifyChanged(n)
  <2>1. UNCHANGED <<ackNonce, resps, reqs, lastNonce, watchNonce, cancelled, cur, open, step, asked>>
    BY <1>6, Zenon DEF resync, applyObject, deleteObject, notifyChanged, Change, vars, watchVars,
                serverVars, wires, clientVars
  <2>. QED BY <2>1, Zenon DEF SettleInv, Nonces, OpenWatch, LastRequest, want
<1>. QED BY <1>1, <1>2, <1>3, <1>4, <1>5, <1>6, SettleWatch, Zenon DEF Next

\* When nothing is on the wire of an open stream, its watch is about what the
\* client last asked for, although CreateWatch is not called for every request.
THEOREM SubscriptionsSettle == Spec => []SubscriptionSettles
<1>1. Init => SettleInv
  BY DEF Init, SettleInv, Nonces, OpenWatch, LastRequest
<1>2. SettleInv => SubscriptionSettles
  BY Zenon DEF SettleInv, LastRequest, SubscriptionSettles
<1>. QED BY <1>1, <1>2, SettleStep, TypeCorrect, PTL DEF Spec

-----------------------------------------------------------------------------
(***************************************************************************)
(* No update is missed.  A version that a watch has read, or sent, is the  *)
(* current one or a change is on its way to the watch, because the watch   *)
(* was subscribed before it read; a change that it has taken is the only   *)
(* name of the request it resolves.                                        *)
(***************************************************************************)
Resolving(w) == pc[w] \in {"resolve", "send"}

OnItsWay(w, n) == events[n] > 0 \/ inbox[w][n] > 0

WatchOK(w) ==
    /\ w > cur => pc[w] = "new"
    /\ pc[w] \in {"new", "register"} => sent[w] = NoVersions
    /\ ~Resolving(w) => draft[w] = NoVersions
    /\ Resolving(w) => /\ \A n \in goal[w] : <<w, n>> \in subs
                       /\ (\E m \in Names : goal[w] = {m}) \/ sent[w] = NoVersions
    /\ pc[w] = "send" => \A n \in goal[w] : draft[w][n] # 0

NameOK(w, n) ==
    /\ inbox[w][n] > 0 \/ draft[w][n] # 0 \/ sent[w][n] # 0 => <<w, n>> \in subs
    /\ draft[w][n] # 0 /\ n \in present => draft[w][n] = ver[n] \/ OnItsWay(w, n)
    /\ sent[w][n] # 0 /\ n \in present /\ w \notin cancelled =>
          \/ sent[w][n] = ver[n]
          \/ OnItsWay(w, n)
          \/ Resolving(w) /\ n \in goal[w]

UpdateInv ==
    /\ \A n \in present : ver[n] > 0
    /\ \A w \in WatchIds : WatchOK(w) /\ \A n \in Names : NameOK(w, n)

\* What a watch is about stays as it is, and at most it gets cancelled.
Same(w) ==
    /\ pc'[w] = pc[w] /\ goal'[w] = goal[w] /\ draft'[w] = draft[w]
    /\ sent'[w] = sent[w] /\ inbox'[w] = inbox[w]
    /\ \A n \in Names : <<w, n>> \in subs <=> <<w, n>> \in subs'
    /\ w \in cancelled => w \in cancelled'

\* A step of a watch leaves the other watches alone, and the watch is started.
LEMMA WatchFrame ==
    ASSUME TypeOK, NEW w \in WatchIds,
           WatchStep(w) \/ exitWatch(w) \/ \E n \in Names : takeChange(w, n)
    PROVE  /\ pc'[w] # "new"
           /\ \A u \in WatchIds : u # w => Same(u) /\ respCh'[u] = respCh[u]
<1>. DEFINE Frame == /\ pc'[w] # "new"
                    /\ \A u \in WatchIds : u # w => Same(u) /\ respCh'[u] = respCh[u]
<1>0. /\ DOMAIN pc = WatchIds /\ DOMAIN goal = WatchIds /\ DOMAIN draft = WatchIds
      /\ DOMAIN sent = WatchIds /\ DOMAIN inbox = WatchIds /\ DOMAIN respCh = WatchIds
  BY Zenon DEF TypeOK
<1>1. ASSUME NEW n \in Names, watchName(w, n) PROVE Frame
  BY <1>1, Zenon DEF watchName, Same, watchVars
<1>2. ASSUME NEW n \in Names, resolveName(w, n) PROVE Frame
  <2>1. UNCHANGED <<registryVars, respCh, cancelled, sent>>
    BY <1>2, Zenon DEF resolveName
  <2>2. /\ pc'[w] # "new"
        /\ \A u \in WatchIds : u # w => /\ pc'[u] = pc[u] /\ goal'[u] = goal[u]
                                        /\ draft'[u] = draft[u]
    BY <1>0, <1>2, Zenon DEF resolveName, Respond
  <2>. QED BY <2>1, <2>2, Zenon DEF Same, registryVars
<1>3. ASSUME checkDiff(w) PROVE Frame
  BY <1>0, <1>3, Zenon DEF checkDiff, Same, registryVars
<1>4. ASSUME sendResponse(w) PROVE Frame
  BY <1>0, <1>4, Zenon DEF sendResponse, Respond, Same, registryVars
<1>5. ASSUME dropResponse(w) PROVE Frame
  BY <1>0, <1>5, Zenon DEF dropResponse, Respond, Same, registryVars
<1>6. ASSUME exitWatch(w) PROVE Frame
  BY <1>0, <1>6, Zenon DEF exitWatch, Same
<1>7. ASSUME NEW n \in Names, takeChange(w, n) PROVE Frame
  BY <1>0, <1>7, Zenon DEF takeChange, Same
<1>. QED BY <1>1, <1>2, <1>3, <1>4, <1>5, <1>6, <1>7, Zenon DEF WatchStep

LEMMA SameOK ==
    ASSUME TypeOK, NEW w \in WatchIds, WatchOK(w), \A n \in Names : NameOK(w, n),
           Same(w), UNCHANGED <<ver, present, events>>, cur' >= cur, cur' \in Nat
    PROVE  WatchOK(w)' /\ \A n \in Names : NameOK(w, n)'
<1>1. WatchOK(w)'
  BY DEF WatchOK, Same, Resolving, WatchIds, TypeOK
<1>2. ASSUME NEW n \in Names PROVE NameOK(w, n)'
  BY Zenon DEF NameOK, Same, Resolving, OnItsWay
<1>. QED BY <1>1, <1>2, Zenon

LEMMA UpdateWatch ==
    ASSUME TypeOK, UpdateInv, NEW w \in WatchIds,
           WatchStep(w) \/ exitWatch(w) \/ \E n \in Names : takeChange(w, n)
    PROVE  UpdateInv'
<1>. DEFINE OK == WatchOK(w)' /\ \A m \in Names : NameOK(w, m)'
<1>0. /\ WatchOK(w) /\ (\A m \in Names : NameOK(w, m)) /\ cur \in Nat
      /\ goal[w] \subseteq Names /\ \A m \in present : ver[m] > 0
  BY DEF UpdateInv, TypeOK
<1>a. UNCHANGED <<ver, present, events, cancelled, cur>>
  BY Zenon DEF WatchStep, watchName, resolveName, checkDiff, sendResponse, dropResponse, exitWatch,
         takeChange, watchVars, serverVars, storeVars
<1>b. ASSUME NEW u \in WatchIds, u # w PROVE Same(u)
  BY <1>b, WatchFrame, Zenon
<1>c. /\ NoVersions \in Versions /\ \A m \in Names : NoVersions[m] = 0
      /\ draft[w] \in Versions /\ sent[w] \in Versions /\ inbox[w] \in Versions
      /\ ver \in Versions /\ events \in Versions
  BY Zenon DEF NoVersions, Versions, TypeOK
<1>1. ASSUME NEW n \in Names, watchName(w, n) PROVE OK
  BY <1>0, <1>1, Zenon DEF watchName, WatchOK, NameOK, Resolving, OnItsWay, watchVars,
                           storeVars, serverVars
<1>2. ASSUME NEW n \in Names, resolveName(w, n) PROVE OK
  <2>0. pc[w] = "resolve" /\ UNCHANGED <<subs, inbox, sent>>
    BY <1>2, Zenon DEF resolveName, registryVars
  <2>1. CASE n \in present
    <3>1. /\ draft'[w] = [draft[w] EXCEPT ![n] = ver[n]] /\ goal'[w] = goal[w]
          /\ pc'[w] = IF \A m \in goal[w] \ {n} : draft[w][m] # 0 THEN "send" ELSE "resolve"
      BY <1>2, <2>0, <2>1, Zenon DEF resolveName, TypeOK
    <3>2. \A m \in Names : draft'[w][m] = IF m = n THEN ver[n] ELSE draft[w][m]
      BY <1>c, <3>1, Zenon DEF Versions
    <3>8. WatchOK(w)'
      BY <1>0, <1>2, <1>a, <2>0, <2>1, <3>1, <3>2 DEF resolveName, WatchOK, Resolving
    <3>9. ASSUME NEW m \in Names PROVE NameOK(w, m)'
      BY <1>0, <1>2, <1>a, <2>0, <2>1, <3>1, <3>2, Zenon
         DEF resolveName, WatchOK, NameOK, Resolving, OnItsWay
    <3>. QED BY <3>8, <3>9, Zenon
  <2>2. CASE n \notin present
    <3>1. draft'[w] = NoVersions /\ pc'[w] = "serve"
      BY <1>2, <2>2, Zenon DEF resolveName, Respond, TypeOK
    <3>8. WatchOK(w)'
      BY <1>0, <1>2, <1>a, <1>c, <2>0, <2>2, <3>1, Zenon DEF WatchOK, Resolving, resolveName
    <3>9. ASSUME NEW m \in Names PROVE NameOK(w, m)'
      BY <1>0, <1>2, <1>a, <1>c, <2>0, <2>2, <3>1 DEF WatchOK, NameOK, Resolving, OnItsWay, resolveName
    <3>. QED BY <3>8, <3>9, Zenon
  <2>. QED BY <2>1, <2>2, Zenon
<1>3. ASSUME checkDiff(w) PROVE OK
  <2>1. /\ pc[w] = "register" /\ \A m \in asked[w] : <<w, m>> \in subs
        /\ UNCHANGED <<subs, inbox, sent, draft>>
        /\ (pc'[w] = "resolve" /\ goal'[w] = asked[w]) \/ pc'[w] = "serve"
    BY <1>3, Zenon DEF checkDiff, registryVars, TypeOK
  <2>8. WatchOK(w)'
    BY <1>0, <1>a, <1>c, <2>1, Zenon DEF WatchOK, Resolving
  <2>9. ASSUME NEW m \in Names PROVE NameOK(w, m)'
    BY <1>0, <1>a, <1>c, <2>1, Zenon DEF WatchOK, NameOK, Resolving, OnItsWay
  <2>. QED BY <2>8, <2>9, Zenon
<1>4. ASSUME sendResponse(w) PROVE OK
  <2>1. /\ pc[w] = "send" /\ pc'[w] = "serve" /\ draft'[w] = NoVersions
        /\ sent'[w] = Overlay(sent[w], draft[w]) /\ UNCHANGED <<subs, inbox>>
    BY <1>4, Zenon DEF sendResponse, Respond, registryVars, TypeOK
  <2>2. \A m \in Names : sent'[w][m] = IF draft[w][m] = 0 THEN sent[w][m] ELSE draft[w][m]
    BY <2>1, Zenon DEF Overlay
  <2>8. WatchOK(w)'
    BY <1>0, <1>a, <1>c, <2>1, <2>2, Zenon DEF WatchOK, Resolving
  <2>9. ASSUME NEW m \in Names PROVE NameOK(w, m)'
    BY <1>0, <1>a, <1>c, <2>1, <2>2, Zenon DEF WatchOK, NameOK, Resolving, OnItsWay
  <2>. QED BY <2>8, <2>9, Zenon
<1>5. ASSUME dropResponse(w) PROVE OK
  <2>1. /\ pc'[w] = "serve" /\ draft'[w] = NoVersions /\ w \in cancelled
        /\ UNCHANGED <<subs, inbox, sent>> /\ pc[w] = "send"
    BY <1>5, Zenon DEF dropResponse, Respond, registryVars, TypeOK
  <2>8. WatchOK(w)'
    BY <1>0, <1>a, <1>c, <2>1, Zenon DEF WatchOK, Resolving
  <2>9. ASSUME NEW m \in Names PROVE NameOK(w, m)'
    BY <1>0, <1>a, <1>c, <2>1, Zenon DEF WatchOK, NameOK, Resolving, OnItsWay
  <2>. QED BY <2>8, <2>9, Zenon
<1>6. ASSUME exitWatch(w) PROVE OK
  <2>1. /\ pc[w] = "serve" /\ pc'[w] = "exited" /\ inbox'[w] = NoVersions
        /\ sent'[w] = NoVersions /\ UNCHANGED draft
    BY <1>6, Zenon DEF exitWatch, TypeOK
  <2>8. WatchOK(w)'
    BY <1>0, <1>a, <1>c, <2>1, Zenon DEF WatchOK, Resolving
  <2>9. ASSUME NEW m \in Names PROVE NameOK(w, m)'
    BY <1>0, <1>a, <1>c, <2>1, SMTT(30) DEF WatchOK, NameOK, Resolving, OnItsWay
  <2>. QED BY <2>8, <2>9, Zenon
<1>7. ASSUME NEW n \in Names, takeChange(w, n) PROVE OK
  <2>1. /\ pc[w] = "serve" /\ inbox[w][n] > 0 /\ pc'[w] = "resolve" /\ goal'[w] = {n}
        /\ UNCHANGED <<subs, draft, sent>>
        /\ inbox'[w] = [inbox[w] EXCEPT ![n] = @ - 1]
    BY <1>7, Zenon DEF takeChange, TypeOK
  <2>2. \A m \in Names : inbox'[w][m] = IF m = n THEN inbox[w][n] - 1 ELSE inbox[w][m]
    BY <1>c, <2>1, Zenon DEF Versions
  <2>3. inbox[w][n] \in Nat
    BY <1>c, Zenon DEF Versions
  <2>. QED BY <1>0, <1>a, <1>c, <2>1, <2>2, <2>3, Zenon DEF WatchOK, NameOK, Resolving, OnItsWay
<1>8. OK
  BY <1>1, <1>2, <1>3, <1>4, <1>5, <1>6, <1>7, Zenon DEF WatchStep
<1>9. ASSUME NEW u \in WatchIds, u # w PROVE WatchOK(u)' /\ \A m \in Names : NameOK(u, m)'
  <2>1. Same(u) /\ WatchOK(u) /\ \A m \in Names : NameOK(u, m)
    BY <1>9, <1>b, Zenon DEF UpdateInv
  <2>. QED BY <1>0, <1>a, <2>1, SameOK
<1>. QED BY <1>0, <1>a, <1>8, <1>9, Zenon DEF UpdateInv

LEMMA UpdateStream ==
    ASSUME TypeOK, UpdateInv, handleRequest \/ forwardResponse \/ closeStream
                                \/ subscribe \/ receiveResponse \/ UNCHANGED vars
    PROVE  UpdateInv'
<1>0. UNCHANGED <<ver, present, events, subs, inbox, goal, draft, sent>> /\ cur \in Nat
  BY DEF handleRequest, forwardResponse, closeStream, subscribe, receiveResponse, vars,
         storeVars, registryVars, watchVars, TypeOK
<1>1. ASSUME NEW w \in WatchIds, Same(w), cur' >= cur, cur' \in Nat
      PROVE  WatchOK(w)' /\ \A n \in Names : NameOK(w, n)'
  <2>1. WatchOK(w) /\ \A n \in Names : NameOK(w, n)
    BY Zenon DEF UpdateInv
  <2>. QED BY <1>0, <1>1, <2>1, SameOK, Zenon
<1>2. CASE UNCHANGED <<pc, cur>>
  <2>1. cancelled \subseteq cancelled'
    BY Zenon DEF handleRequest, CreateWatch, forwardResponse, closeStream, subscribe,
           receiveResponse, vars, watchVars
  <2>2. ASSUME NEW w \in WatchIds PROVE Same(w)
    BY <1>0, <1>2, <2>1, Zenon DEF Same
  <2>. QED BY <1>0, <1>1, <1>2, <2>2 DEF UpdateInv
<1>3. CASE handleRequest /\ ~UNCHANGED <<pc, cur>>
  <2>1. /\ cur' = cur + 1 /\ cur + 1 \in WatchIds /\ pc' = [pc EXCEPT ![cur + 1] = "register"]
        /\ cancelled \subseteq cancelled'
    <3>1. CreateWatch(Head(reqs).names)
      BY <1>3, Zenon DEF handleRequest
    <3>2. cur \in 0 .. MaxWatches /\ MaxWatches \in Nat
      BY BoundsAssumption, Zenon DEF TypeOK
    <3>. QED BY <3>1, <3>2, SMTT(30) DEF CreateWatch, WatchIds
  <2>2. ASSUME NEW w \in WatchIds, w # cur + 1 PROVE Same(w)
    BY <1>0, <2>1, <2>2, Zenon DEF Same, TypeOK
  <2>3. ASSUME NEW w \in WatchIds, w = cur + 1
        PROVE  WatchOK(w)' /\ \A n \in Names : NameOK(w, n)'
    <3>1. /\ WatchOK(w) /\ (\A n \in Names : NameOK(w, n)) /\ w > cur /\ ~(w > cur')
          /\ pc'[w] = "register"
      BY <1>0, <2>1, <2>3 DEF UpdateInv, TypeOK
    <3>2. pc[w] = "new" /\ sent[w] = NoVersions /\ draft[w] = NoVersions
      BY <3>1, Zenon DEF WatchOK, Resolving
    <3>3. \A n \in Names : NoVersions[n] = 0
      BY Zenon DEF NoVersions
    <3>4. WatchOK(w)'
      BY <1>0, <3>1, <3>2, Zenon DEF WatchOK, Resolving
    <3>5. ASSUME NEW n \in Names PROVE NameOK(w, n)'
      BY <1>0, <3>1, <3>2, <3>3, Zenon DEF NameOK
    <3>. QED BY <3>4, <3>5, Zenon
  <2>. QED BY <1>0, <1>1, <2>1, <2>2, <2>3 DEF UpdateInv
<1>. QED BY <1>2, <1>3, Zenon DEF forwardResponse, closeStream, subscribe, receiveResponse, vars,
                           watchVars, serverVars

LEMMA UpdateStore ==
    ASSUME TypeOK, UpdateInv,
           resync \/ \E n \in Names : applyObject(n) \/ deleteObject(n) \/ notifyChanged(n)
    PROVE  UpdateInv'
<1>0. UNCHANGED <<subs, pc, goal, draft, sent, cancelled, cur>>
  BY Zenon DEF resync, applyObject, deleteObject, notifyChanged, Change, registryVars, watchVars,
         serverVars
<1>a. /\ ver \in Versions /\ events \in Versions
      /\ \A w \in WatchIds : inbox[w] \in Versions
      /\ \A w \in WatchIds, n \in Names : inbox[w][n] \in Nat
      /\ \A n \in Names : ver[n] \in Nat /\ events[n] \in Nat
  BY SMTT(30) DEF TypeOK, Versions
<1>b. \A w \in WatchIds : WatchOK(w)'
  BY <1>0, Zenon DEF UpdateInv, WatchOK, Resolving
<1>. DEFINE Carried(w, n) == /\ inbox'[w][n] > 0 => <<w, n>> \in subs
                            /\ \/ <<w, n>> \notin subs
                               \/ events'[n] > 0
                               \/ inbox'[w][n] > 0
                               \/ /\ ver'[n] = ver[n]
                                  /\ n \in present' => n \in present
                                  /\ ~OnItsWay(w, n)
<1>1. ASSUME \A n \in present' : ver'[n] > 0,
             \A w \in WatchIds, n \in Names : Carried(w, n)
      PROVE  UpdateInv'
  <2>1. ASSUME NEW w \in WatchIds, NEW n \in Names PROVE NameOK(w, n)'
    <3>1. NameOK(w, n) /\ Carried(w, n)
      BY <1>1, Zenon DEF UpdateInv
    <3>. QED BY <1>0, <3>1, Zenon DEF NameOK, OnItsWay, Resolving
  <2>. QED BY <1>1, <1>b, <2>1, Zenon DEF UpdateInv
<1>2. \A n \in present : ver[n] > 0
  BY Zenon DEF UpdateInv
<1>3. \A w \in WatchIds, n \in Names : inbox[w][n] > 0 => <<w, n>> \in subs
  BY Zenon DEF UpdateInv, NameOK
<1>4. CASE resync
  <2>1. /\ UNCHANGED <<ver, present, inbox>>
        /\ \A n \in Names : events'[n] = IF n \in present THEN events[n] + 1 ELSE events[n]
    BY <1>4, Zenon DEF resync, Change, registryVars
  <2>2. ASSUME NEW w \in WatchIds, NEW m \in Names PROVE Carried(w, m)
    BY <1>3, <1>a, <2>1 DEF OnItsWay
  <2>. QED BY <1>1, <1>2, <2>1, <2>2, Zenon
<1>5. ASSUME NEW n \in Names, applyObject(n) \/ deleteObject(n) PROVE UpdateInv'
  <2>1. /\ UNCHANGED inbox
        /\ present' \subseteq present \cup {n}
        /\ \A m \in Names : ver'[m] = IF m = n THEN ver[n] + 1 ELSE ver[m]
        /\ \A m \in Names : events'[m] = IF m = n THEN events[n] + 1 ELSE events[m]
    BY <1>5, <1>a, Zenon DEF applyObject, deleteObject, Change, registryVars, Versions
  <2>2. present \subseteq Names
    BY Zenon DEF TypeOK
  <2>3. ASSUME NEW w \in WatchIds, NEW m \in Names PROVE Carried(w, m)
    BY <1>3, <1>a, <2>1 DEF OnItsWay
  <2>4. \A m \in present' : ver'[m] > 0
    BY <1>2, <1>a, <2>1, <2>2
  <2>. QED BY <1>1, <2>3, <2>4, Zenon
<1>6. ASSUME NEW n \in Names, notifyChanged(n) PROVE UpdateInv'
  <2>1. UNCHANGED <<ver, present>> /\ events[n] > 0
    BY <1>6, Zenon DEF notifyChanged
  <2>2. \A m \in Names : events'[m] = IF m = n THEN events[n] - 1 ELSE events[m]
    BY <1>6, <1>a, Zenon DEF notifyChanged, Versions
  <2>3. \A w \in WatchIds, m \in Names :
           inbox'[w][m] = IF m = n /\ <<w, n>> \in subs THEN inbox[w][n] + 1 ELSE inbox[w][m]
    BY <1>6, <1>a, Zenon DEF notifyChanged, Registry!Published, Versions
  <2>4. ASSUME NEW w \in WatchIds, NEW m \in Names PROVE Carried(w, m)
    <3>1. /\ inbox[w][m] \in Nat /\ events[m] \in Nat
          /\ inbox[w][m] > 0 => <<w, m>> \in subs
          /\ ver'[m] = ver[m]
          /\ m \in present' => m \in present
      BY <1>3, <1>a, <2>1, Zenon
    <3>2. CASE m = n /\ <<w, n>> \in subs
      <4>1. inbox'[w][m] = inbox[w][m] + 1
        BY <2>3, <3>2, Zenon
      <4>. QED BY <3>1, <3>2, <4>1
    <3>3. CASE m = n /\ <<w, n>> \notin subs
      <4>1. inbox'[w][m] = inbox[w][m]
        BY <2>3, <3>3, Zenon
      <4>. QED BY <3>1, <3>3, <4>1, Zenon
    <3>4. CASE m # n
      <4>1. inbox'[w][m] = inbox[w][m] /\ events'[m] = events[m]
        BY <2>2, <2>3, <3>4, Zenon
      <4>. QED BY <3>1, <4>1, Zenon DEF OnItsWay
    <3>. QED BY <3>2, <3>3, <3>4, Zenon
  <2>. QED BY <1>1, <1>2, <2>1, <2>4, Zenon
<1>. QED BY <1>4, <1>5, <1>6, Zenon

LEMMA UpdateInit == Init => UpdateInv
<1>. SUFFICES ASSUME Init PROVE UpdateInv
  OBVIOUS
<1>1. ASSUME NEW n \in present PROVE ver[n] > 0
  <2>1. n \in Names /\ n \notin Missing
    BY Zenon DEF Init
  <2>2. ver[n] = 1
    BY <2>1, Zenon DEF Init
  <2>. QED BY <2>2
<1>2. \A n \in Names : NoVersions[n] = 0
  BY Zenon DEF NoVersions
<1>3. ASSUME NEW w \in WatchIds PROVE WatchOK(w) /\ \A n \in Names : NameOK(w, n)
  BY <1>2 DEF Init, WatchOK, NameOK, Resolving
<1>. QED BY <1>1, <1>3, Zenon DEF UpdateInv

LEMMA UpdateAlways == Spec => []UpdateInv
<1>1. TypeOK /\ UpdateInv /\ [Next]_vars => UpdateInv'
  BY UpdateWatch, UpdateStream, UpdateStore, Zenon DEF Next
<1>. QED BY UpdateInit, <1>1, TypeCorrect, PTL DEF Spec

\* No change of a resource is lost between the informer caches and the watch
\* that has sent it, for every number of names, watches and changes: because
\* configWatcher.watch registers a name before it first resolves it, whatever
\* the watch has sent is current or a notification is still on its way.
THEOREM UpdatesArrive == Spec => []NoUpdateMissed
<1>1. UpdateInv => NoUpdateMissed
  BY Zenon DEF UpdateInv, NameOK, NoUpdateMissed, OnItsWay, Resolving
<1>. QED BY <1>1, UpdateAlways, PTL

=============================================================================
