----------------------- MODULE ConfigWatcherOrderProofs -----------------------
(***************************************************************************)
(* Proof that versions never regress on a stream: from the store to the    *)
(* client, whatever is under way is no older than what is ahead of it.     *)
(***************************************************************************)
EXTENDS ConfigWatcherProofs

(* Versions only grow along the way from the store to the client: the      *)
(* draft of the open watch, its channel, the wire, what the client has.    *)

Later(new, old) == new # 0 => old <= new

\* The version of n that waits in the channel of a watch, which holds one.
Pending(w, n) == IF respCh[w] = <<>> THEN 0 ELSE respCh[w][1][n]

OnWire(i, n) == resps[i].res[n]

Wire == 1 .. Len(resps)

OrderOK(n) ==
    /\ got[n] <= ver[n]
    /\ \A w \in WatchIds : draft[w][n] <= ver[n] /\ Pending(w, n) <= ver[n]
    /\ \A i \in Wire : /\ OnWire(i, n) <= ver[n]
                       /\ Later(OnWire(i, n), got[n])
                       /\ \A j \in Wire : j < i => Later(OnWire(i, n), OnWire(j, n))
    /\ cur > 0 => /\ Later(draft[cur][n], Pending(cur, n))
                  /\ Later(draft[cur][n], got[n]) /\ Later(Pending(cur, n), got[n])
                  /\ \A i \in Wire : /\ Later(draft[cur][n], OnWire(i, n))
                                     /\ Later(Pending(cur, n), OnWire(i, n))

ChannelInv ==
    \A w \in WatchIds : Len(respCh[w]) <= 1 /\ (pc[w] = "new" => respCh[w] = <<>>)

OrderInv == ChannelInv /\ \A n \in Names : OrderOK(n)

LEMMA OrderTypes ==
    ASSUME TypeOK, NEW n \in Names
    PROVE  /\ got[n] \in Nat /\ ver[n] \in Nat /\ cur \in Nat
           /\ cur > 0 => cur \in WatchIds
           /\ \A w \in WatchIds : draft[w][n] \in Nat /\ Pending(w, n) \in Nat
           /\ \A i \in Wire : OnWire(i, n) \in Nat
<1>1. /\ got[n] \in Nat /\ ver[n] \in Nat /\ cur \in Nat
      /\ cur > 0 => cur \in WatchIds
  BY BoundsAssumption DEF TypeOK, Versions, WatchIds
<1>2. ASSUME NEW w \in WatchIds PROVE draft[w][n] \in Nat /\ Pending(w, n) \in Nat
  <2>1. draft[w] \in Versions /\ respCh[w] \in Seq(Versions)
    BY Zenon DEF TypeOK
  <2>2. respCh[w] # <<>> => respCh[w][1] \in Versions
    BY <2>1
  <2>. QED BY <2>1, <2>2, Zenon DEF Versions, Pending
<1>3. ASSUME NEW i \in Wire PROVE OnWire(i, n) \in Nat
  <2>1. resps \in Seq(Response)
    BY Zenon DEF TypeOK, Response
  <2>2. resps[i] \in Response
    BY <2>1, LenProperties, Zenon DEF Wire
  <2>. QED BY <2>2, Zenon DEF Response, Versions, OnWire
<1>. QED BY <1>1, <1>2, <1>3, Zenon

\* A step that leaves the client, the wire and the open watch alone.
LEMMA OrderKept ==
    ASSUME TypeOK, TypeOK', NEW n \in Names, OrderOK(n),
           UNCHANGED <<got, resps, cur>>, ver'[n] >= ver[n],
           \A w \in WatchIds : /\ draft'[w][n] = draft[w][n] \/ draft'[w][n] = 0
                               /\ Pending(w, n)' = Pending(w, n) \/ Pending(w, n)' = 0
    PROVE  OrderOK(n)'
<1>1. /\ got[n] \in Nat /\ ver[n] \in Nat /\ ver'[n] \in Nat /\ cur \in Nat
      /\ cur > 0 => cur \in WatchIds
      /\ \A w \in WatchIds : draft[w][n] \in Nat /\ Pending(w, n) \in Nat
      /\ \A i \in Wire : OnWire(i, n) \in Nat
  <2>1. ver'[n] \in Nat
    BY Zenon DEF TypeOK, Versions
  <2>. QED BY <2>1, OrderTypes, Zenon
<1>2. Wire' = Wire /\ \A i \in Wire : OnWire(i, n)' = OnWire(i, n)
  BY Zenon DEF Wire, OnWire
<1>3. \A w \in WatchIds : draft'[w][n] <= ver'[n] /\ Pending(w, n)' <= ver'[n]
  <2>1. ASSUME NEW x \in Nat, x <= ver[n], NEW y, y = x \/ y = 0 PROVE y <= ver'[n]
    BY <1>1, <2>1
  <2>2. \A w \in WatchIds : draft[w][n] <= ver[n] /\ Pending(w, n) <= ver[n]
    BY Zenon DEF OrderOK
  <2>. QED BY <1>1, <2>1, <2>2, Zenon
<1>4. /\ got'[n] <= ver'[n]
      /\ \A i \in Wire' : /\ OnWire(i, n)' <= ver'[n]
                          /\ Later(OnWire(i, n), got[n])'
                          /\ \A j \in Wire' : j < i => Later(OnWire(i, n), OnWire(j, n))'
  <2>1. ASSUME NEW x \in Nat, x <= ver[n] PROVE x <= ver'[n]
    BY <1>1, <2>1
  <2>2. /\ got[n] <= ver[n]
        /\ \A i \in Wire : /\ OnWire(i, n) <= ver[n]
                           /\ Later(OnWire(i, n), got[n])
                           /\ \A j \in Wire : j < i => Later(OnWire(i, n), OnWire(j, n))
    BY Zenon DEF OrderOK
  <2>. QED BY <1>1, <1>2, <2>1, <2>2, Zenon DEF Later
<1>5. ASSUME cur > 0
      PROVE  /\ Later(draft[cur][n], Pending(cur, n))'
             /\ Later(draft[cur][n], got[n])' /\ Later(Pending(cur, n), got[n])'
             /\ \A i \in Wire' : /\ Later(draft[cur][n], OnWire(i, n))'
                                 /\ Later(Pending(cur, n), OnWire(i, n))'
  <2>1. cur \in WatchIds /\ cur' = cur
    BY <1>1, <1>5, Zenon
  <2>2. /\ draft'[cur'][n] = draft[cur][n] \/ draft'[cur'][n] = 0
        /\ Pending(cur, n)' = Pending(cur, n) \/ Pending(cur, n)' = 0
    BY <2>1, Zenon DEF Pending
  <2>3. /\ Later(draft[cur][n], Pending(cur, n))
        /\ Later(draft[cur][n], got[n]) /\ Later(Pending(cur, n), got[n])
        /\ \A i \in Wire : /\ Later(draft[cur][n], OnWire(i, n))
                           /\ Later(Pending(cur, n), OnWire(i, n))
    BY <1>5, <2>1, Zenon DEF OrderOK
  <2>4. draft[cur][n] \in Nat /\ Pending(cur, n) \in Nat
    BY <1>1, <2>1, Zenon
  <2>. QED BY <1>2, <2>2, <2>3, <2>4 DEF Later
<1>. QED BY <1>3, <1>4, <1>5, Zenon DEF OrderOK

LEMMA OrderWatch ==
    ASSUME TypeOK, TypeOK', OrderInv, NEW w \in WatchIds,
           WatchStep(w) \/ exitWatch(w) \/ \E n \in Names : takeChange(w, n)
    PROVE  OrderInv'
<1>. DEFINE OK == \A n \in Names : OrderOK(n)'
<1>0. /\ UNCHANGED <<got, resps, cur, ver>> /\ respCh \in [WatchIds -> Seq(Versions)]
      /\ draft \in [WatchIds -> Versions]
      /\ \A n \in Names : NoVersions[n] = 0
      /\ \A u \in WatchIds : Len(respCh[u]) <= 1 /\ Len(respCh[u]) \in Nat
  <2>1. UNCHANGED <<got, resps, cur, ver>>
    BY Zenon DEF WatchStep, watchName, resolveName, checkDiff, sendResponse, dropResponse,
           exitWatch, takeChange, serverVars, storeVars, wires, clientVars
  <2>2. respCh \in [WatchIds -> Seq(Versions)] /\ draft \in [WatchIds -> Versions]
    BY Zenon DEF TypeOK
  <2>3. \A n \in Names : NoVersions[n] = 0
    BY Zenon DEF NoVersions
  <2>4. \A u \in WatchIds : Len(respCh[u]) <= 1 /\ Len(respCh[u]) \in Nat
    BY <2>2 DEF OrderInv, ChannelInv
  <2>. QED BY <2>1, <2>2, <2>3, <2>4, Zenon
<1>1. ASSUME NEW n \in Names,
             \A u \in WatchIds : draft'[u][n] = draft[u][n] \/ draft'[u][n] = 0,
             \A u \in WatchIds : respCh'[u] = respCh[u] \/ respCh'[u] = <<>>
      PROVE  OrderOK(n)'
  <2>1. \A u \in WatchIds : Pending(u, n)' = Pending(u, n) \/ Pending(u, n)' = 0
    BY <1>1, Zenon DEF Pending
  <2>2. OrderOK(n) /\ ver[n] \in Nat /\ ver' = ver
    BY <1>0, OrderTypes, Zenon DEF OrderInv
  <2>3. ver'[n] >= ver[n]
    BY <2>2
  <2>. QED BY <1>0, <1>1, <2>1, <2>2, <2>3, OrderKept, Zenon
<1>2. ASSUME UNCHANGED <<draft, respCh>> PROVE OK
  BY <1>1, <1>2, Zenon
<1>3. ASSUME NEW m \in Names, resolveName(w, m) PROVE OK
  <2>1. CASE m \notin present
    <3>1. draft' = [draft EXCEPT ![w] = NoVersions] /\ UNCHANGED respCh
      BY <1>3, <2>1, Zenon DEF resolveName, Respond
    <3>2. \A u \in WatchIds, n \in Names : draft'[u][n] = draft[u][n] \/ draft'[u][n] = 0
      BY <1>0, <3>1, Zenon
    <3>. QED BY <1>1, <3>1, <3>2, Zenon
  <2>2. CASE m \in present
    <3>1. draft' = [draft EXCEPT ![w][m] = ver[m]] /\ UNCHANGED respCh
      BY <1>3, <2>2, Zenon DEF resolveName
    <3>2. \A u \in WatchIds, n \in Names :
             draft'[u][n] = IF u = w /\ n = m THEN ver[m] ELSE draft[u][n]
      BY <1>0, <3>1, Zenon DEF Versions
    <3>3. ASSUME NEW n \in Names, n # m PROVE OrderOK(n)'
      BY <1>1, <3>1, <3>2, <3>3, SMTT(30)
    <3>4. OrderOK(m)'
      <4>1. Wire' = Wire /\ \A i \in Wire : OnWire(i, m)' = OnWire(i, m)
        BY <1>0, Zenon DEF Wire, OnWire
      <4>2. \A u \in WatchIds : Pending(u, m)' = Pending(u, m)
        BY <3>1, Zenon DEF Pending
      <4>3. OrderOK(m)
        BY Zenon DEF OrderInv
      <4>4. UNCHANGED <<got, ver, cur>>
        BY <1>0, Zenon
      <4>5. /\ got[m] \in Nat /\ ver[m] \in Nat /\ cur \in Nat
            /\ cur > 0 => cur \in WatchIds
            /\ \A u \in WatchIds : draft[u][m] \in Nat /\ Pending(u, m) \in Nat
            /\ \A i \in Wire : OnWire(i, m) \in Nat
        BY OrderTypes, Zenon
      <4>6. cur > 0 => Pending(cur, m)' = Pending(cur, m)
        BY <3>1, <4>4, Zenon DEF Pending
      <4>7. /\ got'[m] <= ver'[m]
            /\ \A u \in WatchIds : draft'[u][m] <= ver'[m] /\ Pending(u, m)' <= ver'[m]
        <5>1. ASSUME NEW u \in WatchIds PROVE draft'[u][m] <= ver'[m]
          BY <3>2, <4>3, <4>4, <4>5, SMTT(30) DEF OrderOK
        <5>. QED BY <4>2, <4>3, <4>4, <5>1, Zenon DEF OrderOK
      <4>8. ASSUME NEW i \in Wire'
            PROVE  /\ OnWire(i, m)' <= ver'[m] /\ Later(OnWire(i, m), got[m])'
                   /\ \A j \in Wire' : j < i => Later(OnWire(i, m), OnWire(j, m))'
        BY <4>1, <4>3, <4>4, Zenon DEF OrderOK, Later
      <4>9. ASSUME cur' > 0
            PROVE  /\ Later(draft[cur][m], Pending(cur, m))'
                   /\ Later(draft[cur][m], got[m])' /\ Later(Pending(cur, m), got[m])'
                   /\ \A i \in Wire' : /\ Later(draft[cur][m], OnWire(i, m))'
                                       /\ Later(Pending(cur, m), OnWire(i, m))'
        <5>1. cur > 0 /\ cur' = cur /\ cur \in WatchIds
          BY <4>4, <4>5, <4>9, Zenon
        <5>2. draft'[cur'][m] = draft[cur][m] \/ draft'[cur'][m] = ver[m]
          BY <3>2, <5>1, Zenon
        <5>3. /\ Later(draft[cur][m], Pending(cur, m)) /\ Pending(cur, m) <= ver[m]
              /\ Later(draft[cur][m], got[m]) /\ Later(Pending(cur, m), got[m])
              /\ got[m] <= ver[m]
              /\ \A i \in Wire : /\ Later(draft[cur][m], OnWire(i, m))
                                 /\ Later(Pending(cur, m), OnWire(i, m))
                                 /\ OnWire(i, m) <= ver[m]
          BY <4>3, <5>1, Zenon DEF OrderOK
        <5>. QED BY <4>1, <4>4, <4>6, <5>1, <5>2, <5>3, Zenon DEF Later
      <4>. QED BY <4>7, <4>8, <4>9, Zenon DEF OrderOK
    <3>. QED BY <3>3, <3>4, Zenon
  <2>. QED BY <2>1, <2>2, Zenon
<1>4. ASSUME sendResponse(w) PROVE OK /\ Len(respCh'[w]) <= 1
  <2>1. /\ Len(respCh[w]) < 1
        /\ respCh' = [respCh EXCEPT ![w] = Append(@, draft[w])]
        /\ draft' = [draft EXCEPT ![w] = NoVersions]
    BY <1>4, Zenon DEF sendResponse, Respond, Capacity
  <2>2. respCh[w] = <<>>
    BY <1>0, <2>1, EmptySeq
  <2>3. respCh'[w] # <<>> /\ respCh'[w][1] = draft[w] /\ Len(respCh'[w]) = 1
    <3>1. respCh'[w] = Append(respCh[w], draft[w]) /\ draft[w] \in Versions
          /\ respCh[w] \in Seq(Versions) /\ Len(respCh[w]) = 0
      BY <1>0, <2>1, <2>2, Zenon
    <3>. QED BY <3>1, Appended
  <2>4. ASSUME NEW n \in Names PROVE OrderOK(n)'
    <3>1. Wire' = Wire /\ \A i \in Wire : OnWire(i, n)' = OnWire(i, n)
      BY <1>0, Zenon DEF Wire, OnWire
    <3>2. /\ \A u \in WatchIds : u # w => /\ Pending(u, n)' = Pending(u, n)
                                          /\ draft'[u][n] = draft[u][n]
          /\ Pending(w, n)' = draft[w][n] /\ draft'[w][n] = 0 /\ Pending(w, n) = 0
      BY <1>0, <2>1, <2>2, <2>3, Zenon DEF Pending
    <3>3. OrderOK(n) /\ UNCHANGED <<got, ver, cur>>
      BY <1>0, Zenon DEF OrderInv
    <3>4. /\ got[n] \in Nat /\ ver[n] \in Nat /\ cur \in Nat
          /\ cur > 0 => cur \in WatchIds
          /\ \A u \in WatchIds : draft[u][n] \in Nat /\ Pending(u, n) \in Nat
          /\ \A i \in Wire : OnWire(i, n) \in Nat
      BY OrderTypes, Zenon
    <3>5. cur > 0 /\ cur # w => Pending(cur, n)' = Pending(cur, n)
      BY <2>1, <3>3, <3>4, <1>0, Zenon DEF Pending
    <3>6. cur > 0 /\ cur = w => Pending(cur, n)' = draft[w][n]
      BY <2>3, <3>3, Zenon DEF Pending
    <3>7. /\ got'[n] <= ver'[n]
          /\ \A u \in WatchIds : draft'[u][n] <= ver'[n] /\ Pending(u, n)' <= ver'[n]
      <4>1. /\ got[n] <= ver[n]
            /\ \A u \in WatchIds : draft[u][n] <= ver[n] /\ Pending(u, n) <= ver[n]
        BY <3>3, Zenon DEF OrderOK
      <4>2. ASSUME NEW u \in WatchIds, u # w
            PROVE  draft'[u][n] <= ver'[n] /\ Pending(u, n)' <= ver'[n]
        BY <3>2, <3>3, <4>1, <4>2, Zenon
      <4>3. draft'[w][n] <= ver'[n] /\ Pending(w, n)' <= ver'[n]
        <5>1. 0 <= ver[n] /\ draft[w][n] <= ver[n]
          BY <3>4, <4>1
        <5>. QED BY <3>2, <3>3, <5>1, Zenon
      <4>. QED BY <3>3, <4>1, <4>2, <4>3, Zenon
    <3>8. ASSUME NEW i \in Wire'
          PROVE  /\ OnWire(i, n)' <= ver'[n] /\ Later(OnWire(i, n), got[n])'
                 /\ \A j \in Wire' : j < i => Later(OnWire(i, n), OnWire(j, n))'
      BY <3>1, <3>3, Zenon DEF OrderOK, Later
    <3>9. ASSUME cur' > 0
          PROVE  /\ Later(draft[cur][n], Pending(cur, n))'
                 /\ Later(draft[cur][n], got[n])' /\ Later(Pending(cur, n), got[n])'
                 /\ \A i \in Wire' : /\ Later(draft[cur][n], OnWire(i, n))'
                                     /\ Later(Pending(cur, n), OnWire(i, n))'
      <4>1. cur > 0 /\ cur' = cur /\ cur \in WatchIds
        BY <3>3, <3>4, <3>9, Zenon
      <4>2. /\ Later(draft[cur][n], Pending(cur, n))
            /\ Later(draft[cur][n], got[n]) /\ Later(Pending(cur, n), got[n])
            /\ \A i \in Wire : /\ Later(draft[cur][n], OnWire(i, n))
                               /\ Later(Pending(cur, n), OnWire(i, n))
        BY <3>3, <4>1, Zenon DEF OrderOK
      <4>3. CASE cur = w
        <5>1. draft'[cur'][n] = 0 /\ Pending(cur, n)' = draft[cur][n]
          BY <3>2, <3>6, <4>1, <4>3, Zenon
        <5>. QED BY <3>1, <3>3, <4>2, <5>1, Zenon DEF Later
      <4>4. CASE cur # w
        <5>1. draft'[cur'][n] = draft[cur][n] /\ Pending(cur, n)' = Pending(cur, n)
          BY <3>2, <3>5, <4>1, <4>4, Zenon
        <5>. QED BY <3>1, <3>3, <4>2, <5>1, Zenon DEF Later
      <4>. QED BY <4>3, <4>4, Zenon
    <3>. QED BY <3>7, <3>8, <3>9, Zenon DEF OrderOK
  <2>. QED BY <2>3, <2>4
<1>5. ASSUME dropResponse(w) PROVE OK
  <2>1. draft' = [draft EXCEPT ![w] = NoVersions] /\ UNCHANGED respCh
    BY <1>5, Zenon DEF dropResponse, Respond
  <2>2. \A u \in WatchIds, n \in Names : draft'[u][n] = draft[u][n] \/ draft'[u][n] = 0
    BY <1>0, <2>1, Zenon
  <2>. QED BY <1>1, <2>1, <2>2, Zenon
<1>6. ASSUME exitWatch(w) PROVE OK
  <2>1. respCh' = [respCh EXCEPT ![w] = <<>>] /\ UNCHANGED draft
    BY <1>6, Zenon DEF exitWatch
  <2>2. \A u \in WatchIds : respCh'[u] = respCh[u] \/ respCh'[u] = <<>>
    BY <1>0, <2>1, Zenon
  <2>. QED BY <1>1, <2>1, <2>2, Zenon
<1>7. ASSUME NEW n \in Names, watchName(w, n) \/ takeChange(w, n) PROVE OK
  BY <1>2, <1>7, Zenon DEF watchName, takeChange, watchVars
<1>8. ASSUME checkDiff(w) PROVE OK
  BY <1>2, <1>8, Zenon DEF checkDiff
<1>9. OK
  BY <1>3, <1>4, <1>5, <1>6, <1>7, <1>8, Zenon DEF WatchStep
<1>10. ChannelInv'
  <2>1. ASSUME NEW u \in WatchIds, u # w PROVE pc'[u] = pc[u] /\ respCh'[u] = respCh[u]
    BY <2>1, WatchFrame, Zenon DEF Same
  <2>2. pc'[w] # "new"
    BY WatchFrame, Zenon
  <2>3. respCh'[w] = respCh[w] \/ respCh'[w] = <<>> \/ sendResponse(w)
    BY Zenon DEF WatchStep, watchName, resolveName, checkDiff, dropResponse,
         exitWatch, takeChange, watchVars, TypeOK
  <2>4. Len(<<>>) = 0
    OBVIOUS
  <2>. QED BY <1>4, <2>1, <2>2, <2>3, <2>4, SMTT(30) DEF OrderInv, ChannelInv
<1>. QED BY <1>9, <1>10, Zenon DEF OrderInv

LEMMA OrderForward ==
    ASSUME TypeOK, OrderInv, forwardResponse
    PROVE  OrderInv'
<1>0. /\ cur > 0 /\ cur \in WatchIds /\ respCh[cur] # <<>>
      /\ respCh' = [respCh EXCEPT ![cur] = Tail(@)]
      /\ UNCHANGED <<got, ver, cur, draft, pc>> /\ respCh \in [WatchIds -> Seq(Versions)]
  BY BoundsAssumption DEF forwardResponse, storeVars, clientVars, WatchIds, TypeOK
<1>. DEFINE r == [res |-> Head(respCh[cur]), nonce |-> lastNonce']
<1>1. resps \in Seq(Response) /\ r \in Response /\ resps' = Append(resps, r)
  <2>1. Head(respCh[cur]) \in Versions /\ lastNonce' \in Nat
    BY <1>0, Shortened DEF forwardResponse, TypeOK
  <2>. QED BY <2>1, Zenon DEF forwardResponse, TypeOK, Response
<1>2. r.res = respCh[cur][1]
  BY <1>0, Shortened, Zenon
<1>. HIDE DEF r
<1>3. /\ Len(resps) \in Nat /\ Len(resps') = Len(resps) + 1 /\ resps'[Len(resps) + 1] = r
      /\ \A i \in 1 .. Len(resps) : resps'[i] = resps[i]
  BY <1>1, Appended
<1>4. respCh'[cur] = <<>>
  <2>1. respCh[cur] \in Seq(Versions) /\ Len(respCh[cur]) <= 1 /\ respCh'[cur] = Tail(respCh[cur])
    BY <1>0, Zenon DEF OrderInv, ChannelInv
  <2>2. /\ Tail(respCh[cur]) \in Seq(Versions) /\ Len(Tail(respCh[cur])) = Len(respCh[cur]) - 1
        /\ Len(respCh[cur]) \in Nat \ {0}
    BY <1>0, <2>1, Shortened, Zenon
  <2>3. Len(respCh'[cur]) = 0 /\ respCh'[cur] \in Seq(Versions)
    <3>1. Len(respCh[cur]) = 1
      <4>1. \A k \in Nat \ {0} : k <= 1 => k = 1
        OBVIOUS
      <4>. QED BY <2>1, <2>2, <4>1, Zenon
    <3>2. Len(Tail(respCh[cur])) = 0
      BY <2>2, <3>1, SMTT(30)
    <3>. QED BY <2>1, <2>2, <3>2, Zenon
  <2>. QED BY <2>3, EmptySeq, Zenon
<1>5. ASSUME NEW n \in Names PROVE OrderOK(n)'
  <2>1. /\ Wire = 1 .. Len(resps) /\ Wire' = 1 .. (Len(resps) + 1)
        /\ \A i \in Wire : OnWire(i, n)' = OnWire(i, n)
        /\ resps'[Len(resps) + 1].res[n] = Pending(cur, n)
    <3>1. \A i \in 1 .. Len(resps) : OnWire(i, n)' = OnWire(i, n)
      BY <1>3, Zenon DEF OnWire
    <3>2. resps'[Len(resps) + 1].res[n] = Pending(cur, n)
      BY <1>0, <1>2, <1>3, Zenon DEF Pending
    <3>. QED BY <1>3, <3>1, <3>2, Zenon DEF Wire, OnWire
  <2>2. /\ \A u \in WatchIds : Pending(u, n)' = IF u = cur THEN 0 ELSE Pending(u, n)
        /\ Pending(cur, n)' = 0
    BY <1>0, <1>4, Zenon DEF Pending
  <2>3. OrderOK(n)
    BY Zenon DEF OrderInv
  <2>4. /\ got[n] \in Nat /\ ver[n] \in Nat /\ cur \in Nat
        /\ \A u \in WatchIds : draft[u][n] \in Nat /\ Pending(u, n) \in Nat
        /\ \A i \in Wire : OnWire(i, n) \in Nat
    BY OrderTypes, Zenon
  <2>5. /\ got'[n] <= ver'[n]
        /\ \A w \in WatchIds : draft'[w][n] <= ver'[n] /\ Pending(w, n)' <= ver'[n]
    <3>1. /\ got[n] <= ver[n]
          /\ \A w \in WatchIds : draft[w][n] <= ver[n] /\ Pending(w, n) <= ver[n]
      BY <2>3, Zenon DEF OrderOK
    <3>2. 0 <= ver[n]
      BY <2>4
    <3>3. \A w \in WatchIds : Pending(w, n)' <= ver[n]
      BY <2>2, <3>1, <3>2, Zenon
    <3>. QED BY <1>0, <3>1, <3>3, Zenon
  <2>6. ASSUME NEW i \in Wire'
        PROVE  /\ OnWire(i, n)' <= ver'[n] /\ Later(OnWire(i, n), got[n])'
               /\ \A j \in Wire' : j < i => Later(OnWire(i, n), OnWire(j, n))'
               /\ Later(draft[cur][n], OnWire(i, n))'
    <3>1. i \in Wire \/ i = Len(resps) + 1
      BY <1>3, <2>1
    <3>2. \A j \in Wire' : j < i => j \in Wire
      BY <1>3, <2>1, SMTT(30)
    <3>3. CASE i \in Wire
      <4>1. /\ OnWire(i, n) <= ver[n] /\ Later(OnWire(i, n), got[n])
            /\ \A j \in Wire : j < i => Later(OnWire(i, n), OnWire(j, n))
            /\ Later(draft[cur][n], OnWire(i, n))
        BY <1>0, <2>3, <3>3, Zenon DEF OrderOK
      <4>2. OnWire(i, n)' = OnWire(i, n) /\ \A j \in Wire : OnWire(j, n)' = OnWire(j, n)
        BY <2>1, <3>3, Zenon
      <4>. QED BY <1>0, <3>2, <4>1, <4>2, Zenon DEF Later
    <3>4. CASE i = Len(resps) + 1
      <4>1. OnWire(i, n)' = Pending(cur, n)
        BY <2>1, <3>4, Zenon DEF OnWire
      <4>. QED BY <1>0, <2>1, <2>3, <2>4, <3>2, <4>1, Zenon DEF OrderOK, Later
    <3>. QED BY <3>1, <3>3, <3>4, Zenon
  <2>7. /\ Later(draft[cur][n], Pending(cur, n))'
        /\ Later(draft[cur][n], got[n])' /\ Later(Pending(cur, n), got[n])'
        /\ \A i \in Wire' : Later(Pending(cur, n), OnWire(i, n))'
    BY <1>0, <2>2, <2>3, <2>4 DEF OrderOK, Later
  <2>. QED BY <2>5, <2>6, <2>7, Zenon DEF OrderOK
<1>6. ChannelInv'
  BY <1>0, <1>4 DEF OrderInv, ChannelInv
<1>. QED BY <1>5, <1>6, Zenon DEF OrderInv

LEMMA OrderReceive ==
    ASSUME TypeOK, OrderInv, receiveResponse
    PROVE  OrderInv' /\ \A n \in Names : got'[n] >= got[n]
<1>0. /\ resps # <<>> /\ resps' = Tail(resps) /\ got' = Overlay(got, Head(resps).res)
      /\ UNCHANGED <<ver, cur, draft, pc, respCh>>
  BY Zenon DEF receiveResponse, storeVars, serverVars, watchVars
<1>1. resps \in Seq(Response)
  BY Zenon DEF TypeOK, Response
<1>2. /\ Len(resps) \in Nat \ {0} /\ Head(resps) = resps[1]
      /\ Len(resps') = Len(resps) - 1
      /\ \A i \in 1 .. Len(resps) - 1 : resps'[i] = resps[i + 1]
  BY <1>0, <1>1, Shortened, Zenon
<1>3. ASSUME NEW n \in Names PROVE OrderOK(n)' /\ got'[n] >= got[n]
  <2>1. /\ 1 \in Wire
        /\ \A i \in Wire' : i \in Int /\ i + 1 \in Wire /\ i + 1 > 1 /\ OnWire(i, n)' = OnWire(i + 1, n)
    BY <1>2 DEF Wire, OnWire
  <2>2. got'[n] = IF OnWire(1, n) = 0 THEN got[n] ELSE OnWire(1, n)
    BY <1>0, <1>2, Zenon DEF Overlay, OnWire
  <2>3. \A u \in WatchIds : Pending(u, n)' = Pending(u, n)
    BY <1>0, Zenon DEF Pending
  <2>4. OrderOK(n) /\ Pending(cur, n)' = Pending(cur, n)
    BY <1>0, Zenon DEF OrderInv, Pending
  <2>5. /\ got[n] \in Nat /\ ver[n] \in Nat /\ cur \in Nat
        /\ cur > 0 => cur \in WatchIds
        /\ \A u \in WatchIds : draft[u][n] \in Nat /\ Pending(u, n) \in Nat
        /\ \A i \in Wire : OnWire(i, n) \in Nat
    BY OrderTypes, Zenon
  <2>6. /\ got'[n] <= ver'[n] /\ got'[n] >= got[n]
        /\ \A w \in WatchIds : draft'[w][n] <= ver'[n] /\ Pending(w, n)' <= ver'[n]
    <3>1. /\ got[n] <= ver[n] /\ OnWire(1, n) <= ver[n] /\ Later(OnWire(1, n), got[n])
          /\ \A w \in WatchIds : draft[w][n] <= ver[n] /\ Pending(w, n) <= ver[n]
      BY <2>1, <2>4, Zenon DEF OrderOK
    <3>2. got'[n] <= ver'[n] /\ got'[n] >= got[n]
      BY <1>0, <2>2, <2>5, <3>1 DEF Later
    <3>. QED BY <1>0, <2>3, <3>1, <3>2, Zenon
  <2>7. ASSUME NEW i \in Wire'
        PROVE  /\ OnWire(i, n)' <= ver'[n] /\ Later(OnWire(i, n), got[n])'
               /\ \A j \in Wire' : j < i => Later(OnWire(i, n), OnWire(j, n))'
    <3>1. i \in Int /\ i + 1 \in Wire /\ i + 1 > 1 /\ OnWire(i, n)' = OnWire(i + 1, n)
      BY <2>1, Zenon
    <3>2. /\ OnWire(i + 1, n) <= ver[n] /\ Later(OnWire(i + 1, n), got[n])
          /\ Later(OnWire(i + 1, n), OnWire(1, n))
      BY <2>1, <2>4, <3>1, Zenon DEF OrderOK
    <3>3. ASSUME NEW j \in Wire', j < i PROVE Later(OnWire(i, n), OnWire(j, n))'
      <4>1. j \in Int /\ j + 1 \in Wire /\ OnWire(j, n)' = OnWire(j + 1, n)
        BY <2>1, Zenon
      <4>2. j + 1 < i + 1
        BY <3>1, <3>3, <4>1, SMTT(30)
      <4>3. Later(OnWire(i + 1, n), OnWire(j + 1, n))
        BY <2>4, <3>1, <4>1, <4>2, Zenon DEF OrderOK
      <4>. QED BY <3>1, <4>1, <4>3, Zenon DEF Later
    <3>. QED BY <1>0, <2>2, <3>1, <3>2, <3>3, Zenon DEF Later
  <2>8. ASSUME cur' > 0
        PROVE  /\ Later(draft[cur][n], Pending(cur, n))'
               /\ Later(draft[cur][n], got[n])' /\ Later(Pending(cur, n), got[n])'
               /\ \A i \in Wire' : /\ Later(draft[cur][n], OnWire(i, n))'
                                   /\ Later(Pending(cur, n), OnWire(i, n))'
    <3>1. cur > 0 /\ draft'[cur'][n] = draft[cur][n] /\ Pending(cur, n)' = Pending(cur, n)
      BY <1>0, <2>4, <2>8, Zenon
    <3>2. /\ Later(draft[cur][n], Pending(cur, n))
          /\ Later(draft[cur][n], got[n]) /\ Later(Pending(cur, n), got[n])
          /\ \A i \in Wire : /\ Later(draft[cur][n], OnWire(i, n))
                             /\ Later(Pending(cur, n), OnWire(i, n))
      BY <2>4, <3>1, Zenon DEF OrderOK
    <3>3. ASSUME NEW i \in Wire'
          PROVE  /\ Later(draft[cur][n], OnWire(i, n))'
                 /\ Later(Pending(cur, n), OnWire(i, n))'
      BY <2>1, <3>1, <3>2, Zenon DEF Later
    <3>. QED BY <2>1, <2>2, <3>1, <3>2, <3>3, Zenon DEF Later
  <2>. QED BY <2>6, <2>7, <2>8, Zenon DEF OrderOK
<1>4. ChannelInv'
  BY <1>0, Zenon DEF OrderInv, ChannelInv
<1>. QED BY <1>3, <1>4, Zenon DEF OrderInv

LEMMA OrderStream ==
    ASSUME TypeOK, TypeOK', UpdateInv, OrderInv, handleRequest
    PROVE  OrderInv'
<1>0. UNCHANGED <<got, resps, ver, draft, respCh>>
  BY Zenon DEF handleRequest, storeVars, clientVars
<1>1. CASE UNCHANGED <<pc, cur>>
  <2>1. ASSUME NEW n \in Names PROVE OrderOK(n)'
    <3>1. OrderOK(n) /\ ver'[n] >= ver[n]
      BY <1>0, OrderTypes DEF OrderInv
    <3>2. \A w \in WatchIds : Pending(w, n)' = Pending(w, n)
      BY <1>0, Zenon DEF Pending
    <3>. QED BY <1>0, <1>1, <3>1, <3>2, OrderKept, Zenon
  <2>. QED BY <1>0, <1>1, <2>1, Zenon DEF OrderInv, ChannelInv
<1>2. CASE ~UNCHANGED <<pc, cur>>
  <2>1. cur' = cur + 1 /\ cur + 1 \in WatchIds /\ pc' = [pc EXCEPT ![cur + 1] = "register"]
        /\ cur \in Nat
    <3>1. CreateWatch(Head(reqs).names)
      BY <1>2, Zenon DEF handleRequest
    <3>2. cur \in 0 .. MaxWatches /\ MaxWatches \in Nat
      BY BoundsAssumption, Zenon DEF TypeOK
    <3>. QED BY <3>1, <3>2 DEF CreateWatch, WatchIds
  <2>2. /\ draft[cur + 1] = NoVersions /\ respCh[cur + 1] = <<>>
        /\ \A n \in Names : NoVersions[n] = 0
    <3>1. cur + 1 > cur
      BY <2>1
    <3>2. pc[cur + 1] = "new"
      BY <2>1, <3>1, Zenon DEF UpdateInv, WatchOK
    <3>. QED BY <2>1, <3>2, Zenon DEF UpdateInv, WatchOK, Resolving, OrderInv, ChannelInv, NoVersions
  <2>3. ASSUME NEW n \in Names PROVE OrderOK(n)'
    <3>1. Wire' = Wire /\ \A i \in Wire : OnWire(i, n)' = OnWire(i, n)
      BY <1>0, Zenon DEF Wire, OnWire
    <3>2. \A w \in WatchIds : Pending(w, n)' = Pending(w, n)
      BY <1>0, Zenon DEF Pending
    <3>3. Pending(cur, n)' = 0 /\ draft'[cur'][n] = 0
      BY <1>0, <2>1, <2>2, Zenon DEF Pending
    <3>4. OrderOK(n)
      BY Zenon DEF OrderInv
    <3>5. /\ got'[n] <= ver'[n]
          /\ \A w \in WatchIds : draft'[w][n] <= ver'[n] /\ Pending(w, n)' <= ver'[n]
      BY <1>0, <3>2, <3>4, Zenon DEF OrderOK
    <3>6. ASSUME NEW i \in Wire'
          PROVE  /\ OnWire(i, n)' <= ver'[n] /\ Later(OnWire(i, n), got[n])'
                 /\ \A j \in Wire' : j < i => Later(OnWire(i, n), OnWire(j, n))'
      BY <1>0, <3>1, <3>4, Zenon DEF OrderOK, Later
    <3>7. /\ Later(draft[cur][n], Pending(cur, n))'
          /\ Later(draft[cur][n], got[n])' /\ Later(Pending(cur, n), got[n])'
          /\ \A i \in Wire' : /\ Later(draft[cur][n], OnWire(i, n))'
                              /\ Later(Pending(cur, n), OnWire(i, n))'
      BY <3>3, Zenon DEF Later
    <3>. QED BY <3>5, <3>6, <3>7, Zenon DEF OrderOK
  <2>4. ChannelInv'
    BY <1>0, <2>1, Zenon DEF OrderInv, ChannelInv, TypeOK
  <2>. QED BY <2>3, <2>4, Zenon DEF OrderInv
<1>. QED BY <1>1, <1>2, Zenon

LEMMA OrderElse ==
    ASSUME TypeOK, TypeOK', OrderInv,
           \/ closeStream \/ subscribe \/ UNCHANGED vars \/ resync
           \/ \E n \in Names : applyObject(n) \/ deleteObject(n) \/ notifyChanged(n)
    PROVE  OrderInv'
<1>1. UNCHANGED <<got, resps, cur, draft, respCh, pc>>
  BY Zenon DEF closeStream, subscribe, vars, resync, applyObject, deleteObject, notifyChanged, Change,
         clientVars, wires, serverVars, watchVars
<1>2. ASSUME NEW n \in Names PROVE ver'[n] >= ver[n]
  <2>1. ver \in [Names -> Nat] /\ ver[n] \in Nat
    BY Zenon DEF TypeOK, Versions
  <2>2. UNCHANGED ver \/ \E m \in Names : ver' = [ver EXCEPT ![m] = @ + 1]
    BY Zenon DEF closeStream, subscribe, vars, resync, applyObject, deleteObject, notifyChanged,
           storeVars
  <2>. QED BY <2>1, <2>2
<1>3. ASSUME NEW n \in Names PROVE OrderOK(n)'
  <2>1. \A w \in WatchIds : Pending(w, n)' = Pending(w, n)
    BY <1>1, Zenon DEF Pending
  <2>2. OrderOK(n)
    BY Zenon DEF OrderInv
  <2>. QED BY <1>1, <1>2, <2>1, <2>2, OrderKept, Zenon
<1>. QED BY <1>1, <1>3, Zenon DEF OrderInv, ChannelInv

LEMMA OrderInit == Init => OrderInv
<1>. SUFFICES ASSUME Init PROVE OrderInv
  OBVIOUS
<1>1. TypeOK /\ \A n \in Names : NoVersions[n] = 0
  BY TypeInit, Zenon DEF NoVersions
<1>2. Len(<<>>) = 0 /\ Wire = {} /\ ~(cur > 0)
  BY DEF Init, Wire
<1>3. ASSUME NEW n \in Names PROVE OrderOK(n)
  <2>1. ver[n] \in Nat
    BY <1>1, OrderTypes, Zenon
  <2>2. got[n] = 0 /\ \A w \in WatchIds : draft[w][n] = 0 /\ Pending(w, n) = 0
    BY <1>1, Zenon DEF Init, Pending
  <2>3. /\ got[n] <= ver[n]
        /\ \A w \in WatchIds : draft[w][n] <= ver[n] /\ Pending(w, n) <= ver[n]
    BY <2>1, <2>2
  <2>. QED BY <1>2, <2>3, Zenon DEF OrderOK
<1>4. ChannelInv
  BY <1>2 DEF Init, ChannelInv
<1>. QED BY <1>3, <1>4, Zenon DEF OrderInv

\* A client never goes back to an older version of a resource, for every
\* number of names, watches and changes: configWatcher.watch reads the caches
\* anew for each response and sends in order, and the channel of a cancelled
\* watch is never read again.
THEOREM VersionsNeverRegress == Spec => NoRegression
<1>1. TypeOK /\ TypeOK' /\ UpdateInv /\ OrderInv /\ [Next]_vars => OrderInv'
  BY OrderWatch, OrderForward, OrderReceive, OrderStream, OrderElse, Zenon DEF Next
<1>2. TypeOK /\ OrderInv /\ [Next]_vars => [\A n \in Names : got'[n] >= got[n]]_vars
  <2>. SUFFICES ASSUME TypeOK, OrderInv, Next PROVE \A n \in Names : got'[n] >= got[n]
    OBVIOUS
  <2>1. UNCHANGED got \/ receiveResponse
    BY Zenon DEF Next, WatchStep, watchName, resolveName, checkDiff, sendResponse, dropResponse,
           exitWatch, takeChange, handleRequest, forwardResponse, closeStream, subscribe,
           resync, applyObject, deleteObject, notifyChanged, Change, clientVars
  <2>2. \A n \in Names : got[n] \in Nat
    BY OrderTypes, Zenon
  <2>. QED BY <2>1, <2>2, OrderReceive
<1>. QED BY OrderInit, <1>1, <1>2, TypeCorrect, UpdateAlways, PTL DEF Spec, NoRegression
=============================================================================
