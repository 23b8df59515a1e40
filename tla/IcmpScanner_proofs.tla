-------------------------- MODULE IcmpScanner_proofs --------------------------
(* Proofs about IcmpScanner, for any number of hosts, pings, packets and ticks. *)
EXTENDS IcmpScanner, SequenceTheorems, WellFoundedInduction, TLAPS

(* The caller's locals: while a ping is under way it is one of Pings and goes  *)
(* to a host.                                                                  *)
CallerInv == cpc # "idle" => cur \in Pings /\ host[cur] \in Hosts

(* The runner's locals: the packet being answered has a host, the node being   *)
(* answered or timed out is not end(), and unless ping() erased it, it is      *)
(* there.                                                                      *)
RunnerInv ==
    /\ rpc \in {"lookup", "set", "erase"} => packet \in Hosts
    /\ rpc \in {"set", "erase"} => it = packet
    /\ rpc \in {"timeout", "eraseIt"} => it \in Hosts
    /\ rpc \in {"set", "visit", "timeout", "eraseIt"} /\ valid /\ it \in Hosts
            => m_pendingRequests[it] # None

(* The map: every request has a promise of its own, made earlier. *)
MapInv ==
    /\ \A h \in Hosts : m_pendingRequests[h] # None =>
            m_pendingRequests[h].promise \in 1 .. Len(shared)
    /\ \A g, h \in Hosts : m_pendingRequests[g] # None /\ m_pendingRequests[h] # None
            /\ m_pendingRequests[g].promise = m_pendingRequests[h].promise => g = h

(* A request whose promise is satisfied is the one the runner is about to      *)
(* erase: this is why no promise is satisfied twice.                           *)
UnsatisfiedInv ==
    \A h \in Hosts :
        m_pendingRequests[h] # None /\ shared[m_pendingRequests[h].promise].state # "pending"
            => rpc \in {"erase", "eraseIt"} /\ it = h

(* The futures: each exists, none is shared, and the promise that pingAsync is *)
(* about to ask for its future has not been asked before.                      *)
FutureInv ==
    /\ \A i \in Pings : future[i] <= Len(shared)
    /\ cpc = "future" /\ m_pendingRequests[host[cur]] # None =>
            \A i \in Pings : future[i] # m_pendingRequests[host[cur]].promise
    /\ DistinctFutures

IInv == TypeOK /\ CallerInv /\ RunnerInv /\ MapInv /\ UnsatisfiedInv /\ SetOnce /\ FutureInv

USE DEF pingVars
-----------------------------------------------------------------------------
(* The operations on the map and the heap of shared states *)

(* Abandoning the request of h changes no other promise and no type. *)
LEMMA AbandonFacts ==
    ASSUME TypeOK, MapInv, NEW h \in Hosts
    PROVE  /\ Abandon(h) \in Seq(SharedState)
           /\ Len(Abandon(h)) = Len(shared)
           /\ \A p \in 1 .. Len(shared) :
                m_pendingRequests[h] = None \/ p # m_pendingRequests[h].promise
                    => Abandon(h)[p] = shared[p]
<1>1. CASE m_pendingRequests[h] = None
  BY <1>1 DEF TypeOK, Abandon
<1>2. CASE m_pendingRequests[h] # None
  <2>1. m_pendingRequests[h].promise \in 1 .. Len(shared)
    BY <1>2 DEF MapInv
  <2>2. Broken \in SharedState
    BY ClockAssumption DEF Broken, SharedState, Zero, Epoch, Time
  <2>3. shared \in Seq(SharedState)
    BY DEF TypeOK
  <2> DEFINE q == m_pendingRequests[h].promise
             v == IF shared[q].state = "pending" THEN Broken ELSE shared[q]
  <2>4. Abandon(h) = [shared EXCEPT ![q] = v]
    BY <1>2 DEF Abandon
  <2>5. v \in SharedState
    BY <2>1, <2>2, <2>3
  <2>6. q \in 1 .. Len(shared)
    BY <2>1
  <2> HIDE DEF q, v
  <2>7. /\ [shared EXCEPT ![q] = v] \in Seq(SharedState)
        /\ Len([shared EXCEPT ![q] = v]) = Len(shared)
        /\ \A j \in 1 .. Len(shared) :
             [shared EXCEPT ![q] = v][j] = IF j = q THEN v ELSE shared[j]
    BY <2>3, <2>5, <2>6, ExceptSeq
  <2> QED
    BY <1>2, <2>4, <2>7 DEF q
<1> QED
  BY <1>1, <1>2

(* Erasing the request of h leaves the other requests and their promises. *)
LEMMA EraseFacts ==
    ASSUME TypeOK, MapInv, NEW h \in Hosts, Erase(h)
    PROVE  /\ m_pendingRequests' \in [Hosts -> Request \cup {None}]
           /\ shared' \in Seq(SharedState) /\ Len(shared') = Len(shared)
           /\ m_pendingRequests'[h] = None
           /\ \A g \in Hosts : g # h =>
                /\ m_pendingRequests'[g] = m_pendingRequests[g]
                /\ m_pendingRequests[g] # None =>
                    shared'[m_pendingRequests[g].promise] = shared[m_pendingRequests[g].promise]
<1>1. m_pendingRequests' = [m_pendingRequests EXCEPT ![h] = None] /\ shared' = Abandon(h)
  BY DEF Erase
<1>2. m_pendingRequests \in [Hosts -> Request \cup {None}]
  BY DEF TypeOK
<1>3. ASSUME NEW g \in Hosts, g # h, m_pendingRequests[g] # None
      PROVE  shared'[m_pendingRequests[g].promise] = shared[m_pendingRequests[g].promise]
  BY <1>1, <1>3, AbandonFacts DEF MapInv
<1> QED
  BY <1>1, <1>2, <1>3, AbandonFacts

(* operator[] keeps everything and leaves a request at h: the one that was     *)
(* there, or a new one with a new promise.                                     *)
LEMMA FindOrInsertFacts ==
    ASSUME TypeOK, MapInv, NEW h \in Hosts, FindOrInsert(h)
    PROVE  /\ m_pendingRequests' \in [Hosts -> Request \cup {None}]
           /\ shared' \in Seq(SharedState) /\ Len(shared') >= Len(shared)
           /\ m_pendingRequests'[h] # None
           /\ \A g \in Hosts : g # h => m_pendingRequests'[g] = m_pendingRequests[g]
           /\ \A p \in 1 .. Len(shared) : shared'[p] = shared[p]
           /\ \/ m_pendingRequests'[h] = m_pendingRequests[h] /\ m_pendingRequests[h] # None
              \/ /\ m_pendingRequests[h] = None
                 /\ m_pendingRequests'[h].promise = Len(shared) + 1
                 /\ Len(shared') = Len(shared) + 1
                 /\ shared'[Len(shared) + 1].state = "pending"
<1>1. m_pendingRequests \in [Hosts -> Request \cup {None}] /\ shared \in Seq(SharedState)
  BY DEF TypeOK
<1>2. CASE m_pendingRequests[h] # None
  BY <1>1, <1>2 DEF FindOrInsert, mapVars
<1>3. CASE m_pendingRequests[h] = None
  <2> DEFINE r == [dstIp |-> Zero, promise |-> Len(shared) + 1, time |-> Epoch]
  <2>1. m_pendingRequests' = [m_pendingRequests EXCEPT ![h] = r]
        /\ shared' = Append(shared, Pending)
    BY <1>3 DEF FindOrInsert
  <2>2. r \in Request /\ r.promise = Len(shared) + 1
    BY <1>1, ClockAssumption DEF Request, Zero, Epoch, Time
  <2>3. Pending \in SharedState /\ Pending.state = "pending"
    BY ClockAssumption DEF Pending, SharedState, Zero, Epoch, Time
  <2>4. r # None
    BY <2>2, NoneAssumption
  <2> HIDE DEF r
  <2>5. /\ shared' \in Seq(SharedState) /\ Len(shared') = Len(shared) + 1
        /\ shared'[Len(shared) + 1] = Pending
        /\ \A p \in 1 .. Len(shared) : shared'[p] = shared[p]
    BY <1>1, <2>1, <2>3
  <2> QED
    BY <1>1, <1>3, <2>1, <2>2, <2>3, <2>4, <2>5
<1> QED
  BY <1>2, <1>3

(* Fulfilling the pending promise of the node at h changes no other promise    *)
(* and never throws; only a node that is gone is a fault.                      *)
LEMMA SetValueFacts ==
    ASSUME TypeOK, MapInv, fault = "none",
           NEW h \in Hosts, NEW v \in SharedState, SetValue(h, v),
           valid => /\ m_pendingRequests[h] # None
                    /\ shared[m_pendingRequests[h].promise].state = "pending"
    PROVE  /\ m_pendingRequests' = m_pendingRequests
           /\ shared' \in Seq(SharedState) /\ Len(shared') = Len(shared)
           /\ fault' \in {"none", "dangling"}
           /\ \A g \in Hosts : g # h /\ m_pendingRequests[g] # None =>
                shared'[m_pendingRequests[g].promise] = shared[m_pendingRequests[g].promise]
<1>1. shared \in Seq(SharedState)
  BY DEF TypeOK
<1>2. CASE ~valid
  BY <1>1, <1>2 DEF SetValue, mapVars
<1>3. CASE valid
  <2> DEFINE q == m_pendingRequests[h].promise
  <2>1. q \in 1 .. Len(shared)
    BY <1>3 DEF MapInv
  <2>2. /\ m_pendingRequests' = m_pendingRequests
        /\ shared' = [shared EXCEPT ![q] = v]
        /\ fault' = fault
    BY <1>3 DEF SetValue
  <2> HIDE DEF q
  <2>3. /\ shared' \in Seq(SharedState) /\ Len(shared') = Len(shared)
        /\ \A j \in 1 .. Len(shared) : shared'[j] = IF j = q THEN v ELSE shared[j]
    BY <1>1, <2>1, <2>2, ExceptSeq
  <2>4. \A g \in Hosts : g # h /\ m_pendingRequests[g] # None =>
            m_pendingRequests[g].promise \in 1 .. Len(shared) /\ m_pendingRequests[g].promise # q
    BY <1>3 DEF MapInv, q
  <2> QED
    BY <2>2, <2>3, <2>4
<1> QED
  BY <1>2, <1>3

(* A nonempty set of naturals has a least element. *)
LEMMA LeastNatural ==
    ASSUME NEW T, T \subseteq Nat, T # {}
    PROVE  \E x \in T : \A y \in T : x <= y
<1> DEFINE R == OpToRel(<, Nat)
<1>1. IsWellFoundedOn(R, Nat)
  BY NatLessThanWellFounded
<1>2. \A x, y \in Nat : y < x => <<y, x>> \in R
  BY DEF OpToRel
<1> HIDE DEF R
<1>3. PICK x \in T : \A y \in T : ~(<<y, x>> \in R)
  BY <1>1, WFMin
<1>4. ASSUME NEW y \in T PROVE x <= y
  <2>1. x \in Nat /\ y \in Nat
    OBVIOUS
  <2>2. ~(y < x)
    BY <1>2, <1>3, <2>1
  <2> QED
    BY <2>1, <2>2
<1> QED
  BY <1>4

(* The node that ++ or erase returns is end() or is in the map. *)
LEMMA NextNodeFacts ==
    ASSUME NEW k \in Nat
    PROVE  /\ NextNode(k) \in 1 .. End
           /\ NextNode(k) \in Hosts =>
                NextNode(k) > k /\ m_pendingRequests[NextNode(k)] # None
<1>1. CASE NodesAfter(k) = {}
  BY <1>1, NumHostsAssumption DEF NextNode, End, Hosts
<1>2. CASE NodesAfter(k) # {}
  <2>1. NodesAfter(k) \subseteq Hosts /\ Hosts \subseteq Nat
    BY DEF NodesAfter, Hosts
  <2>2. \E h \in NodesAfter(k) : \A g \in NodesAfter(k) : h <= g
    BY <1>2, <2>1, LeastNatural
  <2>3. NextNode(k) \in NodesAfter(k)
    BY <1>2, <2>2 DEF NextNode
  <2> QED
    BY <2>1, <2>3, NumHostsAssumption DEF NodesAfter, Hosts, End
<1> QED
  BY <1>1, <1>2
-----------------------------------------------------------------------------
(* The invariant holds initially. *)
LEMMA InitIInv == Init => IInv
<1> SUFFICES ASSUME Init PROVE IInv
  OBVIOUS
<1> USE DEF Init
<1>1. TypeOK
  <2>1. now \in Time /\ received \in 0 .. MaxPackets /\ waitUntil \in 0 .. MaxNow + Timeout
    BY ClockAssumption, MaxPacketsAssumption DEF Time, Epoch
  <2>2. ListenerTypeOK /\ Len(m_packetBuffer) <= BufferSize /\ shared \in Seq(SharedState)
    BY BufferSizeAssumption DEF ListenerInit, ListenerTypeOK
  <2>3. /\ m_pendingRequests \in [Hosts -> Request \cup {None}]
        /\ cpc \in CallerPC /\ rpc \in RunnerPC /\ fault \in Fault
        /\ sync \in BOOLEAN /\ valid \in BOOLEAN /\ gaveUp \subseteq Pings
        /\ host \in [Pings -> Hosts \cup {None}] /\ packet \in Packet
        /\ overtook \subseteq Pings
    BY PacketAssumption DEF CallerPC, RunnerPC, Fault
  <2>4. /\ cur \in 0 .. NumPings /\ it \in 1 .. End /\ time \in Time
        /\ sentTime \in [Pings -> Time] /\ future \in [Pings -> Nat]
    BY NumHostsAssumption, NumPingsAssumption, ClockAssumption DEF Time, Epoch, End
  <2> QED
    BY <2>1, <2>2, <2>3, <2>4 DEF TypeOK
<1>2. CallerInv /\ RunnerInv /\ MapInv /\ UnsatisfiedInv /\ SetOnce
  BY DEF CallerInv, RunnerInv, MapInv, UnsatisfiedInv, SetOnce
<1>3. FutureInv
  BY DEF FutureInv, DistinctFutures
<1> QED
  BY <1>1, <1>2, <1>3 DEF IInv

(* A step that leaves the map, the heap and the runner's and the caller's      *)
(* places alone preserves everything but TypeOK.                               *)
LEMMA QuietStep ==
    ASSUME IInv, fault' # "satisfied",
           UNCHANGED <<mapVars, cpc, cur, host, future, rpc, packet, it, valid>>
    PROVE  CallerInv' /\ RunnerInv' /\ MapInv' /\ UnsatisfiedInv' /\ SetOnce' /\ FutureInv'
BY DEF IInv, mapVars, CallerInv, RunnerInv, MapInv, UnsatisfiedInv, SetOnce, FutureInv, DistinctFutures

(* The network and the clock *)
LEMMA EnvironmentStep ==
    ASSUME IInv, fault = "none", Receive \/ Tick \/ DataRace
    PROVE  IInv'
<1>1. TypeOK
  BY DEF IInv
<1>2. CASE Receive
  <2>1. PICK p \in Packet : HandleReceive(p)
    BY <1>2 DEF Receive
  <2>2. m_packetBuffer' \in Seq(Packet) /\ Len(m_packetBuffer') <= BufferSize
    BY <1>1, <2>1, BufferSizeAssumption, AppendProperties DEF TypeOK, ListenerTypeOK, HandleReceive
  <2>3. TypeOK'
    BY <1>1, <1>2, <2>2, MaxPacketsAssumption
    DEF TypeOK, ListenerTypeOK, Receive, mapVars, callerVars, runnerVars
  <2> QED
    BY <1>2, <2>3, QuietStep DEF IInv, Receive, callerVars, runnerVars
<1>3. CASE Tick
  <2>1. TypeOK'
    BY <1>1, <1>3, ClockAssumption
    DEF TypeOK, ListenerTypeOK, Tick, mapVars, callerVars, runnerVars, Time
  <2> QED
    BY <1>3, <2>1, QuietStep DEF IInv, Tick, callerVars, runnerVars
<1>4. CASE DataRace
  <2>1. TypeOK'
    BY <1>1, <1>4
    DEF TypeOK, ListenerTypeOK, DataRace, netVars, mapVars, callerVars, runnerVars, Fault
  <2> QED
    BY <1>4, <2>1, QuietStep DEF IInv, DataRace, callerVars, runnerVars
<1> QED
  BY <1>2, <1>3, <1>4

(* The caller's steps that do not touch the map *)
LEMMA CallerQuietStep ==
    ASSUME IInv, fault = "none", PingSome \/ WaitReady \/ WaitTimeout
    PROVE  IInv'
<1> USE DEF IInv
<1>1. ASSUME NEW h \in Hosts, NEW s \in BOOLEAN, Ping(h, s) PROVE IInv'
  <2>1. cur + 1 \in Pings /\ cur' = cur + 1 /\ cpc' = "assign"
    BY <1>1, NumPingsAssumption DEF Ping, TypeOK, Pings
  <2>2. TypeOK'
    BY <1>1, <2>1 DEF TypeOK, ListenerTypeOK, Ping, netVars, mapVars, runnerVars, CallerPC, Pings
  <2>3. CallerInv'
    BY <1>1, <2>1 DEF CallerInv, Ping, TypeOK
  <2>4. RunnerInv' /\ MapInv' /\ UnsatisfiedInv' /\ SetOnce'
    BY <1>1 DEF Ping, mapVars, runnerVars, RunnerInv, MapInv, UnsatisfiedInv, SetOnce
  <2>5. FutureInv'
    BY <1>1, <2>1 DEF Ping, mapVars, FutureInv, DistinctFutures
  <2> QED
    BY <2>2, <2>3, <2>4, <2>5
<1>2. CASE WaitReady \/ WaitTimeout
  <2>1. cpc = "wait" /\ cpc' \in {"idle", "giveup"}
    BY <1>2 DEF WaitReady, WaitTimeout
  <2>2. UNCHANGED <<netVars, mapVars, pingVars, waitUntil, future, gaveUp, overtook, runnerVars, fault>>
    BY <1>2 DEF WaitReady, WaitTimeout
  <2>3. TypeOK'
    BY <2>1, <2>2 DEF TypeOK, ListenerTypeOK, netVars, mapVars, runnerVars, CallerPC
  <2>4. CallerInv' /\ RunnerInv' /\ MapInv' /\ UnsatisfiedInv' /\ SetOnce'
    BY <2>1, <2>2 DEF mapVars, runnerVars, CallerInv, RunnerInv, MapInv, UnsatisfiedInv, SetOnce
  <2>5. FutureInv'
    BY <2>1, <2>2 DEF mapVars, FutureInv, DistinctFutures
  <2> QED
    BY <2>3, <2>4, <2>5
<1> QED
  BY <1>1, <1>2 DEF PingSome

(* m_pendingRequests[host] = Request{...}: the new promise is in no future and *)
(* no other request.                                                           *)
LEMMA AssignStep ==
    ASSUME IInv, fault = "none", Assign
    PROVE  IInv'
<1> USE DEF IInv
<1> DEFINE h == host[cur]
           r == [dstIp |-> h, promise |-> Len(shared) + 1, time |-> sentTime[cur]]
           n == Len(shared) + 1
<1>1. h \in Hosts /\ cur \in Pings
  BY DEF Assign, CallerInv
<1>2. m_pendingRequests \in [Hosts -> Request \cup {None}] /\ shared \in Seq(SharedState)
  BY DEF TypeOK
<1>3. r \in Request /\ r # None /\ r.promise = n /\ n \in Nat
  BY <1>1, <1>2, NoneAssumption DEF TypeOK, Request
<1>4. m_pendingRequests' = [m_pendingRequests EXCEPT ![h] = r]
      /\ shared' = Append(Abandon(h), Pending)
  BY DEF Assign, NewRequest
<1>5. Pending \in SharedState /\ Pending.state = "pending"
  BY ClockAssumption DEF Pending, SharedState, Zero, Epoch, Time
<1>6. UNCHANGED <<netVars, pingVars, waitUntil, future, gaveUp, runnerVars, fault>>
      /\ cpc = "assign" /\ cpc' = "future" /\ h' = h
      /\ overtook' \subseteq overtook \cup {cur}
  BY DEF Assign
<1> HIDE DEF r, n, h
<1>7. /\ shared' \in Seq(SharedState) /\ Len(shared') = n
      /\ shared'[n] = Pending
      /\ \A p \in 1 .. Len(shared) :
            m_pendingRequests[h] = None \/ p # m_pendingRequests[h].promise
                => shared'[p] = shared[p]
  <2>1. /\ Abandon(h) \in Seq(SharedState) /\ Len(Abandon(h)) = Len(shared)
        /\ \A p \in 1 .. Len(shared) :
                m_pendingRequests[h] = None \/ p # m_pendingRequests[h].promise
                    => Abandon(h)[p] = shared[p]
    BY <1>1, AbandonFacts
  <2> QED
    BY <1>4, <1>5, <2>1, AppendProperties DEF n
<1>8. /\ m_pendingRequests' \in [Hosts -> Request \cup {None}]
      /\ m_pendingRequests'[h] = r
      /\ \A g \in Hosts : g # h => m_pendingRequests'[g] = m_pendingRequests[g]
  BY <1>1, <1>2, <1>3, <1>4
<1>9. TypeOK'
  BY <1>1, <1>6, <1>7, <1>8 DEF TypeOK, ListenerTypeOK, netVars, runnerVars, CallerPC
<1>10. CallerInv'
  BY <1>1, <1>6 DEF CallerInv, h
<1>11. RunnerInv'
  BY <1>3, <1>6, <1>8 DEF RunnerInv, runnerVars
<1>12. MapInv'
  BY <1>2, <1>3, <1>7, <1>8 DEF MapInv, n
<1>13. UnsatisfiedInv'
  <2> SUFFICES ASSUME NEW g \in Hosts, m_pendingRequests'[g] # None,
                      shared'[m_pendingRequests'[g].promise].state # "pending"
               PROVE  rpc' \in {"erase", "eraseIt"} /\ it' = g
    BY DEF UnsatisfiedInv
  <2>1. g # h
    BY <1>3, <1>5, <1>7, <1>8
  <2>2. m_pendingRequests'[g] = m_pendingRequests[g]
        /\ shared'[m_pendingRequests[g].promise] = shared[m_pendingRequests[g].promise]
    BY <1>1, <1>7, <1>8, <2>1 DEF MapInv
  <2> QED
    BY <1>6, <2>2 DEF UnsatisfiedInv, runnerVars
<1>14. SetOnce'
  BY <1>6 DEF SetOnce
<1>15. FutureInv'
  <2>1. \A i \in Pings : future[i] \in Nat /\ future[i] <= Len(shared) /\ Len(shared) \in Nat
    BY <1>2 DEF TypeOK, FutureInv
  <2>2. m_pendingRequests'[host'[cur']] = r
    BY <1>6, <1>8 DEF h
  <2> QED
    BY <1>3, <1>6, <1>7, <2>1, <2>2 DEF FutureInv, DistinctFutures, n
<1> QED
  BY <1>9, <1>10, <1>11, <1>12, <1>13, <1>14, <1>15

(* operator[] preserves what the invariant says of the map. *)
LEMMA FindOrInsertStep ==
    ASSUME IInv, NEW h \in Hosts, FindOrInsert(h), rpc' = rpc \/ rpc = "lookup",
           it' = it \/ rpc = "lookup"
    PROVE  MapInv' /\ UnsatisfiedInv'
<1> USE DEF IInv
<1>1. shared \in Seq(SharedState)
  BY DEF TypeOK
<1>2. MapInv'
  BY <1>1, FindOrInsertFacts DEF MapInv
<1>3. UnsatisfiedInv'
  <2> SUFFICES ASSUME NEW g \in Hosts, m_pendingRequests'[g] # None,
                      shared'[m_pendingRequests'[g].promise].state # "pending"
               PROVE  rpc' \in {"erase", "eraseIt"} /\ it' = g
    BY DEF UnsatisfiedInv
  <2>1. m_pendingRequests'[g] = m_pendingRequests[g]
    BY FindOrInsertFacts
  <2>2. shared'[m_pendingRequests[g].promise] = shared[m_pendingRequests[g].promise]
    BY <2>1, FindOrInsertFacts DEF MapInv
  <2> QED
    BY <2>1, <2>2 DEF UnsatisfiedInv
<1> QED
  BY <1>2, <1>3

(* return m_pendingRequests[host].promise.get_future() *)
LEMMA GetFutureStep ==
    ASSUME IInv, fault = "none", GetFuture
    PROVE  IInv'
<1> USE DEF IInv
<1> DEFINE h == host[cur]
           q == m_pendingRequests'[h].promise
<1>1. h \in Hosts /\ cur \in Pings
  BY DEF GetFuture, CallerInv
<1>2. FindOrInsert(h) /\ future' = [future EXCEPT ![cur] = q]
  BY DEF GetFuture
<1>3. UNCHANGED <<netVars, pingVars, gaveUp, overtook, runnerVars, fault>>
      /\ cpc = "future" /\ cpc' \in {"wait", "idle"}
      /\ waitUntil' = (IF sync THEN now + Timeout ELSE waitUntil)
  BY DEF GetFuture
<1> HIDE DEF h, q
<1>4. MapInv' /\ UnsatisfiedInv'
  BY <1>1, <1>2, <1>3, FindOrInsertStep DEF runnerVars
<1>5. q \in 1 .. Len(shared')
  BY <1>1, <1>2, <1>4, FindOrInsertFacts DEF MapInv, q
<1>6. /\ m_pendingRequests' \in [Hosts -> Request \cup {None}]
      /\ shared' \in Seq(SharedState) /\ Len(shared') >= Len(shared)
  BY <1>1, <1>2, FindOrInsertFacts
<1>7. waitUntil' \in 0 .. MaxNow + Timeout
  BY <1>3, ClockAssumption DEF TypeOK, Time
<1>8. future' \in [Pings -> Nat]
  BY <1>1, <1>2, <1>5 DEF TypeOK
<1>9. TypeOK'
  BY <1>3, <1>6, <1>7, <1>8 DEF TypeOK, ListenerTypeOK, netVars, runnerVars, CallerPC
<1>10. CallerInv' /\ SetOnce'
  BY <1>1, <1>3 DEF CallerInv, SetOnce, h
<1>11. RunnerInv'
  BY <1>1, <1>2, <1>3, FindOrInsertFacts DEF RunnerInv, runnerVars
<1>12. \A i \in Pings : future[i] # q
  <2>1. \A i \in Pings : future[i] \in Nat /\ future[i] <= Len(shared) /\ Len(shared) \in Nat
    BY DEF TypeOK, FutureInv
  <2>2. CASE m_pendingRequests[h] # None
    BY <1>1, <1>2, <1>3, <2>2, FindOrInsertFacts DEF FutureInv, h, q
  <2>3. CASE m_pendingRequests[h] = None
    BY <1>1, <1>2, <2>1, <2>3, FindOrInsertFacts DEF q
  <2> QED
    BY <2>2, <2>3
<1>13. FutureInv'
  <2>1. \A i \in Pings : future'[i] = IF i = cur THEN q ELSE future[i]
    BY <1>1, <1>2 DEF TypeOK
  <2>2. \A i \in Pings : future[i] \in Nat /\ future[i] <= Len(shared)
    BY DEF TypeOK, FutureInv
  <2>3. Len(shared) \in Nat /\ Len(shared') \in Nat /\ q \in Nat /\ q # 0
    BY <1>5, <1>6 DEF TypeOK
  <2>4. \A i \in Pings : future'[i] <= Len(shared')
    BY <1>5, <1>6, <2>1, <2>2, <2>3
  <2>5. DistinctFutures'
    BY <1>12, <2>1, <2>3 DEF FutureInv, DistinctFutures
  <2> QED
    BY <1>3, <2>4, <2>5 DEF FutureInv
<1> QED
  BY <1>4, <1>9, <1>10, <1>11, <1>13

(* The two accesses of ping() after its own timeout *)
LEMMA GiveUpStep ==
    ASSUME IInv, fault = "none", GiveUp
    PROVE  IInv'
<1> USE DEF IInv
<1> DEFINE h == host[cur]
<1>1. h \in Hosts /\ cur \in Pings
  BY DEF GiveUp, CallerInv
<1>2. FindOrInsert(h)
  BY DEF GiveUp
<1>3. UNCHANGED <<netVars, pingVars, waitUntil, future, gaveUp, overtook, runnerVars, fault>>
      /\ cpc' = "drop"
  BY DEF GiveUp
<1> HIDE DEF h
<1>4. MapInv' /\ UnsatisfiedInv'
  BY <1>1, <1>2, <1>3, FindOrInsertStep DEF runnerVars
<1>5. TypeOK'
  BY <1>1, <1>2, <1>3, FindOrInsertFacts
  DEF TypeOK, ListenerTypeOK, netVars, runnerVars, CallerPC
<1>6. CallerInv' /\ SetOnce'
  BY <1>1, <1>3 DEF CallerInv, SetOnce, h
<1>7. RunnerInv'
  BY <1>1, <1>2, <1>3, FindOrInsertFacts DEF RunnerInv, runnerVars
<1>8. FutureInv'
  <2>1. Len(shared') >= Len(shared) /\ Len(shared) \in Nat /\ Len(shared') \in Nat
    BY <1>1, <1>2, FindOrInsertFacts DEF TypeOK
  <2> QED
    BY <1>3, <2>1 DEF FutureInv, DistinctFutures, TypeOK
<1> QED
  BY <1>4, <1>5, <1>6, <1>7, <1>8

LEMMA DropStep ==
    ASSUME IInv, fault = "none", Drop
    PROVE  IInv'
<1> USE DEF IInv
<1> DEFINE h == host[cur]
<1>1. h \in Hosts /\ cur \in Pings
  BY DEF Drop, CallerInv
<1>2. Erase(h)
  BY DEF Drop
<1>3. UNCHANGED <<netVars, pingVars, waitUntil, future, overtook, rpc, packet, it, time>>
      /\ cpc' = "idle" /\ gaveUp' = gaveUp \cup {cur} /\ valid' = (valid /\ it # h)
      /\ fault' \in {"none", "dangling"}
  BY DEF Drop
<1> HIDE DEF h
<1>4. valid' \in BOOLEAN
  BY <1>3
<1>5. TypeOK'
  BY <1>1, <1>2, <1>3, <1>4, EraseFacts DEF TypeOK, ListenerTypeOK, netVars, CallerPC, Fault
<1>6. CallerInv' /\ SetOnce'
  BY <1>3 DEF CallerInv, SetOnce
<1>7. RunnerInv'
  BY <1>1, <1>2, <1>3, EraseFacts DEF RunnerInv
<1>8. MapInv'
  BY <1>1, <1>2, EraseFacts DEF MapInv
<1>9. UnsatisfiedInv'
  BY <1>1, <1>2, <1>3, EraseFacts DEF UnsatisfiedInv
<1>10. FutureInv'
  BY <1>1, <1>2, <1>3, EraseFacts DEF FutureInv, DistinctFutures
<1> QED
  BY <1>5, <1>6, <1>7, <1>8, <1>9, <1>10

(* run() returns *)
LEMMA ReturnFacts ==
    ASSUME Return
    PROVE  /\ rpc' = "idle" /\ packet' \in Packet /\ it' \in 1 .. End
           /\ valid' \in BOOLEAN /\ time' \in Time
BY NumHostsAssumption, ClockAssumption, PacketAssumption DEF Return, End, Time, Epoch

(* The runner's steps up to its first access that can change the map *)
LEMMA RunnerQuietStep ==
    ASSUME IInv, fault = "none", Poll \/ PopPacket \/ BeginSweep \/ Match \/ Visit
    PROVE  IInv'
<1> USE DEF IInv
<1>1. UNCHANGED <<now, received, mapVars, callerVars>>
  BY DEF Poll, PopPacket, BeginSweep, Match, Visit, netVars
<1>2. rpc \notin {"erase", "eraseIt"} /\ fault' # "satisfied"
  BY DEF Poll, PopPacket, BeginSweep, Match, Visit
<1>3. CallerInv' /\ MapInv' /\ UnsatisfiedInv' /\ SetOnce' /\ FutureInv'
  BY <1>1, <1>2 DEF CallerInv, MapInv, UnsatisfiedInv, SetOnce, FutureInv, DistinctFutures,
                    mapVars, callerVars
<1>4. /\ m_packetBuffer' \in Seq(Packet) /\ Len(m_packetBuffer') <= BufferSize
      /\ rpc' \in RunnerPC /\ packet' \in Packet /\ it' \in 1 .. End
      /\ valid' \in BOOLEAN /\ time' \in Time /\ fault' \in Fault
      /\ RunnerInv'
  <2>0. m_packetBuffer \in Seq(Packet) /\ Len(m_packetBuffer) <= BufferSize
    BY DEF TypeOK, ListenerTypeOK
  <2>1. CASE Poll
    BY <2>1 DEF Poll, TypeOK, ListenerTypeOK, netVars, RunnerPC, RunnerInv
  <2>2. CASE PopPacket
    <3>1. PICK p \in Packet : NextReceivedPacket(p) /\ packet' = p
      BY <2>2 DEF PopPacket
    <3>2. m_packetBuffer' \in Seq(Packet) /\ Len(m_packetBuffer') <= BufferSize
      BY <2>0, <3>1, BufferSizeAssumption, HeadTailProperties DEF NextReceivedPacket
    <3> QED
      BY <2>2, <3>1, <3>2 DEF PopPacket, TypeOK, RunnerPC, RunnerInv
  <2>3. CASE BeginSweep
    <3>1. it' \in 1 .. End /\ (it' \in Hosts => m_pendingRequests[it'] # None)
      BY <2>3, NextNodeFacts DEF BeginSweep
    <3>2. /\ rpc' = "visit" /\ packet' = packet /\ valid' = TRUE /\ time' = now /\ fault' = fault
          /\ m_packetBuffer' = m_packetBuffer
      BY <2>3 DEF BeginSweep, NoReceivedPacket
    <3> QED
      BY <1>1, <2>0, <3>1, <3>2 DEF TypeOK, RunnerPC, RunnerInv, mapVars
  <2>4. CASE Match
    <3>1. CASE rpc' = "lookup" /\ packet \in Hosts /\ UNCHANGED <<packet, it, valid, time>>
      BY <2>0, <2>4, <3>1 DEF Match, netVars, TypeOK, RunnerPC, RunnerInv
    <3>2. CASE Return
      BY <2>0, <2>4, <3>2, ReturnFacts DEF Match, netVars, TypeOK, RunnerPC, RunnerInv
    <3> QED
      BY <2>4, <3>1, <3>2 DEF Match
  <2>5. CASE Visit
    <3>1. m_packetBuffer' = m_packetBuffer /\ rpc = "visit"
      BY <2>5 DEF Visit, netVars
    <3>2. CASE it = End /\ Return /\ UNCHANGED fault
      BY <2>0, <3>1, <3>2, ReturnFacts DEF TypeOK, RunnerPC, RunnerInv
    <3>3. CASE fault' = "dangling" /\ UNCHANGED runnerVars
      BY <1>1, <2>0, <3>1, <3>3 DEF TypeOK, RunnerInv, runnerVars, mapVars, Fault
    <3>4. CASE /\ it # End /\ valid /\ rpc' = "timeout"
               /\ UNCHANGED <<packet, it, valid, time, fault>>
      <4>1. it \in Hosts
        BY <3>4, NumHostsAssumption DEF TypeOK, End, Hosts
      <4> QED
        BY <1>1, <2>0, <3>1, <3>4, <4>1 DEF TypeOK, RunnerPC, RunnerInv, mapVars
    <3>5. CASE /\ it # End /\ valid /\ it' = NextNode(it)
               /\ UNCHANGED <<rpc, packet, valid, time, fault>>
      <4>1. it \in Nat
        BY DEF TypeOK
      <4>2. it' \in 1 .. End /\ (it' \in Hosts => m_pendingRequests[it'] # None)
        BY <3>5, <4>1, NextNodeFacts
      <4> QED
        BY <1>1, <2>0, <3>1, <3>5, <4>2 DEF TypeOK, RunnerPC, RunnerInv, mapVars
    <3> QED
      BY <2>5, <3>2, <3>3, <3>4, <3>5 DEF Visit
  <2> QED
    BY <2>1, <2>2, <2>3, <2>4, <2>5
<1>5. TypeOK'
  BY <1>1, <1>4 DEF TypeOK, ListenerTypeOK, mapVars, callerVars
<1> QED
  BY <1>3, <1>4, <1>5

(* auto& request = m_pendingRequests[srcIp] *)
LEMMA LookupStep ==
    ASSUME IInv, fault = "none", Lookup
    PROVE  IInv'
<1> USE DEF IInv
<1>1. packet \in Hosts /\ FindOrInsert(packet) /\ rpc = "lookup" /\ rpc' = "set"
  BY DEF Lookup, RunnerInv
<1>2. /\ UNCHANGED <<netVars, callerVars, packet, fault>>
      /\ it' = packet /\ valid' = TRUE /\ time' = m_pendingRequests'[packet].time
  BY DEF Lookup
<1>3. MapInv' /\ UnsatisfiedInv'
  BY <1>1, FindOrInsertStep
<1>4. /\ m_pendingRequests' \in [Hosts -> Request \cup {None}]
      /\ shared' \in Seq(SharedState) /\ Len(shared') >= Len(shared)
      /\ m_pendingRequests'[packet] # None
  BY <1>1, FindOrInsertFacts
<1>5. time' \in Time
  BY <1>1, <1>2, <1>4 DEF Request
<1>6. it' \in 1 .. End
  BY <1>1, <1>2, NumHostsAssumption DEF Hosts, End
<1>7. TypeOK'
  BY <1>1, <1>2, <1>4, <1>5, <1>6 DEF TypeOK, ListenerTypeOK, netVars, callerVars, RunnerPC
<1>8. CallerInv' /\ SetOnce'
  BY <1>2 DEF CallerInv, SetOnce, callerVars
<1>9. RunnerInv'
  BY <1>1, <1>2, <1>4 DEF RunnerInv
<1>10. FutureInv'
  <2>1. \A i \in Pings : future[i] \in Nat /\ future[i] <= Len(shared)
    BY DEF TypeOK, FutureInv
  <2>2. Len(shared) \in Nat /\ Len(shared') \in Nat
    BY <1>4 DEF TypeOK
  <2>3. ASSUME cpc = "future", m_pendingRequests'[host[cur]] # None, NEW i \in Pings
        PROVE  future[i] # m_pendingRequests'[host[cur]].promise
    <3>1. host[cur] \in Hosts
      BY <2>3 DEF CallerInv
    <3>2. CASE m_pendingRequests'[host[cur]] = m_pendingRequests[host[cur]]
      BY <2>3, <3>2 DEF FutureInv
    <3>3. CASE m_pendingRequests'[host[cur]] # m_pendingRequests[host[cur]]
      BY <1>1, <2>1, <2>2, <3>1, <3>3, FindOrInsertFacts
    <3> QED
      BY <3>2, <3>3
  <2> QED
    BY <1>2, <1>4, <2>1, <2>2, <2>3 DEF FutureInv, DistinctFutures, callerVars
<1> QED
  BY <1>3, <1>7, <1>8, <1>9, <1>10

(* Fulfilling a promise: the node the runner is at holds a pending one. *)
LEMMA SetStep ==
    ASSUME IInv, fault = "none", SetReply \/ SetTimeout
    PROVE  IInv'
<1> USE DEF IInv
<1>1. it \in Hosts /\ rpc \in {"set", "timeout"}
      /\ rpc' = IF rpc = "set" THEN "erase" ELSE "eraseIt"
  BY DEF SetReply, SetTimeout, RunnerInv
<1>2. UNCHANGED <<netVars, callerVars, packet, it, valid, time>>
  BY DEF SetReply, SetTimeout
<1>3. valid => /\ m_pendingRequests[it] # None
               /\ shared[m_pendingRequests[it].promise].state = "pending"
  BY <1>1 DEF RunnerInv, UnsatisfiedInv
<1>4. /\ m_pendingRequests' = m_pendingRequests
      /\ shared' \in Seq(SharedState) /\ Len(shared') = Len(shared)
      /\ fault' \in {"none", "dangling"}
      /\ \A g \in Hosts : g # it /\ m_pendingRequests[g] # None =>
            shared'[m_pendingRequests[g].promise] = shared[m_pendingRequests[g].promise]
  <2>1. CASE SetReply
    <3>1. Value(packet, time) \in SharedState
      BY <2>1 DEF SetReply, RunnerInv, TypeOK, Value, SharedState
    <3> QED
      BY <1>1, <1>3, <2>1, <3>1, SetValueFacts DEF SetReply
  <2>2. CASE SetTimeout /\ valid
    <3>1. TimedOut(m_pendingRequests[it].dstIp, time) \in SharedState
      BY <1>1, <1>3, <2>2 DEF TypeOK, Request, TimedOut, SharedState
    <3> QED
      BY <1>1, <1>3, <2>2, <3>1, SetValueFacts DEF SetTimeout
  <2>3. CASE SetTimeout /\ ~valid
    BY <2>3 DEF SetTimeout, SetValue, mapVars, TypeOK
  <2> QED
    BY <2>1, <2>2, <2>3
<1>5. TypeOK'
  BY <1>1, <1>2, <1>4 DEF TypeOK, ListenerTypeOK, netVars, callerVars, RunnerPC, Fault
<1>6. CallerInv' /\ SetOnce'
  BY <1>2, <1>4 DEF CallerInv, SetOnce, callerVars
<1>7. RunnerInv'
  BY <1>1, <1>2, <1>4 DEF RunnerInv
<1>8. MapInv'
  BY <1>4 DEF MapInv
<1>9. UnsatisfiedInv'
  BY <1>1, <1>2, <1>4 DEF UnsatisfiedInv
<1>10. FutureInv'
  BY <1>2, <1>4 DEF FutureInv, DistinctFutures, callerVars
<1> QED
  BY <1>5, <1>6, <1>7, <1>8, <1>9, <1>10

(* Erasing an answered request *)
LEMMA EraseStep ==
    ASSUME IInv, fault = "none", EraseReply \/ EraseTimeout
    PROVE  IInv'
<1> USE DEF IInv
<1>1. it \in Hosts /\ rpc \in {"erase", "eraseIt"}
  BY DEF EraseReply, EraseTimeout, RunnerInv
<1>2. UNCHANGED <<netVars, callerVars>>
  BY DEF EraseReply, EraseTimeout
<1>3. CASE EraseTimeout /\ ~valid
  <2>1. UNCHANGED <<mapVars, runnerVars>> /\ fault' = "dangling"
    BY <1>3 DEF EraseTimeout, runnerVars
  <2>2. TypeOK'
    BY <1>2, <2>1 DEF TypeOK, ListenerTypeOK, netVars, mapVars, callerVars, runnerVars, Fault
  <2> QED
    BY <1>2, <2>1, <2>2, QuietStep DEF callerVars, runnerVars
<1>4. CASE EraseReply \/ valid
  <2>1. /\ Erase(it) /\ UNCHANGED fault
        /\ rpc' \in {"idle", "visit"} /\ packet' \in Packet
        /\ it' \in 1 .. End /\ valid' \in BOOLEAN /\ time' \in Time
        /\ rpc' = "visit" /\ it' \in Hosts => it' # it /\ m_pendingRequests[it'] # None
    <3>1. CASE EraseReply
      BY <3>1, ReturnFacts DEF EraseReply, RunnerInv
    <3>2. CASE EraseTimeout
      <4>1. /\ Erase(it) /\ it' = NextNode(it) /\ rpc' = "visit"
            /\ UNCHANGED <<packet, valid, time, fault>>
        BY <1>4, <3>2 DEF EraseTimeout, EraseReply
      <4>2. it \in Nat
        BY DEF TypeOK
      <4> QED
        BY <4>1, <4>2, NextNodeFacts DEF TypeOK
    <3> QED
      BY <3>1, <3>2
  <2>2. TypeOK'
    BY <1>1, <1>2, <2>1, EraseFacts DEF TypeOK, ListenerTypeOK, netVars, callerVars, RunnerPC
  <2>3. CallerInv' /\ SetOnce'
    BY <1>2, <2>1 DEF CallerInv, SetOnce, callerVars
  <2>4. RunnerInv'
    BY <1>1, <2>1, EraseFacts DEF RunnerInv
  <2>5. MapInv'
    BY <1>1, <2>1, EraseFacts DEF MapInv
  <2>6. UnsatisfiedInv'
    <3> SUFFICES ASSUME NEW g \in Hosts, m_pendingRequests'[g] # None,
                        shared'[m_pendingRequests'[g].promise].state # "pending"
                 PROVE  FALSE
      BY DEF UnsatisfiedInv
    <3>1. /\ g # it /\ m_pendingRequests'[g] = m_pendingRequests[g]
          /\ shared'[m_pendingRequests[g].promise] = shared[m_pendingRequests[g].promise]
      BY <1>1, <2>1, EraseFacts
    <3> QED
      BY <3>1 DEF UnsatisfiedInv
  <2>7. FutureInv'
    <3>1. Len(shared') = Len(shared)
          /\ \A g \in Hosts : m_pendingRequests'[g] # None =>
                                    m_pendingRequests'[g] = m_pendingRequests[g]
      BY <1>1, <2>1, EraseFacts
    <3> QED
      BY <1>2, <3>1 DEF FutureInv, DistinctFutures, CallerInv, callerVars
  <2> QED
    BY <2>2, <2>3, <2>4, <2>5, <2>6, <2>7
<1> QED
  BY <1>3, <1>4
-----------------------------------------------------------------------------
(* Every step preserves the invariant. *)
LEMMA NextIInv == IInv /\ [Next]_vars => IInv'
<1> SUFFICES ASSUME IInv, [Next]_vars PROVE IInv'
  OBVIOUS
<1>1. CASE UNCHANGED vars
  BY <1>1 DEF IInv, vars, netVars, mapVars, callerVars, runnerVars, TypeOK, ListenerTypeOK,
     CallerInv, RunnerInv, MapInv, UnsatisfiedInv, SetOnce, FutureInv, DistinctFutures
<1>2. CASE Next
  BY <1>2, EnvironmentStep, CallerQuietStep, AssignStep, GetFutureStep, GiveUpStep, DropStep,
     RunnerQuietStep, LookupStep, SetStep, EraseStep DEF Next, Caller, Runner
<1> QED
  BY <1>1, <1>2

(* The inductive invariant holds in every behaviour. *)
THEOREM Invariance == Spec => []IInv
BY InitIInv, NextIInv, PTL DEF Spec

(* Every variable keeps its type: in particular no step reads a map node or a  *)
(* shared state that does not exist.                                           *)
THEOREM TypeCorrectness == Spec => []TypeOK
<1>1. IInv => TypeOK
  BY DEF IInv
<1> QED
  BY <1>1, Invariance, PTL

(* No promise of the scanner is ever satisfied twice. *)
THEOREM PromisesAreSetOnce == Spec => []SetOnce
<1>1. IInv => SetOnce
  BY DEF IInv
<1> QED
  BY <1>1, Invariance, PTL

(* No two pings ever share a future. *)
THEOREM FuturesAreDistinct == Spec => []DistinctFutures
<1>1. IInv => DistinctFutures
  BY DEF IInv, FutureInv
<1> QED
  BY <1>1, Invariance, PTL
-----------------------------------------------------------------------------
(* The history of the pings *)

(* What each host was asked: the pings whose request was put in the map, the   *)
(* last of them, and when they were sent.                                      *)
Sent == [h \in Hosts |->
            {i \in Pings : i <= cur /\ host[i] = h /\ (i = cur => cpc # "assign")}]
Last == [h \in Hosts |-> {i \in Sent[h] : \A j \in Sent[h] : j <= i}]
SentTimes == [h \in Hosts |-> {Epoch} \cup {sentTime[i] : i \in Sent[h]}]

(* The pings whose host is pinged again. *)
Rivaled == {i \in Pings : \E j \in Pings \ {i} : host[j] = host[i]}

(* The promises of each host whose result nobody will read. *)
Lost == [h \in Hosts |->
            {p \in 1 .. Len(shared) :
                /\ shared[p].state # "pending"
                /\ shared[p].state = "broken" \/ shared[p].ip = h
                /\ \A i \in Pings : future[i] # p
                /\ \A g \in Hosts : m_pendingRequests[g] # None =>
                        m_pendingRequests[g].promise # p}]

(* The pings of each host that lost their answer, the instants at which one of *)
(* its pings had expired or had lost its answer, and the instants at which its *)
(* last ping may be timed out.                                                 *)
Robbed == [h \in Hosts |-> {j \in Sent[h] : \E p \in Lost[h] : p < future[j]}]
ExpiredTimes == [h \in Hosts |->
                    {t \in Time : \E j \in Sent[h] : t - sentTime[j] >= Timeout \/ j \in Robbed[h]}]
LateTimes == [h \in Hosts |->
                {t \in Time : \A i \in Last[h] :
                    \/ t - sentTime[i] >= Timeout
                    \/ /\ i \in overtook
                       /\ \E j \in Sent[h] : /\ j < i
                                             /\ t - sentTime[j] >= Timeout \/ j \in Robbed[h]}]

(* The pings: those sent have a host, and only those whose request was put in  *)
(* the map have a future.                                                      *)
PingInv ==
    /\ \A i \in Pings : IF i <= cur THEN host[i] \in Hosts ELSE host[i] = None
    /\ \A i \in Pings : future[i] # 0 => host[i] \in Hosts /\ i \in Sent[host[i]]
    /\ cpc \in {"assign", "future"} => future[cur] = 0

(* A request in the map is that of a ping to its host, or one that operator[]  *)
(* made up, and its future is that of the last ping to it.                     *)
RequestInv ==
    \A h \in Hosts : LET r == m_pendingRequests[h] IN r # None =>
        /\ Sent[h] # {}
        /\ r.dstIp \in {Zero, h} /\ r.time \in SentTimes[h]
        /\ r.dstIp = h => /\ \A i \in Last[h] : sentTime[i] = r.time
                          /\ \E j \in Sent[h] : sentTime[j] = r.time
        /\ \A i \in Pings : future[i] = r.promise => i \in Last[h]

(* The future of a request that was made up stands for a lost promise. *)
MadeUpInv ==
    \A h \in Hosts, i \in Pings : LET r == m_pendingRequests[h] IN
        r # None /\ r.dstIp = Zero /\ future[i] = r.promise
            => \E p \in Lost[h] : p < future[i]

(* The result of a request that is about to be erased fits it. *)
AnsweredInv ==
    \A h \in Hosts :
        LET r == m_pendingRequests[h]
            s == shared[r.promise]
        IN r # None =>
            /\ s.state # "broken"
            /\ s.state = "value" => s.ip = h /\ s.at \in SentTimes[h]
            /\ s.state = "error" => s.ip = r.dstIp /\ (s.ip = h => s.at \in LateTimes[h])

(* The runner answers and times out hosts that were pinged, at times that fit. *)
AnsweringInv ==
    /\ rpc \in {"lookup", "set", "erase"} => Sent[packet] # {}
    /\ rpc \in {"timeout", "eraseIt"} => Sent[it] # {}
    /\ rpc = "set" => time \in SentTimes[packet]
    /\ rpc = "timeout" /\ valid /\ m_pendingRequests[it].dstIp = it => time \in LateTimes[it]

(* pingAsync takes the future of its own request, or its promise is lost. *)
AskingInv ==
    cpc = "future" =>
        LET h == host[cur]
            r == m_pendingRequests[h]
        IN \/ r # None /\ r.dstIp = h
           \/ \E p \in Lost[h] : r # None => p < r.promise

(* What the runner is about to erase has a result, or belongs to a ping with a *)
(* rival, or is gone with the ping it belonged to.                             *)
ErasingInv ==
    rpc \in {"erase", "eraseIt"} /\ fault = "none" =>
        LET r == m_pendingRequests[it] IN
        \/ r # None /\ shared[r.promise].state # "pending"
        \/ Last[it] \subseteq Rivaled
        \/ r = None /\ (cpc \in {"idle", "assign", "drop"} \/ host[cur] # it)

(* Only ping() erases a node that the runner is at. *)
GoneInv == ~valid => gaveUp # {}

(* A request is made up when a ping lost its answer, by the end of a ping()    *)
(* that erases it again, or in the lookup for a reply that erases it again.    *)
MakerInv ==
    \A h \in Hosts : LET r == m_pendingRequests[h] IN
        r # None /\ r.dstIp = Zero =>
            \/ Robbed[h] # {}
            \/ cpc = "drop" /\ host[cur] = h
            \/ rpc \in {"set", "erase"} /\ it = h

(* What a sweep has found expired is the request of a ping that has expired,   *)
(* or was made up when one lost its answer.                                    *)
ExpiredInv ==
    rpc = "timeout" /\ valid =>
        time \in ExpiredTimes[it] \/ (cpc = "drop" /\ host[cur] = it)

(* What the futures' results say. *)
LateResults ==
    \A i \in Pings : HasResult(i, "error") /\ Result(i).ip # Zero =>
        /\ Result(i).ip = host[i]
        /\ \/ Result(i).at - sentTime[i] >= Timeout
           \/ /\ i \in overtook
              /\ \E j \in Sent[host[i]] :
                    /\ j < i
                    /\ Result(i).at - sentTime[j] >= Timeout \/ j \in Robbed[host[i]]
LostResults ==
    \A i \in Pings : HasResult(i, "error") /\ Result(i).ip = Zero =>
        \E p \in Lost[host[i]] : p < future[i]
ResultsInv == ReplyIsFromPingedHost /\ LateResults /\ BrokenNeedsRivalPing /\ LostResults

MapHistory == RequestInv /\ MadeUpInv /\ AnsweredInv /\ ResultsInv
HistoryInv ==
    IInv /\ PingInv /\ MapHistory /\ AnsweringInv /\ AskingInv /\ ErasingInv
        /\ MakerInv /\ ExpiredInv /\ GoneInv /\ DanglingNeedsBlockingPing
-----------------------------------------------------------------------------
(* What was sent changes by the caller's Assign only. *)
KeepsSent ==
    /\ Sent' = Sent /\ Last' = Last /\ SentTimes' = SentTimes
    /\ \A i \in Pings : i <= cur => host'[i] = host[i] /\ sentTime'[i] = sentTime[i]
    /\ \A i \in Rivaled : i <= cur => i \in Rivaled'

(* What the derived sets hold. *)
LEMMA SentFacts ==
    ASSUME TypeOK, NEW h \in Hosts
    PROVE  /\ Sent[h] \subseteq Pings
           /\ \A i \in Pings : i \in Sent[h] <=>
                    i <= cur /\ host[i] = h /\ (i = cur => cpc # "assign")
           /\ \A i : i \in Last[h] <=> i \in Sent[h] /\ \A j \in Sent[h] : j <= i
           /\ \A t : t \in SentTimes[h] <=> t = Epoch \/ \E i \in Sent[h] : t = sentTime[i]
BY DEF Sent, Last, SentTimes

LEMMA SentKept ==
    ASSUME TypeOK, PingInv,
           \/ PingSome
           \/ UNCHANGED <<cur, host, sentTime>> /\ (cpc' = "assign" <=> cpc = "assign")
    PROVE  KeepsSent
<1>1. CASE UNCHANGED <<cur, host, sentTime>> /\ (cpc' = "assign" <=> cpc = "assign")
  BY <1>1 DEF KeepsSent, Sent, Last, SentTimes, Rivaled
<1>2. CASE PingSome
  <2>1. PICK g \in Hosts, s \in BOOLEAN : Ping(g, s)
    BY <1>2 DEF PingSome
  <2>2. /\ cpc = "idle" /\ cpc' = "assign" /\ cur' = cur + 1 /\ cur \in Nat
        /\ host' = [host EXCEPT ![cur + 1] = g] /\ sentTime' = [sentTime EXCEPT ![cur + 1] = now]
    BY <2>1 DEF Ping, TypeOK
  <2>3. Pings \subseteq Nat /\ \A i \in Pings : i <= cur => i # cur + 1
    BY <2>2 DEF Pings
  <2>4. \A i \in Pings : i <= cur => host'[i] = host[i] /\ sentTime'[i] = sentTime[i]
    BY <2>2, <2>3 DEF TypeOK
  <2>5. Sent' = Sent
    <3>1. ASSUME NEW h \in Hosts, NEW i \in Pings
          PROVE  i <= cur' /\ host'[i] = h /\ (i = cur' => cpc' # "assign")
                    <=> i <= cur /\ host[i] = h /\ (i = cur => cpc # "assign")
      BY <2>2, <2>3, <2>4
    <3> QED
      BY <3>1 DEF Sent
  <2>6. Last' = Last
    BY <2>5 DEF Last
  <2>7. \A h \in Hosts : \A i \in Sent[h] : i \in Pings /\ i <= cur
    BY DEF Sent
  <2>8. SentTimes' = SentTimes
    BY <2>4, <2>5, <2>7 DEF SentTimes
  <2>9. ASSUME NEW i \in Rivaled, i <= cur PROVE i \in Rivaled'
    <3>1. PICK j \in Pings \ {i} : host[j] = host[i]
      BY <2>9 DEF Rivaled
    <3>2. i \in Pings /\ host[i] \in Hosts /\ host[i] # None
      BY <2>9, NoneAssumption DEF Rivaled, PingInv, Hosts
    <3>3. j <= cur
      BY <3>1, <3>2 DEF PingInv
    <3> QED
      BY <2>4, <2>9, <3>1, <3>2, <3>3 DEF Rivaled
  <2> QED
    BY <2>4, <2>5, <2>6, <2>8, <2>9 DEF KeepsSent
<1> QED
  BY <1>1, <1>2
-----------------------------------------------------------------------------
(* What a step other than Assign does to the map, the promises and the futures *)

(* A node stays, is erased with its promise settled, or is made up. *)
NodesMove ==
    \A g \in Hosts : LET r == m_pendingRequests[g] IN
        \/ m_pendingRequests'[g] = r
        \/ m_pendingRequests'[g] = None /\ shared'[r.promise].state # "pending"
        \/ /\ r = None /\ m_pendingRequests'[g].dstIp = Zero
           /\ m_pendingRequests'[g].time = Epoch
           /\ m_pendingRequests'[g].promise = Len(shared) + 1
           /\ shared'[Len(shared) + 1].state = "pending"
           /\ Sent[g] # {}

(* A promise changes only while it is pending and in the map: it is answered,  *)
(* or broken by the erasure of its request.                                    *)
Answers(p, g) ==
    /\ m_pendingRequests'[g] = m_pendingRequests[g]
    /\ \/ /\ shared'[p].state = "value" /\ shared'[p].ip = g
          /\ shared'[p].at \in SentTimes[g]
       \/ /\ shared'[p].state = "error" /\ shared'[p].ip = m_pendingRequests[g].dstIp
          /\ shared'[p].ip = g => shared'[p].at \in LateTimes[g]

Breaks(p, g) ==
    /\ m_pendingRequests'[g] = None /\ shared'[p].state = "broken"
    /\ \A i \in Pings : future[i] = p => i \in gaveUp' \/ i \in Rivaled

PromisesMove ==
    /\ Len(shared) <= Len(shared') /\ gaveUp \subseteq gaveUp' /\ overtook' = overtook
    /\ \A p \in 1 .. Len(shared) :
        \/ shared'[p] = shared[p]
        \/ \E g \in Hosts :
            /\ m_pendingRequests[g] # None /\ p = m_pendingRequests[g].promise
            /\ shared[p].state = "pending"
            /\ Answers(p, g) \/ Breaks(p, g)

(* A future is taken from a request of the last ping to its host. *)
FuturesMove ==
    \A i \in Pings :
        \/ future'[i] = future[i]
        \/ \E g \in Hosts :
            /\ future[i] = 0 /\ m_pendingRequests'[g] # None /\ future'[i] = m_pendingRequests'[g].promise
            /\ i \in Last[g]
            /\ m_pendingRequests'[g].dstIp = Zero => \E p \in Lost[g] : p < future'[i]

MapMoves == NodesMove /\ PromisesMove /\ FuturesMove

LEMMA IndexFacts ==
    ASSUME IInv
    PROVE  /\ Len(shared) \in Nat
           /\ \A i \in Pings : future[i] \in Nat /\ future[i] <= Len(shared)
           /\ \A g \in Hosts : m_pendingRequests[g] # None =>
                /\ m_pendingRequests[g].promise \in 1 .. Len(shared)
                /\ m_pendingRequests[g].promise \in Nat
           /\ \A g, h \in Hosts : m_pendingRequests[g] # None /\ m_pendingRequests[h] # None
                /\ m_pendingRequests[g].promise = m_pendingRequests[h].promise => g = h
BY DEF IInv, TypeOK, FutureInv, MapInv

(* What is lost stays lost. *)
LEMMA LostKept ==
    ASSUME IInv, IInv', MapMoves, NEW h \in Hosts
    PROVE  Lost[h] \subseteq Lost'[h]
<1> SUFFICES ASSUME NEW p \in Lost[h] PROVE p \in Lost'[h]
  OBVIOUS
<1>1. /\ p \in 1 .. Len(shared) /\ shared[p].state # "pending"
      /\ shared[p].state = "broken" \/ shared[p].ip = h
      /\ \A i \in Pings : future[i] # p
      /\ \A g \in Hosts : m_pendingRequests[g] # None => m_pendingRequests[g].promise # p
  BY DEF Lost
<1>2. Len(shared) \in Nat /\ Len(shared') \in Nat /\ Len(shared) <= Len(shared')
  BY IndexFacts DEF MapMoves, PromisesMove, IInv, TypeOK
<1>3. p \in 1 .. Len(shared') /\ p # Len(shared) + 1
  BY <1>1, <1>2
<1>4. shared'[p] = shared[p]
  BY <1>1 DEF MapMoves, PromisesMove
<1>5. \A g \in Hosts : m_pendingRequests'[g] # None => m_pendingRequests'[g].promise # p
  BY <1>1, <1>3 DEF MapMoves, NodesMove
<1>6. \A i \in Pings : future'[i] # p
  BY <1>1, <1>5 DEF MapMoves, FuturesMove
<1> QED
  BY <1>1, <1>3, <1>4, <1>5, <1>6 DEF Lost

(* So are the pings that lost it, and what is late stays late. *)
LEMMA LateKept ==
    ASSUME IInv, IInv', KeepsSent, MapMoves, NEW h \in Hosts
    PROVE  /\ Robbed[h] \subseteq Robbed'[h]
           /\ ExpiredTimes[h] \subseteq ExpiredTimes'[h]
           /\ LateTimes[h] \subseteq LateTimes'[h]
<1>1. /\ Sent' = Sent /\ Last' = Last /\ overtook' = overtook
      /\ \A i \in Sent[h] : i \in Pings /\ sentTime'[i] = sentTime[i]
      /\ \A i \in Last[h] : i \in Sent[h]
  BY SentFacts DEF KeepsSent, MapMoves, PromisesMove, IInv
<1>2. Robbed[h] \subseteq Robbed'[h]
  <2> SUFFICES ASSUME NEW j \in Sent[h], NEW p \in Lost[h], p < future[j]
               PROVE  p \in Lost'[h] /\ future'[j] = future[j]
    BY <1>1 DEF Robbed
  <2>1. p \in Lost'[h]
    BY LostKept
  <2>2. p \in 1 .. Len(shared) /\ Len(shared) \in Nat /\ future[j] \in Nat
    BY <1>1, IndexFacts DEF Lost
  <2>3. future[j] # 0
    BY <2>2
  <2> QED
    BY <1>1, <2>1, <2>3 DEF MapMoves, FuturesMove
<1>3. ExpiredTimes[h] \subseteq ExpiredTimes'[h]
  BY <1>1, <1>2 DEF ExpiredTimes
<1>4. LateTimes[h] \subseteq LateTimes'[h]
  BY <1>1, <1>2 DEF LateTimes
<1> QED
  BY <1>2, <1>3, <1>4

(* How requests are made up, how those who made one leave, and how a sweep     *)
(* comes to time one out.                                                      *)
OverdueMoves ==
    /\ \A g \in Hosts : m_pendingRequests[g] = None /\ m_pendingRequests'[g] # None =>
            \/ Robbed'[g] # {}
            \/ cpc' = "drop" /\ host'[cur'] = g
            \/ rpc' = "set" /\ it' = g
    /\ cpc = "drop" => \/ UNCHANGED <<cpc, cur, host>>
                       \/ m_pendingRequests'[host[cur]] = None /\ (valid' => it' # host[cur])
    /\ rpc \in {"set", "erase"} => \/ rpc' \in {"set", "erase"} /\ it' = it
                                   \/ m_pendingRequests'[it] = None
    /\ rpc' = "timeout" /\ valid' =>
            \/ rpc = "timeout" /\ valid /\ UNCHANGED <<it, time>>
            \/ time' \in ExpiredTimes[it']
            \/ cpc' = "drop" /\ host'[cur'] = it'

LEMMA OverdueKept ==
    ASSUME IInv, IInv', MakerInv, ExpiredInv, KeepsSent, MapMoves, OverdueMoves
    PROVE  MakerInv' /\ ExpiredInv'
<1>1. \A g \in Hosts : /\ Robbed[g] \subseteq Robbed'[g]
                       /\ ExpiredTimes[g] \subseteq ExpiredTimes'[g]
  BY LateKept
<1>2. MakerInv'
  <2> SUFFICES ASSUME NEW g \in Hosts, m_pendingRequests'[g] # None,
                      m_pendingRequests'[g].dstIp = Zero
               PROVE  \/ Robbed'[g] # {}
                      \/ cpc' = "drop" /\ host'[cur'] = g
                      \/ rpc' \in {"set", "erase"} /\ it' = g
    BY DEF MakerInv
  <2>1. CASE m_pendingRequests[g] = None
    BY <2>1 DEF OverdueMoves
  <2>2. CASE m_pendingRequests[g] # None
    <3>1. m_pendingRequests'[g] = m_pendingRequests[g]
      BY <2>2 DEF MapMoves, NodesMove
    <3>2. CASE Robbed[g] # {}
      BY <1>1, <3>2
    <3>3. CASE cpc = "drop" /\ host[cur] = g
      BY <3>3 DEF OverdueMoves
    <3>4. CASE rpc \in {"set", "erase"} /\ it = g
      BY <3>4 DEF OverdueMoves
    <3> QED
      BY <2>2, <3>1, <3>2, <3>3, <3>4 DEF MakerInv
  <2> QED
    BY <2>1, <2>2
<1>3. ExpiredInv'
  <2> SUFFICES ASSUME rpc' = "timeout", valid'
               PROVE  time' \in ExpiredTimes'[it'] \/ (cpc' = "drop" /\ host'[cur'] = it')
    BY DEF ExpiredInv
  <2>1. it' \in Hosts
    BY DEF IInv, RunnerInv
  <2>2. CASE rpc = "timeout" /\ valid /\ UNCHANGED <<it, time>>
    <3>1. CASE time \in ExpiredTimes[it]
      BY <1>1, <2>1, <2>2, <3>1
    <3>2. CASE cpc = "drop" /\ host[cur] = it
      BY <2>2, <3>2 DEF OverdueMoves
    <3> QED
      BY <2>2, <3>1, <3>2 DEF ExpiredInv
  <2>3. CASE time' \in ExpiredTimes[it']
    BY <1>1, <2>1, <2>3
  <2> QED
    BY <2>2, <2>3 DEF OverdueMoves
<1> QED
  BY <1>2, <1>3

LEMMA RequestKept ==
    ASSUME IInv, IInv', RequestInv, KeepsSent, MapMoves
    PROVE  RequestInv'
<1> SUFFICES ASSUME NEW h \in Hosts, m_pendingRequests'[h] # None
             PROVE  LET r == m_pendingRequests'[h] IN
                    /\ Sent[h] # {}
                    /\ r.dstIp \in {Zero, h} /\ r.time \in SentTimes[h]
                    /\ r.dstIp = h => /\ \A i \in Last[h] : sentTime'[i] = r.time
                                      /\ \E j \in Sent[h] : sentTime'[j] = r.time
                    /\ \A i \in Pings : future'[i] = r.promise => i \in Last[h]
  BY DEF RequestInv, KeepsSent
<1>1. /\ TypeOK /\ \A i \in Last[h] : i \in Pings /\ i <= cur /\ sentTime'[i] = sentTime[i]
      /\ \A i \in Sent[h] : i \in Pings /\ sentTime'[i] = sentTime[i]
      /\ Epoch \in SentTimes[h] /\ Zero # h
  BY SentFacts DEF IInv, KeepsSent, Zero, Hosts
<1>2. ASSUME NEW i \in Pings, future'[i] = m_pendingRequests'[h].promise, future'[i] # future[i]
      PROVE  i \in Last[h]
  <2>1. PICK g \in Hosts : /\ m_pendingRequests'[g] # None
                           /\ future'[i] = m_pendingRequests'[g].promise /\ i \in Last[g]
    BY <1>2 DEF MapMoves, FuturesMove
  <2>2. g = h
    BY <1>2, <2>1 DEF IInv, MapInv
  <2> QED
    BY <2>1, <2>2
<1>3. CASE m_pendingRequests'[h] = m_pendingRequests[h]
  BY <1>1, <1>2, <1>3 DEF RequestInv
<1>4. CASE m_pendingRequests'[h] # m_pendingRequests[h]
  <2>1. /\ m_pendingRequests'[h].dstIp = Zero /\ m_pendingRequests'[h].time = Epoch
        /\ m_pendingRequests'[h].promise = Len(shared) + 1 /\ Sent[h] # {}
    BY <1>4 DEF MapMoves, NodesMove
  <2>2. \A i \in Pings : future[i] # Len(shared) + 1
    BY IndexFacts
  <2> QED
    BY <1>1, <1>2, <2>1, <2>2
<1> QED
  BY <1>3, <1>4

LEMMA MadeUpKept ==
    ASSUME IInv, IInv', MadeUpInv, MapMoves
    PROVE  MadeUpInv'
<1> SUFFICES ASSUME NEW h \in Hosts, NEW i \in Pings, m_pendingRequests'[h] # None,
                    m_pendingRequests'[h].dstIp = Zero,
                    future'[i] = m_pendingRequests'[h].promise
             PROVE  \E p \in Lost'[h] : p < future'[i]
  BY DEF MadeUpInv
<1>1. Lost[h] \subseteq Lost'[h]
  BY LostKept
<1>2. CASE future'[i] = future[i]
  <2>1. future[i] # Len(shared) + 1
    BY IndexFacts
  <2>2. m_pendingRequests'[h] = m_pendingRequests[h]
    BY <1>2, <2>1 DEF MapMoves, NodesMove
  <2> QED
    BY <1>1, <1>2, <2>2 DEF MadeUpInv
<1>3. CASE future'[i] # future[i]
  <2>1. PICK g \in Hosts : /\ m_pendingRequests'[g] # None
                           /\ future'[i] = m_pendingRequests'[g].promise
                           /\ m_pendingRequests'[g].dstIp = Zero =>
                                \E p \in Lost[g] : p < future'[i]
    BY <1>3 DEF MapMoves, FuturesMove
  <2>2. g = h
    BY <2>1 DEF IInv, MapInv
  <2> QED
    BY <1>1, <2>1, <2>2
<1> QED
  BY <1>2, <1>3

LEMMA AnsweredKept ==
    ASSUME IInv, IInv', AnsweredInv, KeepsSent, MapMoves
    PROVE  AnsweredInv'
<1> SUFFICES ASSUME NEW h \in Hosts, m_pendingRequests'[h] # None
             PROVE  LET r == m_pendingRequests'[h]
                        s == shared'[r.promise]
                    IN /\ s.state # "broken"
                       /\ s.state = "value" => s.ip = h /\ s.at \in SentTimes[h]
                       /\ s.state = "error" =>
                            s.ip = r.dstIp /\ (s.ip = h => s.at \in LateTimes'[h])
  BY DEF AnsweredInv, KeepsSent
<1>0. LateTimes[h] \subseteq LateTimes'[h]
  BY LateKept
<1>1. CASE m_pendingRequests'[h] = m_pendingRequests[h]
  <2> DEFINE p == m_pendingRequests[h].promise
  <2>1. p \in 1 .. Len(shared) /\ m_pendingRequests[h] # None
    BY <1>1, IndexFacts
  <2>2. CASE shared'[p] = shared[p]
    BY <1>0, <1>1, <2>2 DEF AnsweredInv
  <2>3. CASE shared'[p] # shared[p]
    <3>1. PICK g \in Hosts : /\ m_pendingRequests[g] # None /\ p = m_pendingRequests[g].promise
                             /\ Answers(p, g) \/ Breaks(p, g)
      BY <2>1, <2>3 DEF MapMoves, PromisesMove
    <3>2. g = h
      BY <2>1, <3>1, IndexFacts
    <3>3. Answers(p, h)
      BY <1>1, <3>1, <3>2 DEF Breaks
    <3> QED
      BY <1>0, <1>1, <3>2, <3>3 DEF Answers
  <2> QED
    BY <2>2, <2>3
<1>2. CASE m_pendingRequests'[h] # m_pendingRequests[h]
  BY <1>2 DEF MapMoves, NodesMove
<1> QED
  BY <1>1, <1>2

(* The promise of a future has the result it had, or one that fits its ping.   *)
LEMMA ResultsKept ==
    ASSUME IInv, IInv', PingInv, MapHistory, AnsweredInv', KeepsSent, MapMoves
    PROVE  ResultsInv'
<1> USE DEF MapHistory
<1> SUFFICES ASSUME NEW i \in Pings, future'[i] # 0
             PROVE  LET s == shared'[future'[i]] IN
                    /\ s.state = "value" =>
                        /\ s.ip = host'[i]
                        /\ \/ s.at = Epoch
                           \/ \E j \in 1 .. i : host'[j] = host'[i] /\ s.at = sentTime'[j]
                    /\ s.state = "error" /\ s.ip # Zero =>
                        /\ s.ip = host'[i]
                        /\ \/ s.at - sentTime'[i] >= Timeout
                           \/ /\ i \in overtook'
                              /\ \E j \in Sent'[host'[i]] :
                                    /\ j < i
                                    /\ \/ s.at - sentTime'[j] >= Timeout
                                       \/ j \in Robbed'[host'[i]]
                    /\ s.state = "broken" => i \in gaveUp' \/ i \in Rivaled'
                    /\ s.state = "error" /\ s.ip = Zero => \E p \in Lost'[host'[i]] : p < future'[i]
  BY DEF ResultsInv, ReplyIsFromPingedHost, LateResults, BrokenNeedsRivalPing,
         LostResults, HasResult, Result, Rivaled
<1> DEFINE s == shared'[future'[i]]
<1>0. TypeOK /\ TypeOK' /\ Pings \subseteq Nat
      /\ \A j \in 1 .. i : j \in Pings /\ (i <= cur => j <= cur)
      /\ \A l \in 1 .. i - 1 : l \in 1 .. i
  <2>1. TypeOK /\ TypeOK'
    BY DEF IInv
  <2>2. cur \in Nat /\ i \in 1 .. NumPings
    BY <2>1 DEF TypeOK, Pings
  <2> QED
    BY <2>1, <2>2, NumPingsAssumption DEF Pings
<1>1. ASSUME NEW g \in Hosts, i \in Last[g]
      PROVE  /\ host[i] = g /\ i <= cur /\ host'[i] = g /\ sentTime'[i] = sentTime[i]
             /\ \A j \in Sent[g] : j \in 1 .. i /\ host'[j] = g /\ sentTime'[j] = sentTime[j]
             /\ \A j \in 1 .. i - 1 : host'[j] = host[j]
             /\ i \in Rivaled => i \in Rivaled'
  <2>1. /\ i \in Sent[g] /\ \A j \in Sent[g] : j <= i /\ j \in Pings /\ j <= cur /\ host[j] = g
    BY <1>0, <1>1, SentFacts
  <2>2. \A j \in 1 .. i - 1 : j \in Pings /\ j <= cur
    BY <1>0, <2>1
  <2>3. \A j \in Sent[g] : j \in 1 .. i
    BY <1>0, <2>1 DEF Pings
  <2> QED
    BY <2>1, <2>2, <2>3 DEF KeepsSent
<1>2. ASSUME NEW g \in Hosts, i \in Last[g], s.state = "value", s.ip = g, s.at \in SentTimes[g]
      PROVE  /\ s.ip = host'[i]
             /\ s.at = Epoch \/ \E j \in 1 .. i : host'[j] = host'[i] /\ s.at = sentTime'[j]
  <2>1. s.at = Epoch \/ \E j \in Sent[g] : s.at = sentTime[j]
    BY <1>0, <1>2, SentFacts
  <2> HIDE DEF s
  <2> QED
    BY <1>1, <1>2, <2>1
<1>3. ASSUME NEW g \in Hosts, i \in Last[g], s.state = "error", s.ip = g, s.at \in LateTimes'[g]
      PROVE  /\ s.ip = host'[i]
             /\ \/ s.at - sentTime'[i] >= Timeout
                \/ /\ i \in overtook'
                   /\ \E j \in Sent'[host'[i]] :
                         /\ j < i
                         /\ s.at - sentTime'[j] >= Timeout \/ j \in Robbed'[host'[i]]
  <2>1. host'[i] = g /\ i \in Last'[g]
    BY <1>1, <1>3 DEF KeepsSent
  <2> HIDE DEF s
  <2> QED
    BY <1>3, <2>1 DEF LateTimes
<1>4. \A g \in Hosts : /\ Lost[g] \subseteq Lost'[g] /\ Robbed[g] \subseteq Robbed'[g]
                       /\ LateTimes[g] \subseteq LateTimes'[g]
  BY LostKept, LateKept
<1>5. CASE future'[i] = future[i] /\ s = shared[future[i]]
  <2>1. host[i] \in Hosts /\ i \in Sent[host[i]] /\ i <= cur
    BY <1>5, SentFacts DEF PingInv, Sent
  <2>2. /\ host'[i] = host[i] /\ sentTime'[i] = sentTime[i]
        /\ i \in Rivaled => i \in Rivaled'
        /\ \A j \in 1 .. i : host'[j] = host[j] /\ sentTime'[j] = sentTime[j]
    <3>1. \A j \in 1 .. i : j \in Pings /\ j <= cur
      BY <1>0, <2>1
    <3> QED
      BY <2>1, <3>1 DEF KeepsSent
  <2>3. /\ gaveUp \subseteq gaveUp' /\ overtook' = overtook /\ Sent' = Sent
        /\ \A j \in Sent[host[i]] : sentTime'[j] = sentTime[j]
    BY <1>0, <2>1, SentFacts DEF MapMoves, PromisesMove, KeepsSent
  <2>4. /\ s.state = "value" =>
            /\ s.ip = host[i]
            /\ s.at = Epoch \/ \E j \in 1 .. i : host[j] = host[i] /\ s.at = sentTime[j]
        /\ s.state = "error" /\ s.ip # Zero =>
            /\ s.ip = host[i]
            /\ \/ s.at - sentTime[i] >= Timeout
               \/ /\ i \in overtook
                  /\ \E j \in Sent[host[i]] :
                        /\ j < i
                        /\ s.at - sentTime[j] >= Timeout \/ j \in Robbed[host[i]]
        /\ s.state = "broken" => i \in gaveUp \/ i \in Rivaled
        /\ s.state = "error" /\ s.ip = Zero => \E p \in Lost[host[i]] : p < future[i]
    BY <1>5 DEF ResultsInv, ReplyIsFromPingedHost, LateResults,
       BrokenNeedsRivalPing, LostResults, HasResult, Result, Rivaled
  <2> HIDE DEF s
  <2> QED
    BY <1>4, <1>5, <2>1, <2>2, <2>3, <2>4 DEF s
<1>6. CASE future'[i] = future[i] /\ s # shared[future[i]]
  <2>1. future[i] \in 1 .. Len(shared)
    BY <1>6, IndexFacts
  <2>2. PICK g \in Hosts : /\ m_pendingRequests[g] # None
                           /\ future[i] = m_pendingRequests[g].promise
                           /\ Answers(future[i], g) \/ Breaks(future[i], g)
    BY <1>6, <2>1 DEF MapMoves, PromisesMove
  <2>3. i \in Last[g] /\ m_pendingRequests[g].dstIp \in {Zero, g}
    BY <2>2 DEF RequestInv
  <2>4. CASE Breaks(future[i], g)
    BY <1>1, <1>6, <2>3, <2>4 DEF Breaks
  <2>5. CASE Answers(future[i], g)
    <3>1. m_pendingRequests[g].dstIp = Zero => \E p \in Lost[g] : p < future[i]
      BY <2>2 DEF MadeUpInv
    <3>2. host'[i] = g
      BY <1>1, <2>3
    <3>3. g # Zero
      BY DEF Hosts, Zero
    <3> QED
      BY <1>2, <1>3, <1>4, <1>6, <2>3, <2>5, <3>1, <3>2, <3>3 DEF Answers
  <2> QED
    BY <2>2, <2>4, <2>5
<1>7. CASE future'[i] # future[i]
  <2>1. PICK g \in Hosts : /\ m_pendingRequests'[g] # None
                           /\ future'[i] = m_pendingRequests'[g].promise
                           /\ i \in Last[g]
                           /\ m_pendingRequests'[g].dstIp = Zero =>
                                \E p \in Lost[g] : p < future'[i]
    BY <1>7 DEF MapMoves, FuturesMove
  <2>2. /\ s.state # "broken"
        /\ s.state = "value" => s.ip = g /\ s.at \in SentTimes[g]
        /\ s.state = "error" => /\ s.ip = m_pendingRequests'[g].dstIp
                                /\ s.ip = g => s.at \in LateTimes'[g]
    BY <2>1 DEF AnsweredInv, KeepsSent
  <2>3. host'[i] = g
    BY <1>1, <2>1
  <2>4. m_pendingRequests'[g].dstIp = Zero \/ m_pendingRequests'[g].dstIp = g
    BY <2>1 DEF RequestInv, MapMoves, NodesMove
  <2> HIDE DEF s
  <2> QED
    BY <1>2, <1>3, <1>4, <2>1, <2>2, <2>3, <2>4 DEF s
<1> QED
  BY <1>5, <1>6, <1>7

(* A step that asks nothing new keeps what is said of the map and of futures. *)
LEMMA MapHistoryKept ==
    ASSUME IInv, IInv', PingInv, MapHistory, KeepsSent, MapMoves
    PROVE  MapHistory'
BY RequestKept, MadeUpKept, AnsweredKept, ResultsKept DEF MapHistory

(* The request that pingAsync made stays its own or its promise gets lost. *)
LEMMA AskingKept ==
    ASSUME IInv, IInv', MapHistory, AskingInv, MapMoves, NodesMove,
           cpc' = "future" => UNCHANGED <<cpc, cur, host, future>>
    PROVE  AskingInv'
<1> SUFFICES ASSUME cpc' = "future"
             PROVE  LET h == host[cur]
                        r == m_pendingRequests'[h]
                    IN \/ r # None /\ r.dstIp = h
                       \/ \E p \in Lost'[h] : r # None => p < r.promise
  BY DEF AskingInv
<1> DEFINE h == host[cur]
<1>1. UNCHANGED <<cpc, cur, host, future>> /\ h \in Hosts /\ cpc = "future"
  BY DEF IInv, CallerInv
<1>2. Lost[h] \subseteq Lost'[h] /\ \A p \in Lost[h] : p < Len(shared) + 1
  BY <1>1, LostKept, IndexFacts DEF Lost
<1>3. CASE m_pendingRequests[h] # None /\ m_pendingRequests[h].dstIp = h
  <2> DEFINE q == m_pendingRequests[h].promise
             s == shared'[q]
  <2>1. q \in 1 .. Len(shared) /\ Len(shared) \in Nat
    BY <1>1, <1>3, IndexFacts
  <2>2. CASE m_pendingRequests'[h] = m_pendingRequests[h]
    BY <1>3, <2>2
  <2>3. CASE m_pendingRequests'[h] # m_pendingRequests[h]
    <3>1. m_pendingRequests'[h] = None /\ s.state # "pending"
      BY <1>1, <1>3, <2>3 DEF MapMoves, NodesMove
    <3>2. s.state = "broken" \/ s.ip = h
      <4>1. CASE s = shared[q]
        <5>1. s \in SharedState
          BY <2>1, <4>1 DEF IInv, TypeOK
        <5>2. s.state \in {"value", "error", "broken"}
          BY <3>1, <5>1 DEF SharedState
        <5> QED
          BY <1>1, <1>3, <4>1, <5>2 DEF MapHistory, AnsweredInv
      <4>2. CASE s # shared[q]
        <5>1. PICK g \in Hosts : /\ m_pendingRequests[g] # None
                                 /\ q = m_pendingRequests[g].promise
                                 /\ Answers(q, g) \/ Breaks(q, g)
          BY <2>1, <4>2 DEF MapMoves, PromisesMove
        <5>2. g = h
          BY <1>1, <1>3, <5>1, IndexFacts
        <5> QED
          BY <2>3, <5>1, <5>2 DEF Answers, Breaks
      <4> QED
        BY <4>1, <4>2
    <3>3. Len(shared') \in Nat /\ Len(shared) <= Len(shared')
      BY DEF MapMoves, PromisesMove, IInv, TypeOK
    <3>4. \A i \in Pings : future'[i] # q
      BY <1>1, <1>3 DEF IInv, FutureInv
    <3>5. \A g \in Hosts : m_pendingRequests'[g] # None => m_pendingRequests'[g].promise # q
      <4> SUFFICES ASSUME NEW g \in Hosts, m_pendingRequests'[g] # None
                   PROVE  m_pendingRequests'[g].promise # q
        OBVIOUS
      <4>1. CASE m_pendingRequests'[g] = m_pendingRequests[g]
        BY <1>1, <1>3, <3>1, <4>1, IndexFacts
      <4>2. CASE m_pendingRequests'[g].promise = Len(shared) + 1
        BY <2>1, <4>2
      <4> QED
        BY <4>1, <4>2 DEF MapMoves, NodesMove
    <3>6. q \in 1 .. Len(shared')
      BY <2>1, <3>3
    <3> HIDE DEF q
    <3>7. q \in Lost'[h]
      BY <1>1, <3>1, <3>2, <3>4, <3>5, <3>6 DEF Lost
    <3> QED
      BY <3>1, <3>7
  <2> QED
    BY <2>2, <2>3
<1>4. CASE \E p \in Lost[h] : m_pendingRequests[h] # None => p < m_pendingRequests[h].promise
  BY <1>1, <1>2, <1>4 DEF MapMoves, NodesMove
<1> QED
  BY <1>1, <1>3, <1>4 DEF AskingInv
-----------------------------------------------------------------------------
(* The operations on the map are such moves. *)

LEMMA UnchangedMoves ==
    ASSUME IInv, mapVars' = mapVars, UNCHANGED <<future, gaveUp, overtook>>
    PROVE  MapMoves
BY IndexFacts DEF mapVars, MapMoves, NodesMove, PromisesMove, FuturesMove

LEMMA InsertMoves ==
    ASSUME IInv, NEW h \in Hosts, FindOrInsert(h), Sent[h] # {}, UNCHANGED <<gaveUp, overtook>>
    PROVE  NodesMove /\ PromisesMove
<1>1. m_pendingRequests \in [Hosts -> Request \cup {None}] /\ shared \in Seq(SharedState)
      /\ TypeOK /\ MapInv
  BY DEF IInv, TypeOK
<1>2. PromisesMove
  BY <1>1, FindOrInsertFacts DEF PromisesMove
<1>3. CASE m_pendingRequests[h] # None
  BY <1>2, <1>3 DEF FindOrInsert, mapVars, NodesMove
<1>4. CASE m_pendingRequests[h] = None
  <2>1. /\ m_pendingRequests' = [m_pendingRequests EXCEPT ![h] =
                [dstIp |-> Zero, promise |-> Len(shared) + 1, time |-> Epoch]]
        /\ shared'[Len(shared) + 1].state = "pending"
    BY <1>1, <1>4, FindOrInsertFacts DEF FindOrInsert
  <2> QED
    BY <1>1, <1>2, <1>4, <2>1 DEF NodesMove
<1> QED
  BY <1>3, <1>4

LEMMA EraseMoves ==
    ASSUME IInv, NEW h \in Hosts, Erase(h), gaveUp \subseteq gaveUp', overtook' = overtook,
           m_pendingRequests[h] # None /\ shared[m_pendingRequests[h].promise].state = "pending"
            => \A i \in Pings : future[i] = m_pendingRequests[h].promise =>
                    i \in gaveUp' \/ i \in Rivaled
    PROVE  NodesMove /\ PromisesMove
<1> DEFINE q == m_pendingRequests[h].promise
<1>1. TypeOK /\ MapInv
  BY DEF IInv
<1>2. /\ m_pendingRequests'[h] = None /\ Len(shared') = Len(shared) /\ Len(shared) \in Nat
      /\ \A g \in Hosts : g # h => m_pendingRequests'[g] = m_pendingRequests[g]
  BY <1>1, EraseFacts, IndexFacts
<1>3. \A p \in 1 .. Len(shared) :
            m_pendingRequests[h] = None \/ p # q => shared'[p] = shared[p]
  BY <1>1, AbandonFacts DEF Erase
<1>4. ASSUME m_pendingRequests[h] # None
      PROVE  shared'[q] = IF shared[q].state = "pending" THEN Broken ELSE shared[q]
  <2>1. shared' = [shared EXCEPT ![q] = IF shared[q].state = "pending" THEN Broken ELSE shared[q]]
    BY <1>4 DEF Erase, Abandon
  <2>2. q \in 1 .. Len(shared) /\ shared \in Seq(SharedState)
    BY <1>1, <1>4 DEF MapInv, TypeOK
  <2> QED
    BY <2>1, <2>2
<1>5. Broken.state = "broken"
  BY DEF Broken
<1>6. NodesMove
  BY <1>2, <1>4, <1>5 DEF NodesMove
<1>7. ASSUME NEW p \in 1 .. Len(shared), shared'[p] # shared[p]
      PROVE  /\ m_pendingRequests[h] # None /\ p = q /\ shared[p].state = "pending"
             /\ Breaks(p, h)
  BY <1>2, <1>3, <1>4, <1>5, <1>7 DEF Breaks
<1>8. PromisesMove
  BY <1>2, <1>7 DEF PromisesMove
<1> QED
  BY <1>6, <1>8

LEMMA AnswerMoves ==
    ASSUME IInv, NEW h \in Hosts, NEW v \in SharedState, valid, SetValue(h, v),
           m_pendingRequests[h] # None, UNCHANGED <<gaveUp, overtook>>,
           shared[m_pendingRequests[h].promise].state = "pending",
           \/ v.state = "value" /\ v.ip = h /\ v.at \in SentTimes[h]
           \/ /\ v.state = "error" /\ v.ip = m_pendingRequests[h].dstIp
              /\ v.ip = h => v.at \in LateTimes[h]
    PROVE  NodesMove /\ PromisesMove
<1> DEFINE q == m_pendingRequests[h].promise
<1>1. q \in 1 .. Len(shared) /\ shared \in Seq(SharedState)
  BY DEF IInv, MapInv, TypeOK
<1>2. m_pendingRequests' = m_pendingRequests /\ shared' = [shared EXCEPT ![q] = v]
  BY DEF SetValue
<1> HIDE DEF q
<1>3. /\ Len(shared') = Len(shared) /\ shared'[q] = v
      /\ \A p \in 1 .. Len(shared) : p # q => shared'[p] = shared[p]
  BY <1>1, <1>2
<1>4. Answers(q, h)
  BY <1>2, <1>3 DEF Answers
<1>5. PromisesMove
  BY <1>1, <1>3, <1>4 DEF PromisesMove, q
<1> QED
  BY <1>2, <1>5 DEF NodesMove
-----------------------------------------------------------------------------
(* The actions *)

(* A step that is neither the runner's nor Assign keeps what the runner is at. *)
LEMMA RunnerHistoryKept ==
    ASSUME IInv, IInv', PingInv, AnsweringInv, ErasingInv, KeepsSent, MapMoves,
           UNCHANGED <<rpc, packet, it, time>>, valid' => valid, fault = "none",
           \A g \in Hosts : m_pendingRequests[g] # None /\ m_pendingRequests'[g] = None
                => cpc' = "idle",
           \/ cpc' \in {"idle", "assign", "drop"}
           \/ UNCHANGED <<cur, host>> /\ cpc \notin {"idle", "assign", "drop"},
           \A g \in Hosts : m_pendingRequests[g] = None /\ m_pendingRequests'[g] # None
                => cpc \in {"future", "giveup"} /\ g = host[cur]
    PROVE  AnsweringInv' /\ ErasingInv'
<1>1. it' = it /\ rpc' = rpc /\ packet' = packet /\ time' = time
  OBVIOUS
<1>2. AnsweringInv'
  <2>1. CASE rpc' = "timeout" /\ valid' /\ m_pendingRequests'[it].dstIp = it
    <3>1. it \in Hosts /\ valid /\ m_pendingRequests[it] # None /\ m_pendingRequests'[it] # None
      BY <2>1 DEF IInv, RunnerInv
    <3>2. m_pendingRequests'[it] = m_pendingRequests[it]
      BY <3>1 DEF MapMoves, NodesMove
    <3>3. time \in LateTimes[it]
      BY <2>1, <3>1, <3>2 DEF AnsweringInv
    <3>4. time \in LateTimes'[it]
      BY <3>1, <3>3, LateKept
    <3> QED
      BY <1>1, <2>1, <3>4 DEF AnsweringInv, KeepsSent
  <2>2. CASE ~(rpc' = "timeout" /\ valid' /\ m_pendingRequests'[it].dstIp = it)
    BY <1>1, <2>2 DEF AnsweringInv, KeepsSent
  <2> QED
    BY <2>1, <2>2
<1>3. ErasingInv'
  <2> SUFFICES ASSUME rpc \in {"erase", "eraseIt"}
               PROVE  LET r == m_pendingRequests'[it] IN
                      \/ r # None /\ shared'[r.promise].state # "pending"
                      \/ Last[it] \subseteq Rivaled'
                      \/ r = None /\ (cpc' \in {"idle", "assign", "drop"} \/ host'[cur'] # it)
    BY <1>1 DEF ErasingInv, KeepsSent
  <2> DEFINE r == m_pendingRequests[it]
  <2>1. it \in Hosts /\ TypeOK
    BY DEF IInv, RunnerInv
  <2>2. CASE r # None /\ shared[r.promise].state # "pending"
    <3>1. CASE m_pendingRequests'[it] = r
      <4>1. r.promise \in 1 .. Len(shared)
        BY <2>1, <2>2, IndexFacts
      <4>2. shared'[r.promise] = shared[r.promise]
        BY <2>2, <4>1 DEF MapMoves, PromisesMove
      <4> QED
        BY <2>2, <3>1, <4>2
    <3>2. CASE m_pendingRequests'[it] # r
      BY <2>1, <2>2, <3>2 DEF MapMoves, NodesMove
    <3> QED
      BY <3>1, <3>2
  <2>3. CASE Last[it] \subseteq Rivaled
    <3>1. \A i \in Last[it] : i <= cur
      BY <2>1, SentFacts
    <3> QED
      BY <2>3, <3>1 DEF KeepsSent
  <2>4. CASE r = None /\ (cpc \in {"idle", "assign", "drop"} \/ host[cur] # it)
    <3>1. m_pendingRequests'[it] = None
      BY <2>1, <2>4
    <3> QED
      BY <2>4, <3>1
  <2> QED
    BY <2>2, <2>3, <2>4 DEF ErasingInv
<1> QED
  BY <1>2, <1>3

(* The network and the clock *)
LEMMA EnvironmentHistory ==
    ASSUME HistoryInv, IInv', fault = "none", Receive \/ Tick \/ DataRace
    PROVE  HistoryInv'
<1> USE DEF HistoryInv
<1>1. /\ UNCHANGED <<mapVars, callerVars, runnerVars>>
      /\ fault' \in {"none", "race"}
  BY DEF Receive, Tick, DataRace
<1>2. KeepsSent
  BY <1>1, SentKept DEF callerVars, IInv
<1>3. MapMoves
  BY <1>1, UnchangedMoves DEF callerVars
<1>4. MapHistory' /\ AskingInv'
  BY <1>1, <1>2, <1>3, MapHistoryKept, AskingKept DEF callerVars, MapMoves
<1>5. AnsweringInv' /\ ErasingInv'
  BY <1>1, <1>2, <1>3, RunnerHistoryKept DEF callerVars, runnerVars, mapVars
<1>6. PingInv'
  BY <1>1, <1>2 DEF PingInv, KeepsSent, callerVars
<1>7. GoneInv' /\ DanglingNeedsBlockingPing'
  BY <1>1 DEF GoneInv, DanglingNeedsBlockingPing, callerVars, runnerVars
<1>8. MakerInv' /\ ExpiredInv'
  <2>1. OverdueMoves
    BY <1>1 DEF OverdueMoves, mapVars, callerVars, runnerVars
  <2> QED
    BY <1>2, <1>3, <2>1, OverdueKept
<1> QED
  BY <1>4, <1>5, <1>6, <1>7, <1>8

(* The caller's steps that do not touch the map *)
LEMMA CallerQuietHistory ==
    ASSUME HistoryInv, IInv', fault = "none", PingSome \/ WaitReady \/ WaitTimeout
    PROVE  HistoryInv'
<1> USE DEF HistoryInv
<1>1. /\ UNCHANGED <<mapVars, future, gaveUp, overtook, runnerVars, fault>>
      /\ \/ PingSome /\ cpc' = "assign"
         \/ /\ cpc = "wait" /\ cpc' \in {"idle", "giveup"}
            /\ UNCHANGED <<cur, host, sentTime>>
  BY DEF PingSome, Ping, WaitReady, WaitTimeout
<1>2. KeepsSent
  BY <1>1, SentKept DEF IInv
<1>3. MapMoves
  BY <1>1, UnchangedMoves
<1>4. MapHistory' /\ AskingInv'
  BY <1>1, <1>2, <1>3, MapHistoryKept, AskingKept DEF MapMoves
<1>5. AnsweringInv' /\ ErasingInv'
  BY <1>1, <1>2, <1>3, RunnerHistoryKept DEF runnerVars, mapVars
<1>6. PingInv'
  <2>1. CASE PingSome
    <3>1. PICK g \in Hosts, s \in BOOLEAN : Ping(g, s)
      BY <2>1 DEF PingSome
    <3>2. /\ cur' = cur + 1 /\ cur + 1 \in Pings /\ cur \in Nat
          /\ host' = [host EXCEPT ![cur + 1] = g] /\ host \in [Pings -> Hosts \cup {None}]
          /\ future' = future
      BY <3>1, NumPingsAssumption DEF Ping, IInv, TypeOK, Pings
    <3>3. \A i \in Pings : IF i <= cur' THEN host'[i] \in Hosts ELSE host'[i] = None
      BY <3>2 DEF PingInv, Pings
    <3>4. \A i \in Pings : future[i] # 0 => i <= cur /\ host[i] \in Hosts /\ i \in Sent[host[i]]
      BY SentFacts DEF PingInv, IInv
    <3>5. \A i \in Pings : future'[i] # 0 => host'[i] \in Hosts /\ i \in Sent'[host'[i]]
      BY <1>2, <3>2, <3>4 DEF KeepsSent
    <3>6. future[cur + 1] = 0
      BY <3>2, <3>4
    <3> QED
      BY <3>2, <3>3, <3>5, <3>6 DEF PingInv
  <2>2. CASE UNCHANGED <<cur, host, sentTime>> /\ cpc' \in {"idle", "giveup"}
    BY <1>1, <1>2, <2>2 DEF PingInv, KeepsSent
  <2> QED
    BY <1>1, <2>1, <2>2
<1>7. GoneInv' /\ DanglingNeedsBlockingPing'
  BY <1>1 DEF GoneInv, DanglingNeedsBlockingPing, runnerVars
<1>8. MakerInv' /\ ExpiredInv'
  <2>1. cpc # "drop"
    BY DEF PingSome, Ping, WaitReady, WaitTimeout
  <2>2. OverdueMoves
    BY <1>1, <2>1 DEF OverdueMoves, mapVars, runnerVars
  <2> QED
    BY <1>2, <1>3, <2>2, OverdueKept
<1> QED
  BY <1>4, <1>5, <1>6, <1>7, <1>8

(* The caller's own ping is the last to its host. *)
LEMMA CurrentIsLast ==
    ASSUME IInv, cpc \notin {"idle", "assign"}
    PROVE  cur \in Pings /\ host[cur] \in Hosts /\ cur \in Last[host[cur]]
<1>1. cur \in Pings /\ host[cur] \in Hosts /\ TypeOK
  BY DEF IInv, CallerInv
<1>2. cur \in Sent[host[cur]] /\ \A j \in Sent[host[cur]] : j <= cur
  <2>1. cur <= cur
    BY <1>1 DEF Pings
  <2> QED
    BY <1>1, <2>1, SentFacts
<1> QED
  BY <1>1, <1>2, SentFacts

(* pingAsync takes a future: of its own request, or it lost a promise. *)
LEMMA GetFutureHistory ==
    ASSUME HistoryInv, IInv', fault = "none", GetFuture
    PROVE  HistoryInv'
<1> USE DEF HistoryInv
<1> DEFINE h == host[cur]
           q == m_pendingRequests'[h].promise
<1>1. /\ cpc = "future" /\ cpc' \in {"wait", "idle"}
      /\ UNCHANGED <<pingVars, gaveUp, overtook, runnerVars, fault>>
      /\ FindOrInsert(h) /\ future' = [future EXCEPT ![cur] = q]
  BY DEF GetFuture
<1>2. cur \in Pings /\ h \in Hosts /\ cur \in Last[h] /\ Sent[h] # {}
  BY <1>1, CurrentIsLast, SentFacts DEF IInv
<1>3. KeepsSent
  BY <1>1, SentKept DEF IInv
<1>4. NodesMove /\ PromisesMove
  BY <1>1, <1>2, InsertMoves
<1>5. FuturesMove
  <2>1. m_pendingRequests'[h] # None
    BY <1>1, <1>2, FindOrInsertFacts DEF IInv
  <2>2. m_pendingRequests'[h].dstIp = Zero => \E p \in Lost[h] : p < q
    <3>1. CASE m_pendingRequests'[h] = m_pendingRequests[h]
      <4>1. Zero # h
        BY <1>2 DEF Zero, Hosts
      <4> QED
        BY <1>1, <2>1, <3>1, <4>1 DEF AskingInv
    <3>2. CASE m_pendingRequests'[h] # m_pendingRequests[h]
      <4>1. m_pendingRequests[h] = None /\ q = Len(shared) + 1
        BY <1>2, <2>1, <3>2, <1>4 DEF NodesMove
      <4>2. PICK p \in Lost[h] : TRUE
        BY <1>1, <4>1 DEF AskingInv
      <4>3. p < Len(shared) + 1
        BY <1>2, <4>2, IndexFacts DEF Lost
      <4> QED
        BY <4>1, <4>2, <4>3
    <3> QED
      BY <3>1, <3>2
  <2>3. \A i \in Pings : future'[i] = IF i = cur THEN q ELSE future[i]
    BY <1>1, <1>2 DEF IInv, TypeOK
  <2>4. future[cur] = 0
    BY <1>1 DEF PingInv
  <2> HIDE DEF h
  <2> QED
    BY <1>2, <2>1, <2>2, <2>3, <2>4 DEF FuturesMove
<1>6. MapHistory' /\ AskingInv'
  BY <1>1, <1>3, <1>4, <1>5, MapHistoryKept, AskingKept DEF MapMoves
<1>7. AnsweringInv' /\ ErasingInv'
  <2>1. \A g \in Hosts : \/ m_pendingRequests'[g] = m_pendingRequests[g]
                         \/ g = h /\ m_pendingRequests[g] = None
    BY <1>1, <1>2 DEF FindOrInsert, IInv, TypeOK, mapVars
  <2> QED
    BY <1>1, <1>3, <1>4, <1>5, <2>1, RunnerHistoryKept DEF runnerVars, MapMoves
<1>8. PingInv'
  <2>1. \A i \in Pings : future'[i] = IF i = cur THEN q ELSE future[i]
    BY <1>1, <1>2 DEF IInv, TypeOK
  <2>2. cur \in Sent[host[cur]] /\ host[cur] \in Hosts
    BY <1>2 DEF Last
  <2> QED
    BY <1>1, <1>3, <2>1, <2>2 DEF PingInv, KeepsSent
<1>9. GoneInv' /\ DanglingNeedsBlockingPing'
  BY <1>1 DEF GoneInv, DanglingNeedsBlockingPing, runnerVars
<1>10. MakerInv' /\ ExpiredInv'
  <2>1. ASSUME NEW g \in Hosts, m_pendingRequests[g] = None, m_pendingRequests'[g] # None
        PROVE  Robbed'[g] # {}
    <3>1. g = h /\ q = Len(shared) + 1
      BY <1>1, <1>2, <2>1, FindOrInsertFacts DEF IInv
    <3>2. PICK p \in Lost[h] : TRUE
      BY <1>1, <2>1, <3>1 DEF AskingInv
    <3>3. p < Len(shared) + 1
      BY <1>2, <3>2, IndexFacts DEF Lost
    <3>4. future'[cur] = q
      BY <1>1, <1>2 DEF IInv, TypeOK
    <3>5. p \in Lost'[h] /\ p < future'[cur]
      BY <1>2, <1>4, <1>5, <3>1, <3>2, <3>3, <3>4, LostKept DEF MapMoves
    <3>6. cur \in Sent'[h]
      BY <1>2, <1>3, SentFacts DEF KeepsSent, IInv
    <3> HIDE DEF h, q
    <3> QED
      BY <1>2, <3>1, <3>5, <3>6 DEF Robbed
  <2>2. OverdueMoves
    BY <1>1, <2>1 DEF OverdueMoves, runnerVars
  <2> QED
    BY <1>3, <1>4, <1>5, <2>2, OverdueKept DEF MapMoves
<1> QED
  BY <1>6, <1>7, <1>8, <1>9, <1>10

(* The two accesses of ping() after its own timeout *)
LEMMA GiveUpHistory ==
    ASSUME HistoryInv, IInv', fault = "none", GiveUp
    PROVE  HistoryInv'
<1> USE DEF HistoryInv
<1>1. /\ cpc = "giveup" /\ cpc' = "drop" /\ FindOrInsert(host[cur])
      /\ UNCHANGED <<pingVars, future, gaveUp, overtook, runnerVars, fault>>
  BY DEF GiveUp
<1>2. host[cur] \in Hosts /\ Sent[host[cur]] # {}
  BY <1>1, CurrentIsLast, SentFacts DEF IInv
<1>3. KeepsSent
  BY <1>1, SentKept DEF IInv
<1>4. MapMoves
  BY <1>1, <1>2, InsertMoves DEF MapMoves, FuturesMove
<1>5. MapHistory' /\ AskingInv'
  BY <1>1, <1>3, <1>4, MapHistoryKept, AskingKept DEF MapMoves
<1>6. AnsweringInv' /\ ErasingInv'
  <2>1. \A g \in Hosts : \/ m_pendingRequests'[g] = m_pendingRequests[g]
                         \/ g = host[cur] /\ m_pendingRequests[g] = None
    BY <1>1, <1>2 DEF FindOrInsert, IInv, TypeOK, mapVars
  <2> QED
    BY <1>1, <1>3, <1>4, <2>1, RunnerHistoryKept DEF runnerVars
<1>7. PingInv'
  BY <1>1, <1>3 DEF PingInv, KeepsSent
<1>8. GoneInv' /\ DanglingNeedsBlockingPing'
  BY <1>1 DEF GoneInv, DanglingNeedsBlockingPing, runnerVars
<1>9. MakerInv' /\ ExpiredInv'
  <2>1. \A g \in Hosts : g # host[cur] => m_pendingRequests'[g] = m_pendingRequests[g]
    BY <1>1, <1>2, FindOrInsertFacts DEF IInv
  <2>2. OverdueMoves
    BY <1>1, <2>1 DEF OverdueMoves, runnerVars
  <2> QED
    BY <1>3, <1>4, <2>2, OverdueKept
<1> QED
  BY <1>5, <1>6, <1>7, <1>8, <1>9

LEMMA DropHistory ==
    ASSUME HistoryInv, IInv', fault = "none", Drop
    PROVE  HistoryInv'
<1> USE DEF HistoryInv
<1> DEFINE h == host[cur]
<1>1. /\ cpc = "drop" /\ cpc' = "idle" /\ Erase(h)
      /\ gaveUp' = gaveUp \cup {cur} /\ valid' = (valid /\ it # h)
      /\ UNCHANGED <<pingVars, future, overtook, rpc, packet, it, time>>
  BY DEF Drop
<1>2. cur \in Pings /\ h \in Hosts
  BY <1>1, CurrentIsLast DEF IInv
<1>3. KeepsSent
  BY <1>1, SentKept DEF IInv
<1>4. ASSUME m_pendingRequests[h] # None, NEW i \in Pings,
             future[i] = m_pendingRequests[h].promise
      PROVE  i \in gaveUp' \/ i \in Rivaled
  <2>1. i \in Last[h]
    BY <1>2, <1>4 DEF MapHistory, RequestInv
  <2>2. host[i] = h
    BY <1>2, <2>1, SentFacts DEF IInv
  <2> QED
    BY <1>1, <1>2, <2>2 DEF Rivaled
<1>5. MapMoves
  BY <1>1, <1>2, <1>4, EraseMoves DEF MapMoves, FuturesMove
<1>6. MapHistory' /\ AskingInv'
  BY <1>1, <1>3, <1>5, MapHistoryKept, AskingKept DEF MapMoves
<1>7. AnsweringInv' /\ ErasingInv'
  <2>1. \A g \in Hosts : m_pendingRequests'[g] # None => m_pendingRequests'[g] = m_pendingRequests[g]
    BY <1>1, <1>2, EraseFacts DEF IInv
  <2> QED
    BY <1>1, <1>3, <1>5, <2>1, RunnerHistoryKept
<1>8. PingInv'
  BY <1>1, <1>3 DEF PingInv, KeepsSent
<1>9. GoneInv' /\ DanglingNeedsBlockingPing'
  BY <1>1, <1>2 DEF GoneInv, DanglingNeedsBlockingPing
<1>10. MakerInv' /\ ExpiredInv'
  <2>1. /\ m_pendingRequests'[h] = None
        /\ \A g \in Hosts : m_pendingRequests'[g] # None => m_pendingRequests'[g] = m_pendingRequests[g]
    BY <1>1, <1>2, EraseFacts DEF IInv
  <2>2. OverdueMoves
    BY <1>1, <2>1 DEF OverdueMoves
  <2> QED
    BY <1>3, <1>5, <2>2, OverdueKept
<1> QED
  BY <1>6, <1>7, <1>8, <1>9, <1>10

(* Assign makes cur the last ping to its host, which is a rival of any before. *)
LEMMA AssignSent ==
    ASSUME TypeOK, CallerInv, PingInv, Assign
    PROVE  /\ \A g \in Hosts : g # host[cur] =>
                Sent'[g] = Sent[g] /\ Last'[g] = Last[g]
           /\ \A g \in Hosts : SentTimes[g] \subseteq SentTimes'[g] /\ Sent[g] \subseteq Sent'[g]
           /\ Last'[host[cur]] = {cur} /\ cur \in Sent'[host[cur]] /\ cur \notin Sent[host[cur]]
           /\ Sent[host[cur]] # {} => cur \in Rivaled
           /\ \A j \in Sent[host[cur]] : j < cur
<1> DEFINE h == host[cur]
<1>1. /\ cur \in Pings /\ h \in Hosts /\ cpc = "assign" /\ cpc' = "future"
      /\ UNCHANGED <<cur, host, sentTime>>
  BY DEF Assign, CallerInv
<1>2. cur <= cur /\ Pings \subseteq Nat
  BY <1>1 DEF Pings
<1>3. Sent' = [g \in Hosts |-> {i \in Pings : i <= cur /\ host[i] = g}]
  BY <1>1 DEF Sent
<1>4. \A g \in Hosts : g # h => Sent'[g] = Sent[g]
  BY <1>1, <1>3 DEF Sent
<1>5. cur \in Sent'[h] /\ cur \notin Sent[h] /\ Sent[h] \subseteq Sent'[h]
  BY <1>1, <1>2, <1>3 DEF Sent
<1>6. \A g \in Hosts : g # h => Last'[g] = Last[g]
  BY <1>4 DEF Last
<1>7. \A g \in Hosts : SentTimes[g] \subseteq SentTimes'[g] /\ Sent[g] \subseteq Sent'[g]
  BY <1>1, <1>4, <1>5 DEF SentTimes
<1>8. Last'[h] = {cur}
  <2>1. \A j \in Sent'[h] : j \in Nat /\ j <= cur
    BY <1>1, <1>2, <1>3
  <2>2. \A i \in Sent'[h] : cur <= i => i = cur
    BY <1>1, <1>2, <2>1
  <2>3. Last'[h] = {i \in Sent'[h] : \A j \in Sent'[h] : j <= i}
    BY <1>1 DEF Last
  <2> QED
    BY <1>5, <2>1, <2>2, <2>3
<1>9. ASSUME NEW j \in Sent[h] PROVE cur \in Rivaled /\ j < cur
  <2>1. j \in Pings \ {cur} /\ host[j] = h /\ j <= cur
    BY <1>1, <1>5 DEF Sent
  <2> QED
    BY <1>1, <1>2, <2>1 DEF Rivaled
<1> QED
  BY <1>4, <1>5, <1>6, <1>7, <1>8, <1>9

(* m_pendingRequests[host] = Request{...} *)
LEMMA AssignHistory ==
    ASSUME HistoryInv, IInv', fault = "none", Assign
    PROVE  HistoryInv'
<1> USE DEF HistoryInv
<1> DEFINE h == host[cur]
<1>0. TypeOK /\ CallerInv /\ MapInv /\ TypeOK' /\ MapInv'
  BY DEF IInv
<1>1. /\ cur \in Pings /\ h \in Hosts /\ cpc = "assign" /\ cpc' = "future" /\ h # Zero
      /\ UNCHANGED <<pingVars, future, gaveUp, runnerVars, fault>>
  BY <1>0 DEF Assign, CallerInv, Zero, Hosts
<1>2. /\ m_pendingRequests' = [m_pendingRequests EXCEPT ![h] = NewRequest(Len(shared) + 1)]
      /\ shared' = Append(Abandon(h), Pending)
      /\ overtook \subseteq overtook' /\ (rpc = "timeout" /\ it = h => cur \in overtook')
  BY DEF Assign
<1>3. /\ \A g \in Hosts : g # h => m_pendingRequests'[g] = m_pendingRequests[g]
      /\ m_pendingRequests'[h] # None /\ m_pendingRequests'[h].dstIp = h
      /\ m_pendingRequests'[h].promise = Len(shared) + 1
      /\ m_pendingRequests'[h].time = sentTime[cur]
  <2>1. NewRequest(Len(shared) + 1) =
            [dstIp |-> h, promise |-> Len(shared) + 1, time |-> sentTime[cur]]
    BY DEF NewRequest
  <2>2. NewRequest(Len(shared) + 1) \in Request
    BY <1>0, <1>1, <2>1 DEF Request, TypeOK
  <2> QED
    BY <1>0, <1>1, <1>2, <2>1, <2>2, NoneAssumption DEF TypeOK
<1>4. /\ Len(shared') = Len(shared) + 1 /\ Len(shared) \in Nat
      /\ shared'[Len(shared) + 1].state = "pending"
      /\ \A p \in 1 .. Len(shared) : m_pendingRequests[h] = None \/ p # m_pendingRequests[h].promise
                => shared'[p] = shared[p]
      /\ \A p \in 1 .. Len(shared) : shared'[p] = shared[p] \/ shared'[p].state = "broken"
  <2>1. /\ Abandon(h) \in Seq(SharedState) /\ Len(Abandon(h)) = Len(shared)
        /\ \A p \in 1 .. Len(shared) :
              m_pendingRequests[h] = None \/ p # m_pendingRequests[h].promise
                  => Abandon(h)[p] = shared[p]
    BY <1>0, <1>1, AbandonFacts
  <2>2. \A p \in 1 .. Len(shared) : Abandon(h)[p] \in {shared[p], Broken}
    BY <1>0, <1>1 DEF Abandon, TypeOK, MapInv
  <2>3. Pending \in SharedState /\ Pending.state = "pending" /\ Broken.state = "broken"
    BY ClockAssumption DEF Pending, Broken, SharedState, Zero, Epoch, Time
  <2>4. /\ Len(shared') = Len(shared) + 1 /\ Len(shared) \in Nat
        /\ shared'[Len(shared) + 1] = Pending
        /\ \A p \in 1 .. Len(shared) : shared'[p] = Abandon(h)[p]
    BY <1>0, <1>2, <2>1, <2>3, AppendProperties DEF TypeOK
  <2> QED
    BY <2>1, <2>2, <2>3, <2>4
<1>5. /\ \A g \in Hosts : g # h =>
            Sent'[g] = Sent[g] /\ Last'[g] = Last[g]
      /\ \A g \in Hosts : SentTimes[g] \subseteq SentTimes'[g] /\ Sent[g] \subseteq Sent'[g]
      /\ Last'[h] = {cur} /\ cur \in Sent'[h] /\ cur \notin Sent[h]
      /\ Sent[h] # {} => cur \in Rivaled
      /\ \A j \in Sent[h] : j < cur
  BY <1>0, AssignSent
<1>6. Rivaled' = Rivaled
  BY <1>1 DEF Rivaled
<1>7. ASSUME NEW g \in Hosts, g # h, m_pendingRequests[g] # None
      PROVE  /\ m_pendingRequests[g].promise \in 1 .. Len(shared)
             /\ shared'[m_pendingRequests[g].promise] = shared[m_pendingRequests[g].promise]
  BY <1>0, <1>1, <1>4, <1>7 DEF MapInv
<1> HIDE DEF h
<1>8. ASSUME NEW g \in Hosts PROVE Lost[g] \subseteq Lost'[g]
  <2> SUFFICES ASSUME NEW p \in Lost[g] PROVE p \in Lost'[g]
    OBVIOUS
  <2>1. /\ p \in 1 .. Len(shared) /\ shared[p].state # "pending"
        /\ shared[p].state = "broken" \/ shared[p].ip = g
        /\ \A i \in Pings : future[i] # p
        /\ \A k \in Hosts : m_pendingRequests[k] # None => m_pendingRequests[k].promise # p
    BY DEF Lost
  <2>2. p \in 1 .. Len(shared') /\ p # Len(shared) + 1
    BY <1>4, <2>1
  <2>3. shared'[p] = shared[p]
    BY <1>1, <1>4, <2>1
  <2>4. \A k \in Hosts : m_pendingRequests'[k] # None => m_pendingRequests'[k].promise # p
    BY <1>3, <2>1, <2>2
  <2> QED
    BY <1>1, <2>1, <2>2, <2>3, <2>4 DEF Lost
<1>9. ASSUME NEW g \in Hosts
       PROVE  /\ Robbed[g] \subseteq Robbed'[g] /\ ExpiredTimes[g] \subseteq ExpiredTimes'[g]
              /\ g # h => LateTimes[g] \subseteq LateTimes'[g]
  <2>1. Robbed[g] \subseteq Robbed'[g]
    BY <1>1, <1>5, <1>8 DEF Robbed
  <2>2. ExpiredTimes[g] \subseteq ExpiredTimes'[g]
    BY <1>1, <1>5, <2>1 DEF ExpiredTimes
  <2>3. g # h => LateTimes[g] \subseteq LateTimes'[g]
    BY <1>1, <1>2, <1>5, <2>1 DEF LateTimes
  <2> QED
    BY <2>1, <2>2, <2>3
<1>10. RequestInv'
  <2> SUFFICES ASSUME NEW g \in Hosts, m_pendingRequests'[g] # None
               PROVE  LET r == m_pendingRequests'[g] IN
                      /\ Sent'[g] # {}
                      /\ r.dstIp \in {Zero, g} /\ r.time \in SentTimes'[g]
                      /\ r.dstIp = g => /\ \A i \in Last'[g] : sentTime[i] = r.time
                                        /\ \E j \in Sent'[g] : sentTime[j] = r.time
                      /\ \A i \in Pings : future[i] = r.promise => i \in Last'[g]
    BY <1>1 DEF RequestInv
  <2>1. CASE g = h
    <3>1. sentTime[cur] \in SentTimes'[h]
      BY <1>0, <1>1, <1>5 DEF SentTimes
    <3>2. \A i \in Pings : future[i] # Len(shared) + 1
      BY IndexFacts
    <3> QED
      BY <1>3, <1>5, <2>1, <3>1, <3>2
  <2>2. CASE g # h
    BY <1>3, <1>5, <2>2 DEF MapHistory, RequestInv
  <2> QED
    BY <2>1, <2>2
<1>11. MadeUpInv'
  BY <1>1, <1>3, <1>8 DEF MapHistory, MadeUpInv
<1>12. AnsweredInv'
  <2> SUFFICES ASSUME NEW g \in Hosts, m_pendingRequests'[g] # None
               PROVE  LET r == m_pendingRequests'[g]
                          s == shared'[r.promise]
                      IN /\ s.state # "broken"
                         /\ s.state = "value" => s.ip = g /\ s.at \in SentTimes'[g]
                         /\ s.state = "error" =>
                              s.ip = r.dstIp /\ (s.ip = g => s.at \in LateTimes'[g])
    BY DEF AnsweredInv
  <2>1. CASE g = h
    BY <1>3, <1>4, <2>1
  <2>2. CASE g # h
    BY <1>3, <1>5, <1>7, <1>9, <2>2 DEF MapHistory, AnsweredInv
  <2> QED
    BY <2>1, <2>2
<1>13. ResultsInv'
  <2>1. ASSUME NEW i \in Pings, future[i] # 0
        PROVE  /\ host[i] \in Hosts /\ future[i] \in 1 .. Len(shared)
               /\ \/ shared'[future[i]] = shared[future[i]]
                  \/ shared'[future[i]].state = "broken" /\ i \in Rivaled
    <3>1. host[i] \in Hosts /\ future[i] \in 1 .. Len(shared)
      BY <2>1, IndexFacts DEF PingInv
    <3>2. CASE shared'[future[i]] # shared[future[i]]
      <4>1. m_pendingRequests[h] # None /\ future[i] = m_pendingRequests[h].promise
        BY <1>4, <3>1, <3>2
      <4>2. i \in Sent[h]
        BY <1>1, <4>1 DEF MapHistory, RequestInv, Last
      <4>3. host[i] = host[cur] /\ i # cur
        BY <1>0, <1>1, <1>5, <4>2, SentFacts DEF h
      <4> QED
        BY <1>1, <1>4, <3>1, <3>2, <4>3 DEF Rivaled
    <3> QED
      BY <3>1, <3>2
  <2>2. ReplyIsFromPingedHost'
    BY <1>1, <2>1 DEF MapHistory, ResultsInv, ReplyIsFromPingedHost, HasResult, Result
  <2>5. LateResults'
    <3> SUFFICES ASSUME NEW i \in Pings, future[i] # 0, shared'[future[i]].state = "error",
                        shared'[future[i]].ip # Zero
                 PROVE  LET s == shared'[future[i]] IN
                        /\ s.ip = host[i]
                        /\ \/ s.at - sentTime[i] >= Timeout
                           \/ /\ i \in overtook'
                              /\ \E j \in Sent'[host[i]] :
                                    /\ j < i
                                    /\ s.at - sentTime[j] >= Timeout \/ j \in Robbed'[host[i]]
      BY <1>1 DEF LateResults, HasResult, Result
    <3>1. host[i] \in Hosts /\ shared'[future[i]] = shared[future[i]]
      BY <2>1
    <3>2. Sent[host[i]] \subseteq Sent'[host[i]] /\ Robbed[host[i]] \subseteq Robbed'[host[i]]
      BY <1>5, <1>9, <3>1
    <3> QED
      BY <1>2, <3>1, <3>2 DEF MapHistory, ResultsInv, LateResults, HasResult, Result
  <2>3. BrokenNeedsRivalPing'
    BY <1>1, <2>1 DEF MapHistory, ResultsInv, BrokenNeedsRivalPing, HasResult, Result, Rivaled
  <2>4. LostResults'
    BY <1>1, <1>8, <2>1 DEF MapHistory, ResultsInv, LostResults, HasResult, Result
  <2> QED
    BY <2>2, <2>3, <2>4, <2>5 DEF ResultsInv
<1>14. RunnerInv /\ packet' = packet /\ it' = it /\ time' = time /\ rpc' = rpc
       /\ valid' = valid /\ fault' = fault
  BY <1>1 DEF IInv, runnerVars
<1>15. AnsweringInv'
  <2>1. rpc \in {"lookup", "set", "erase"} => packet \in Hosts /\ Sent'[packet] # {}
    BY <1>5, <1>14 DEF AnsweringInv, RunnerInv
  <2>2. rpc \in {"timeout", "eraseIt"} => Sent'[it] # {}
    BY <1>5, <1>14 DEF AnsweringInv, RunnerInv
  <2>3. rpc = "set" => time \in SentTimes'[packet]
    BY <1>5, <1>14, <2>1 DEF AnsweringInv
  <2>4. rpc = "timeout" /\ valid /\ m_pendingRequests'[it].dstIp = it => time \in LateTimes'[it]
    <3> SUFFICES ASSUME rpc = "timeout", valid, m_pendingRequests'[it].dstIp = it
                 PROVE  time \in LateTimes'[it]
      OBVIOUS
    <3>1. it \in Hosts /\ Sent[it] # {} /\ time \in Time
      BY <1>0, <1>14 DEF AnsweringInv, RunnerInv, TypeOK
    <3>2. CASE it = h
      <4>1. PICK j \in Sent[h] : time - sentTime[j] >= Timeout \/ j \in Robbed[h]
        BY <1>1, <3>1, <3>2 DEF ExpiredInv, ExpiredTimes
      <4>2. /\ j \in Sent'[h] /\ j < cur /\ cur \in overtook' /\ Last'[h] = {cur}
            /\ time - sentTime[j] >= Timeout \/ j \in Robbed'[h]
        BY <1>1, <1>2, <1>5, <1>9, <3>2, <4>1
      <4> QED
        BY <1>1, <3>1, <3>2, <4>2 DEF LateTimes
    <3>3. CASE it # h
      BY <1>3, <1>9, <3>1, <3>3 DEF AnsweringInv
    <3> QED
      BY <3>2, <3>3
  <2> QED
    BY <1>14, <2>1, <2>2, <2>3, <2>4 DEF AnsweringInv
<1>16. AskingInv'
  BY <1>1, <1>3 DEF AskingInv, h
<1>17. ErasingInv'
  <2> SUFFICES ASSUME rpc \in {"erase", "eraseIt"}
               PROVE  LET r == m_pendingRequests'[it] IN
                      \/ r # None /\ shared'[r.promise].state # "pending"
                      \/ Last'[it] \subseteq Rivaled
                      \/ r = None /\ host[cur] # it
    BY <1>1, <1>6, <1>14 DEF ErasingInv
  <2>1. it \in Hosts /\ Sent[it] # {}
    BY <1>14 DEF AnsweringInv, RunnerInv
  <2>2. CASE it = h
    BY <1>5, <2>1, <2>2
  <2>3. CASE it # h
    BY <1>3, <1>5, <1>7, <2>1, <2>3 DEF ErasingInv, h
  <2> QED
    BY <2>2, <2>3
<1>18. PingInv'
  <2>1. \A g \in Hosts : Sent[g] \subseteq Sent'[g]
    BY <1>5
  <2> QED
    BY <1>1, <2>1 DEF PingInv
<1>19. GoneInv' /\ DanglingNeedsBlockingPing'
  BY <1>1, <1>14 DEF GoneInv, DanglingNeedsBlockingPing
<1>20. MakerInv'
  <2> SUFFICES ASSUME NEW g \in Hosts, m_pendingRequests'[g] # None,
                      m_pendingRequests'[g].dstIp = Zero
               PROVE  Robbed'[g] # {} \/ (rpc \in {"set", "erase"} /\ it = g)
    BY <1>14 DEF MakerInv
  <2>1. g # h /\ m_pendingRequests'[g] = m_pendingRequests[g]
    BY <1>1, <1>3
  <2> QED
    BY <1>1, <1>9, <2>1 DEF MakerInv
<1>21. ExpiredInv'
  <2> SUFFICES ASSUME rpc = "timeout", valid PROVE time \in ExpiredTimes'[it]
    BY <1>14 DEF ExpiredInv
  <2>1. it \in Hosts
    BY <1>14 DEF RunnerInv
  <2> QED
    BY <1>1, <1>9, <2>1 DEF ExpiredInv
<1> QED
  BY <1>20, <1>21, <1>10, <1>11, <1>12, <1>13, <1>15, <1>16, <1>17, <1>18, <1>19 DEF MapHistory
-----------------------------------------------------------------------------
(* The runner's actions *)

(* A step of the runner keeps what does not depend on where the runner is. *)
LEMMA RunnerStepHistory ==
    ASSUME HistoryInv, IInv', callerVars' = callerVars, NodesMove, PromisesMove,
           AnsweringInv', ErasingInv', OverdueMoves,
           valid' \/ valid' = valid,
           fault' = "dangling" => ~valid \/ fault = "dangling"
    PROVE  HistoryInv'
<1> USE DEF HistoryInv
<1>1. UNCHANGED <<cpc, cur, host, sentTime, future, gaveUp, overtook>>
  BY DEF callerVars
<1>2. KeepsSent
  BY <1>1, SentKept DEF IInv
<1>3. MapMoves
  BY <1>1 DEF MapMoves, FuturesMove
<1>4. MapHistory' /\ AskingInv'
  BY <1>1, <1>2, <1>3, MapHistoryKept, AskingKept DEF MapMoves
<1>5. PingInv'
  BY <1>1, <1>2 DEF PingInv, KeepsSent
<1>6. GoneInv' /\ DanglingNeedsBlockingPing'
  BY <1>1 DEF GoneInv, DanglingNeedsBlockingPing
<1>7. MakerInv' /\ ExpiredInv'
  BY <1>2, <1>3, OverdueKept
<1> QED
  BY <1>4, <1>5, <1>6, <1>7

(* For the runner's steps what was sent is what it was. *)
LEMMA RunnerKeepsSent ==
    ASSUME TypeOK, PingInv, callerVars' = callerVars
    PROVE  /\ Sent' = Sent /\ SentTimes' = SentTimes
           /\ Last' = Last /\ Rivaled' = Rivaled
<1>1. KeepsSent /\ host' = host
  BY SentKept DEF callerVars
<1> QED
  BY <1>1 DEF KeepsSent, Rivaled

(* The runner's steps that leave the map and the promises alone *)
LEMMA RunnerQuietHistory ==
    ASSUME HistoryInv, IInv', fault = "none", Poll \/ PopPacket \/ BeginSweep \/ Match \/ Visit
    PROVE  HistoryInv'
<1> USE DEF HistoryInv
<1>1. UNCHANGED <<mapVars, callerVars, gaveUp, overtook, future>>
  BY DEF Poll, PopPacket, BeginSweep, Match, Visit, netVars, callerVars
<1>2. NodesMove /\ PromisesMove
  BY <1>1, UnchangedMoves DEF MapMoves
<1>3. Sent' = Sent
  BY <1>1, RunnerKeepsSent DEF IInv
<1>4. rpc \notin {"set", "erase"}
  BY DEF Poll, PopPacket, BeginSweep, Match, Visit
<1>5. rpc' \in {"idle", "pop", "match", "visit"} => AnsweringInv' /\ ErasingInv'
  BY DEF AnsweringInv, ErasingInv
<1>6. rpc' # "timeout" => OverdueMoves
  BY <1>1, <1>4 DEF OverdueMoves, mapVars, callerVars
<1>7. CASE Poll \/ PopPacket \/ BeginSweep
  <2>1. rpc' \in {"pop", "match", "visit"} /\ (valid' \/ valid' = valid) /\ fault' = fault
    BY <1>7 DEF Poll, PopPacket, BeginSweep
  <2> QED
    BY <1>1, <1>2, <1>5, <1>6, <2>1, RunnerStepHistory
<1>8. CASE Match
  <2>1. (valid' \/ valid' = valid) /\ fault' = fault
    BY <1>8 DEF Match, Return
  <2>2. CASE packet \in Hosts /\ m_pendingRequests[packet] # None
    <3>1. rpc' = "lookup" /\ packet' = packet
      BY <1>8, <2>2 DEF Match
    <3>2. AnsweringInv' /\ ErasingInv'
      BY <1>3, <2>2, <3>1 DEF AnsweringInv, ErasingInv, MapHistory, RequestInv
    <3> QED
      BY <1>1, <1>2, <1>6, <2>1, <3>1, <3>2, RunnerStepHistory
  <2>3. CASE ~(packet \in Hosts /\ m_pendingRequests[packet] # None)
    <3>1. rpc' = "idle"
      BY <1>8, <2>3 DEF Match, Return
    <3> QED
      BY <1>1, <1>2, <1>5, <1>6, <2>1, <3>1, RunnerStepHistory
  <2> QED
    BY <2>2, <2>3
<1>9. CASE Visit
  <2>1. /\ valid' \/ valid' = valid
        /\ fault' = "dangling" => ~valid
    BY <1>9 DEF Visit, Return, runnerVars
  <2>2. CASE rpc' \in {"idle", "visit"}
    BY <1>1, <1>2, <1>5, <1>6, <2>1, <2>2, RunnerStepHistory
  <2>3. CASE rpc' \notin {"idle", "visit"}
    <3>1. /\ rpc = "visit" /\ rpc' = "timeout" /\ it # End /\ valid /\ Expired(it)
          /\ UNCHANGED <<it, valid, time, packet>>
      BY <1>9, <2>3 DEF Visit, Return, runnerVars
    <3>2. it \in Hosts /\ m_pendingRequests[it] # None
      BY <3>1, NumHostsAssumption DEF IInv, TypeOK, RunnerInv, End, Hosts
    <3>3. Sent[it] # {}
      BY <3>2 DEF MapHistory, RequestInv
    <3>4. m_pendingRequests[it].dstIp = it => time \in LateTimes[it]
      <4> SUFFICES ASSUME m_pendingRequests[it].dstIp = it PROVE time \in LateTimes[it]
        OBVIOUS
      <4>1. \A i \in Last[it] : sentTime[i] = m_pendingRequests[it].time
        BY <3>2 DEF MapHistory, RequestInv
      <4>2. time - m_pendingRequests[it].time >= Timeout /\ time \in Time
        BY <3>1 DEF Expired, IInv, TypeOK
      <4> QED
        BY <3>2, <4>1, <4>2 DEF LateTimes
    <3>5. m_pendingRequests' = m_pendingRequests
      BY <1>1 DEF mapVars
    <3>6. KeepsSent /\ MapMoves
      BY <1>1, <1>2, SentKept DEF IInv, MapMoves, FuturesMove, callerVars
    <3>7. time \in LateTimes[it] => time \in LateTimes'[it]
      BY <3>2, <3>6, LateKept
    <3>8. AnsweringInv' /\ ErasingInv'
      BY <1>3, <3>1, <3>3, <3>4, <3>5, <3>7 DEF AnsweringInv, ErasingInv
    <3>9. time \in ExpiredTimes[it] \/ (cpc = "drop" /\ host[cur] = it)
      <4>1. time - m_pendingRequests[it].time >= Timeout /\ time \in Time
        BY <3>1 DEF Expired, IInv, TypeOK
      <4>2. CASE m_pendingRequests[it].dstIp = it
        <5>1. PICK j \in Sent[it] : sentTime[j] = m_pendingRequests[it].time
          BY <3>2, <4>2 DEF MapHistory, RequestInv
        <5> QED
          BY <3>2, <4>1, <5>1 DEF ExpiredTimes
      <4>3. CASE m_pendingRequests[it].dstIp = Zero
        <5>1. CASE Robbed[it] # {}
          <6>1. PICK j \in Sent[it] : j \in Robbed[it]
            BY <3>2, <5>1 DEF Robbed
          <6> QED
            BY <3>2, <4>1, <6>1 DEF ExpiredTimes
        <5> QED
          BY <3>1, <3>2, <4>3, <5>1 DEF MakerInv
      <4> QED
        BY <3>2, <4>2, <4>3 DEF MapHistory, RequestInv
    <3>10. OverdueMoves
      BY <1>1, <3>1, <3>5, <3>9 DEF OverdueMoves, callerVars
    <3> QED
      BY <1>1, <1>2, <2>1, <3>8, <3>10, RunnerStepHistory
  <2> QED
    BY <2>2, <2>3
<1> QED
  BY <1>7, <1>8, <1>9

(* auto& request = m_pendingRequests[srcIp] *)
LEMMA LookupHistory ==
    ASSUME HistoryInv, IInv', fault = "none", Lookup
    PROVE  HistoryInv'
<1> USE DEF HistoryInv
<1>1. /\ rpc = "lookup" /\ rpc' = "set" /\ packet \in Hosts /\ packet' = packet /\ valid'
      /\ FindOrInsert(packet) /\ UNCHANGED <<callerVars, gaveUp, overtook, fault>>
      /\ time' = m_pendingRequests'[packet].time /\ Sent[packet] # {} /\ it' = packet
  BY DEF Lookup, IInv, RunnerInv, callerVars, AnsweringInv
<1>2. NodesMove /\ PromisesMove
  BY <1>1, InsertMoves
<1>3. Sent' = Sent /\ SentTimes' = SentTimes
  BY <1>1, RunnerKeepsSent DEF IInv
<1>4. time' \in SentTimes[packet]
  <2>1. m_pendingRequests'[packet] # None
    BY <1>1, FindOrInsertFacts DEF IInv
  <2>2. Epoch \in SentTimes[packet]
    BY <1>1 DEF SentTimes
  <2> QED
    BY <1>1, <1>2, <2>1, <2>2 DEF NodesMove, MapHistory, RequestInv
<1>5. AnsweringInv' /\ ErasingInv'
  BY <1>1, <1>3, <1>4 DEF AnsweringInv, ErasingInv
<1>6. OverdueMoves
  <2>1. \A g \in Hosts : g # packet => m_pendingRequests'[g] = m_pendingRequests[g]
    BY <1>1, FindOrInsertFacts DEF IInv
  <2> QED
    BY <1>1, <2>1 DEF OverdueMoves, callerVars
<1> QED
  BY <1>1, <1>2, <1>5, <1>6, RunnerStepHistory

(* Fulfilling a promise: what it is given fits. *)
LEMMA SetHistory ==
    ASSUME HistoryInv, IInv', fault = "none", SetReply \/ SetTimeout
    PROVE  HistoryInv'
<1> USE DEF HistoryInv
<1>1. /\ UNCHANGED <<callerVars, packet, it, valid, time, gaveUp, overtook, future>>
      /\ it \in Hosts
      /\ \/ rpc = "set" /\ rpc' = "erase" /\ it = packet
         \/ rpc = "timeout" /\ rpc' = "eraseIt"
  BY DEF SetReply, SetTimeout, IInv, RunnerInv, callerVars
<1>2. Sent' = Sent
  BY <1>1, RunnerKeepsSent DEF IInv
<1>3. AnsweringInv'
  BY <1>1, <1>2 DEF AnsweringInv
<1>4. m_pendingRequests' = m_pendingRequests => OverdueMoves
  BY <1>1 DEF OverdueMoves, callerVars
<1>5. CASE ~valid
  <2>1. mapVars' = mapVars /\ fault' = "dangling"
    BY <1>5 DEF SetReply, SetTimeout, SetValue
  <2>2. NodesMove /\ PromisesMove
    BY <1>1, <2>1, UnchangedMoves DEF MapMoves
  <2>3. ErasingInv'
    BY <2>1 DEF ErasingInv
  <2> QED
    BY <1>1, <1>3, <1>4, <1>5, <2>1, <2>2, <2>3, RunnerStepHistory DEF mapVars
<1>6. CASE valid
  <2> DEFINE r == m_pendingRequests[it]
             v == IF rpc = "set" THEN Value(packet, time) ELSE TimedOut(r.dstIp, time)
  <2>1. r # None /\ shared[r.promise].state = "pending" /\ r \in Request
    BY <1>1, <1>6 DEF IInv, RunnerInv, UnsatisfiedInv, TypeOK
  <2>2. SetValue(it, v)
    BY DEF SetReply, SetTimeout
  <2>3. v \in SharedState
    BY <1>1, <2>1 DEF IInv, TypeOK, Request, Value, TimedOut, SharedState
  <2>4. \/ v.state = "value" /\ v.ip = it /\ v.at \in SentTimes[it]
        \/ /\ v.state = "error" /\ v.ip = r.dstIp
           /\ v.ip = it => v.at \in LateTimes[it]
    BY <1>1, <1>6 DEF AnsweringInv, Value, TimedOut
  <2> HIDE DEF v
  <2>5. NodesMove /\ PromisesMove
    BY <1>1, <1>6, <2>1, <2>2, <2>3, <2>4, AnswerMoves
  <2>6. r.promise \in 1 .. Len(shared) /\ shared \in Seq(SharedState)
    BY <1>1, <2>1 DEF IInv, MapInv, TypeOK
  <2>7. fault' = fault /\ m_pendingRequests' = m_pendingRequests /\ shared'[r.promise] = v
    BY <1>6, <2>1, <2>2, <2>6 DEF SetValue
  <2>8. ErasingInv'
    BY <1>1, <2>1, <2>4, <2>7 DEF ErasingInv
  <2> QED
    BY <1>1, <1>3, <1>4, <1>6, <2>5, <2>7, <2>8, RunnerStepHistory
<1> QED
  BY <1>5, <1>6

(* Erasing an answered request breaks only promises of pings with a rival. *)
LEMMA EraseHistory ==
    ASSUME HistoryInv, IInv', fault = "none", EraseReply \/ EraseTimeout
    PROVE  HistoryInv'
<1> USE DEF HistoryInv
<1>1. /\ UNCHANGED <<callerVars, gaveUp, overtook, future>> /\ it \in Hosts
      /\ rpc \in {"erase", "eraseIt"}
  BY DEF EraseReply, EraseTimeout, IInv, RunnerInv, callerVars
<1>2. CASE EraseTimeout /\ ~valid
  <2>1. /\ UNCHANGED <<mapVars, it, rpc, packet, valid>> /\ fault' = "dangling" /\ rpc = "eraseIt"
    BY <1>2 DEF EraseTimeout
  <2>2. NodesMove /\ PromisesMove
    BY <1>1, <2>1, UnchangedMoves DEF MapMoves
  <2>3. Sent' = Sent
    BY <1>1, RunnerKeepsSent DEF IInv
  <2>4. AnsweringInv' /\ ErasingInv'
    BY <2>1, <2>3 DEF AnsweringInv, ErasingInv
  <2>5. OverdueMoves
    BY <1>1, <2>1 DEF OverdueMoves, callerVars, mapVars
  <2> QED
    BY <1>1, <1>2, <2>1, <2>2, <2>4, <2>5, RunnerStepHistory
<1>3. CASE EraseReply \/ valid
  <2>1. Erase(it) /\ rpc' \in {"idle", "visit"} /\ fault' = fault /\ (valid' \/ valid' = valid)
    BY <1>3 DEF EraseReply, EraseTimeout, Return, IInv, RunnerInv
  <2>2. ASSUME m_pendingRequests[it] # None,
               shared[m_pendingRequests[it].promise].state = "pending",
               NEW i \in Pings, future[i] = m_pendingRequests[it].promise
        PROVE  i \in Rivaled
    <3>1. i \in Last[it]
      BY <1>1, <2>2 DEF MapHistory, RequestInv
    <3> QED
      BY <1>1, <2>2, <3>1 DEF ErasingInv
  <2>3. NodesMove /\ PromisesMove
    BY <1>1, <2>1, <2>2, EraseMoves
  <2>4. AnsweringInv' /\ ErasingInv'
    BY <2>1 DEF AnsweringInv, ErasingInv
  <2>5. OverdueMoves
    <3>1. /\ m_pendingRequests'[it] = None
          /\ \A g \in Hosts : m_pendingRequests'[g] # None => m_pendingRequests[g] # None
      BY <1>1, <2>1, EraseFacts DEF IInv
    <3> QED
      BY <1>1, <2>1, <3>1 DEF OverdueMoves, callerVars
  <2> QED
    BY <1>1, <2>1, <2>3, <2>4, <2>5, RunnerStepHistory
<1> QED
  BY <1>2, <1>3
-----------------------------------------------------------------------------
LEMMA InitHistory == Init => HistoryInv
<1> SUFFICES ASSUME Init PROVE HistoryInv
  OBVIOUS
<1> USE DEF Init
<1>1. IInv
  BY InitIInv
<1>2. /\ PingInv /\ AnsweringInv /\ AskingInv /\ ErasingInv
      /\ MakerInv /\ ExpiredInv /\ GoneInv /\ DanglingNeedsBlockingPing
  BY DEF PingInv, AnsweringInv, AskingInv, ErasingInv, MakerInv, ExpiredInv, GoneInv,
         DanglingNeedsBlockingPing, Pings
<1>3. MapHistory
  BY DEF MapHistory, RequestInv, MadeUpInv, AnsweredInv, ResultsInv, ReplyIsFromPingedHost,
         LateResults, BrokenNeedsRivalPing, LostResults, HasResult
<1> QED
  BY <1>1, <1>2, <1>3 DEF HistoryInv

LEMMA NextHistory == HistoryInv /\ [Next]_vars => HistoryInv'
<1> SUFFICES ASSUME HistoryInv, [Next]_vars PROVE HistoryInv'
  OBVIOUS
<1>1. IInv'
  BY NextIInv DEF HistoryInv
<1>2. CASE UNCHANGED vars
  <2>1. UNCHANGED <<mapVars, callerVars, runnerVars, fault, gaveUp, overtook, future>>
    BY <1>2 DEF vars, callerVars
  <2>2. NodesMove /\ PromisesMove
    BY <2>1, UnchangedMoves DEF MapMoves, HistoryInv
  <2>3. /\ Sent' = Sent /\ SentTimes' = SentTimes /\ Last' = Last /\ Rivaled' = Rivaled
        /\ KeepsSent /\ MapMoves
    BY <2>1, <2>2, RunnerKeepsSent, SentKept DEF HistoryInv, IInv, MapMoves, FuturesMove, callerVars
  <2>4. rpc = "timeout" /\ valid => it \in Hosts /\ LateTimes[it] \subseteq LateTimes'[it]
    BY <1>1, <2>3, LateKept DEF HistoryInv, IInv, RunnerInv
  <2>5. AnsweringInv' /\ ErasingInv'
    BY <2>1, <2>3, <2>4 DEF HistoryInv, AnsweringInv, ErasingInv, mapVars, callerVars, runnerVars
  <2>6. OverdueMoves
    BY <2>1 DEF OverdueMoves, mapVars, callerVars, runnerVars
  <2> QED
    BY <1>1, <2>1, <2>2, <2>5, <2>6, RunnerStepHistory DEF HistoryInv, DanglingNeedsBlockingPing, runnerVars
<1>3. CASE Next
  BY <1>1, <1>3, EnvironmentHistory, CallerQuietHistory, AssignHistory, GetFutureHistory,
     GiveUpHistory, DropHistory, RunnerQuietHistory, LookupHistory, SetHistory, EraseHistory
  DEF Next, Caller, Runner
<1> QED
  BY <1>2, <1>3

(* What is said of the pings' history holds in every behaviour. *)
THEOREM History == Spec => []HistoryInv
BY InitHistory, NextHistory, PTL DEF Spec

(* A ping is only answered by the host it was sent to. *)
THEOREM RepliesFit == Spec => []ReplyIsFromPingedHost
<1>1. HistoryInv => ReplyIsFromPingedHost
  BY DEF HistoryInv, MapHistory, ResultsInv
<1> QED
  BY <1>1, History, PTL

(* Whoever was robbed lost an answer. *)
LEMMA RobbedLost ==
    ASSUME HistoryInv, NEW j \in Pings, host[j] \in Hosts, NEW p \in Lost[host[j]], p < future[j]
    PROVE  LostAnswer(j)
<1>1. p \in 1 .. Len(shared) /\ future[j] \in Nat /\ Len(shared) \in Nat
  BY IndexFacts DEF Lost, HistoryInv
<1>2. p \in 1 .. future[j] - 1
  BY <1>1
<1> QED
  BY <1>2 DEF Lost, LostAnswer

(* A ping that is reported as timed out under its own address waited the full  *)
(* timeout, or its request replaced, between a sweep's test and its set_value, *)
(* one that had expired: of an earlier ping to the host that had waited the    *)
(* full timeout, or made up for one that had lost its answer.                  *)
THEOREM TimeoutsFit == Spec => []TimeoutIsOwnAndLate
<1>1. HistoryInv => TimeoutIsOwnAndLate
  <2> SUFFICES ASSUME HistoryInv, NEW i \in Pings, HasResult(i, "error"), Result(i).ip # Zero,
                      ~(Result(i).at - sentTime[i] >= Timeout)
               PROVE  /\ Result(i).ip = host[i] /\ i \in overtook
                      /\ \E j \in 1 .. i - 1 :
                            /\ host[j] = host[i]
                            /\ Result(i).at - sentTime[j] >= Timeout \/ LostAnswer(j)
    <3>1. HistoryInv => \A i \in Pings : HasResult(i, "error") /\ Result(i).ip # Zero =>
                            Result(i).ip = host[i]
      BY DEF HistoryInv, MapHistory, ResultsInv, LateResults
    <3> QED
      BY <3>1 DEF TimeoutIsOwnAndLate
  <2>1. host[i] \in Hosts
    BY DEF HistoryInv, PingInv, HasResult
  <2>2. /\ Result(i).ip = host[i] /\ i \in overtook
        /\ \E j \in Sent[host[i]] :
              /\ j < i
              /\ Result(i).at - sentTime[j] >= Timeout \/ j \in Robbed[host[i]]
    BY DEF HistoryInv, MapHistory, ResultsInv, LateResults
  <2>3. PICK j \in Sent[host[i]] : /\ j < i
                                   /\ Result(i).at - sentTime[j] >= Timeout \/ j \in Robbed[host[i]]
    BY <2>2
  <2>4. j \in Pings /\ host[j] = host[i] /\ j \in 1 .. i - 1
    BY <2>1, <2>3, SentFacts DEF HistoryInv, IInv, Pings
  <2>5. j \in Robbed[host[i]] => LostAnswer(j)
    BY <2>1, <2>4, RobbedLost DEF Robbed
  <2> QED
    BY <2>2, <2>3, <2>4, <2>5
<1> QED
  BY <1>1, History, PTL

(* A timeout that names 0.0.0.0 stands for a promise whose result was lost. *)
THEOREM ZeroAddressesAreLostAnswers == Spec => []ZeroAddressMeansLostAnswer
<1>1. HistoryInv => ZeroAddressMeansLostAnswer
  <2> SUFFICES ASSUME HistoryInv, NEW i \in Pings, HasResult(i, "error"), Result(i).ip = Zero
               PROVE  LostAnswer(i)
    BY DEF ZeroAddressMeansLostAnswer
  <2>1. host[i] \in Hosts
    BY DEF HistoryInv, PingInv, HasResult
  <2>2. PICK p \in Lost[host[i]] : p < future[i]
    BY DEF HistoryInv, MapHistory, ResultsInv, LostResults
  <2> QED
    BY <2>1, <2>2, RobbedLost
<1> QED
  BY <1>1, History, PTL

(* A future fails with broken_promise only if its host was pinged twice or its *)
(* ping() gave up on it.                                                       *)
THEOREM BrokenNeedsRival == Spec => []BrokenNeedsRivalPing
<1>1. HistoryInv => BrokenNeedsRivalPing
  BY DEF HistoryInv, MapHistory, ResultsInv
<1> QED
  BY <1>1, History, PTL

(* A caller that only uses pingAsync never leaves the runner a dangling        *)
(* reference or iterator.                                                      *)
THEOREM DanglingNeedsBlocking == Spec => []DanglingNeedsBlockingPing
<1>1. HistoryInv => DanglingNeedsBlockingPing
  BY DEF HistoryInv
<1> QED
  BY <1>1, History, PTL
=============================================================================
