----------------------------- MODULE IcmpScanner -----------------------------
(* net/scanner/IcmpScanner on top of net/scanner/IScanner's poller.  One       *)
(* calling thread sends pings (pingAsync, or ping, which also waits); the      *)
(* TaskRunner thread polls: it matches received packets to pending requests    *)
(* by source address, and times requests out when the ring is empty.  Both     *)
(* threads use m_pendingRequests without a lock, so every access is a step of  *)
(* its own and overlapping accesses may also corrupt the map ("race").         *)
EXTENDS SocketListener, Integers, FiniteSets

CONSTANTS
    NumHosts,       \* hosts are 1..NumHosts, ordered as their map keys are
    None,           \* no map entry; also the source of a non-IPv4 packet
    NumPings,       \* bound: how many pings the caller sends
    Timeout,        \* the five seconds, in ticks
    MaxNow,         \* bound: the last instant of the clock
    MaxPackets      \* bound: how many packets arrive

ASSUME NumHostsAssumption == NumHosts \in Nat \ {0}
ASSUME NumPingsAssumption == NumPings \in Nat \ {0}
ASSUME ClockAssumption    == Timeout \in Nat \ {0} /\ MaxNow \in Nat /\ 2 * Timeout <= MaxNow
ASSUME MaxPacketsAssumption == MaxPackets \in Nat

Hosts   == 1 .. NumHosts
Zero    == 0                \* IPv4Address(): 0.0.0.0, the host of no ping
End     == NumHosts + 1     \* m_pendingRequests.end()
Pings   == 1 .. NumPings
Time    == 0 .. MaxNow
Epoch   == 0                \* TimePoint(): always more than Timeout ago

(* Of a packet only its source matters; None is one that is not IPv4. *)
ASSUME PacketAssumption == Packet = Hosts \cup {None}

(* struct Request.  The promise is the index of its shared state in `shared`. *)
Request == [dstIp : Hosts \cup {Zero}, promise : Nat \ {0}, time : Time]

(* What a promise's shared state holds.  A value remembers whose reply it is   *)
(* and the instant its responseTime (arrival - request.time) is measured from; *)
(* a timeout remembers the address it names and the instant the sweep had read. *)
Pending == [state |-> "pending", ip |-> Zero, at |-> Epoch]
Broken  == [state |-> "broken",  ip |-> Zero, at |-> Epoch]
Value(h, t)    == [state |-> "value", ip |-> h, at |-> t]
TimedOut(h, t) == [state |-> "error", ip |-> h, at |-> t]
SharedState == [state : {"pending", "broken", "value", "error"},
                ip : Hosts \cup {Zero}, at : Time]

ASSUME NoneAssumption == None \notin Int /\ None \notin Request

VARIABLES
    now,                \* the system clock
    received,           \* how many packets arrived
    m_pendingRequests,  \* [Hosts -> Request \cup {None}]
    shared,             \* the shared states of all promises made so far
    cpc,                \* where the caller is
    cur,                \* the caller's latest ping
    sync,               \* whether that ping is ping() or pingAsync()
    waitUntil,          \* when wait_for() gives up
    host, sentTime,     \* of each ping
    future,             \* index in `shared` of each ping's future, 0 if none yet
    gaveUp,             \* the pings whose ping() returned on its own timeout
    overtook,           \* history: the pings whose request replaced one that a
                        \* sweep had found expired and not yet timed out
    rpc,                \* where the runner's PingResolver::run is
    packet,             \* the packet onPacketReceived has
    it,                 \* the host whose map node the runner is at
    valid,              \* whether that node is still in the map
    time,               \* request.time, or the sweep's `now`
    fault               \* undefined behaviour or an escaped exception

netVars    == <<now, received, m_packetBuffer>>
mapVars    == <<m_pendingRequests, shared>>
pingVars   == <<cur, sync, host, sentTime>>
callerVars == <<cpc, pingVars, waitUntil, future, gaveUp, overtook>>
runnerVars == <<rpc, packet, it, valid, time>>
vars == <<netVars, mapVars, callerVars, runnerVars, fault>>

CallerPC == {"idle", "assign", "future", "wait", "giveup", "drop"}
RunnerPC == {"idle", "pop", "match", "lookup", "set", "erase",
             "visit", "timeout", "eraseIt"}
Fault == {"none", "race", "dangling", "satisfied"}

(* Every variable holds what its C++ declaration allows, and no promise of the *)
(* map is out of the heap of shared states.                                    *)
TypeOK ==
    /\ now \in Time /\ received \in 0 .. MaxPackets
    /\ ListenerTypeOK /\ Len(m_packetBuffer) <= BufferSize
    /\ m_pendingRequests \in [Hosts -> Request \cup {None}]
    /\ shared \in Seq(SharedState)
    /\ cpc \in CallerPC /\ cur \in 0 .. NumPings /\ sync \in BOOLEAN
    /\ waitUntil \in 0 .. MaxNow + Timeout
    /\ host \in [Pings -> Hosts \cup {None}]
    /\ sentTime \in [Pings -> Time]
    /\ future \in [Pings -> Nat]
    /\ gaveUp \subseteq Pings /\ overtook \subseteq Pings
    /\ rpc \in RunnerPC /\ packet \in Packet
    /\ it \in 1 .. End /\ valid \in BOOLEAN /\ time \in Time
    /\ fault \in Fault

Init ==
    /\ now = Timeout /\ received = 0 /\ ListenerInit
    /\ m_pendingRequests = [h \in Hosts |-> None]
    /\ shared = << >>
    /\ cpc = "idle" /\ cur = 0 /\ sync = FALSE /\ waitUntil = Epoch
    /\ host = [i \in Pings |-> None]
    /\ sentTime = [i \in Pings |-> Epoch]
    /\ future = [i \in Pings |-> 0]
    /\ gaveUp = {} /\ overtook = {}
    /\ rpc = "idle" /\ packet = None /\ it = End /\ valid = TRUE /\ time = Epoch
    /\ fault = "none"
-----------------------------------------------------------------------------
(* m_pendingRequests: std::map<std::string, Request>, and std::promise *)

HasPendingRequests == \E h \in Hosts : m_pendingRequests[h] # None

(* Mutant: the loop over the map never has a first node. *)
NoNextNode(k) == End

(* The node after position k in key order, end() when there is none. *)
NodesAfter(k) == {h \in Hosts : h > k /\ m_pendingRequests[h] # None}
NextNode(k) ==
    IF NodesAfter(k) = {} THEN End
    ELSE CHOOSE h \in NodesAfter(k) : \A g \in NodesAfter(k) : h <= g

(* Destroying or overwriting a request destroys its promise; if that was never *)
(* fulfilled its future is ready with broken_promise.                          *)
Abandon(h) ==
    IF m_pendingRequests[h] # None
    THEN [shared EXCEPT ![m_pendingRequests[h].promise] =
                IF @.state = "pending" THEN Broken ELSE @]
    ELSE shared

(* Mutant: an answered request stays. *)
EraseNothing(h) == UNCHANGED mapVars

Erase(h) ==
    /\ m_pendingRequests' = [m_pendingRequests EXCEPT ![h] = None]
    /\ shared' = Abandon(h)

(* operator[] on a key that may be missing: it inserts Request(). *)
FindOrInsert(h) ==
    IF m_pendingRequests[h] # None
    THEN UNCHANGED mapVars
    ELSE /\ shared' = Append(shared, Pending)
         /\ m_pendingRequests' = [m_pendingRequests EXCEPT ![h] =
                [dstIp |-> Zero, promise |-> Len(shared) + 1, time |-> Epoch]]

(* Mutant: nothing is answered before it is erased. *)
SetNothing(h, v) == UNCHANGED <<mapVars, fault>>

(* promise.set_value(v) through a reference to the node at h: undefined when   *)
(* the node is gone, and an exception nobody catches when already satisfied.   *)
SetValue(h, v) ==
    IF ~valid THEN fault' = "dangling" /\ UNCHANGED mapVars
    ELSE LET p == m_pendingRequests[h].promise IN
         /\ UNCHANGED m_pendingRequests
         /\ IF shared[p].state = "pending"
            THEN shared' = [shared EXCEPT ![p] = v] /\ UNCHANGED fault
            ELSE fault' = "satisfied" /\ UNCHANGED shared
-----------------------------------------------------------------------------
(* The calling thread *)

(* ping(h) or pingAsync(h) up to the send, whose failure is only logged. *)
Ping(h, s) ==
    /\ cpc = "idle" /\ cur < NumPings /\ now + Timeout <= MaxNow
    /\ cpc' = "assign" /\ cur' = cur + 1 /\ sync' = s
    /\ host' = [host EXCEPT ![cur + 1] = h]
    /\ sentTime' = [sentTime EXCEPT ![cur + 1] = now]
    /\ UNCHANGED <<netVars, mapVars, waitUntil, future, gaveUp, overtook, runnerVars, fault>>

(* Mutant: the address is forgotten. *)
NewRequestWithoutHost(p) == [dstIp |-> Zero, promise |-> p, time |-> sentTime[cur]]

(* Mutant: a request that replaces another keeps its time. *)
NewRequestKeepsTime(p) ==
    LET old == m_pendingRequests[host[cur]]
    IN [dstIp |-> host[cur], promise |-> p, time |-> IF old # None THEN old.time ELSE sentTime[cur]]

(* Request{host, {}, sentTime}, with promise p *)
NewRequest(p) == [dstIp |-> host[cur], promise |-> p, time |-> sentTime[cur]]

(* Mutant: emplace, which keeps the request an earlier ping left. *)
AssignKeepsOld ==
    /\ cpc = "assign"
    /\ cpc' = "future"
    /\ FindOrInsert(host[cur])
    /\ UNCHANGED <<netVars, pingVars, waitUntil, future, gaveUp, overtook, runnerVars, fault>>

(* m_pendingRequests[host] = Request{host, {}, sentTime} *)
Assign ==
    /\ cpc = "assign"
    /\ cpc' = "future"
    /\ shared' = Append(Abandon(host[cur]), Pending)
    /\ m_pendingRequests' = [m_pendingRequests EXCEPT ![host[cur]] = NewRequest(Len(shared) + 1)]
    /\ overtook' = IF rpc = "timeout" /\ it = host[cur] THEN overtook \cup {cur} ELSE overtook
    /\ UNCHANGED <<netVars, pingVars, waitUntil, future, gaveUp, runnerVars, fault>>

(* return m_pendingRequests[host].promise.get_future(), a second operator[] *)
GetFuture ==
    /\ cpc = "future"
    /\ cpc' = IF sync THEN "wait" ELSE "idle"
    /\ waitUntil' = IF sync THEN now + Timeout ELSE waitUntil
    /\ FindOrInsert(host[cur])
    /\ future' = [future EXCEPT ![cur] = m_pendingRequests'[host[cur]].promise]
    /\ UNCHANGED <<netVars, pingVars, gaveUp, overtook, runnerVars, fault>>

FutureReady(i) == future[i] # 0 /\ shared[future[i]].state # "pending"

(* ping(): wait_for() returned ready, get() returns the result or throws *)
WaitReady ==
    /\ cpc = "wait" /\ FutureReady(cur)
    /\ cpc' = "idle"
    /\ UNCHANGED <<netVars, mapVars, pingVars, waitUntil, future, gaveUp, overtook, runnerVars, fault>>

(* ping(): wait_for() returned timeout *)
WaitTimeout ==
    /\ cpc = "wait" /\ ~FutureReady(cur) /\ now >= waitUntil
    /\ cpc' = "giveup"
    /\ UNCHANGED <<netVars, mapVars, pingVars, waitUntil, future, gaveUp, overtook, runnerVars, fault>>

(* const auto& request = m_pendingRequests[host] *)
GiveUp ==
    /\ cpc = "giveup"
    /\ cpc' = "drop"
    /\ FindOrInsert(host[cur])
    /\ UNCHANGED <<netVars, pingVars, waitUntil, future, gaveUp, overtook, runnerVars, fault>>

(* m_pendingRequests.erase(host), then an error built from request.dstIp, read *)
(* through a reference to the erased node: the build may still find what the   *)
(* node held, or it dangles.  The runner, too, may hold a reference or an      *)
(* iterator to that node.                                                      *)
Drop ==
    /\ cpc = "drop"
    /\ cpc' = "idle"
    /\ Erase(host[cur])
    /\ gaveUp' = gaveUp \cup {cur}
    /\ valid' = (valid /\ it # host[cur])
    /\ fault' \in {"none", "dangling"}
    /\ UNCHANGED <<netVars, pingVars, waitUntil, future, overtook, rpc, packet, it, time>>
-----------------------------------------------------------------------------
(* The runner thread: PingResolver::run while m_running *)

(* run() returns, and its locals are gone. *)
Return ==
    /\ rpc' = "idle"
    /\ packet' = None /\ it' = End /\ valid' = TRUE /\ time' = Epoch

(* hasPendingRequests(); without any the task only runs again later *)
Poll ==
    /\ rpc = "idle" /\ HasPendingRequests
    /\ rpc' = "pop"
    /\ UNCHANGED <<netVars, mapVars, callerVars, packet, it, valid, time, fault>>

PopPacket ==
    /\ rpc = "pop"
    /\ \E p \in Packet : NextReceivedPacket(p) /\ packet' = p
    /\ rpc' = "match"
    /\ UNCHANGED <<now, received, mapVars, callerVars, it, valid, time, fault>>

(* Ring empty: handleTimeouts() reads the clock and takes begin(). *)
BeginSweep ==
    /\ rpc = "pop" /\ NoReceivedPacket
    /\ rpc' = "visit"
    /\ time' = now /\ it' = NextNode(0) /\ valid' = TRUE
    /\ UNCHANGED <<now, received, mapVars, callerVars, packet, fault>>

(* onPacketReceived: parse, early returns, and count(srcIp) *)
Match ==
    /\ rpc = "match"
    /\ IF packet \in Hosts /\ m_pendingRequests[packet] # None
       THEN rpc' = "lookup" /\ UNCHANGED <<packet, it, valid, time>>
       ELSE Return
    /\ UNCHANGED <<netVars, mapVars, callerVars, fault>>

(* Mutant: the response time is measured from the lookup. *)
LookupTimesNow ==
    /\ rpc = "lookup"
    /\ rpc' = "set"
    /\ FindOrInsert(packet)
    /\ it' = packet /\ valid' = TRUE /\ time' = now
    /\ UNCHANGED <<netVars, callerVars, packet, fault>>

(* auto& request = m_pendingRequests[srcIp], and reading request.time *)
Lookup ==
    /\ rpc = "lookup"
    /\ rpc' = "set"
    /\ FindOrInsert(packet)
    /\ it' = packet /\ valid' = TRUE
    /\ time' = m_pendingRequests'[packet].time
    /\ UNCHANGED <<netVars, callerVars, packet, fault>>

(* request.promise.set_value(response) *)
SetReply ==
    /\ rpc = "set"
    /\ rpc' = "erase"
    /\ SetValue(it, Value(packet, time))
    /\ UNCHANGED <<netVars, callerVars, packet, it, valid, time>>

(* m_pendingRequests.erase(srcIp), by key *)
EraseReply ==
    /\ rpc = "erase"
    /\ Erase(packet)
    /\ Return
    /\ UNCHANGED <<netVars, callerVars, fault>>

(* now - req.time >= defaultTimeout *)
Expired(h) == time - m_pendingRequests[h].time >= Timeout

(* handleTimeouts: the loop head and the test for expiry *)
Visit ==
    /\ rpc = "visit"
    /\ \/ /\ it = End
          /\ Return /\ UNCHANGED fault
       \/ /\ it # End /\ ~valid
          /\ fault' = "dangling" /\ UNCHANGED runnerVars
       \/ /\ it # End /\ valid
          /\ IF Expired(it)
             THEN rpc' = "timeout" /\ UNCHANGED it
             ELSE it' = NextNode(it) /\ UNCHANGED rpc
          /\ UNCHANGED <<packet, valid, time, fault>>
    /\ UNCHANGED <<netVars, mapVars, callerVars>>

(* req.promise.set_value(Error({req.dstIp, TimedOut})) *)
SetTimeout ==
    /\ rpc = "timeout"
    /\ rpc' = "eraseIt"
    /\ SetValue(it, TimedOut(m_pendingRequests[it].dstIp, time))
    /\ UNCHANGED <<netVars, callerVars, packet, it, valid, time>>

(* Mutant: erase(it) and then it++. *)
EraseThenIncrement ==
    /\ rpc = "eraseIt"
    /\ Erase(it) /\ valid' = FALSE /\ rpc' = "visit"
    /\ UNCHANGED <<netVars, callerVars, packet, it, time, fault>>

(* it = m_pendingRequests.erase(it) *)
EraseTimeout ==
    /\ rpc = "eraseIt"
    /\ \/ /\ valid
          /\ Erase(it) /\ it' = NextNode(it) /\ rpc' = "visit"
          /\ UNCHANGED fault
       \/ /\ ~valid
          /\ fault' = "dangling" /\ UNCHANGED <<mapVars, it, rpc>>
    /\ UNCHANGED <<netVars, callerVars, packet, valid, time>>
-----------------------------------------------------------------------------
(* The network, the clock, and unsynchronised accesses *)

(* Any host may send an ICMP packet at any time, answering a ping or not. *)
Receive ==
    /\ received < MaxPackets
    /\ received' = received + 1
    /\ \E p \in Packet : HandleReceive(p)
    /\ UNCHANGED <<now, mapVars, callerVars, runnerVars, fault>>

Tick ==
    /\ now < MaxNow
    /\ now' = now + 1
    /\ UNCHANGED <<received, m_packetBuffer, mapVars, callerVars, runnerVars, fault>>

CallerAccesses == cpc \in {"assign", "future", "giveup", "drop"}
RunnerAccesses == rpc \in {"match", "lookup", "set", "erase", "visit", "timeout", "eraseIt"}
CallerModifies == cpc \in {"assign", "drop"} \/ m_pendingRequests[host[cur]] = None
RunnerModifies == rpc \in {"erase", "eraseIt"}

(* Both threads are inside the map at once and one of them changes it. *)
DataRace ==
    /\ CallerAccesses /\ RunnerAccesses /\ (CallerModifies \/ RunnerModifies)
    /\ fault' = "race"
    /\ UNCHANGED <<netVars, mapVars, callerVars, runnerVars>>

Caller == Assign \/ GetFuture \/ WaitReady \/ WaitTimeout \/ GiveUp \/ Drop
Runner == Poll \/ PopPacket \/ BeginSweep \/ Match \/ Lookup \/ SetReply \/ EraseReply
              \/ Visit \/ SetTimeout \/ EraseTimeout
PingSome == \E h \in Hosts, s \in BOOLEAN : Ping(h, s)

Next ==
    /\ fault = "none"
    /\ PingSome \/ Caller \/ Runner \/ Receive \/ Tick \/ DataRace

(* A thread that can go on does, and time passes.  No fairness for the network *)
(* or for new pings.                                                           *)
Fairness ==
    /\ WF_vars(fault = "none" /\ Caller)
    /\ WF_vars(fault = "none" /\ Runner)
    /\ WF_vars(fault = "none" /\ Tick)

Spec == Init /\ [][Next]_vars /\ Fairness
-----------------------------------------------------------------------------
(* Properties *)

Result(i) == shared[future[i]]
HasResult(i, state) == future[i] # 0 /\ Result(i).state = state

(* set_value never throws promise_already_satisfied (which would end the       *)
(* runner's thread and with it the program), although the two threads race on  *)
(* the request whose promise is being fulfilled.                               *)
SetOnce == fault # "satisfied"

(* get_future never throws future_already_retrieved: no two pings share a      *)
(* promise, even when the request was completed between the two operator[].    *)
DistinctFutures ==
    \A i, j \in Pings : i # j /\ future[i] # 0 => future[i] # future[j]

(* A ping is only answered by the host it was sent to, and its response time   *)
(* is measured from the sending of a ping to that host no later than it, or    *)
(* from the epoch when operator[] had to make up the request.                  *)
ReplyIsFromPingedHost ==
    \A i \in Pings : HasResult(i, "value") =>
        /\ Result(i).ip = host[i]
        /\ \/ Result(i).at = Epoch
           \/ \E j \in 1 .. i : host[j] = host[i] /\ Result(i).at = sentTime[j]

(* The request that pingAsync(i) made was completed before it took its future: *)
(* the promise is settled, and nobody has or will have that result.            *)
LostAnswer(i) ==
    \E p \in 1 .. future[i] - 1 :
        /\ shared[p].state = "broken" \/ shared[p].ip = host[i]
        /\ shared[p].state # "pending"
        /\ \A j \in Pings : future[j] # p

(* A ping that is reported as timed out under its own address waited the full  *)
(* timeout, with one exception: it was stored between a sweep's test for       *)
(* expiry and that sweep's set_value, over a request that had itself expired.  *)
(* That was the request of an earlier ping to the host, sent the full timeout  *)
(* before the sweep, or one that operator[] made up, dated at the epoch, when  *)
(* an earlier ping to the host had lost its answer.                            *)
TimeoutIsOwnAndLate ==
    \A i \in Pings : HasResult(i, "error") /\ Result(i).ip # Zero =>
        /\ Result(i).ip = host[i]
        /\ \/ Result(i).at - sentTime[i] >= Timeout
           \/ /\ i \in overtook
              /\ \E j \in 1 .. i - 1 :
                    /\ host[j] = host[i]
                    /\ Result(i).at - sentTime[j] >= Timeout \/ LostAnswer(j)

(* A timeout that names 0.0.0.0 is never a real one: the request made for the  *)
(* ping had been completed before pingAsync took its future, and that answer   *)
(* was lost with its promise.                                                  *)
ZeroAddressMeansLostAnswer ==
    \A i \in Pings : HasResult(i, "error") /\ Result(i).ip = Zero => LostAnswer(i)

(* A future fails with broken_promise only when another ping to the same host  *)
(* overwrote or outlived the request, or ping() itself gave up on it.          *)
BrokenNeedsRivalPing ==
    \A i \in Pings : HasResult(i, "broken") =>
        i \in gaveUp \/ \E j \in Pings \ {i} : host[j] = host[i]

(* Only the erase in the blocking ping() can make a reference or an iterator   *)
(* dangle, the runner's or ping()'s own: a caller that only uses pingAsync     *)
(* never causes it.                                                            *)
DanglingNeedsBlockingPing == fault = "dangling" => gaveUp # {}

(* Every ping ends: its future becomes ready, by a reply, a timeout or a       *)
(* broken promise, unless undefined behaviour came first.                      *)
EveryPingEnds ==
    \A i \in Pings : cur >= i ~> FutureReady(i) \/ fault # "none"
=============================================================================
