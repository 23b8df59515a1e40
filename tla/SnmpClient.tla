------------------------------ MODULE SnmpClient ------------------------------
(* net/snmp/SnmpClient: get, getBulk and walk and their Async forms.  A caller *)
(* puts a request into m_pendingRequests, hands SNMP++ a pointer to that map   *)
(* node and takes the future; SNMP++'s poll thread calls back with the pointer *)
(* when an answer or a timeout is there.  The map has no lock.  SNMP++ itself  *)
(* is external: it calls back once for each request that it accepted.          *)
EXTENDS Naturals, Sequences, FiniteSets

CONSTANTS
    NumRequests,    \* bound: how many requests the caller makes
    MibSize,        \* the agent's variables are 1..MibSize, in OID order
    MaxReps,        \* the ten repetitions a walk asks for
    MaxOdd          \* bound: callbacks for reasons other than answer or timeout

ASSUME NumRequestsAssumption == NumRequests \in Nat \ {0}
ASSUME MibAssumption == MibSize \in Nat \ {0} /\ MaxReps \in Nat \ {0}
ASSUME MaxOddAssumption == MaxOdd \in Nat

Requests == 1 .. NumRequests
EndOfMib == MibSize + 1     \* sNMP_SYNTAX_ENDOFMIBVIEW; its OID is the one asked from
NullOid  == 0               \* Vb(): before every variable

(* The variables first..last lie under a walk's OID, possibly none at all. *)
Subtrees == {s \in [first : 1 .. MibSize + 1, last : 0 .. MibSize] : s.first <= s.last + 1}

VARIABLES
    m_pendingRequests,  \* the requests whose node is in the map
    kind,               \* "none", "get" or "walk" (request.isWalk)
    walkOid,            \* the subtree a request walks
    response,           \* request.response.variables
    promise,            \* the state of the promise's shared state
    future,             \* the requests whose future the caller got
    from,               \* the variable the outstanding PDU asks the successors of
    outstanding,        \* the requests SNMP++ holds a pointer to
    cpc, cur, sync,     \* the caller, its latest request and whether it waits
    ppc, entry,         \* the poll thread and the request it is called back with
    client,             \* "alive", then "stopping", "emptied" and "gone"
    unsent,             \* requests SNMP++ did not accept; the status is ignored
    timedOut,           \* walks that got a timeout
    odd,                \* walks called back for another reason
    odds,               \* how many such callbacks there were
    fault               \* undefined behaviour or an escaped exception

callerVars  == <<cpc, cur, sync, kind, walkOid, future>>
resultVars  == <<response, promise>>
sessionVars == <<from, outstanding, unsent>>
pollVars    == <<ppc, entry>>
ghostVars   == <<timedOut, odd, odds>>
vars == <<m_pendingRequests, callerVars, resultVars, sessionVars, pollVars, client, ghostVars, fault>>

TypeOK ==
    /\ m_pendingRequests \subseteq Requests
    /\ kind \in [Requests -> {"none", "get", "walk"}]
    /\ walkOid \in [Requests -> Subtrees]
    /\ response \in [Requests -> Seq(1 .. MibSize)]
    /\ promise \in [Requests -> {"none", "pending", "value", "error", "broken"}]
    /\ future \subseteq Requests
    /\ from \in [Requests -> 0 .. MibSize]
    /\ outstanding \subseteq Requests
    /\ cpc \in {"idle", "create", "send", "future", "wait"}
    /\ cur \in 0 .. NumRequests /\ sync \in BOOLEAN
    /\ ppc \in {"poll", "erase"} /\ entry \in 0 .. NumRequests
    /\ client \in {"alive", "stopping", "emptied", "gone"}
    /\ unsent \subseteq Requests /\ timedOut \subseteq Requests /\ odd \subseteq Requests
    /\ odds \in 0 .. MaxOdd
    /\ fault \in {"none", "race", "dangling", "satisfied"}

Init ==
    /\ m_pendingRequests = {}
    /\ kind = [r \in Requests |-> "none"]
    /\ walkOid = [r \in Requests |-> [first |-> 1, last |-> 0]]
    /\ response = [r \in Requests |-> << >>]
    /\ promise = [r \in Requests |-> "none"]
    /\ future = {} /\ from = [r \in Requests |-> NullOid] /\ outstanding = {}
    /\ cpc = "idle" /\ cur = 0 /\ sync = FALSE
    /\ ppc = "poll" /\ entry = 0
    /\ client = "alive"
    /\ unsent = {} /\ timedOut = {} /\ odd = {} /\ odds = 0
    /\ fault = "none"
-----------------------------------------------------------------------------
(* The caller: getAsync, getBulkAsync or walkAsync; get, getBulk and walk then *)
(* wait for the future.                                                        *)

Request(k, subtree, wait) ==
    /\ client = "alive" /\ cpc = "idle" /\ cur < NumRequests
    /\ cpc' = "create" /\ cur' = cur + 1 /\ sync' = wait
    /\ kind' = [kind EXCEPT ![cur + 1] = k]
    /\ walkOid' = [walkOid EXCEPT ![cur + 1] = subtree]
    /\ UNCHANGED <<m_pendingRequests, future, resultVars, sessionVars, pollVars, client, ghostVars, fault>>

(* createRequest, and the walk's isWalk and walkOid *)
CreateRequest ==
    /\ cpc = "create"
    /\ cpc' = "send"
    /\ m_pendingRequests' = m_pendingRequests \cup {cur}
    /\ promise' = [promise EXCEPT ![cur] = "pending"]
    /\ from' = [from EXCEPT ![cur] = walkOid[cur].first - 1]
    /\ UNCHANGED <<cur, sync, kind, walkOid, future, response, outstanding, unsent,
                   pollVars, client, ghostVars, fault>>

(* m_snmp->get(..., callback, &request) or get_bulk: accepted or not *)
Send ==
    /\ cpc = "send"
    /\ cpc' = "future"
    /\ \/ outstanding' = outstanding \cup {cur} /\ UNCHANGED unsent
       \/ unsent' = unsent \cup {cur} /\ UNCHANGED outstanding
    /\ UNCHANGED <<m_pendingRequests, cur, sync, kind, walkOid, future, resultVars, from,
                   pollVars, client, ghostVars, fault>>

(* return request.promise.get_future(), through the reference to the node *)
GetFuture ==
    /\ cpc = "future"
    /\ IF cur \in m_pendingRequests
       THEN /\ future' = future \cup {cur}
            /\ cpc' = IF sync THEN "wait" ELSE "idle"
            /\ UNCHANGED fault
       ELSE fault' = "dangling" /\ UNCHANGED <<future, cpc>>
    /\ UNCHANGED <<m_pendingRequests, cur, sync, kind, walkOid, resultVars, sessionVars,
                   pollVars, client, ghostVars>>

(* future.get() *)
Wait ==
    /\ cpc = "wait" /\ promise[cur] # "pending"
    /\ cpc' = "idle"
    /\ UNCHANGED <<m_pendingRequests, cur, sync, kind, walkOid, future, resultVars, sessionVars,
                   pollVars, client, ghostVars, fault>>

(* ~SnmpClient: stop_poll_thread() *)
StopPollThread ==
    /\ client = "alive" /\ cpc = "idle"
    /\ client' = "stopping"
    /\ UNCHANGED <<m_pendingRequests, callerVars, resultVars, sessionVars, pollVars, ghostVars, fault>>

(* Mutant: the promises are not destroyed. *)
KeptBy(requests) == promise

(* The promises after those of `requests` are destroyed. *)
BrokenBy(requests) ==
    [r \in Requests |-> IF r \in requests /\ promise[r] = "pending" THEN "broken" ELSE promise[r]]

(* The poll thread has ended.  m_pendingRequests, the last member, goes first, *)
(* with every request's promise, while SNMP++ may still have pointers to them. *)
DestroyRequests ==
    /\ client = "stopping" /\ ppc = "poll"
    /\ client' = "emptied" /\ m_pendingRequests' = {}
    /\ promise' = BrokenBy(m_pendingRequests)
    /\ UNCHANGED <<callerVars, response, sessionVars, pollVars, ghostVars, fault>>

(* ~Snmp of m_snmp, the first member, forgets what is outstanding. *)
DestroySession ==
    /\ client = "emptied"
    /\ client' = "gone" /\ outstanding' = {}
    /\ UNCHANGED <<m_pendingRequests, callerVars, resultVars, from, unsent, pollVars, ghostVars, fault>>
-----------------------------------------------------------------------------
(* The poll thread *)

SetValue(r, state) ==
    IF promise[r] = "pending"
    THEN promise' = [promise EXCEPT ![r] = state] /\ UNCHANGED fault
    ELSE fault' = "satisfied" /\ UNCHANGED promise

(* SNMP++ calls back with request r ... *)
CalledBack(r, k) ==
    /\ client \in {"alive", "stopping"} /\ ppc = "poll"
    /\ r \in outstanding /\ kind[r] = k

(* ... and forgets it, unless the callback sends it again. *)
Forget(r) == outstanding' = outstanding \ {r} /\ UNCHANGED <<from, unsent>>

(* handleGet: an answer, a timeout or anything else; the erase is deferred. *)
HandleGet(r, state) ==
    /\ CalledBack(r, "get")
    /\ SetValue(r, state)
    /\ Forget(r)
    /\ ppc' = "erase" /\ entry' = r
    /\ UNCHANGED <<m_pendingRequests, callerVars, response, client, ghostVars>>

(* Mutant: answered requests stay. *)
Kept(r) == m_pendingRequests

Erased(r) == m_pendingRequests \ {r}

(* m_pendingRequests.erase(request->uuid) at the end of handleGet *)
EraseRequest ==
    /\ ppc = "erase"
    /\ m_pendingRequests' = Erased(entry)
    /\ ppc' = "poll" /\ entry' = 0
    /\ UNCHANGED <<callerVars, resultVars, sessionVars, client, ghostVars, fault>>

(* Mutant: a walk's timeout is not reported. *)
WalkForgotten(r) ==
    /\ CalledBack(r, "walk")
    /\ Forget(r) /\ timedOut' = timedOut \cup {r}
    /\ UNCHANGED <<m_pendingRequests, callerVars, resultVars, pollVars, client, odd, odds, fault>>

(* handleWalk with a timeout: the request stays in the map. *)
WalkTimesOut(r) ==
    /\ CalledBack(r, "walk")
    /\ SetValue(r, "error")
    /\ Forget(r) /\ timedOut' = timedOut \cup {r}
    /\ UNCHANGED <<m_pendingRequests, callerVars, response, pollVars, client, odd, odds>>

(* Mutants: the end of the MIB goes unnoticed; the comparison is one variable  *)
(* late.                                                                       *)
UnderToEnd(r, v) == v = EndOfMib \/ v \in walkOid[r].first .. walkOid[r].last
UnderLate(r, v) == v # EndOfMib /\ v <= walkOid[r].last + 1

Under(r, v) == v \in walkOid[r].first .. walkOid[r].last

(* Where the loop over the PDU's variables returns. *)
Stops(r, vbs) == {i \in DOMAIN vbs : ~Under(r, vbs[i])}

(* Mutant: the walk's request is erased after every callback. *)
WalkOnErases(r, vbs) ==
    /\ Stops(r, vbs) = {}
    /\ m_pendingRequests' = m_pendingRequests \ {r}
    /\ UNCHANGED <<resultVars, sessionVars, fault>>

(* Every variable was under the walk's OID: get_bulk from the last one, or     *)
(* from an empty Vb when there was none.                                       *)
WalkOn(r, vbs) ==
    /\ Stops(r, vbs) = {}
    /\ response' = [response EXCEPT ![r] = @ \o vbs]
    /\ from' = [from EXCEPT ![r] = IF vbs = << >> THEN NullOid ELSE vbs[Len(vbs)]]
    /\ \/ UNCHANGED <<outstanding, unsent>>
       \/ outstanding' = outstanding \ {r} /\ unsent' = unsent \cup {r}
    /\ UNCHANGED <<m_pendingRequests, promise, fault>>

(* Mutant: leaving the subtree is an error. *)
AnyError(v) == "error"

Outcome(v) == IF v = EndOfMib THEN "error" ELSE "value"

(* The loop's return at variable i: the response gets the variables before it. *)
Finish(r, vbs, i) ==
    /\ i \in Stops(r, vbs) /\ \A j \in Stops(r, vbs) : i <= j
    /\ response' = [response EXCEPT ![r] = @ \o SubSeq(vbs, 1, i - 1)]
    /\ SetValue(r, Outcome(vbs[i]))

(* Mutants: the walk goes on after its result; its request is erased. *)
WalkDoneGoesOn(r, vbs, i) == Finish(r, vbs, i) /\ UNCHANGED <<m_pendingRequests, sessionVars>>
WalkDoneErases(r, vbs, i) ==
    Finish(r, vbs, i) /\ Forget(r) /\ m_pendingRequests' = m_pendingRequests \ {r}

(* The first variable that is not: the response is complete, or, when the MIB  *)
(* has no more, replaced by an error.                                          *)
WalkDone(r, vbs, i) == Finish(r, vbs, i) /\ Forget(r) /\ UNCHANGED m_pendingRequests

HandleWalk(r, vbs) ==
    /\ CalledBack(r, "walk")
    /\ WalkOn(r, vbs) \/ \E i \in DOMAIN vbs : WalkDone(r, vbs, i)
    /\ UNCHANGED <<callerVars, pollVars, client, timedOut>>

(* The agent's answer to a get-bulk: the next n variables. *)
NextVariables(k, n) == [i \in 1 .. n |-> IF k + i <= MibSize THEN k + i ELSE EndOfMib]

WalkAnswered(r) ==
    /\ \E n \in 1 .. MaxReps : HandleWalk(r, NextVariables(from[r], n))
    /\ UNCHANGED <<odd, odds>>

(* handleWalk tells only a timeout from an answer: any other reason, or an     *)
(* answer without variables, is walked on.                                     *)
WalkOddly(r) ==
    /\ odds < MaxOdd
    /\ HandleWalk(r, << >>)
    /\ odds' = odds + 1 /\ odd' = odd \cup {r}

(* The caller is in createRequest while the poll thread erases. *)
DataRace ==
    /\ cpc = "create" /\ ppc = "erase"
    /\ fault' = "race"
    /\ UNCHANGED <<m_pendingRequests, callerVars, resultVars, sessionVars, pollVars, client, ghostVars>>

RequestSome ==
    \E wait \in BOOLEAN :
        \/ Request("get", [first |-> 1, last |-> 0], wait)
        \/ \E s \in Subtrees : Request("walk", s, wait)
Destroy == DestroyRequests \/ DestroySession
Caller == CreateRequest \/ Send \/ GetFuture \/ Wait
Poll ==
    \/ EraseRequest
    \/ \E r \in Requests :
        \/ \E state \in {"value", "error"} : HandleGet(r, state)
        \/ WalkTimesOut(r) \/ WalkAnswered(r) \/ WalkOddly(r)

Next ==
    /\ fault = "none"
    /\ RequestSome \/ Caller \/ Poll \/ StopPollThread \/ Destroy \/ DataRace

(* The caller goes on, and SNMP++ calls back for what it accepted, at the      *)
(* latest with a timeout.  A destructor that began ends.                       *)
Fairness ==
    /\ WF_vars(fault = "none" /\ Caller)
    /\ WF_vars(fault = "none" /\ Poll)
    /\ WF_vars(fault = "none" /\ Destroy)

Spec == Init /\ [][Next]_vars /\ Fairness
-----------------------------------------------------------------------------
(* Properties *)

(* No promise is set twice: a walk that has set its promise sends no further   *)
(* get-bulk, and SNMP++ has no pointer to it left.                             *)
SetOnce == fault # "satisfied"

(* A client that is only asked to walk never races and never dangles, however  *)
(* soon the callback comes: walks leave their request in the map.              *)
WalksAreSafe == fault # "none" => \E r \in Requests : kind[r] = "get"

(* SNMP++ never holds a pointer to a request that is no longer in the map,     *)
(* until the client's members are destroyed.                                   *)
PointersAreValid == client \in {"alive", "stopping"} => outstanding \subseteq m_pendingRequests

(* A request is kept without need only if it is a walk or was never sent:      *)
(* every other one in the map has an answer to come, or is being worked on.    *)
OnlyWalksAndUnsentLeak ==
    m_pendingRequests \subseteq
        outstanding \cup unsent \cup {r \in Requests : kind[r] = "walk"} \cup {cur, entry}

(* A walk returns exactly the variables under its OID, in order, unless it was *)
(* called back for another reason than an answer or a timeout.                 *)
WalkReturnsSubtree ==
    \A r \in Requests \ odd : kind[r] = "walk" /\ promise[r] = "value" =>
        response[r] = [i \in 1 .. walkOid[r].last - walkOid[r].first + 1
                            |-> walkOid[r].first + i - 1]

(* A walk that fails without a timeout was one of the agent's last subtree     *)
(* (or was called back for another reason), and has read all of it.            *)
WalkFailsOnlyAtEndOfMib ==
    \A r \in Requests \ (odd \cup timedOut) : kind[r] = "walk" /\ promise[r] = "error" =>
        walkOid[r].last = MibSize /\ Len(response[r]) = MibSize - walkOid[r].first + 1

(* When the client is gone, every future it gave out is ready. *)
FuturesEndWithClient == client \in {"emptied", "gone"} => \A r \in future : promise[r] # "pending"

(* Every request that SNMP++ accepted ends, long walks too. *)
EveryRequestEnds ==
    \A r \in Requests : r \in outstanding ~>
        promise[r] # "pending" \/ r \in unsent \/ fault # "none"
=============================================================================
