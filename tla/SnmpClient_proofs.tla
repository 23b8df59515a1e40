--------------------------- MODULE SnmpClient_proofs ---------------------------
(* Proofs about SnmpClient, for any number of requests, size of the agent's    *)
(* MIB and number of repetitions.                                              *)
EXTENDS SnmpClient, SequenceTheorems, TLAPS

(* The variables a..b as a walk collects them. *)
Segment(a, b) == [i \in 1 .. b - a + 1 |-> a + i - 1]

Living == client \in {"alive", "stopping"}

(* The request cur + 1 and those after it do not exist yet, and cur has no     *)
(* node before createRequest.                                                  *)
Made(r) == r <= cur /\ ~(cpc = "create" /\ r = cur)

(* The caller: what exists of its latest request. *)
CallerInv ==
    /\ cpc # "idle" => cur \in Requests /\ client = "alive" /\ kind[cur] # "none"
    /\ cpc = "send" => cur \in m_pendingRequests /\ promise[cur] = "pending" /\ cur \notin outstanding
    /\ \A r \in Requests : ~Made(r) => promise[r] = "none" /\ response[r] = << >>

(* SNMP++: what it points to is in the map and has no result yet. *)
PointerInv ==
    Living => \A r \in outstanding : r \in m_pendingRequests /\ promise[r] = "pending"

(* The poll thread: what it is about to erase is a get that has its result. *)
PollInv ==
    ppc = "erase" => /\ entry \in Requests /\ entry \notin outstanding
                     /\ kind[entry] = "get" /\ promise[entry] \notin {"none", "pending"}

(* A walk's request stays in the map. *)
KeepInv ==
    Living => \A r \in Requests : kind[r] = "walk" /\ Made(r) => r \in m_pendingRequests

(* How far each walk has come. *)
WalkInv ==
    \A r \in Requests \ odd : kind[r] = "walk" =>
        LET first == walkOid[r].first  last == walkOid[r].last IN
        /\ promise[r] = "pending" =>
                from[r] \in first - 1 .. last /\ response[r] = Segment(first, from[r])
        /\ promise[r] = "value" => response[r] = Segment(first, last)
        /\ promise[r] = "error" /\ r \notin timedOut =>
                last = MibSize /\ response[r] = Segment(first, last)

IInv == TypeOK /\ CallerInv /\ PointerInv /\ PollInv /\ KeepInv /\ WalkInv /\ SetOnce /\ WalksAreSafe

USE DEF callerVars, resultVars, sessionVars, pollVars, ghostVars
-----------------------------------------------------------------------------
LEMMA InitIInv == Init => IInv
<1> SUFFICES ASSUME Init PROVE IInv
  OBVIOUS
<1> USE NumRequestsAssumption, MibAssumption, MaxOddAssumption
<1>1. [first |-> 1, last |-> 0] \in Subtrees
  BY DEF Subtrees
<1>2. << >> \in Seq(1 .. MibSize)
  OBVIOUS
<1>3. TypeOK
  <2>1. walkOid \in [Requests -> Subtrees] /\ response \in [Requests -> Seq(1 .. MibSize)]
    BY <1>1, <1>2 DEF Init
  <2>2. from \in [Requests -> 0 .. MibSize] /\ cur \in 0 .. NumRequests /\ odds \in 0 .. MaxOdd
        /\ entry \in 0 .. NumRequests
    BY DEF Init, NullOid
  <2> QED
    BY <2>1, <2>2 DEF Init, TypeOK
<1>4. CallerInv /\ PointerInv /\ PollInv /\ KeepInv
  BY DEF Init, CallerInv, PointerInv, PollInv, KeepInv, Made, Living, Requests
<1>5. WalkInv /\ SetOnce /\ WalksAreSafe
  BY DEF Init, WalkInv, SetOnce, WalksAreSafe
<1> QED
  BY <1>3, <1>4, <1>5 DEF IInv
-----------------------------------------------------------------------------
(* The caller's steps *)

LEMMA RequestStep ==
    ASSUME IInv, fault = "none", NEW k \in {"get", "walk"}, NEW s \in Subtrees,
           NEW wait \in BOOLEAN, Request(k, s, wait)
    PROVE  IInv'
<1> USE NumRequestsAssumption DEF Requests
<1> DEFINE new == cur + 1
<1>0. /\ new \in Requests /\ ~Made(new) /\ promise[new] = "none" /\ response[new] = << >>
      /\ client = "alive" /\ cpc = "idle"
  BY DEF IInv, TypeOK, CallerInv, Request, Made
<1>1. TypeOK'
  <2>1. cur' \in 0 .. NumRequests
    BY <1>0 DEF Request
  <2>2. kind' \in [Requests -> {"none", "get", "walk"}] /\ walkOid' \in [Requests -> Subtrees]
    BY <1>0 DEF IInv, TypeOK, Request
  <2> QED
    BY <2>1, <2>2 DEF IInv, TypeOK, Request
<1>2. \A r \in Requests : ~Made(r)' => ~Made(r)
  BY <1>0 DEF IInv, TypeOK, Made, Request
<1>2a. \A r \in Requests : Made(r)' => r # new
  BY <1>0 DEF IInv, TypeOK, Made, Request
<1>3. CallerInv'
  BY <1>0, <1>2 DEF IInv, TypeOK, CallerInv, Request
<1>4. PointerInv' /\ PollInv'
  BY <1>0 DEF IInv, TypeOK, PointerInv, PollInv, Request, Living
<1>5. KeepInv'
  <2> SUFFICES ASSUME Living', NEW r \in Requests, kind'[r] = "walk", Made(r)'
               PROVE  r \in m_pendingRequests'
    BY DEF KeepInv
  <2>1. r # new /\ kind[r] = "walk" /\ r <= cur
    BY <1>2a, <1>0 DEF IInv, TypeOK, Request, Made
  <2> QED
    BY <2>1, <1>0 DEF IInv, KeepInv, Living, Made, Request
<1>6. WalkInv'
  <2>1. \A r \in Requests : promise'[r] = promise[r] /\ response'[r] = response[r] /\ from'[r] = from[r]
            /\ (r # new => kind'[r] = kind[r] /\ walkOid'[r] = walkOid[r])
    BY <1>0 DEF IInv, TypeOK, Request
  <2>2. odd' = odd /\ timedOut' = timedOut
    BY DEF Request
  <2> QED
    BY <1>0, <2>1, <2>2 DEF IInv, WalkInv
<1>7. SetOnce' /\ WalksAreSafe'
  BY DEF SetOnce, WalksAreSafe, Request
<1> QED
  BY <1>1, <1>3, <1>4, <1>5, <1>6, <1>7 DEF IInv

LEMMA CreateRequestStep ==
    ASSUME IInv, fault = "none", CreateRequest
    PROVE  IInv'
<1> USE NumRequestsAssumption, MibAssumption DEF Requests
<1>0. /\ cur \in Requests /\ client = "alive" /\ cpc = "create" /\ ~Made(cur)
      /\ promise[cur] = "none" /\ response[cur] = << >> /\ kind[cur] # "none"
  BY DEF IInv, TypeOK, CallerInv, CreateRequest, Made
<1>1. /\ walkOid[cur].first \in 1 .. MibSize + 1 /\ walkOid[cur].last \in 0 .. MibSize
      /\ walkOid[cur].first <= walkOid[cur].last + 1
  BY <1>0 DEF IInv, TypeOK, Subtrees
<1>2. TypeOK'
  <2>1. promise' \in [Requests -> {"none", "pending", "value", "error", "broken"}]
    BY <1>0 DEF IInv, TypeOK, CreateRequest
  <2>2. walkOid[cur].first - 1 \in 0 .. MibSize
    BY <1>1
  <2>3. from' \in [Requests -> 0 .. MibSize]
    BY <2>2 DEF IInv, TypeOK, CreateRequest
  <2> QED
    BY <1>0, <2>1, <2>3 DEF IInv, TypeOK, CreateRequest
<1>3. \A r \in Requests : (Made(r)' <=> r <= cur) /\ (~Made(r)' => ~Made(r) /\ r # cur)
  BY <1>0 DEF IInv, TypeOK, Made, CreateRequest
<1>4. CallerInv'
  <2>1. cur \notin outstanding
    BY <1>0 DEF IInv, PointerInv, Living
  <2> QED
    BY <1>0, <1>3, <2>1 DEF IInv, TypeOK, CallerInv, CreateRequest
<1>5. PointerInv' /\ PollInv'
  BY <1>0 DEF IInv, TypeOK, PointerInv, PollInv, CreateRequest, Living
<1>6. KeepInv'
  BY <1>0, <1>3 DEF IInv, TypeOK, KeepInv, CreateRequest, Living, Made
<1>7. WalkInv'
  <2>1. Segment(walkOid[cur].first, walkOid[cur].first - 1) = << >>
    BY <1>1 DEF Segment
  <2>2. \A r \in Requests : r # cur => promise'[r] = promise[r] /\ from'[r] = from[r]
    BY <1>0 DEF IInv, TypeOK, CreateRequest
  <2>3. promise'[cur] = "pending" /\ from'[cur] = walkOid[cur].first - 1
    BY <1>0 DEF IInv, TypeOK, CreateRequest
  <2>4. UNCHANGED <<kind, walkOid, response, odd, timedOut>>
    BY DEF CreateRequest
  <2>5. from'[cur] \in walkOid[cur].first - 1 .. walkOid[cur].last
    BY <2>3, <1>1
  <2> QED
    BY <1>0, <2>1, <2>2, <2>3, <2>4, <2>5 DEF IInv, WalkInv
<1>8. SetOnce' /\ WalksAreSafe'
  BY DEF SetOnce, WalksAreSafe, CreateRequest
<1> QED
  BY <1>2, <1>4, <1>5, <1>6, <1>7, <1>8 DEF IInv

LEMMA SendStep ==
    ASSUME IInv, fault = "none", Send
    PROVE  IInv'
<1> USE NumRequestsAssumption DEF Requests
<1>0. cur \in Requests /\ cpc = "send" /\ client = "alive" /\ promise[cur] = "pending"
      /\ cur \in m_pendingRequests
  BY DEF IInv, CallerInv, Send
<1>1. TypeOK'
  BY <1>0 DEF IInv, TypeOK, Send
<1>2. \A r \in Requests : Made(r)' <=> Made(r)
  BY <1>0 DEF Made, Send
<1>3. CallerInv'
  BY <1>0, <1>2 DEF IInv, CallerInv, Send
<1>4. PointerInv' /\ PollInv' /\ KeepInv'
  BY <1>0, <1>2 DEF IInv, PointerInv, PollInv, KeepInv, Send, Living
<1>5. WalkInv' /\ SetOnce' /\ WalksAreSafe'
  BY DEF IInv, WalkInv, SetOnce, WalksAreSafe, Send
<1> QED
  BY <1>1, <1>3, <1>4, <1>5 DEF IInv

LEMMA FutureStep ==
    ASSUME IInv, fault = "none", GetFuture \/ Wait \/ StopPollThread
    PROVE  IInv'
<1> USE NumRequestsAssumption DEF Requests
<1>1. TypeOK'
  BY DEF IInv, TypeOK, CallerInv, GetFuture, Wait, StopPollThread
<1>2. \A r \in Requests : Made(r)' <=> Made(r)
  BY DEF Made, GetFuture, Wait, StopPollThread
<1>3. CallerInv'
  BY <1>2 DEF IInv, CallerInv, GetFuture, Wait, StopPollThread
<1>4. PointerInv' /\ PollInv'
  BY DEF IInv, PointerInv, PollInv, GetFuture, Wait, StopPollThread, Living
<1>5. KeepInv'
  BY <1>2 DEF IInv, KeepInv, GetFuture, Wait, StopPollThread, Living
<1>6. WalkInv' /\ SetOnce'
  BY DEF IInv, WalkInv, SetOnce, GetFuture, Wait, StopPollThread
<1>7. WalksAreSafe'
  <2>1. CASE GetFuture /\ cur \notin m_pendingRequests
    <3>1. cur \in Requests /\ client = "alive" /\ kind[cur] # "none" /\ Made(cur)
      BY <2>1 DEF IInv, TypeOK, CallerInv, GetFuture, Made
    <3>2. kind[cur] = "get"
      BY <2>1, <3>1 DEF IInv, TypeOK, KeepInv, Living
    <3> QED
      BY <2>1, <3>1, <3>2 DEF WalksAreSafe, GetFuture
  <2>2. CASE ~(GetFuture /\ cur \notin m_pendingRequests)
    BY <2>2 DEF WalksAreSafe, GetFuture, Wait, StopPollThread
  <2> QED
    BY <2>1, <2>2
<1> QED
  BY <1>1, <1>3, <1>4, <1>5, <1>6, <1>7 DEF IInv

LEMMA DestroyStep ==
    ASSUME IInv, fault = "none", Destroy
    PROVE  IInv'
<1> USE NumRequestsAssumption DEF Requests, Destroy, DestroyRequests, DestroySession
<1>1. TypeOK'
  BY DEF IInv, TypeOK, BrokenBy
<1>2. \A r \in Requests : promise'[r] = promise[r] \/ (promise[r] = "pending" /\ promise'[r] = "broken")
  BY DEF BrokenBy
<1>3. CallerInv'
  BY <1>2 DEF IInv, CallerInv, Made
<1>4. PointerInv' /\ PollInv' /\ KeepInv'
  BY <1>2 DEF IInv, PointerInv, PollInv, KeepInv, Living
<1>5. WalkInv' /\ SetOnce' /\ WalksAreSafe'
  BY <1>2 DEF IInv, WalkInv, SetOnce, WalksAreSafe
<1> QED
  BY <1>1, <1>3, <1>4, <1>5 DEF IInv
-----------------------------------------------------------------------------
(* The poll thread's steps *)

(* A request that is called back is in the map and has no result yet. *)
LEMMA CalledBackFacts ==
    ASSUME IInv, NEW r, NEW k, CalledBack(r, k)
    PROVE  /\ r \in Requests /\ r \in m_pendingRequests /\ promise[r] = "pending"
           /\ r \in outstanding /\ kind[r] = k /\ Made(r) /\ Living
           /\ ~(cpc = "send" /\ r = cur)
BY DEF IInv, TypeOK, CallerInv, PointerInv, CalledBack, Living

(* What every callback keeps, when it does not touch another request. *)
LEMMA CallbackKeeps ==
    ASSUME IInv, NEW r, NEW k, CalledBack(r, k), m_pendingRequests' = m_pendingRequests,
           callerVars' = callerVars, client' = client,
           outstanding' \subseteq outstanding, fault' = fault,
           \A q \in Requests : q # r => promise'[q] = promise[q] /\ response'[q] = response[q],
           r \in outstanding' => promise'[r] = "pending"
    PROVE  CallerInv' /\ PointerInv' /\ KeepInv' /\ SetOnce' /\ WalksAreSafe'
<1>0. /\ r \in Requests /\ r \in m_pendingRequests /\ promise[r] = "pending"
      /\ r \in outstanding /\ Made(r) /\ Living /\ ~(cpc = "send" /\ r = cur)
  BY CalledBackFacts
<1>1. \A q \in Requests : Made(q)' <=> Made(q)
  BY DEF Made
<1>2. CallerInv'
  BY <1>0, <1>1 DEF IInv, CallerInv
<1>3. PointerInv' /\ KeepInv'
  BY <1>1 DEF IInv, TypeOK, PointerInv, KeepInv, Living
<1>4. SetOnce' /\ WalksAreSafe'
  BY DEF IInv, SetOnce, WalksAreSafe
<1> QED
  BY <1>2, <1>3, <1>4

LEMMA HandleGetStep ==
    ASSUME IInv, fault = "none", NEW r \in Requests, NEW state \in {"value", "error"},
           HandleGet(r, state)
    PROVE  IInv'
<1>0. CalledBack(r, "get") /\ promise[r] = "pending" /\ kind[r] = "get" /\ Living
  BY CalledBackFacts DEF HandleGet
<1>1. promise' = [promise EXCEPT ![r] = state] /\ fault' = fault
  BY <1>0 DEF HandleGet, SetValue
<1>2. TypeOK'
  <2>1. promise' \in [Requests -> {"none", "pending", "value", "error", "broken"}]
    BY <1>1 DEF IInv, TypeOK
  <2>2. outstanding' \subseteq Requests /\ entry' \in 0 .. NumRequests
    BY NumRequestsAssumption DEF IInv, TypeOK, HandleGet, Forget, Requests
  <2> QED
    BY <1>1, <2>1, <2>2 DEF IInv, TypeOK, HandleGet, Forget
<1>3. CallerInv' /\ PointerInv' /\ KeepInv' /\ SetOnce' /\ WalksAreSafe'
  <2>1. r \notin outstanding' /\ outstanding' \subseteq outstanding
    BY DEF HandleGet, Forget
  <2> QED
    BY <1>0, <1>1, <2>1, CallbackKeeps DEF HandleGet, IInv, TypeOK
<1>4. PollInv'
  BY <1>0, <1>1 DEF IInv, TypeOK, PollInv, HandleGet, Forget
<1>5. WalkInv'
  BY <1>0, <1>1 DEF IInv, TypeOK, WalkInv, HandleGet, Forget
<1> QED
  BY <1>2, <1>3, <1>4, <1>5 DEF IInv

LEMMA EraseRequestStep ==
    ASSUME IInv, fault = "none", EraseRequest
    PROVE  IInv'
<1>0. entry \in Requests /\ entry \notin outstanding /\ kind[entry] = "get"
      /\ promise[entry] \notin {"none", "pending"}
  BY DEF IInv, PollInv, EraseRequest
<1>1. TypeOK'
  BY NumRequestsAssumption DEF IInv, TypeOK, EraseRequest, Erased
<1>2. CallerInv' /\ PointerInv' /\ KeepInv'
  BY <1>0 DEF IInv, TypeOK, CallerInv, PointerInv, KeepInv, EraseRequest, Erased, Made, Living
<1>3. PollInv' /\ WalkInv' /\ SetOnce' /\ WalksAreSafe'
  BY DEF IInv, PollInv, WalkInv, SetOnce, WalksAreSafe, EraseRequest
<1> QED
  BY <1>1, <1>2, <1>3 DEF IInv

LEMMA WalkTimesOutStep ==
    ASSUME IInv, fault = "none", NEW r \in Requests, WalkTimesOut(r)
    PROVE  IInv'
<1>0. CalledBack(r, "walk") /\ promise[r] = "pending" /\ kind[r] = "walk" /\ Living
  BY CalledBackFacts DEF WalkTimesOut
<1>1. promise' = [promise EXCEPT ![r] = "error"] /\ fault' = fault
  BY <1>0 DEF WalkTimesOut, SetValue
<1>2. TypeOK'
  <2>1. promise' \in [Requests -> {"none", "pending", "value", "error", "broken"}]
    BY <1>1 DEF IInv, TypeOK
  <2> QED
    BY <1>1, <2>1 DEF IInv, TypeOK, WalkTimesOut, Forget
<1>3. CallerInv' /\ PointerInv' /\ KeepInv' /\ SetOnce' /\ WalksAreSafe'
  <2>1. r \notin outstanding' /\ outstanding' \subseteq outstanding
    BY DEF WalkTimesOut, Forget
  <2> QED
    BY <1>0, <1>1, <2>1, CallbackKeeps DEF WalkTimesOut, IInv, TypeOK
<1>4. PollInv'
  BY <1>0 DEF PollInv, WalkTimesOut, CalledBack
<1>5. WalkInv'
  <2>1. UNCHANGED <<kind, walkOid, response, odd>> /\ timedOut' = timedOut \cup {r}
        /\ from' = from
    BY DEF WalkTimesOut, Forget
  <2>2. \A q \in Requests : q # r => promise'[q] = promise[q]
    BY <1>1 DEF IInv, TypeOK
  <2>3. promise'[r] = "error" /\ r \in timedOut'
    BY <1>1, <2>1 DEF IInv, TypeOK
  <2> QED
    BY <2>1, <2>2, <2>3 DEF IInv, WalkInv
<1> QED
  BY <1>2, <1>3, <1>4, <1>5 DEF IInv
-----------------------------------------------------------------------------
(* A sequence belongs to Seq(S) when its elements belong to S. *)
LEMMA SeqOfElements ==
    ASSUME NEW T, NEW S, NEW s \in Seq(T), \A i \in 1 .. Len(s) : s[i] \in S
    PROVE  s \in Seq(S)
<1>1. s \in [1 .. Len(s) -> S] /\ Len(s) \in Nat
  BY LenProperties
<1>2. s \in UNION {[1 .. n -> S] : n \in Nat}
  BY <1>1
<1> QED
  BY <1>2, SeqDef, Zenon

(* t holds the variables after k. *)
Follows(t, k) == \A i \in 1 .. Len(t) : t[i] = k + i

(* A walk's segment goes on with the variables that follow it. *)
LEMMA SegmentGrows ==
    ASSUME NEW a \in Nat \ {0}, NEW k \in Nat, k >= a - 1, NEW n \in Nat,
           NEW t \in Seq(Nat), Len(t) = n, Follows(t, k)
    PROVE  Segment(a, k) \o t = Segment(a, k + n)
<1> DEFINE s == Segment(a, k)
<1> DEFINE u == Segment(a, k + n)
<1>1. s \in Seq(Nat) /\ Len(s) = k - a + 1
  BY DEF Segment
<1>2. t \in Seq(Nat) /\ Len(t) = n
  OBVIOUS
<1>3. u \in Seq(Nat) /\ Len(u) = k + n - a + 1
  BY DEF Segment
<1>4. /\ \A i \in 1 .. k - a + 1 : s[i] = a + i - 1
      /\ \A i \in 1 .. n : t[i] = k + i
      /\ \A i \in 1 .. k + n - a + 1 : u[i] = a + i - 1
  BY DEF Segment, Follows
<1> HIDE DEF s, u
<1>5. s \o t \in Seq(Nat) /\ Len(s \o t) = k + n - a + 1
  BY <1>1, <1>2
<1>6. ASSUME NEW i \in 1 .. k + n - a + 1
      PROVE  (s \o t)[i] = u[i]
  <2>0. i <= k - a + 1 \/ i > k - a + 1
    OBVIOUS
  <2>1. CASE i <= k - a + 1
    BY <1>1, <1>2, <1>4, <2>1
  <2>2. CASE i > k - a + 1
    <3>1. i - (k - a + 1) \in 1 .. n /\ i \in Nat /\ k - a + 1 \in Nat
      BY <2>2
    <3>2. (s \o t)[i] = t[i - (k - a + 1)]
      BY <1>1, <1>2, <2>2, <3>1
    <3> QED
      BY <1>4, <3>1, <3>2
  <2> QED
    BY <2>0, <2>1, <2>2
<1>7. s \o t = u
  BY <1>3, <1>5, <1>6, SeqEqual
<1> QED
  BY <1>7 DEF s, u

(* A variable of the agent's answer is the end of the MIB, or it follows.      *)
LEMMA NextFollows ==
    ASSUME NEW k \in Nat, NEW n \in Nat, NEW j \in 1 .. n, NextVariables(k, n)[j] \in 1 .. MibSize
    PROVE  NextVariables(k, n)[j] = k + j
BY MibAssumption DEF NextVariables, EndOfMib

(* A walk of a..last has come to k, and t begins the agent's answer of n       *)
(* variables and lies under the walk's OID.                                    *)
Advances(t, k, n, a, last) ==
    /\ a \in Nat \ {0} /\ last \in 0 .. MibSize /\ k \in Nat /\ k \in a - 1 .. last
    /\ n \in Nat /\ t \in Seq(Nat) /\ Len(t) <= n
    /\ \A j \in 1 .. Len(t) : t[j] = NextVariables(k, n)[j] /\ t[j] \in a .. last

(* So the walk has read a longer segment of its subtree. *)
LEMMA WalkAdvances ==
    ASSUME NEW a, NEW last, NEW k, NEW n, NEW t, Advances(t, k, n, a, last)
    PROVE  /\ Follows(t, k)
           /\ k + Len(t) \in a - 1 .. last
           /\ Segment(a, k) \o t = Segment(a, k + Len(t))
<1>. /\ a \in Nat \ {0} /\ last \in 0 .. MibSize /\ k \in Nat /\ k \in a - 1 .. last
     /\ n \in Nat /\ t \in Seq(Nat) /\ Len(t) <= n
  BY DEF Advances
<1>0. PICK m \in 0 .. n : Len(t) = m
  OBVIOUS
<1>1. ASSUME NEW j \in 1 .. m
      PROVE  t[j] = k + j /\ k + j <= last
  <2>1. t[j] = NextVariables(k, n)[j] /\ t[j] \in a .. last
    BY <1>0 DEF Advances
  <2>2. j \in 1 .. n /\ NextVariables(k, n)[j] \in 1 .. MibSize
    BY <2>1, MibAssumption
  <2>3. t[j] = k + j
    BY <2>1, <2>2, NextFollows
  <2> QED
    BY <2>1, <2>3, MibAssumption
<1>2. k + m \in a - 1 .. last
  BY <1>1, MibAssumption
<1>3. Follows(t, k) /\ k >= a - 1 /\ m \in Nat
  BY <1>0, <1>1 DEF Follows
<1>4. Segment(a, k) \o t = Segment(a, k + m)
  BY <1>0, <1>3, SegmentGrows
<1> QED
  BY <1>0, <1>2, <1>3, <1>4

(* vbs is what the agent answers. *)
Answers(r, vbs) == \E n \in Nat \ {0} : vbs = NextVariables(from[r], n)

(* A callback of a walk that is no timeout, with the variables vbs: what the   *)
(* agent answers with, unless the request is in odd'.                          *)
LEMMA WalkOnStep ==
    ASSUME IInv, fault = "none", NEW r \in Requests, NEW vbs \in Seq(Nat),
           CalledBack(r, "walk"), WalkOn(r, vbs), UNCHANGED <<callerVars, pollVars, client, timedOut>>,
           odd' \in SUBSET Requests, odds' \in 0 .. MaxOdd, odd \subseteq odd',
           r \in odd' \/ Answers(r, vbs)
    PROVE  IInv'
<1>0. promise[r] = "pending" /\ kind[r] = "walk" /\ r \in outstanding
  BY CalledBackFacts
<1>1. \A i \in 1 .. Len(vbs) : vbs[i] \in walkOid[r].first .. walkOid[r].last
  BY DEF WalkOn, Stops, Under
<1>2. walkOid[r].first \in 1 .. MibSize + 1 /\ walkOid[r].last \in 0 .. MibSize
  BY DEF IInv, TypeOK, Subtrees
<1>3. vbs \in Seq(1 .. MibSize)
  <2>1. \A i \in 1 .. Len(vbs) : vbs[i] \in 1 .. MibSize
    BY <1>1, <1>2, MibAssumption
  <2> QED
    BY <2>1, SeqOfElements
<1>4. TypeOK'
  <2>1. response' \in [Requests -> Seq(1 .. MibSize)]
    <3>1. response[r] \o vbs \in Seq(1 .. MibSize)
      BY <1>3 DEF IInv, TypeOK
    <3> QED
      BY <3>1 DEF IInv, TypeOK, WalkOn
  <2>2. from' \in [Requests -> 0 .. MibSize]
    <3>1. (IF vbs = << >> THEN NullOid ELSE vbs[Len(vbs)]) \in 0 .. MibSize
      BY <1>3, MibAssumption DEF NullOid
    <3> QED
      BY <3>1 DEF IInv, TypeOK, WalkOn
  <2>3. outstanding' \subseteq Requests /\ unsent' \subseteq Requests
    BY DEF IInv, TypeOK, WalkOn
  <2> QED
    BY <2>1, <2>2, <2>3 DEF IInv, TypeOK, WalkOn
<1>5. CallerInv' /\ PointerInv' /\ KeepInv' /\ SetOnce' /\ WalksAreSafe'
  <2>1. \A q \in Requests : q # r => promise'[q] = promise[q] /\ response'[q] = response[q]
    BY DEF IInv, TypeOK, WalkOn
  <2>2. /\ m_pendingRequests' = m_pendingRequests /\ callerVars' = callerVars /\ client' = client
        /\ outstanding' \subseteq outstanding /\ fault' = fault /\ promise' = promise
    BY DEF WalkOn
  <2> QED
    BY <1>0, <2>1, <2>2, CallbackKeeps
<1>6. PollInv'
  BY DEF CalledBack, PollInv
<1>7. WalkInv'
  <2>1. \A q \in Requests : q # r => response'[q] = response[q] /\ from'[q] = from[q]
    BY DEF IInv, TypeOK, WalkOn
  <2>2. UNCHANGED <<kind, walkOid, promise, timedOut>>
    BY DEF WalkOn
  <2>3. ASSUME r \notin odd'
        PROVE  /\ from'[r] \in walkOid[r].first - 1 .. walkOid[r].last
               /\ response'[r] = Segment(walkOid[r].first, from'[r])
    <3>0. PICK a, last, k : a = walkOid[r].first /\ last = walkOid[r].last /\ k = from[r]
      OBVIOUS
    <3>1. PICK n \in Nat \ {0} : vbs = NextVariables(k, n)
      BY <2>3, <3>0 DEF Answers
    <3>2. response[r] = Segment(a, k)
      BY <1>0, <2>3, <3>0 DEF IInv, WalkInv
    <3>3. k \in a - 1 .. last
      BY <1>0, <2>3, <3>0 DEF IInv, WalkInv
    <3>4. a \in Nat \ {0} /\ last \in 0 .. MibSize /\ k \in Nat
      BY <1>2, <3>0, <3>3, MibAssumption DEF IInv, TypeOK
    <3>5. Len(vbs) = n
      BY <3>1 DEF NextVariables
    <3>6. Advances(vbs, k, n, a, last)
      BY <1>1, <3>0, <3>1, <3>3, <3>4, <3>5 DEF Advances
    <3>7. /\ Follows(vbs, k)
          /\ k + Len(vbs) \in a - 1 .. last
          /\ Segment(a, k) \o vbs = Segment(a, k + Len(vbs))
      BY <3>6, WalkAdvances
    <3>8. vbs[n] = k + n
      BY <3>5, <3>7 DEF Follows
    <3>9. from'[r] = k + n /\ response'[r] = response[r] \o vbs
      BY <3>5, <3>8 DEF IInv, TypeOK, WalkOn
    <3> QED
      BY <3>0, <3>2, <3>5, <3>7, <3>9
  <2> QED
    BY <1>0, <2>1, <2>2, <2>3 DEF IInv, WalkInv
<1> QED
  BY <1>4, <1>5, <1>6, <1>7 DEF IInv

LEMMA WalkDoneStep ==
    ASSUME IInv, fault = "none", NEW r \in Requests, NEW vbs \in Seq(Nat), NEW i \in DOMAIN vbs,
           CalledBack(r, "walk"), WalkDone(r, vbs, i),
           UNCHANGED <<callerVars, pollVars, client, timedOut>>,
           odd' \in SUBSET Requests, odds' \in 0 .. MaxOdd, odd \subseteq odd',
           r \in odd' \/ Answers(r, vbs)
    PROVE  IInv'
<1>0. promise[r] = "pending" /\ kind[r] = "walk" /\ r \in outstanding
  BY CalledBackFacts
<1>1. PICK t : t = SubSeq(vbs, 1, i - 1)
  OBVIOUS
<1>2. walkOid[r].first \in 1 .. MibSize + 1 /\ walkOid[r].last \in 0 .. MibSize
  BY DEF IInv, TypeOK, Subtrees
<1>3. /\ i \in 1 .. Len(vbs) /\ t \in Seq(Nat) /\ Len(t) = i - 1
      /\ \A j \in 1 .. Len(t) : t[j] = vbs[j]
  BY <1>1
<1>4. /\ ~Under(r, vbs[i])
      /\ \A j \in 1 .. Len(t) : t[j] \in walkOid[r].first .. walkOid[r].last
  <2>1. i \in Stops(r, vbs) /\ \A j \in Stops(r, vbs) : i <= j
    BY DEF WalkDone, Finish
  <2>2. ASSUME NEW j \in 1 .. Len(t)
        PROVE  Under(r, t[j])
    <3>1. j \in DOMAIN vbs /\ j \notin Stops(r, vbs) /\ t[j] = vbs[j]
      BY <1>3, <2>1
    <3> QED
      BY <3>1 DEF Stops
  <2> QED
    BY <2>1, <2>2 DEF Stops, Under
<1>5. t \in Seq(1 .. MibSize)
  <2>1. \A j \in 1 .. Len(t) : t[j] \in 1 .. MibSize
    BY <1>2, <1>4, MibAssumption
  <2> QED
    BY <1>3, <2>1, SeqOfElements
<1>6. /\ promise' = [promise EXCEPT ![r] = Outcome(vbs[i])] /\ fault' = fault
      /\ response' = [response EXCEPT ![r] = response[r] \o t]
      /\ outstanding' = outstanding \ {r}
      /\ UNCHANGED <<m_pendingRequests, from, unsent, kind, walkOid>>
      /\ Outcome(vbs[i]) \in {"value", "error"}
  BY <1>0, <1>1 DEF WalkDone, Finish, SetValue, Forget, Outcome
<1>7. TypeOK'
  <2>1. response' \in [Requests -> Seq(1 .. MibSize)]
    <3>1. response[r] \o t \in Seq(1 .. MibSize)
      BY <1>5 DEF IInv, TypeOK
    <3> QED
      BY <1>6, <3>1 DEF IInv, TypeOK
  <2>2. promise' \in [Requests -> {"none", "pending", "value", "error", "broken"}]
    BY <1>6 DEF IInv, TypeOK
  <2>3. outstanding' \subseteq Requests
    BY <1>6 DEF IInv, TypeOK
  <2> QED
    BY <1>6, <2>1, <2>2, <2>3 DEF IInv, TypeOK
<1>8. CallerInv' /\ PointerInv' /\ KeepInv' /\ SetOnce' /\ WalksAreSafe'
  <2>1. \A q \in Requests : q # r => promise'[q] = promise[q] /\ response'[q] = response[q]
    BY <1>6 DEF IInv, TypeOK
  <2>2. r \notin outstanding' /\ outstanding' \subseteq outstanding
    BY <1>6
  <2> QED
    BY <1>6, <2>1, <2>2, CallbackKeeps
<1>9. PollInv'
  BY DEF CalledBack, PollInv
<1>10. WalkInv'
  <2>1. \A q \in Requests : q # r => promise'[q] = promise[q] /\ response'[q] = response[q]
    BY <1>6 DEF IInv, TypeOK
  <2>2. ASSUME r \notin odd'
        PROVE  /\ response'[r] = Segment(walkOid[r].first, walkOid[r].last)
               /\ promise'[r] = "error" => walkOid[r].last = MibSize
               /\ promise'[r] # "pending"
    <3>0. PICK a, last, k : a = walkOid[r].first /\ last = walkOid[r].last /\ k = from[r]
      OBVIOUS
    <3>1. PICK n \in Nat \ {0} : vbs = NextVariables(k, n)
      BY <2>2, <3>0 DEF Answers
    <3>2. response[r] = Segment(a, k)
      BY <1>0, <2>2, <3>0 DEF IInv, WalkInv
    <3>3. k \in a - 1 .. last
      BY <1>0, <2>2, <3>0 DEF IInv, WalkInv
    <3>4. a \in Nat \ {0} /\ last \in 0 .. MibSize /\ k \in Nat
      BY <1>2, <3>0, <3>3, MibAssumption DEF IInv, TypeOK
    <3>5. Len(vbs) = n /\ Len(t) <= n /\ i \in 1 .. n
      BY <1>3, <3>1 DEF NextVariables
    <3>6. Advances(t, k, n, a, last)
      BY <1>3, <1>4, <3>0, <3>1, <3>3, <3>4, <3>5 DEF Advances
    <3>7. k + (i - 1) \in a - 1 .. last /\ Segment(a, k) \o t = Segment(a, k + (i - 1))
      <4>1. k + Len(t) \in a - 1 .. last /\ Segment(a, k) \o t = Segment(a, k + Len(t))
        BY <3>6, WalkAdvances
      <4>2. Len(t) = i - 1
        BY <1>3
      <4> QED
        BY <4>1, <4>2
    <3>8. vbs[i] \notin a .. last /\ vbs[i] = IF k + i <= MibSize THEN k + i ELSE MibSize + 1
      BY <1>4, <3>0, <3>1, <3>5 DEF Under, NextVariables, EndOfMib
    <3>9. k + (i - 1) = last /\ (vbs[i] = MibSize + 1 => last = MibSize)
      BY <3>4, <3>5, <3>7, <3>8, MibAssumption
    <3>10. response'[r] = Segment(a, last)
      BY <1>6, <3>2, <3>7, <3>9 DEF IInv, TypeOK
    <3>11. promise'[r] = Outcome(vbs[i])
      BY <1>6 DEF IInv, TypeOK
    <3> QED
      BY <1>6, <3>0, <3>9, <3>10, <3>11 DEF Outcome, EndOfMib
  <2>3. timedOut' = timedOut
    OBVIOUS
  <2> QED
    BY <1>0, <1>6, <2>1, <2>2, <2>3 DEF IInv, WalkInv
<1> QED
  BY <1>7, <1>8, <1>9, <1>10 DEF IInv

LEMMA HandleWalkStep ==
    ASSUME IInv, fault = "none", NEW r \in Requests, WalkAnswered(r) \/ WalkOddly(r)
    PROVE  IInv'
<1>1. CASE WalkAnswered(r)
  <2>1. PICK n \in 1 .. MaxReps : HandleWalk(r, NextVariables(from[r], n))
    BY <1>1 DEF WalkAnswered
  <2>2. PICK vbs : vbs = NextVariables(from[r], n)
    OBVIOUS
  <2>3. vbs \in Seq(Nat)
    <3>1. \A k \in Nat : NextVariables(k, n) \in Seq(Nat)
      BY MibAssumption DEF NextVariables, EndOfMib
    <3>2. from[r] \in Nat
      BY MibAssumption DEF IInv, TypeOK
    <3> QED
      BY <2>2, <3>1, <3>2
  <2>4. Answers(r, vbs)
    BY <2>2, MibAssumption DEF Answers
  <2>5. /\ odd' = odd /\ odds' = odds /\ odd' \in SUBSET Requests /\ odds' \in 0 .. MaxOdd
        /\ odd \subseteq odd'
    BY <1>1 DEF IInv, TypeOK, WalkAnswered
  <2>6. CalledBack(r, "walk") /\ UNCHANGED <<callerVars, pollVars, client, timedOut>>
    BY <2>1 DEF HandleWalk
  <2>7. CASE WalkOn(r, vbs)
    BY <2>3, <2>4, <2>5, <2>6, <2>7, WalkOnStep
  <2>8. CASE \E i \in DOMAIN vbs : WalkDone(r, vbs, i)
    BY <2>3, <2>4, <2>5, <2>6, <2>8, WalkDoneStep
  <2> QED
    BY <2>1, <2>2, <2>7, <2>8 DEF HandleWalk
<1>2. CASE WalkOddly(r)
  <2>1. HandleWalk(r, << >>) /\ odd' = odd \cup {r}
    BY <1>2 DEF WalkOddly
  <2>2. /\ << >> \in Seq(Nat) /\ r \in odd' /\ odd \subseteq odd' /\ odd' \in SUBSET Requests
        /\ odds' \in 0 .. MaxOdd
    BY <1>2, MaxOddAssumption DEF IInv, TypeOK, WalkOddly
  <2>3. CalledBack(r, "walk") /\ UNCHANGED <<callerVars, pollVars, client, timedOut>>
    BY <2>1 DEF HandleWalk
  <2>4. WalkOn(r, << >>)
    BY <2>1 DEF HandleWalk
  <2> QED
    BY <2>2, <2>3, <2>4, WalkOnStep
<1> QED
  BY <1>1, <1>2

(* Only a get leaves the map from the poll thread, so only a get races with    *)
(* createRequest.                                                              *)
LEMMA DataRaceStep ==
    ASSUME IInv, fault = "none", DataRace
    PROVE  IInv'
<1>1. TypeOK' /\ CallerInv' /\ PointerInv' /\ PollInv' /\ KeepInv' /\ WalkInv' /\ SetOnce'
  BY DEF IInv, TypeOK, CallerInv, PointerInv, PollInv, KeepInv, WalkInv, SetOnce, DataRace, Made, Living
<1>2. WalksAreSafe'
  BY DEF IInv, PollInv, WalksAreSafe, DataRace
<1> QED
  BY <1>1, <1>2 DEF IInv

LEMMA StutterStep ==
    ASSUME IInv, UNCHANGED vars
    PROVE  IInv'
BY DEF IInv, TypeOK, CallerInv, PointerInv, PollInv, KeepInv, WalkInv, SetOnce, WalksAreSafe, Made, Living, vars

LEMMA NextIInv == IInv /\ [Next]_vars => IInv'
<1> SUFFICES ASSUME IInv, [Next]_vars PROVE IInv'
  OBVIOUS
<1>1. CASE UNCHANGED vars
  BY <1>1, StutterStep
<1>2. CASE Next
  <2>0. fault = "none"
    BY <1>2 DEF Next
  <2>1. CASE RequestSome
    <3>1. [first |-> 1, last |-> 0] \in Subtrees
      BY MibAssumption DEF Subtrees
    <3> QED
      BY <2>0, <2>1, <3>1, RequestStep DEF RequestSome
  <2>2. CASE Caller \/ StopPollThread
    BY <2>0, <2>2, CreateRequestStep, SendStep, FutureStep DEF Caller
  <2>3. CASE Poll
    BY <2>0, <2>3, EraseRequestStep, HandleGetStep, WalkTimesOutStep, HandleWalkStep DEF Poll
  <2>4. CASE Destroy \/ DataRace
    BY <2>0, <2>4, DestroyStep, DataRaceStep
  <2> QED
    BY <1>2, <2>1, <2>2, <2>3, <2>4 DEF Next
<1> QED
  BY <1>1, <1>2
-----------------------------------------------------------------------------
(* What stays in the map, and which promises are still to be set *)

(* The request is needed: by SNMP++, by the thread that handles it, or, as all *)
(* walks and what was never sent, by nobody.                                   *)
Accounted(r) ==
    \/ r \in outstanding \/ r \in unsent \/ kind[r] = "walk"
    \/ cpc = "send" /\ r = cur
    \/ ppc = "erase" /\ r = entry

LeakInv ==
    /\ \A r \in m_pendingRequests : Made(r) /\ Accounted(r)
    /\ ~Living => m_pendingRequests = {}

(* A promise without a result has its request in the map. *)
PendingInv == \A r \in Requests : promise[r] = "pending" => r \in m_pendingRequests

LEMMA CallerKeepsMap ==
    ASSUME IInv, LeakInv, PendingInv, RequestSome \/ Caller \/ StopPollThread
    PROVE  LeakInv' /\ PendingInv'
<1> USE NumRequestsAssumption DEF Requests
<1>1. CASE RequestSome
  <2>1. PICK k \in {"get", "walk"}, s \in Subtrees \cup {[first |-> 1, last |-> 0]}, wait \in BOOLEAN :
            Request(k, s, wait)
    BY <1>1 DEF RequestSome
  <2>2. /\ client = "alive" /\ cpc = "idle" /\ cpc' = "create" /\ cur' = cur + 1
        /\ kind' = [kind EXCEPT ![cur + 1] = k]
        /\ UNCHANGED <<m_pendingRequests, promise, outstanding, unsent, ppc, entry, client>>
    BY <2>1 DEF Request
  <2>3. \A r \in m_pendingRequests : r <= cur /\ kind'[r] = kind[r]
    BY <2>2 DEF IInv, TypeOK, LeakInv, Made
  <2>4. ASSUME NEW r \in m_pendingRequests PROVE Made(r)' /\ Accounted(r)'
    BY <2>2, <2>3 DEF IInv, TypeOK, LeakInv, Accounted, Made
  <2> QED
    BY <2>2, <2>4 DEF LeakInv, PendingInv, Living
<1>2. CASE CreateRequest
  <2>1. /\ cpc = "create" /\ cpc' = "send" /\ m_pendingRequests' = m_pendingRequests \cup {cur}
        /\ promise' = [promise EXCEPT ![cur] = "pending"]
        /\ UNCHANGED <<cur, kind, outstanding, unsent, ppc, entry, client>>
    BY <1>2 DEF CreateRequest
  <2>2. cur \in Requests /\ client = "alive"
    BY <2>1 DEF IInv, CallerInv
  <2>3. ASSUME NEW r \in m_pendingRequests' PROVE Made(r)' /\ Accounted(r)'
    BY <2>1, <2>2 DEF LeakInv, Accounted, Made
  <2> QED
    BY <2>1, <2>2, <2>3 DEF IInv, TypeOK, LeakInv, PendingInv, Living
<1>3. CASE Send
  <2>1. /\ cpc = "send" /\ cpc' = "future" /\ cur \in outstanding' \cup unsent'
        /\ outstanding \subseteq outstanding' /\ unsent \subseteq unsent'
        /\ UNCHANGED <<m_pendingRequests, promise, cur, kind, ppc, entry, client>>
    BY <1>3 DEF Send
  <2>2. ASSUME NEW r \in m_pendingRequests PROVE Made(r)' /\ Accounted(r)'
    BY <2>1 DEF LeakInv, Accounted, Made
  <2> QED
    BY <2>1, <2>2 DEF LeakInv, PendingInv, Living
<1>4. CASE GetFuture \/ Wait \/ StopPollThread
  <2>1. /\ cpc \notin {"send", "create"} /\ cpc' \notin {"send", "create"}
        /\ client' # client => client = "alive" /\ client' = "stopping"
        /\ UNCHANGED <<m_pendingRequests, promise, cur, kind, outstanding, unsent, ppc, entry>>
    BY <1>4 DEF GetFuture, Wait, StopPollThread
  <2>2. ASSUME NEW r \in m_pendingRequests PROVE Made(r)' /\ Accounted(r)'
    BY <2>1 DEF LeakInv, Accounted, Made
  <2>3. Living <=> Living'
    BY <2>1 DEF Living
  <2> QED
    BY <2>1, <2>2, <2>3 DEF LeakInv, PendingInv
<1> QED
  BY <1>1, <1>2, <1>3, <1>4 DEF Caller

LEMMA DestroyKeepsMap ==
    ASSUME IInv, LeakInv, PendingInv, Destroy
    PROVE  LeakInv' /\ PendingInv'
<1>1. CASE DestroyRequests
  BY <1>1 DEF DestroyRequests, BrokenBy, IInv, TypeOK, LeakInv, PendingInv
<1>2. CASE DestroySession
  <2>1. m_pendingRequests = {} /\ m_pendingRequests' = {} /\ promise' = promise
    BY <1>2 DEF DestroySession, LeakInv, Living
  <2> QED
    BY <2>1 DEF LeakInv, PendingInv
<1> QED
  BY <1>1, <1>2 DEF Destroy

(* A callback takes a promise's result away from nobody, and forgets requests   *)
(* that are walks, or a get that it goes on to erase.                          *)
LEMMA PollKeepsMap ==
    ASSUME IInv, LeakInv, PendingInv, Poll
    PROVE  LeakInv' /\ PendingInv'
<1>1. CASE EraseRequest
  <2>1. /\ ppc = "erase" /\ ppc' = "poll" /\ m_pendingRequests' = m_pendingRequests \ {entry}
        /\ UNCHANGED <<cpc, cur, kind, promise, outstanding, unsent, client>>
    BY <1>1 DEF EraseRequest, Erased
  <2>2. promise[entry] # "pending"
    BY <2>1 DEF IInv, PollInv
  <2>3. ASSUME NEW r \in m_pendingRequests' PROVE Made(r)' /\ Accounted(r)'
    BY <2>1 DEF LeakInv, Accounted, Made
  <2> QED
    BY <2>1, <2>2, <2>3 DEF LeakInv, PendingInv, Living
<1>2. ASSUME NEW r \in Requests, NEW state \in {"value", "error"},
             HandleGet(r, state) \/ WalkTimesOut(r) \/ WalkAnswered(r) \/ WalkOddly(r)
      PROVE  LeakInv' /\ PendingInv'
  <2> DEFINE Handled ==
        /\ Living /\ ppc = "poll" /\ (kind[r] = "walk" \/ (ppc' = "erase" /\ entry' = r))
        /\ UNCHANGED <<m_pendingRequests, cpc, cur, kind, client>>
        /\ unsent \subseteq unsent' /\ outstanding \ {r} \subseteq outstanding'
        /\ \A q \in Requests : promise'[q] = "pending" => promise[q] = "pending"
  <2>1. Handled
    <3>1. \A s \in {"value", "error"} : SetValue(r, s) =>
            \A q \in Requests : promise'[q] = "pending" => promise[q] = "pending"
      BY DEF SetValue, IInv, TypeOK
    <3>2. CASE HandleGet(r, state)
      BY <3>1, <3>2 DEF HandleGet, CalledBack, Forget, Living
    <3>3. CASE WalkTimesOut(r)
      BY <3>1, <3>3 DEF WalkTimesOut, CalledBack, Forget, Living
    <3>4. ASSUME NEW vbs, HandleWalk(r, vbs)
          PROVE  Handled
      <4>1. CASE WalkOn(r, vbs)
        BY <3>4, <4>1 DEF HandleWalk, WalkOn, CalledBack, Living
      <4>2. ASSUME NEW i \in DOMAIN vbs, WalkDone(r, vbs, i) PROVE Handled
        BY <3>1, <3>4, <4>2 DEF HandleWalk, WalkDone, Finish, Outcome, CalledBack, Forget, Living
      <4> QED
        BY <3>4, <4>1, <4>2 DEF HandleWalk
    <3>5. CASE WalkAnswered(r) \/ WalkOddly(r)
      BY <3>4, <3>5 DEF WalkAnswered, WalkOddly
    <3> QED
      BY <1>2, <3>2, <3>3, <3>5
  <2>2. ASSUME NEW q \in m_pendingRequests PROVE Made(q)' /\ Accounted(q)'
    BY <2>1 DEF LeakInv, Accounted, Made
  <2> QED
    BY <2>1, <2>2 DEF LeakInv, PendingInv, Living
<1> QED
  BY <1>1, <1>2 DEF Poll

LEMMA NextKeepsMap == IInv /\ LeakInv /\ PendingInv /\ [Next]_vars => LeakInv' /\ PendingInv'
<1> SUFFICES ASSUME IInv, LeakInv, PendingInv, [Next]_vars PROVE LeakInv' /\ PendingInv'
  OBVIOUS
<1>1. CASE UNCHANGED vars
  BY <1>1 DEF LeakInv, PendingInv, Made, Accounted, Living, vars
<1>2. CASE DataRace
  BY <1>2 DEF LeakInv, PendingInv, Made, Accounted, Living, DataRace
<1> QED
  BY <1>1, <1>2, CallerKeepsMap, DestroyKeepsMap, PollKeepsMap DEF Next

LEMMA MapInvariance == Spec => [](IInv /\ LeakInv /\ PendingInv)
<1>1. Init => LeakInv /\ PendingInv
  BY DEF Init, LeakInv, PendingInv, Living
<1> QED
  BY <1>1, InitIInv, NextIInv, NextKeepsMap, PTL DEF Spec
-----------------------------------------------------------------------------
(* IInv holds in every reachable state. *)
THEOREM Invariance == Spec => []IInv
BY InitIInv, NextIInv, PTL DEF Spec

(* Every variable keeps its type. *)
THEOREM TypeCorrectness == Spec => []TypeOK
<1>1. IInv => TypeOK
  BY DEF IInv
<1> QED
  BY <1>1, Invariance, PTL

(* No promise is set twice, however the callbacks fall. *)
THEOREM SettingOnce == Spec => []SetOnce
<1>1. IInv => SetOnce
  BY DEF IInv
<1> QED
  BY <1>1, Invariance, PTL

(* A race or a dangling reference takes a get: a client that is only asked to  *)
(* walk has neither.                                                           *)
THEOREM WalkSafety == Spec => []WalksAreSafe
<1>1. IInv => WalksAreSafe
  BY DEF IInv
<1> QED
  BY <1>1, Invariance, PTL

(* Until the client is destroyed, SNMP++ only points to requests in the map. *)
THEOREM PointerValidity == Spec => []PointersAreValid
<1>1. IInv => PointersAreValid
  BY DEF IInv, PointerInv, Living, PointersAreValid
<1> QED
  BY <1>1, Invariance, PTL

(* A walk that returns a value returns exactly its subtree. *)
THEOREM WalkCorrectness == Spec => []WalkReturnsSubtree
<1>1. IInv => WalkReturnsSubtree
  BY DEF IInv, WalkInv, Segment, WalkReturnsSubtree
<1> QED
  BY <1>1, Invariance, PTL

(* A walk fails without a timeout only at the end of the MIB, having read all. *)
THEOREM WalkFailure == Spec => []WalkFailsOnlyAtEndOfMib
<1>1. IInv => WalkFailsOnlyAtEndOfMib
  <2> SUFFICES ASSUME IInv, NEW r \in Requests \ (odd \cup timedOut), kind[r] = "walk", promise[r] = "error"
               PROVE  walkOid[r].last = MibSize /\ Len(response[r]) = MibSize - walkOid[r].first + 1
    BY DEF WalkFailsOnlyAtEndOfMib
  <2>1. walkOid[r].first \in 1 .. MibSize + 1
    BY DEF IInv, TypeOK, Subtrees
  <2>2. walkOid[r].last = MibSize /\ response[r] = Segment(walkOid[r].first, MibSize)
    BY DEF IInv, WalkInv
  <2> QED
    BY <2>1, <2>2, MibAssumption DEF Segment
<1> QED
  BY <1>1, Invariance, PTL
(* Only walks and requests that were never sent are kept without need. *)
THEOREM LeaksAreNamed == Spec => []OnlyWalksAndUnsentLeak
<1>1. IInv /\ LeakInv => OnlyWalksAndUnsentLeak
  <2> SUFFICES ASSUME IInv, LeakInv, NEW r \in m_pendingRequests
               PROVE  r \in outstanding \cup unsent \cup {q \in Requests : kind[q] = "walk"} \cup {cur, entry}
    BY DEF OnlyWalksAndUnsentLeak
  <2> QED
    BY DEF IInv, TypeOK, LeakInv, Accounted
<1> QED
  BY <1>1, MapInvariance, PTL

(* A client that is gone leaves no future waiting. *)
THEOREM FuturesAreReady == Spec => []FuturesEndWithClient
<1>1. IInv /\ LeakInv /\ PendingInv => FuturesEndWithClient
  BY DEF IInv, TypeOK, LeakInv, PendingInv, Living, FuturesEndWithClient
<1> QED
  BY <1>1, MapInvariance, PTL
=============================================================================
