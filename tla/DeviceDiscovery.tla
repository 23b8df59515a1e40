--------------------------- MODULE DeviceDiscovery ---------------------------
(* services/device_discovery on top of TaskRunner.  The main thread starts,    *)
(* uses, stops and destroys one IcmpDeviceDiscoveryTask.  The runner's thread  *)
(* executes two kinds of tasks that hold raw pointers into it: the scanner's   *)
(* poller (IAsyncScanner::PingResolver) and one IcmpPingResolver per           *)
(* discover().  IcmpScanner is used here one whole call at a time; what its    *)
(* unlocked map adds is the subject of module IcmpScanner.                     *)
EXTENDS TaskRunner

CONSTANTS
    Pollers,    \* bound: one PingResolver for every start()
    Resolvers,  \* bound: one IcmpPingResolver for every discover()
    Hosts,      \* the hosts that are discovered
    Self        \* the address of the network interface itself

ASSUME TasksAssumption == Task = Pollers \cup Resolvers /\ Pollers \cap Resolvers = {}
ASSUME PollersAssumption == IsFiniteSet(Pollers)
ASSUME SelfAssumption  == Self \notin Hosts
ASSUME ResolversAssumption == Resolvers \cap Hosts = {}

Keys == Hosts \cup {Self}

VARIABLES
    life,           \* of the discovery task: "none", "alive" or "freed"
    m_running,      \* the scanner's atomic flag
    m_currentTask,  \* what the scanner's weak_ptr was last set to
    mpc,            \* where the main thread is
    key,            \* the host of its consumeResult()
    pending,        \* m_pendingRequests: whose promise each host's request holds
    target,         \* the host each resolver's ping went to
    future,         \* the state of each resolver's future
    storing,        \* the runner is in addSuccess/addError, past the callback
    m_results,      \* the resolver whose result is stored under each address
    starts,         \* how often start() was called since the last stop()
    twice,          \* whether start() was ever called on a started scanner
    readyAtFree,    \* resolvers whose future was ready when the task was freed
    fault           \* undefined behaviour: "race", "scanner" or "task"

objectVars  == <<life, starts, twice, readyAtFree>>
mainVars    == <<mpc, key>>
scannerVars == <<m_running, m_currentTask>>
pingVars    == <<pending, target, future>>
resultVars  == <<storing, m_results>>
discoveryVars == <<objectVars, mainVars, scannerVars, pingVars, resultVars, fault>>
vars == <<runnerVars, discoveryVars>>

(* The composed state is well formed. *)
TypeOK ==
    /\ RunnerTypeOK
    /\ life \in {"none", "alive", "freed"} /\ m_running \in BOOLEAN
    /\ m_currentTask \in Pollers \cup {NoTask}
    /\ mpc \in {"idle", "stopping", "results", "consume"}
    /\ key \in Keys
    /\ pending \in [Hosts -> Resolvers \cup {NoTask}]
    /\ target \in [Resolvers -> Keys]
    /\ future \in [Resolvers -> {"none", "pending", "value", "error", "broken"}]
    /\ storing \in BOOLEAN
    /\ m_results \in [Keys -> Resolvers \cup {NoTask}]
    /\ starts \in 0 .. Cardinality(Pollers) /\ twice \in BOOLEAN
    /\ readyAtFree \subseteq Resolvers
    /\ fault \in {"none", "race", "scanner", "task"}

Init ==
    /\ RunnerInit
    /\ life = "none" /\ m_running = FALSE /\ m_currentTask = NoTask
    /\ mpc = "idle" /\ key = Self
    /\ pending = [h \in Hosts |-> NoTask]
    /\ target = [r \in Resolvers |-> Self]
    /\ future = [r \in Resolvers |-> "none"]
    /\ storing = FALSE
    /\ m_results = [k \in Keys |-> NoTask]
    /\ starts = 0 /\ twice = FALSE /\ readyAtFree = {} /\ fault = "none"
-----------------------------------------------------------------------------
(* The main thread *)

(* DeviceDiscoveryTaskBuilder::build and the service's push_back *)
Construct ==
    /\ life = "none"
    /\ life' = "alive"
    /\ UNCHANGED <<runnerVars, starts, twice, readyAtFree, mainVars, scannerVars, pingVars, resultVars, fault>>

(* start() -> startScanning(): m_running is set, a new poller is posted and    *)
(* only that one is remembered.                                                *)
Start(p) ==
    /\ life = "alive" /\ mpc = "idle"
    /\ m_running' = TRUE /\ m_currentTask' = p
    /\ starts' = starts + 1 /\ twice' = (twice \/ starts > 0)
    /\ Post(p)
    /\ UNCHANGED <<life, readyAtFree, mainVars, pingVars, resultVars, fault>>

(* stop() -> stopScanning(): m_running.store(false) *)
StopScanning ==
    /\ life = "alive" /\ mpc = "idle"
    /\ m_running' = FALSE /\ mpc' = "stopping"
    /\ UNCHANGED <<runnerVars, objectVars, key, m_currentTask, pingVars, resultVars, fault>>

(* Mutant: a poller that waits for its turn counts as gone. *)
ExpiredWhenIdle(p) == p # current

(* m_currentTask.expired(): nobody holds the poller. *)
Expired(p) == p \notin Held

(* ... and the loop that waits for it ends. *)
Stopped ==
    /\ mpc = "stopping" /\ Expired(m_currentTask)
    /\ mpc' = "idle" /\ starts' = 0
    /\ UNCHANGED <<runnerVars, life, twice, readyAtFree, key, scannerVars, pingVars, resultVars, fault>>

(* discover(h): pingAsync makes a request, whose predecessor for the same host *)
(* is overwritten and its promise broken; then the resolver is posted.         *)
Discover(r, h) ==
    /\ life = "alive" /\ mpc = "idle"
    /\ Post(r)
    /\ pending' = [pending EXCEPT ![h] = r]
    /\ target' = [target EXCEPT ![r] = h]
    /\ future' = [s \in Resolvers |-> IF s = r THEN "pending"
                                      ELSE IF s = pending[h] THEN "broken"
                                      ELSE future[s]]
    /\ UNCHANGED <<objectVars, mainVars, scannerVars, resultVars, fault>>

(* hasResult, getResult, consumeResult, clearResult or clearResults is called. *)
EnterResults ==
    /\ life = "alive" /\ mpc = "idle"
    /\ mpc' = "results"
    /\ UNCHANGED <<runnerVars, objectVars, key, scannerVars, pingVars, resultVars, fault>>

(* hasResult, getResult (which change nothing), clearResult, clearResults *)
LeaveResults(erased) ==
    /\ mpc = "results"
    /\ mpc' = "idle"
    /\ m_results' = [k \in Keys |-> IF k \in erased THEN NoTask ELSE m_results[k]]
    /\ UNCHANGED <<runnerVars, objectVars, key, scannerVars, pingVars, storing, fault>>

(* consumeResult(k) has copied the result and goes on to clearResult(k). *)
ConsumeResult(k) ==
    /\ mpc = "results" /\ m_results[k] # NoTask
    /\ mpc' = "consume" /\ key' = k
    /\ UNCHANGED <<runnerVars, objectVars, scannerVars, pingVars, resultVars, fault>>

ConsumeClear ==
    /\ mpc = "consume"
    /\ mpc' = "idle"
    /\ m_results' = [m_results EXCEPT ![key] = NoTask]
    /\ UNCHANGED <<runnerVars, objectVars, key, scannerVars, pingVars, storing, fault>>

(* Mutant: requests that are dropped are reported as timed out. *)
TimedOutBy(hosts) == [r \in Resolvers |-> IF \E h \in hosts : pending[h] = r
                                          THEN "error" ELSE future[r]]

(* The futures after the promises of the requests to `hosts` are destroyed. *)
BrokenBy(hosts) == [r \in Resolvers |-> IF \E h \in hosts : pending[h] = r
                                        THEN "broken" ELSE future[r]]

(* ~IcmpDeviceDiscoveryTask: no stop(); the requests go and break their        *)
(* promises, while the runner's tasks keep their pointers.                     *)
Free ==
    /\ life = "alive" /\ mpc = "idle"
    /\ life' = "freed"
    /\ readyAtFree' = {r \in Resolvers : future[r] \in {"value", "error"}}
    /\ future' = BrokenBy(Hosts)
    /\ pending' = [h \in Hosts |-> NoTask]
    /\ UNCHANGED <<runnerVars, starts, twice, mainVars, scannerVars, target, resultVars, fault>>

(* Static destruction after main() has returned: ~TaskRunner of defaultRunner() *)
DestroyRunner ==
    /\ life = "freed"
    /\ Destroy
    /\ UNCHANGED discoveryVars
-----------------------------------------------------------------------------
(* The runner's thread *)

Schedule ==
    /\ BeginTask \/ FireTimer \/ ThreadEnds \/ \E t \in Task : TimerExpires(t)
    /\ UNCHANGED discoveryVars

(* The poller's run() finds the scanner it points to gone. *)
PollerDangles ==
    /\ current \in Pollers /\ life = "freed"
    /\ fault' = "scanner"
    /\ UNCHANGED <<runnerVars, objectVars, mainVars, scannerVars, pingVars, resultVars>>

(* Mutant: the poller waits for the flag instead of ending. *)
PollerIgnoresStop ==
    /\ current \in Pollers /\ life = "alive" /\ ~m_running
    /\ Resolve("RunAgainDelayed")
    /\ UNCHANGED discoveryVars

PollerEnds ==
    /\ current \in Pollers /\ life = "alive" /\ ~m_running
    /\ Resolve("End")
    /\ UNCHANGED discoveryVars

(* Answers the requests of `hosts` with `state` and erases them. *)
Complete(hosts, state) ==
    /\ future' = [r \in Resolvers |-> IF \E h \in hosts : pending[h] = r
                                      THEN state ELSE future[r]]
    /\ pending' = [h \in Hosts |-> IF h \in hosts THEN NoTask ELSE pending[h]]
    /\ UNCHANGED <<objectVars, mainVars, scannerVars, target, resultVars, fault>>

PendingHosts == {h \in Hosts : pending[h] # NoTask}

(* A packet was waiting: it is a reply of h, or matches no request. *)
PollerReceives(hosts) ==
    /\ current \in Pollers /\ life = "alive" /\ m_running
    /\ PendingHosts # {} /\ hosts \subseteq PendingHosts /\ Cardinality(hosts) <= 1
    /\ Complete(hosts, "value")
    /\ Resolve("RunAgain")

(* No packet: the requests that are old enough time out.  Without any request  *)
(* the poller only waits.                                                      *)
PollerSweeps(hosts) ==
    /\ current \in Pollers /\ life = "alive" /\ m_running
    /\ hosts \subseteq PendingHosts
    /\ Complete(hosts, "error")
    /\ Resolve("RunAgainDelayed")

(* FutureResolver::run(): not ready yet *)
ResolverWaits ==
    /\ current \in Resolvers /\ future[current] = "pending"
    /\ Resolve("RunAgainDelayed")
    /\ UNCHANGED discoveryVars

(* get() throws broken_promise and onException only logs it. *)
ResolverFails ==
    /\ current \in Resolvers /\ future[current] = "broken"
    /\ Resolve("End")
    /\ UNCHANGED discoveryVars

(* onCompletion -> addSuccess/addError: the user's callback has been called. *)
ResolverCallsBack ==
    /\ current \in Resolvers /\ future[current] \in {"value", "error"} /\ ~storing
    /\ IF life = "freed" THEN fault' = "task" /\ UNCHANGED storing
                         ELSE storing' = TRUE /\ UNCHANGED fault
    /\ UNCHANGED <<runnerVars, objectVars, mainVars, scannerVars, pingVars, m_results>>

(* The address a result is stored under: of a reply, its destination. *)
ResultKey(r) == IF future[r] = "value" THEN Self ELSE target[r]

(* ... and then m_results[host] is assigned. *)
ResolverStores ==
    /\ current \in Resolvers /\ storing
    /\ IF life = "freed"
       THEN fault' = "task" /\ UNCHANGED <<runnerVars, resultVars>>
       ELSE /\ Resolve("End")
            /\ storing' = FALSE
            /\ m_results' = [m_results EXCEPT ![ResultKey(current)] = current]
            /\ UNCHANGED fault
    /\ UNCHANGED <<objectVars, mainVars, scannerVars, pingVars>>

(* Both threads are inside m_results, which has no lock. *)
DataRace ==
    /\ mpc \in {"results", "consume"} /\ storing
    /\ fault' = "race"
    /\ UNCHANGED <<runnerVars, objectVars, mainVars, scannerVars, pingVars, resultVars>>

Main ==
    \/ Construct \/ Free \/ EnterResults
    \/ \E p \in Pollers : Start(p)
    \/ \E r \in Resolvers, h \in Hosts : Discover(r, h)
    \/ StopScanning \/ DestroyRunner
    \/ \E erased \in {{}, Keys} \cup {{k} : k \in Keys} : LeaveResults(erased)
    \/ \E k \in Keys : ConsumeResult(k)

Poller ==
    \/ PollerDangles \/ PollerEnds
    \/ \E hosts \in SUBSET Hosts : PollerReceives(hosts) \/ PollerSweeps(hosts)
Resolver == ResolverWaits \/ ResolverFails \/ ResolverCallsBack \/ ResolverStores

DiscoveryNext ==
    /\ fault = "none"
    /\ Main \/ Stopped \/ ConsumeClear \/ Schedule \/ Poller \/ Resolver \/ DataRace

(* After some point the poller finds the ring empty whenever it looks. *)
PacketsStop == <>[][\A hosts \in SUBSET Hosts : ~PollerReceives(hosts)]_vars

(* The runner's thread runs what it may and timers expire; main's loop in      *)
(* stop() notices that the poller is gone, and a destructor goes on.  The      *)
(* poller sweeps only when no packet is waiting.  Once none comes it sweeps    *)
(* every 100 ms, and a request that stays pending does grow old and time out;  *)
(* in an endless stream of packets it need not.                                *)
Running(A) == fault = "none" /\ A
Fairness ==
    /\ WF_vars(Running(BeginTask \/ FireTimer) /\ UNCHANGED discoveryVars)
    /\ \A t \in Task : WF_vars(Running(TimerExpires(t)) /\ UNCHANGED discoveryVars)
    /\ WF_vars(Running(Poller \/ Resolver))
    /\ PacketsStop => \A h \in Hosts : SF_vars(Running(\E hosts \in SUBSET Hosts :
                            h \in hosts /\ PollerSweeps(hosts)))
    /\ WF_vars(Running(Stopped))
    /\ WF_vars(Running(DestroyRunner) /\ owner # "alive")

DiscoverySpec == Init /\ [][DiscoveryNext]_vars /\ Fairness
-----------------------------------------------------------------------------
(* Properties *)

(* What IScanner.h says of stopScanning(): "blocks till task is ended".  When  *)
(* it has returned, no poller is left that could still touch the scanner.      *)
StopBlocksTillEnded ==
    life = "alive" /\ mpc = "idle" /\ starts = 0 => Pollers \cap Held = {}

(* That is so, through any number of stops and restarts, as long as start() is *)
(* never called on a scanner that is already started.                          *)
StopEndsOnlyPoller == twice \/ StopBlocksTillEnded

(* A resolver touches the freed discovery task only if its future was ready    *)
(* before the task was destroyed: a ping that was still pending then is broken *)
(* by the destructor and its resolver ends without touching it.                *)
PendingPingsDieSafely == fault = "task" => current \in readyAtFree

(* stop() returns, provided it is not called from a callback on the runner. *)
StopReturns == mpc = "stopping" ~> mpc # "stopping"

(* Every discover() ends with a result, an error or a logged exception while   *)
(* the scanner keeps running, if after some point no packet is waiting.        *)
DiscoverEnds ==
    PacketsStop =>
        \A r \in Resolvers : r \in posted ~> r \in ended \/ ~m_running \/ fault # "none" \/ stopped

(* A result is found under the host it is about, as the comment in             *)
(* IcmpPingResolver::onCompletion about the "request" order intends.           *)
ResultIsStoredUnderItsHost ==
    \A k \in Keys : m_results[k] # NoTask => target[m_results[k]] = k
=============================================================================
