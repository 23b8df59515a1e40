------------------------ MODULE DeviceDiscovery_proofs ------------------------
(* Proofs about DeviceDiscovery, for any sets of resolvers and hosts and any   *)
(* finite set of pollers, on top of those about TaskRunner.                    *)
EXTENDS DeviceDiscovery, TaskRunner_proofs, FiniteSetTheorems

(* Every start() posted a poller of its own. *)
StartsInv == starts <= Cardinality(Pollers \cap posted)

(* A host's request is that of a posted resolver, whose future it fulfils. *)
PingInv ==
    \A h \in Hosts : LET r == pending[h] IN r # NoTask =>
        r \in posted /\ target[r] = h /\ future[r] = "pending"

(* addSuccess and addError are called for the runner's current task. *)
StoringInv == storing => current \in Resolvers /\ future[current] \in {"value", "error"}

(* The futures that have a result after the task's end had it then. *)
ReadyInv ==
    life = "freed" => \A r \in Resolvers : future[r] \in {"value", "error"} => r \in readyAtFree

(* The runner holds no poller but the one that was started last, and none      *)
(* before the first start() and after each stop().                             *)
PollerInv ==
    ~twice => /\ Pollers \cap Held \subseteq {m_currentTask}
              /\ starts = 0 => Pollers \cap Held = {}

DInv ==
    /\ IInv /\ TypeOK
    /\ StartsInv /\ PingInv /\ StoringInv /\ ReadyInv /\ PollerInv /\ PendingPingsDieSafely

USE DEF objectVars, mainVars, scannerVars, pingVars, resultVars
-----------------------------------------------------------------------------
(* What the runner holds *)

LEMMA HeldIsTasks ==
    /\ Held = Tasks(queue) \cup timers \cup ({current} \ {NoTask})
    /\ Held' = Tasks(queue') \cup timers' \cup ({current'} \ {NoTask})
BY DEF Held, Queued, Tasks

LEMMA HeldByPost ==
    ASSUME IInv, NEW t \in Task, Post(t)
    PROVE  Held' \subseteq Held \cup {t}
<1>1. Tasks(queue') \subseteq Tasks(queue) \cup {t}
  BY QueuePosted DEF Post, IInv, RunnerTypeOK
<1>2. Held' = Tasks(queue') \cup timers' \cup ({current'} \ {NoTask})
  BY HeldIsTasks
<1> QED
  BY <1>1, <1>2, HeldIsTasks DEF Post

LEMMA HeldOtherwise ==
    ASSUME IInv, [Next]_runnerVars, posted' = posted
    PROVE  Held' \subseteq Held
<1> USE DEF contextVars
<1>0. /\ Held' = Tasks(queue') \cup timers' \cup ({current'} \ {NoTask})
      /\ queue \in Seq(Handler)
  BY HeldIsTasks DEF IInv, RunnerTypeOK
<1>1. CASE UNCHANGED <<queue, timers, current>>
  BY <1>0, <1>1, HeldIsTasks
<1>2. CASE \E t \in Task : Post(t) \/ PostDelayed(t)
  BY <1>2 DEF Post, PostDelayed
<1>3. ASSUME NEW t \in Task, TimerExpires(t) PROVE Held' \subseteq Held
  <2>1. Fire(t) \in Handler /\ Fire(t).task = t
    BY DEF Fire, Handler
  <2>2. Tasks(queue') = Tasks(queue) \cup {t}
    BY <1>0, <1>3, <2>1, QueueAppend DEF TimerExpires
  <2> QED
    BY <1>0, <1>3, <2>2, HeldIsTasks DEF TimerExpires
<1>4. CASE BeginTask \/ FireTimer
  <2>1. queue # << >> /\ current = NoTask
    BY <1>4 DEF BeginTask, FireTimer, Serves
  <2>2. /\ Tail(queue) \in Seq(Handler) /\ Head(queue).task \in Task
        /\ Tasks(queue) = Tasks(Tail(queue)) \cup {Head(queue).task}
    BY <1>0, <2>1, QueueTail DEF Handler
  <2>3. CASE BeginTask
    BY <1>0, <2>2, <2>3, HeldIsTasks DEF BeginTask
  <2>4. CASE FireTimer
    <3>1. queue' \in {Tail(queue), Posted(Tail(queue), Head(queue).task)}
      BY <2>4 DEF FireTimer
    <3>2. Tasks(queue') \subseteq Tasks(queue)
      BY <2>2, <3>1, QueuePosted
    <3> QED
      BY <1>0, <2>4, <3>2, HeldIsTasks DEF FireTimer
  <2> QED
    BY <1>4, <2>3, <2>4
<1>5. ASSUME NEW c \in Continuation, Resolve(c) PROVE Held' \subseteq Held
  <2>1. current \in Task /\ current # NoTask
    BY <1>5 DEF Resolve, IInv, RunnerTypeOK
  <2>2. queue' \in {queue, Posted(queue, current)} /\ timers' \subseteq timers \cup {current}
    BY <1>5 DEF Resolve
  <2>3. Tasks(queue') \subseteq Tasks(queue) \cup {current}
    BY <1>0, <2>1, <2>2, QueuePosted
  <2> QED
    BY <1>0, <1>5, <2>1, <2>2, <2>3, HeldIsTasks DEF Resolve
<1>6. CASE ThreadEnds \/ Stop \/ (Destroy /\ ~DestroyContext)
  BY <1>1, <1>6 DEF ThreadEnds, Stop, Destroy, BeginDestroy, DestroyStop, ReleaseIsAlive, JoinThread
<1>7. CASE DestroyContext
  <2>1. Tasks(queue') = {} /\ timers' = {} /\ current' = current
    BY <1>7 DEF DestroyContext, Tasks
  <2> QED
    BY <1>0, <2>1, HeldIsTasks
<1>8. CASE UNCHANGED runnerVars
  BY <1>1, <1>8 DEF runnerVars
<1> QED
  BY <1>2, <1>3, <1>4, <1>5, <1>6, <1>7, <1>8 DEF Next
-----------------------------------------------------------------------------
LEMMA InitDInv == Init => DInv
<1> SUFFICES ASSUME Init PROVE DInv
  OBVIOUS
<1>1. IInv
  BY InitIInv DEF Init
<1>2. Held = {}
  BY DEF Init, RunnerInit, Held, Queued
<1>3. Cardinality(Pollers) \in Nat /\ Cardinality(Pollers \cap posted) = 0
  BY PollersAssumption, FS_CardinalityType, FS_EmptySet DEF Init, RunnerInit
<1>4. TypeOK
  <2>1. /\ pending \in [Hosts -> Resolvers \cup {NoTask}] /\ target \in [Resolvers -> Keys]
        /\ future \in [Resolvers -> {"none", "pending", "value", "error", "broken"}]
        /\ m_results \in [Keys -> Resolvers \cup {NoTask}] /\ key \in Keys
    BY DEF Init, Keys
  <2>2. starts \in 0 .. Cardinality(Pollers)
    BY <1>3 DEF Init
  <2> QED
    BY <1>1, <2>1, <2>2 DEF Init, IInv, TypeOK
<1> QED
  BY <1>1, <1>2, <1>3, <1>4
     DEF Init, DInv, StartsInv, PingInv, StoringInv, ReadyInv, PollerInv, PendingPingsDieSafely
-----------------------------------------------------------------------------
(* Steps of the runner that change nothing of the discovery task *)
LEMMA RunnerStep ==
    ASSUME DInv, UNCHANGED discoveryVars, [Next]_runnerVars, posted' = posted,
           storing \/ fault # "none" => current' = current
    PROVE  DInv'
<1>1. IInv' /\ Held' \subseteq Held
  BY IInvStep, HeldOtherwise DEF DInv
<1>2. TypeOK'
  BY <1>1 DEF DInv, IInv, TypeOK, discoveryVars
<1>3. PollerInv'
  BY <1>1 DEF DInv, PollerInv, discoveryVars
<1>4. StartsInv' /\ PingInv' /\ StoringInv' /\ ReadyInv' /\ PendingPingsDieSafely'
  BY DEF DInv, StartsInv, PingInv, StoringInv, ReadyInv, PendingPingsDieSafely, discoveryVars
<1> QED
  BY <1>1, <1>2, <1>3, <1>4 DEF DInv

(* Steps of the main thread that leave the runner alone *)
LEMMA MainStep ==
    ASSUME DInv, fault = "none", UNCHANGED runnerVars,
           \/ Construct \/ EnterResults \/ StopScanning \/ Stopped \/ ConsumeClear
           \/ \E erased : LeaveResults(erased)
           \/ \E k \in Keys : ConsumeResult(k)
    PROVE  DInv'
<1>1. /\ UNCHANGED <<queue, timers, current, stopped, isAlive, owner, thread, posted, ended, released>>
      /\ Held' = Held
  BY DEF runnerVars, contextVars, Held, Queued
<1>2. IInv'
  BY IInvStep DEF DInv
<1>3. UNCHANGED <<twice, readyAtFree, m_currentTask, pending, target, future, storing, fault>>
  BY DEF Construct, EnterResults, StopScanning, Stopped, ConsumeClear, LeaveResults, ConsumeResult
<1>4. /\ life' \in {"none", "alive", "freed"} /\ (life' = "freed" => life = "freed")
      /\ m_running' \in BOOLEAN
      /\ mpc' \in {"idle", "stopping", "results", "consume"} /\ key' \in Keys
      /\ m_results' \in [Keys -> Resolvers \cup {NoTask}]
      /\ starts' \in {0, starts}
  BY DEF Construct, EnterResults, StopScanning, Stopped, ConsumeClear, LeaveResults, ConsumeResult, DInv, TypeOK
<1>5. TypeOK' /\ StartsInv'
  <2>1. /\ Cardinality(Pollers) \in Nat /\ Cardinality(Pollers \cap posted) \in Nat
    BY PollersAssumption, FS_CardinalityType, FS_Intersection
  <2> QED
    BY <1>1, <1>2, <1>3, <1>4, <2>1 DEF DInv, IInv, TypeOK, StartsInv
<1>6. PingInv' /\ StoringInv' /\ ReadyInv' /\ PendingPingsDieSafely'
  BY <1>1, <1>3, <1>4 DEF DInv, PingInv, StoringInv, ReadyInv, PendingPingsDieSafely
<1>7. PollerInv'
  <2>1. CASE Stopped
    BY <1>1, <1>3, <2>1 DEF DInv, PollerInv, Stopped, Expired
  <2>2. CASE starts' = starts
    BY <1>1, <1>3, <2>2 DEF DInv, PollerInv
  <2> QED
    BY <2>1, <2>2 DEF Construct, EnterResults, StopScanning, ConsumeClear, LeaveResults, ConsumeResult
<1> QED
  BY <1>2, <1>5, <1>6, <1>7 DEF DInv

(* The first start() after a stop() finds no poller, and any other is recorded *)
(* in twice.                                                                   *)
LEMMA StartStep ==
    ASSUME DInv, fault = "none", NEW p \in Pollers, Start(p)
    PROVE  DInv'
<1>1. /\ Post(p) /\ p \in Task
      /\ m_running' = TRUE /\ m_currentTask' = p
      /\ starts' = starts + 1 /\ twice' = (twice \/ starts > 0)
      /\ UNCHANGED <<life, readyAtFree, mpc, key, pending, target, future, storing, m_results, fault>>
  BY TasksAssumption DEF Start
<1>2. p \notin posted /\ posted' = posted \cup {p} /\ current' = current
  BY <1>1 DEF Post
<1>3. IInv' /\ Held' \subseteq Held \cup {p}
  BY <1>1, IInvStep, HeldByPost DEF DInv, Next
<1>4. /\ Cardinality(Pollers \cap posted') = Cardinality(Pollers \cap posted) + 1
      /\ Cardinality(Pollers \cap posted') <= Cardinality(Pollers)
      /\ Cardinality(Pollers) \in Nat /\ Cardinality(Pollers \cap posted) \in Nat
  <2>1. Pollers \cap posted' = (Pollers \cap posted) \cup {p} /\ p \notin Pollers \cap posted
    BY <1>2
  <2>2. IsFiniteSet(Pollers \cap posted) /\ IsFiniteSet(Pollers \cap posted')
    BY PollersAssumption, FS_Intersection
  <2> QED
    BY <2>1, <2>2, PollersAssumption, FS_AddElement, FS_CardinalityType, FS_Subset
<1>5. TypeOK' /\ StartsInv'
  BY <1>1, <1>3, <1>4 DEF DInv, IInv, TypeOK, StartsInv
<1>6. PingInv' /\ StoringInv' /\ ReadyInv' /\ PendingPingsDieSafely'
  BY <1>1, <1>2 DEF DInv, PingInv, StoringInv, ReadyInv, PendingPingsDieSafely
<1>7. PollerInv'
  <2>1. starts \in Nat /\ twice \in BOOLEAN
    BY <1>4 DEF DInv, TypeOK
  <2>2. starts' # 0 /\ (~twice' => ~twice /\ starts = 0)
    <3>1. ~twice' => ~twice /\ ~(starts > 0)
      BY <1>1, Zenon
    <3> QED
      BY <1>1, <2>1, <3>1
  <2>3. ~twice' => Pollers \cap Held = {}
    BY <2>2 DEF DInv, PollerInv
  <2> QED
    BY <1>1, <1>3, <2>2, <2>3 DEF PollerInv
<1> QED
  BY <1>3, <1>5, <1>6, <1>7 DEF DInv

(* A resolver that was never posted has no request and is not being run. *)
LEMMA DiscoverStep ==
    ASSUME DInv, fault = "none", NEW r \in Resolvers, NEW h \in Hosts, Discover(r, h)
    PROVE  DInv'
<1>1. /\ Post(r) /\ r \in Task /\ r \notin Pollers /\ h \in Keys /\ life = "alive"
      /\ pending' = [pending EXCEPT ![h] = r]
      /\ target' = [target EXCEPT ![r] = h]
      /\ future' = [s \in Resolvers |-> IF s = r THEN "pending"
                                        ELSE IF s = pending[h] THEN "broken" ELSE future[s]]
      /\ UNCHANGED <<life, starts, twice, readyAtFree, mpc, key, m_running, m_currentTask,
                     storing, m_results, fault>>
  BY TasksAssumption DEF Discover, Keys
<1>2. r \notin posted /\ posted' = posted \cup {r} /\ current' = current
  BY <1>1 DEF Post
<1>3. IInv' /\ Held' \subseteq Held \cup {r}
  BY <1>1, IInvStep, HeldByPost DEF DInv, Next
<1>4. Pollers \cap posted' = Pollers \cap posted /\ Pollers \cap Held' \subseteq Pollers \cap Held
  BY <1>1, <1>2, <1>3
<1>5. TypeOK'
  BY <1>1, <1>3 DEF DInv, IInv, TypeOK
<1>6. StartsInv' /\ PollerInv'
  BY <1>1, <1>4 DEF DInv, StartsInv, PollerInv
<1>7. PingInv'
  <2> SUFFICES ASSUME NEW g \in Hosts, pending'[g] # NoTask
               PROVE  /\ pending'[g] \in posted' /\ target'[pending'[g]] = g
                      /\ future'[pending'[g]] = "pending"
    BY DEF PingInv
  <2>1. CASE g = h
    BY <1>1, <1>2, <2>1 DEF DInv, TypeOK
  <2>2. CASE g # h
    <3>1. PICK s : s = pending[g] /\ s = pending'[g] /\ s \in Resolvers
      BY <1>1, <2>2, NoTaskAssumption DEF DInv, TypeOK
    <3>2. s \in posted /\ target[s] = g /\ future[s] = "pending" /\ s # r
      BY <1>2, <3>1 DEF DInv, PingInv
    <3>3. s # pending[h]
      BY <2>2, <3>1, <3>2, NoTaskAssumption, TasksAssumption DEF DInv, PingInv
    <3> QED
      BY <1>1, <1>2, <3>1, <3>2, <3>3 DEF DInv, TypeOK
  <2> QED
    BY <2>1, <2>2
<1>8. StoringInv'
  <2>1. current # NoTask => current \in posted
    BY DEF DInv, IInv, HeldInv
  <2>2. storing => current \in Resolvers /\ current # NoTask /\ current # r /\ current # pending[h]
    BY <1>2, <2>1, NoTaskAssumption, TasksAssumption DEF DInv, StoringInv, PingInv
  <2> QED
    BY <1>1, <1>2, <2>2 DEF DInv, StoringInv
<1>9. ReadyInv' /\ PendingPingsDieSafely'
  BY <1>1 DEF DInv, ReadyInv, PendingPingsDieSafely
<1> QED
  BY <1>3, <1>5, <1>6, <1>7, <1>8, <1>9 DEF DInv

(* The destructor breaks the pending promises; which futures are ready is      *)
(* recorded.                                                                   *)
LEMMA FreeStep ==
    ASSUME DInv, fault = "none", UNCHANGED runnerVars, Free
    PROVE  DInv'
<1>1. /\ UNCHANGED <<queue, timers, current, stopped, isAlive, owner, thread, posted, ended, released>>
      /\ Held' = Held
  BY DEF runnerVars, contextVars, Held, Queued
<1>2. IInv'
  BY IInvStep DEF DInv
<1>3. /\ life' = "freed" /\ readyAtFree' = {r \in Resolvers : future[r] \in {"value", "error"}}
      /\ future' = [r \in Resolvers |-> IF \E h \in Hosts : pending[h] = r THEN "broken" ELSE future[r]]
      /\ pending' = [h \in Hosts |-> NoTask]
      /\ UNCHANGED <<starts, twice, mpc, key, m_running, m_currentTask, target, storing, m_results, fault>>
  BY DEF Free, BrokenBy
<1>4. TypeOK'
  BY <1>2, <1>3 DEF DInv, IInv, TypeOK
<1>5. StartsInv' /\ PingInv' /\ PollerInv' /\ PendingPingsDieSafely'
  BY <1>1, <1>3 DEF DInv, StartsInv, PingInv, PollerInv, PendingPingsDieSafely
<1>6. \A r \in Resolvers : future'[r] \in {"value", "error"} => future[r] \in {"value", "error"}
  BY <1>3
<1>7. ReadyInv'
  BY <1>3, <1>6 DEF ReadyInv
<1>8. StoringInv'
  <2>1. storing => current \in Resolvers /\ \A h \in Hosts : current # pending[h]
    BY NoTaskAssumption, TasksAssumption DEF DInv, StoringInv, PingInv
  <2> QED
    BY <1>1, <1>3, <2>1 DEF DInv, StoringInv
<1> QED
  BY <1>2, <1>4, <1>5, <1>7, <1>8 DEF DInv

(* The poller runs, so no resolver does. *)
LEMMA CompleteStep ==
    ASSUME DInv, fault = "none", current \in Pollers, life = "alive",
           NEW hosts \in SUBSET Hosts, NEW state \in {"value", "error"}, Complete(hosts, state),
           NEW c \in Continuation, Resolve(c)
    PROVE  DInv'
<1>1. /\ future' = [r \in Resolvers |-> IF \E h \in hosts : pending[h] = r THEN state ELSE future[r]]
      /\ pending' = [h \in Hosts |-> IF h \in hosts THEN NoTask ELSE pending[h]]
      /\ UNCHANGED <<life, starts, twice, readyAtFree, mpc, key, m_running, m_currentTask, target,
                     storing, m_results, fault>>
  BY DEF Complete
<1>2. posted' = posted /\ [Next]_runnerVars
  BY DEF Resolve, Next
<1>3. IInv' /\ Held' \subseteq Held
  BY <1>2, IInvStep, HeldOtherwise DEF DInv
<1>4. TypeOK'
  BY <1>1, <1>3 DEF DInv, IInv, TypeOK
<1>5. StartsInv' /\ PollerInv'
  BY <1>1, <1>2, <1>3 DEF DInv, StartsInv, PollerInv
<1>6. ReadyInv' /\ PendingPingsDieSafely'
  BY <1>1 DEF DInv, ReadyInv, PendingPingsDieSafely
<1>7. StoringInv'
  BY <1>1, TasksAssumption DEF DInv, StoringInv
<1>8. PingInv'
  <2> SUFFICES ASSUME NEW g \in Hosts, pending'[g] # NoTask
               PROVE  /\ pending'[g] \in posted' /\ target'[pending'[g]] = g
                      /\ future'[pending'[g]] = "pending"
    BY DEF PingInv
  <2>1. PICK s : s = pending[g] /\ s = pending'[g] /\ s \in Resolvers /\ g \notin hosts
    BY <1>1 DEF DInv, TypeOK
  <2>2. s # NoTask /\ s \in posted /\ target[s] = g /\ future[s] = "pending"
    BY <2>1 DEF DInv, PingInv
  <2>3. \A h \in hosts : pending[h] # s
    BY <2>1, <2>2 DEF DInv, PingInv
  <2> QED
    BY <1>1, <1>2, <2>1, <2>2, <2>3
<1> QED
  BY <1>3, <1>4, <1>5, <1>6, <1>7, <1>8 DEF DInv

(* What ends in a fault *)
LEMMA FaultStep ==
    ASSUME DInv, fault = "none", UNCHANGED runnerVars, PollerDangles \/ DataRace
    PROVE  DInv'
<1>1. UNCHANGED <<queue, timers, current, stopped, isAlive, owner, thread, posted, ended, released>>
  BY DEF runnerVars, contextVars
<1>2. IInv' /\ Held' = Held
  BY <1>1, IInvStep DEF DInv, Held, Queued
<1>3. /\ fault' \in {"scanner", "race"}
      /\ UNCHANGED <<objectVars, mainVars, scannerVars, pingVars, resultVars>>
  BY DEF PollerDangles, DataRace
<1>4. TypeOK'
  BY <1>2, <1>3 DEF DInv, IInv, TypeOK
<1> QED
  BY <1>1, <1>2, <1>3, <1>4
     DEF DInv, StartsInv, PingInv, StoringInv, ReadyInv, PollerInv, PendingPingsDieSafely

(* A resolver's result reaches the task, or finds it freed: then it was ready  *)
(* when the task was freed.                                                    *)
LEMMA ResultStep ==
    ASSUME DInv, fault = "none", ResolverCallsBack \/ ResolverStores
    PROVE  DInv'
<1>1. /\ current \in Resolvers /\ future[current] \in {"value", "error"}
      /\ current \in Task /\ current # NoTask
  BY TasksAssumption, NoTaskAssumption DEF DInv, StoringInv, ResolverCallsBack, ResolverStores
<1>2. UNCHANGED <<objectVars, mainVars, scannerVars, pingVars>>
  BY DEF ResolverCallsBack, ResolverStores
<1>3. CASE UNCHANGED runnerVars /\ UNCHANGED m_results
  <2>1. UNCHANGED <<queue, timers, current, stopped, isAlive, owner, thread, posted, ended, released>>
    BY <1>3 DEF runnerVars, contextVars
  <2>2. IInv' /\ Held' = Held
    BY <2>1, <1>3, IInvStep DEF DInv, Held, Queued
  <2>3. storing' \in BOOLEAN /\ fault' \in {"none", "task"} /\ (fault' = "task" => life = "freed")
    BY DEF DInv, TypeOK, ResolverCallsBack, ResolverStores
  <2>4. TypeOK'
    BY <1>2, <1>3, <2>2, <2>3 DEF DInv, IInv, TypeOK
  <2>5. StartsInv' /\ PingInv' /\ ReadyInv' /\ PollerInv'
    BY <1>2, <2>1, <2>2 DEF DInv, StartsInv, PingInv, ReadyInv, PollerInv
  <2>6. StoringInv' /\ PendingPingsDieSafely'
    BY <1>1, <1>2, <2>1, <2>3 DEF DInv, StoringInv, ReadyInv, PendingPingsDieSafely
  <2> QED
    BY <2>2, <2>4, <2>5, <2>6 DEF DInv
<1>4. CASE ResolverStores /\ life # "freed"
  <2>1. /\ Resolve("End") /\ storing' = FALSE /\ fault' = fault
        /\ m_results' = [m_results EXCEPT ![ResultKey(current)] = current]
    BY <1>4 DEF ResolverStores
  <2>2. posted' = posted /\ [Next]_runnerVars
    BY <2>1 DEF Resolve, Next, Continuation
  <2>3. IInv' /\ Held' \subseteq Held
    BY <2>2, IInvStep, HeldOtherwise DEF DInv
  <2>4. m_results' \in [Keys -> Resolvers \cup {NoTask}]
    BY <1>1, <2>1 DEF DInv, TypeOK
  <2>5. TypeOK'
    BY <1>2, <2>1, <2>3, <2>4 DEF DInv, IInv, TypeOK
  <2>6. StartsInv' /\ PingInv' /\ ReadyInv' /\ PollerInv' /\ StoringInv'
    BY <1>2, <2>1, <2>2, <2>3 DEF DInv, StartsInv, PingInv, ReadyInv, PollerInv, StoringInv
  <2>7. PendingPingsDieSafely'
    BY <2>1 DEF PendingPingsDieSafely
  <2> QED
    BY <2>3, <2>5, <2>6, <2>7 DEF DInv
<1> QED
  BY <1>3, <1>4 DEF ResolverCallsBack, ResolverStores, resultVars

LEMMA NextDInv == DInv /\ [DiscoveryNext]_vars => DInv'
<1> SUFFICES ASSUME DInv, [DiscoveryNext]_vars PROVE DInv'
  OBVIOUS
<1>1. CASE UNCHANGED vars
  BY <1>1, RunnerStep DEF vars, runnerVars
<1>2. CASE DiscoveryNext
  <2>0. fault = "none"
    BY <1>2 DEF DiscoveryNext
  <2>1. CASE Schedule \/ DestroyRunner
    <3>1. Schedule => [Next]_runnerVars /\ UNCHANGED discoveryVars /\ posted' = posted
      BY DEF Schedule, Next, BeginTask, FireTimer, ThreadEnds, TimerExpires
    <3>2. DestroyRunner => [Next]_runnerVars /\ UNCHANGED discoveryVars /\ posted' = posted
      BY DEF DestroyRunner, Next, Destroy, BeginDestroy, DestroyStop, ReleaseIsAlive, JoinThread, DestroyContext
    <3>3. current' = current \/ current = NoTask
      BY <2>1 DEF Schedule, DestroyRunner, BeginTask, Serves, FireTimer, ThreadEnds, TimerExpires,
                  Destroy, BeginDestroy, DestroyStop, ReleaseIsAlive, JoinThread, DestroyContext
    <3>4. storing => current # NoTask
      BY NoTaskAssumption, TasksAssumption DEF DInv, StoringInv
    <3> QED
      BY <2>0, <2>1, <3>1, <3>2, <3>3, <3>4, RunnerStep
  <2>2. CASE PollerEnds \/ ResolverWaits \/ ResolverFails
    <3>1. PICK c \in Continuation : Resolve(c)
      BY <2>2 DEF PollerEnds, ResolverWaits, ResolverFails, Continuation
    <3>2. UNCHANGED discoveryVars /\ posted' = posted /\ [Next]_runnerVars
      BY <2>2, <3>1 DEF PollerEnds, ResolverWaits, ResolverFails, Resolve, Next
    <3>3. ~storing
      BY <2>2, TasksAssumption DEF PollerEnds, ResolverWaits, ResolverFails, DInv, StoringInv
    <3> QED
      BY <2>0, <3>2, <3>3, RunnerStep
  <2>3. CASE \E hosts \in SUBSET Hosts : PollerReceives(hosts) \/ PollerSweeps(hosts)
    BY <2>0, <2>3, CompleteStep DEF PollerReceives, PollerSweeps, Continuation
  <2>4. CASE PollerDangles \/ DataRace
    BY <2>0, <2>4, FaultStep DEF PollerDangles, DataRace
  <2>5. CASE ResolverCallsBack \/ ResolverStores
    BY <2>0, <2>5, ResultStep
  <2>6. CASE Main /\ ~DestroyRunner
    <3>1. CASE \E p \in Pollers : Start(p)
      BY <2>0, <3>1, StartStep
    <3>2. CASE \E r \in Resolvers, h \in Hosts : Discover(r, h)
      BY <2>0, <3>2, DiscoverStep
    <3>3. CASE Free
      BY <2>0, <3>3, FreeStep DEF Free
    <3>4. CASE Construct \/ EnterResults \/ StopScanning
      BY <2>0, <3>4, MainStep DEF Construct, EnterResults, StopScanning
    <3>5. CASE \E erased \in {{}, Keys} \cup {{k} : k \in Keys} : LeaveResults(erased)
      BY <2>0, <3>5, MainStep DEF LeaveResults
    <3>6. CASE \E k \in Keys : ConsumeResult(k)
      BY <2>0, <3>6, MainStep DEF ConsumeResult
    <3> QED
      BY <2>6, <3>1, <3>2, <3>3, <3>4, <3>5, <3>6 DEF Main
  <2>7. CASE Stopped \/ ConsumeClear
    BY <2>0, <2>7, MainStep DEF Stopped, ConsumeClear
  <2> QED
    BY <1>2, <2>1, <2>2, <2>3, <2>4, <2>5, <2>6, <2>7 DEF DiscoveryNext, Poller, Resolver
<1> QED
  BY <1>1, <1>2
-----------------------------------------------------------------------------
(* The inductive invariant of the composition, which the properties below      *)
(* follow from                                                                 *)
THEOREM DiscoveryInvariance == DiscoverySpec => []DInv
BY InitDInv, NextDInv, PTL DEF DiscoverySpec

(* Every variable of the composition keeps its type. *)
THEOREM TypeCorrectness == DiscoverySpec => []TypeOK
<1>1. DInv => TypeOK
  BY DEF DInv
<1> QED
  BY <1>1, DiscoveryInvariance, PTL

(* When stop() has returned no poller is left, however often the scanner is    *)
(* stopped and started again, if it is never started twice.                    *)
THEOREM StoppingIsComplete == DiscoverySpec => []StopEndsOnlyPoller
<1>1. DInv => StopEndsOnlyPoller
  BY DEF DInv, TypeOK, PollerInv, StopEndsOnlyPoller, StopBlocksTillEnded
<1> QED
  BY <1>1, DiscoveryInvariance, PTL

(* A resolver touches the freed task only with a result that was ready before. *)
THEOREM PingsDieSafely == DiscoverySpec => []PendingPingsDieSafely
<1>1. DInv => PendingPingsDieSafely
  BY DEF DInv
<1> QED
  BY <1>1, DiscoveryInvariance, PTL
-----------------------------------------------------------------------------
(* The discovery task's use of the runner *)

LEMMA StepUsesRunner == [DiscoveryNext]_vars => [Next]_runnerVars
<1> SUFFICES ASSUME [DiscoveryNext]_vars PROVE [Next]_runnerVars
  OBVIOUS
<1>1. CASE UNCHANGED runnerVars \/ UNCHANGED vars
  BY <1>1 DEF vars
<1>2. ASSUME NEW t \in Task, Post(t) PROVE Next
  BY <1>2 DEF Next
<1>3. ASSUME NEW c \in Continuation, Resolve(c) PROVE Next
  BY <1>3 DEF Next
<1>4. Schedule \/ DestroyRunner => Next
  BY DEF Schedule, DestroyRunner, Next
<1>5. Poller \/ Resolver => [Next]_runnerVars
  BY <1>3 DEF Poller, Resolver, PollerDangles, PollerEnds, PollerReceives, PollerSweeps,
              ResolverWaits, ResolverFails, ResolverCallsBack, ResolverStores, Continuation
<1>6. Main => [Next]_runnerVars
  <2>1. (\E p \in Pollers : Start(p)) \/ (\E r \in Resolvers, h \in Hosts : Discover(r, h)) => Next
    BY <1>2, TasksAssumption DEF Start, Discover
  <2>2. (\E erased \in {{}, Keys} \cup {{k} : k \in Keys} : LeaveResults(erased))
          \/ (\E k \in Keys : ConsumeResult(k)) => UNCHANGED runnerVars
    BY DEF LeaveResults, ConsumeResult
  <2>3. Construct \/ Free \/ EnterResults \/ StopScanning => UNCHANGED runnerVars
    BY DEF Construct, Free, EnterResults, StopScanning
  <2> QED
    BY <1>4, <2>1, <2>2, <2>3 DEF Main
<1>7. Stopped \/ ConsumeClear \/ DataRace => UNCHANGED runnerVars
  BY DEF Stopped, ConsumeClear, DataRace
<1> QED
  BY <1>1, <1>4, <1>5, <1>6, <1>7 DEF DiscoveryNext

(* The discovery task, its poller and its resolvers use the runner only as     *)
(* TaskRunner says it may be used: every step of theirs is one of its steps.   *)
THEOREM UsesRunner == DiscoverySpec => RunnerInit /\ [][Next]_runnerVars
<1>1. Init => RunnerInit
  BY DEF Init
<1> QED
  BY <1>1, StepUsesRunner, PTL DEF DiscoverySpec

(* So the runner keeps its promises to them: no poller and no resolver is ever *)
(* queued or run twice at a time, none is lost, and nothing outlives ~TaskRunner. *)
THEOREM RunnerServesDiscovery ==
    DiscoverySpec => [](OnePlace /\ NoTaskLost /\ NothingOutlivesRunner /\ ReleasedUseIsLast)
<1> DEFINE Safe == OnePlace /\ NoTaskLost /\ NothingOutlivesRunner /\ ReleasedUseIsLast
<1>1. DInv => Safe
  BY Promises DEF DInv
<1> HIDE DEF Safe
<1>2. DiscoverySpec => []Safe
  BY <1>1, DiscoveryInvariance, PTL
<1> QED
  BY <1>2 DEF Safe
-----------------------------------------------------------------------------
(* The promises of the pings *)

(* The results a future can end up with *)
Settled == {"value", "error", "broken"}

(* A promise is fulfilled or broken once: set_value and set_exception never    *)
(* meet a future that has a result already, for which they would throw.        *)
SettledStays == \A r \in Resolvers : future[r] \in Settled => future'[r] = future[r]

(* No resolver ends, and gives its callback up, while its ping is pending. *)
EndedIsSettled == \A r \in ended \cap Resolvers : future[r] \in Settled

(* A resolver that was not posted has no future yet. *)
FreshInv == \A r \in Resolvers \ posted : future[r] = "none"

FutureInv == DInv /\ FreshInv /\ EndedIsSettled

LEMMA FutureStep ==
    ASSUME FutureInv, [DiscoveryNext]_vars
    PROVE  /\ SettledStays
           /\ \A r \in Resolvers : future'[r] # future[r] => r \in posted'
<1>0. /\ DInv /\ FreshInv /\ posted \subseteq posted'
      /\ \A h \in Hosts : pending[h] \in Resolvers =>
            pending[h] \in posted /\ future[pending[h]] = "pending"
  <2>1. DInv /\ FreshInv
    BY DEF FutureInv
  <2>2. \A h \in Hosts : pending[h] \in Resolvers =>
            pending[h] \in posted /\ future[pending[h]] = "pending"
    BY <2>1, NoTaskAssumption, TasksAssumption DEF DInv, PingInv
  <2>3. posted \subseteq posted'
    BY StepUsesRunner DEF Next, Post, PostDelayed, TimerExpires, BeginTask, FireTimer, ThreadEnds,
       Resolve, Stop, Destroy, BeginDestroy, DestroyStop, ReleaseIsAlive, JoinThread, DestroyContext,
       runnerVars
  <2> QED
    BY <2>1, <2>2, <2>3
<1>1. CASE UNCHANGED future
  BY <1>1 DEF SettledStays
<1>2. ASSUME NEW s \in Resolvers, NEW h \in Hosts, Discover(s, h)
      PROVE  /\ SettledStays
             /\ \A r \in Resolvers : future'[r] # future[r] => r \in posted'
  <2>1. /\ s \notin posted /\ posted' = posted \cup {s}
        /\ future' = [r \in Resolvers |-> IF r = s THEN "pending"
                                          ELSE IF r = pending[h] THEN "broken" ELSE future[r]]
    BY <1>2 DEF Discover, Post
  <2>2. future[s] = "none"
    BY <1>0, <2>1 DEF FreshInv
  <2> QED
    BY <1>0, <2>1, <2>2 DEF SettledStays, Settled
<1>3. ASSUME NEW hosts \in SUBSET Hosts, NEW state,
             future' = [r \in Resolvers |-> IF \E h \in hosts : pending[h] = r
                                            THEN state ELSE future[r]]
      PROVE  /\ SettledStays
             /\ \A r \in Resolvers : future'[r] # future[r] => r \in posted'
  BY <1>0, <1>3 DEF SettledStays, Settled
<1>4. CASE Free
  BY <1>3, <1>4 DEF Free, BrokenBy
<1>5. CASE \E hosts \in SUBSET Hosts : PollerReceives(hosts) \/ PollerSweeps(hosts)
  BY <1>3, <1>5 DEF PollerReceives, PollerSweeps, Complete
<1>6. CASE UNCHANGED vars
  BY <1>1, <1>6 DEF vars, discoveryVars
<1>7. ASSUME NEW erased, LeaveResults(erased) PROVE UNCHANGED future
  BY <1>7 DEF LeaveResults
<1>8. ASSUME NEW k \in Keys, ConsumeResult(k) PROVE UNCHANGED future
  BY <1>8 DEF ConsumeResult
<1>9. ASSUME NEW p \in Pollers, Start(p) PROVE UNCHANGED future
  BY <1>9 DEF Start
<1>10. Construct \/ EnterResults \/ StopScanning \/ Stopped \/ ConsumeClear \/ DestroyRunner
         \/ Schedule \/ DataRace \/ PollerDangles \/ PollerEnds \/ Resolver
       => UNCHANGED future
  BY DEF Construct, EnterResults, StopScanning, Stopped, ConsumeClear, DestroyRunner, Schedule,
         DataRace, PollerDangles, PollerEnds, Resolver, ResolverWaits, ResolverFails,
         ResolverCallsBack, ResolverStores, discoveryVars
<1> QED
  BY <1>1, <1>2, <1>4, <1>5, <1>6, <1>7, <1>8, <1>9, <1>10 DEF DiscoveryNext, Main, Poller

(* A resolver ends when it has stored a result, or logged a broken promise. *)
LEMMA EndingStep ==
    ASSUME FutureInv, [DiscoveryNext]_vars, NEW r \in Resolvers, r \in ended', r \notin ended
    PROVE  future[r] \in Settled
<1>1. \E c \in Continuation : Resolve(c) /\ c = "End" /\ r = current
  BY StepUsesRunner DEF Next, Post, PostDelayed, TimerExpires, BeginTask, FireTimer, ThreadEnds,
     Resolve, Stop, Destroy, BeginDestroy, DestroyStop, ReleaseIsAlive, JoinThread, DestroyContext,
     runnerVars
<1>2. current = r /\ current' = NoTask /\ r # NoTask /\ r \notin Pollers
  BY <1>1, TasksAssumption DEF Resolve
<1>3. CASE ResolverFails \/ ResolverCallsBack
  BY <1>2, <1>3 DEF ResolverFails, ResolverCallsBack, Settled
<1>4. CASE ResolverStores
  BY <1>2, <1>4 DEF ResolverStores, FutureInv, DInv, StoringInv, Settled
<1>5. CASE ResolverWaits
  BY <1>5, <1>2 DEF ResolverWaits, Resolve
<1>6. CASE Schedule \/ DestroyRunner
  BY <1>6 DEF Schedule, DestroyRunner, BeginTask, FireTimer, ThreadEnds, TimerExpires,
     Destroy, BeginDestroy, DestroyStop, ReleaseIsAlive, JoinThread, DestroyContext
<1>7. CASE Poller
  BY <1>2, <1>7 DEF Poller, PollerDangles, PollerEnds, PollerReceives, PollerSweeps, runnerVars
<1>8. CASE UNCHANGED runnerVars \/ UNCHANGED vars
  BY <1>8 DEF vars, runnerVars
<1>9. CASE Main /\ ~DestroyRunner
  <2>1. ASSUME NEW t \in Task, Post(t) PROVE FALSE
    BY <2>1 DEF Post
  <2>2. (\E p \in Pollers : Start(p)) \/ (\E q \in Resolvers, h \in Hosts : Discover(q, h)) => FALSE
    BY <2>1, TasksAssumption DEF Start, Discover
  <2>3. (\E erased \in {{}, Keys} \cup {{k} : k \in Keys} : LeaveResults(erased))
          \/ (\E k \in Keys : ConsumeResult(k)) => UNCHANGED runnerVars
    BY DEF LeaveResults, ConsumeResult
  <2>4. Construct \/ Free \/ EnterResults \/ StopScanning => UNCHANGED runnerVars
    BY DEF Construct, Free, EnterResults, StopScanning
  <2> QED
    BY <1>8, <1>9, <2>2, <2>3, <2>4 DEF Main
<1>10. Stopped \/ ConsumeClear \/ DataRace => UNCHANGED runnerVars
  BY DEF Stopped, ConsumeClear, DataRace
<1> QED
  BY <1>3, <1>4, <1>5, <1>6, <1>7, <1>8, <1>9, <1>10 DEF DiscoveryNext, Resolver

LEMMA NextFutureInv == FutureInv /\ [DiscoveryNext]_vars => FutureInv' /\ SettledStays
<1> SUFFICES ASSUME FutureInv, [DiscoveryNext]_vars PROVE FutureInv' /\ SettledStays
  OBVIOUS
<1>1. /\ SettledStays
      /\ \A r \in Resolvers : future'[r] # future[r] => r \in posted'
  BY FutureStep
<1>2. DInv'
  BY NextDInv DEF FutureInv
<1>3. posted \subseteq posted'
  BY StepUsesRunner DEF Next, Post, PostDelayed, TimerExpires, BeginTask, FireTimer, ThreadEnds,
     Resolve, Stop, Destroy, BeginDestroy, DestroyStop, ReleaseIsAlive, JoinThread, DestroyContext,
     runnerVars
<1>4. FreshInv'
  BY <1>1, <1>3 DEF FreshInv, FutureInv
<1>5. EndedIsSettled'
  <2> SUFFICES ASSUME NEW r \in Resolvers, r \in ended' PROVE future'[r] \in Settled
    BY DEF EndedIsSettled
  <2>1. future[r] \in Settled
    BY EndingStep DEF FutureInv, EndedIsSettled
  <2> QED
    BY <1>1, <2>1 DEF SettledStays
<1> QED
  BY <1>1, <1>2, <1>4, <1>5 DEF FutureInv

LEMMA FutureInvariance == DiscoverySpec => []FutureInv
<1>1. Init => FutureInv
  BY InitDInv DEF FutureInv, FreshInv, EndedIsSettled, Init, RunnerInit
<1> QED
  BY <1>1, NextFutureInv, PTL DEF DiscoverySpec

(* Whether the poller answers, a request is overwritten by the next discover() *)
(* of its host or the task is destroyed: a ping's future settles only once.    *)
THEOREM FuturesSettleOnce == DiscoverySpec => [][SettledStays]_vars
<1>1. FutureInv /\ [DiscoveryNext]_vars => [SettledStays]_vars
  BY NextFutureInv
<1> QED
  BY <1>1, FutureInvariance, PTL DEF DiscoverySpec

(* A resolver polls its future to the end, whatever the main thread does. *)
THEOREM ResolversWait == DiscoverySpec => []EndedIsSettled
<1>1. FutureInv => EndedIsSettled
  BY DEF FutureInv
<1> QED
  BY <1>1, FutureInvariance, PTL
=============================================================================
