--------------------------- MODULE TaskRunner_proofs ---------------------------
(* Proofs about TaskRunner, for any set of tasks. *)
EXTENDS TaskRunner, TLAPS

Tasks(q) == {q[i].task : i \in DOMAIN q}
Distinct(q) == \A i, j \in DOMAIN q : q[i].task = q[j].task => i = j

(* Whatever the runner holds was posted to it. *)
HeldInv == Tasks(queue) \cup timers \subseteq posted /\ (current # NoTask => current \in posted)

(* How far the destructor and the service thread have come *)
LifeInv ==
    /\ owner \notin {"alive", "dying"} => stopped
    /\ thread = "ended" => stopped /\ current = NoTask
    /\ owner \in {"joined", "gone"} => thread = "ended"
    /\ owner = "gone" => queue = << >> /\ timers = {}

PlaceInv ==
    /\ Distinct(queue)
    /\ Tasks(queue) \cap timers = {}
    /\ current \notin Tasks(queue) \cup timers

LostInv == ~stopped /\ isAlive => posted \ ended \subseteq Tasks(queue) \cup timers \cup {current}

IInv == RunnerTypeOK /\ HeldInv /\ LifeInv /\ PlaceInv /\ LostInv /\ ReleasedUseIsLast

USE DEF contextVars
-----------------------------------------------------------------------------
(* Queues *)

LEMMA QueueAppend ==
    ASSUME NEW q \in Seq(Handler), NEW h \in Handler
    PROVE  /\ Append(q, h) \in Seq(Handler)
           /\ Tasks(Append(q, h)) = Tasks(q) \cup {h.task}
           /\ Distinct(q) /\ h.task \notin Tasks(q) => Distinct(Append(q, h))
<1> DEFINE r == Append(q, h)
<1>1. r \in Seq(Handler) /\ Len(q) \in Nat /\ DOMAIN q = 1 .. Len(q) /\ DOMAIN r = 1 .. Len(q) + 1
  OBVIOUS
<1>2. r[Len(q) + 1] = h /\ \A i \in DOMAIN q : r[i] = q[i]
  OBVIOUS
<1> HIDE DEF r
<1>3. Tasks(r) = Tasks(q) \cup {h.task}
  <2>1. ASSUME NEW t \in Tasks(r) PROVE t \in Tasks(q) \cup {h.task}
    <3>1. PICK i \in DOMAIN r : t = r[i].task
      BY <2>1 DEF Tasks
    <3> QED
      BY <1>1, <1>2, <3>1 DEF Tasks
  <2>2. ASSUME NEW t \in Tasks(q) PROVE t \in Tasks(r)
    <3>1. PICK i \in DOMAIN q : t = q[i].task
      BY <2>2 DEF Tasks
    <3>2. i \in DOMAIN r /\ t = r[i].task
      BY <1>1, <1>2, <3>1
    <3> QED
      BY <3>2 DEF Tasks
  <2>3. Len(q) + 1 \in DOMAIN r
    BY <1>1
  <2>4. h.task \in Tasks(r)
    BY <1>2, <2>3 DEF Tasks
  <2> QED
    BY <2>1, <2>2, <2>4
<1>4. ASSUME Distinct(q), h.task \notin Tasks(q) PROVE Distinct(r)
  <2>1. \A i \in DOMAIN q : q[i].task # h.task
    BY <1>4 DEF Tasks
  <2> QED
    BY <1>1, <1>2, <1>4, <2>1 DEF Distinct
<1> QED
  BY <1>1, <1>3, <1>4 DEF r

LEMMA QueueTail ==
    ASSUME NEW q \in Seq(Handler), q # << >>
    PROVE  /\ Tail(q) \in Seq(Handler) /\ Head(q) \in Handler
           /\ Tasks(q) = Tasks(Tail(q)) \cup {Head(q).task}
           /\ Distinct(q) => Distinct(Tail(q)) /\ Head(q).task \notin Tasks(Tail(q))
<1> DEFINE r == Tail(q)
<1>1. /\ r \in Seq(Handler) /\ Len(q) \in Nat \ {0} /\ DOMAIN q = 1 .. Len(q)
      /\ DOMAIN r = 1 .. Len(q) - 1 /\ Head(q) = q[1] /\ Head(q) \in Handler
  OBVIOUS
<1>2. \A i \in DOMAIN r : r[i] = q[i + 1]
  OBVIOUS
<1> HIDE DEF r
<1>3. Tasks(q) = Tasks(r) \cup {Head(q).task}
  <2>1. ASSUME NEW t \in Tasks(q) PROVE t \in Tasks(r) \cup {Head(q).task}
    <3>1. PICK i \in DOMAIN q : t = q[i].task
      BY <2>1 DEF Tasks
    <3>2. CASE i # 1
      <4>1. i - 1 \in DOMAIN r /\ r[i - 1] = q[i]
        BY <1>1, <1>2, <3>1, <3>2
      <4> QED
        BY <3>1, <4>1 DEF Tasks
    <3> QED
      BY <1>1, <3>1, <3>2
  <2>2. ASSUME NEW t \in Tasks(r) PROVE t \in Tasks(q)
    <3>1. PICK i \in DOMAIN r : t = r[i].task
      BY <2>2 DEF Tasks
    <3>2. i + 1 \in DOMAIN q /\ t = q[i + 1].task
      BY <1>1, <1>2, <3>1
    <3> QED
      BY <3>2 DEF Tasks
  <2>3. Head(q).task \in Tasks(q)
    BY <1>1 DEF Tasks
  <2> QED
    BY <2>1, <2>2, <2>3
<1>4. ASSUME Distinct(q) PROVE Distinct(r) /\ Head(q).task \notin Tasks(r)
  <2>1. \A i \in DOMAIN r : i + 1 \in DOMAIN q /\ i + 1 # 1 /\ r[i] = q[i + 1]
    BY <1>1, <1>2
  <2>2. Head(q).task \notin Tasks(r)
    BY <1>1, <1>4, <2>1 DEF Distinct, Tasks
  <2>3. Distinct(r)
    BY <1>1, <1>4, <2>1 DEF Distinct
  <2> QED
    BY <2>2, <2>3
<1> QED
  BY <1>1, <1>3, <1>4 DEF r

LEMMA QueuePosted ==
    ASSUME NEW q \in Seq(Handler), NEW t \in Task
    PROVE  /\ Posted(q, t) \in Seq(Handler)
           /\ Tasks(q) \subseteq Tasks(Posted(q, t))
           /\ Tasks(Posted(q, t)) \subseteq Tasks(q) \cup {t}
           /\ ~stopped => t \in Tasks(Posted(q, t))
           /\ Distinct(q) /\ t \notin Tasks(q) => Distinct(Posted(q, t))
<1>1. Run(t) \in Handler /\ Run(t).task = t
  BY DEF Run, Handler
<1> QED
  BY <1>1, QueueAppend DEF Posted
-----------------------------------------------------------------------------
(* One lemma per action of which the queue, the timers or the current task are *)
(* not left alone *)

LEMMA InitIInv == RunnerInit => IInv
<1> SUFFICES ASSUME RunnerInit PROVE IInv
  OBVIOUS
<1>1. Tasks(queue) = {} /\ Distinct(queue) /\ queue \in Seq(Handler)
  BY DEF RunnerInit, Tasks, Distinct
<1> QED
  BY <1>1 DEF RunnerInit, IInv, RunnerTypeOK, HeldInv, LifeInv, PlaceInv, LostInv, ReleasedUseIsLast, OwnerPC

LEMMA PostStep ==
    ASSUME IInv, NEW t \in Task, Post(t)
    PROVE  IInv'
<1> USE NoTaskAssumption
<1>1. /\ owner = "alive" /\ t \notin posted /\ queue' = Posted(queue, t) /\ posted' = posted \cup {t}
      /\ UNCHANGED <<timers, current, contextVars, ended, released>>
  BY DEF Post
<1>2. /\ queue \in Seq(Handler) /\ Distinct(queue) /\ t \notin Tasks(queue) \cup timers /\ t # current
  BY <1>1 DEF IInv, RunnerTypeOK, HeldInv, PlaceInv
<1>3. /\ queue' \in Seq(Handler) /\ Distinct(queue') /\ Tasks(queue) \subseteq Tasks(queue')
      /\ Tasks(queue') \subseteq Tasks(queue) \cup {t} /\ (~stopped => t \in Tasks(queue'))
  BY <1>1, <1>2, QueuePosted
<1>4. RunnerTypeOK'
  BY <1>1, <1>3 DEF IInv, RunnerTypeOK
<1>5. HeldInv' /\ LifeInv'
  BY <1>1, <1>3 DEF IInv, HeldInv, LifeInv
<1>6. PlaceInv' /\ LostInv' /\ ReleasedUseIsLast'
  BY <1>1, <1>2, <1>3 DEF IInv, PlaceInv, LostInv, ReleasedUseIsLast
<1> QED
  BY <1>4, <1>5, <1>6 DEF IInv

LEMMA PostDelayedStep ==
    ASSUME IInv, NEW t \in Task, PostDelayed(t)
    PROVE  IInv'
<1>1. /\ owner = "alive" /\ t \notin posted /\ timers' = timers \cup {t} /\ posted' = posted \cup {t}
      /\ UNCHANGED <<queue, current, contextVars, ended, released>>
  BY DEF PostDelayed
<1>2. t \notin Tasks(queue) /\ t # current
  BY <1>1, NoTaskAssumption DEF IInv, HeldInv
<1>3. RunnerTypeOK' /\ HeldInv' /\ LifeInv'
  BY <1>1 DEF IInv, RunnerTypeOK, HeldInv, LifeInv
<1>4. PlaceInv' /\ LostInv' /\ ReleasedUseIsLast'
  BY <1>1, <1>2 DEF IInv, PlaceInv, LostInv, ReleasedUseIsLast
<1> QED
  BY <1>3, <1>4 DEF IInv

LEMMA TimerStep ==
    ASSUME IInv, NEW t \in Task, TimerExpires(t)
    PROVE  IInv'
<1>1. /\ thread = "running" /\ ~stopped /\ t \in timers /\ timers' = timers \ {t}
      /\ queue' = Append(queue, Fire(t))
      /\ UNCHANGED <<current, contextVars, posted, ended, released>>
  BY DEF TimerExpires
<1>2. Fire(t) \in Handler /\ Fire(t).task = t /\ queue \in Seq(Handler) /\ Distinct(queue)
  BY DEF Fire, Handler, IInv, RunnerTypeOK, PlaceInv
<1>3. t \notin Tasks(queue)
  BY <1>1 DEF IInv, PlaceInv
<1>4. queue' \in Seq(Handler) /\ Distinct(queue') /\ Tasks(queue') = Tasks(queue) \cup {t}
  BY <1>1, <1>2, <1>3, QueueAppend
<1>5. RunnerTypeOK' /\ HeldInv' /\ LifeInv'
  BY <1>1, <1>4 DEF IInv, RunnerTypeOK, HeldInv, LifeInv
<1>6. PlaceInv' /\ LostInv' /\ ReleasedUseIsLast'
  BY <1>1, <1>3, <1>4 DEF IInv, PlaceInv, LostInv, ReleasedUseIsLast
<1> QED
  BY <1>5, <1>6 DEF IInv

LEMMA BeginStep ==
    ASSUME IInv, BeginTask
    PROVE  IInv'
<1>1. /\ thread = "running" /\ ~stopped /\ current = NoTask /\ queue # << >>
      /\ current' = Head(queue).task /\ queue' = Tail(queue)
      /\ UNCHANGED <<timers, contextVars, posted, ended, released>>
  BY DEF BeginTask, Serves
<1>2. queue \in Seq(Handler) /\ Distinct(queue)
  BY DEF IInv, RunnerTypeOK, PlaceInv
<1>3. /\ queue' \in Seq(Handler) /\ current' \in Task /\ Distinct(queue')
      /\ Tasks(queue) = Tasks(queue') \cup {current'} /\ current' \notin Tasks(queue')
  BY <1>1, <1>2, QueueTail DEF Handler
<1>4. RunnerTypeOK' /\ HeldInv' /\ LifeInv'
  BY <1>1, <1>3 DEF IInv, RunnerTypeOK, HeldInv, LifeInv
<1>5. PlaceInv'
  BY <1>1, <1>3 DEF IInv, PlaceInv
<1>6. LostInv' /\ ReleasedUseIsLast'
  BY <1>1, <1>3, NoTaskAssumption DEF IInv, RunnerTypeOK, LostInv, ReleasedUseIsLast
<1> QED
  BY <1>4, <1>5, <1>6 DEF IInv

LEMMA FireStep ==
    ASSUME IInv, FireTimer
    PROVE  IInv'
<1> DEFINE t == Head(queue).task
<1>1. /\ thread = "running" /\ ~stopped /\ current = NoTask /\ queue # << >>
      /\ queue' = IF isAlive THEN Posted(Tail(queue), t) ELSE Tail(queue)
      /\ UNCHANGED <<timers, current, contextVars, posted, ended, released>>
  BY DEF FireTimer, Serves
<1>2. queue \in Seq(Handler) /\ Distinct(queue)
  BY DEF IInv, RunnerTypeOK, PlaceInv
<1>3. /\ Tail(queue) \in Seq(Handler) /\ t \in Task /\ Distinct(Tail(queue))
      /\ Tasks(queue) = Tasks(Tail(queue)) \cup {t} /\ t \notin Tasks(Tail(queue))
  BY <1>1, <1>2, QueueTail DEF Handler
<1> HIDE DEF t
<1>4. /\ queue' \in Seq(Handler) /\ Distinct(queue') /\ Tasks(queue') \subseteq Tasks(queue)
      /\ isAlive => Tasks(queue') = Tasks(queue)
  <2>1. CASE isAlive
    <3>1. queue' = Posted(Tail(queue), t)
      BY <1>1, <2>1
    <3>2. /\ Posted(Tail(queue), t) \in Seq(Handler)
          /\ Tasks(Tail(queue)) \subseteq Tasks(Posted(Tail(queue), t))
          /\ Tasks(Posted(Tail(queue), t)) \subseteq Tasks(Tail(queue)) \cup {t}
          /\ t \in Tasks(Posted(Tail(queue), t)) /\ Distinct(Posted(Tail(queue), t))
      BY <1>1, <1>3, QueuePosted
    <3>3. Tasks(queue') = Tasks(queue)
      BY <1>3, <3>1, <3>2
    <3> QED
      BY <3>1, <3>2, <3>3
  <2>2. CASE ~isAlive
    BY <1>1, <1>3, <2>2
  <2> QED
    BY <2>1, <2>2
<1>5. RunnerTypeOK' /\ HeldInv' /\ LifeInv'
  BY <1>1, <1>4 DEF IInv, RunnerTypeOK, HeldInv, LifeInv
<1>6. PlaceInv' /\ LostInv' /\ ReleasedUseIsLast'
  BY <1>1, <1>4 DEF IInv, PlaceInv, LostInv, ReleasedUseIsLast
<1> QED
  BY <1>5, <1>6 DEF IInv

LEMMA ResolveStep ==
    ASSUME IInv, NEW c \in Continuation, Resolve(c)
    PROVE  IInv'
<1> USE NoTaskAssumption
<1>1. /\ current # NoTask /\ current' = NoTask
      /\ queue' = IF c = "RunAgain" THEN Posted(queue, current) ELSE queue
      /\ timers' = IF c = "RunAgainDelayed" THEN timers \cup {current} ELSE timers
      /\ ended' = IF c = "End" THEN ended \cup {current} ELSE ended
      /\ released' = (released \/ (c = "RunAgainDelayed" /\ owner = "joining"))
      /\ UNCHANGED <<contextVars, posted>>
  BY DEF Resolve
<1>2. /\ queue \in Seq(Handler) /\ Distinct(queue) /\ current \in Task /\ current \in posted
      /\ current \notin Tasks(queue) \cup timers
  BY <1>1 DEF IInv, RunnerTypeOK, HeldInv, PlaceInv
<1>3. /\ queue' \in Seq(Handler) /\ Distinct(queue') /\ Tasks(queue) \subseteq Tasks(queue')
      /\ Tasks(queue') \subseteq Tasks(queue) \cup {current}
      /\ c # "RunAgain" => Tasks(queue') = Tasks(queue)
      /\ ~stopped /\ c = "RunAgain" => current \in Tasks(queue')
  BY <1>1, <1>2, QueuePosted
<1>4. RunnerTypeOK'
  BY <1>1, <1>2, <1>3 DEF IInv, RunnerTypeOK
<1>5. HeldInv'
  BY <1>1, <1>2, <1>3 DEF IInv, HeldInv
<1>6. thread = "running"
  BY <1>1 DEF IInv, RunnerTypeOK, LifeInv
<1>7. LifeInv'
  BY <1>1, <1>6 DEF IInv, LifeInv
<1>8. NoTask \notin Tasks(queue') \cup timers'
  <2>1. NoTask \notin timers /\ NoTask \notin posted
    BY DEF IInv, RunnerTypeOK
  <2> QED
    BY <1>1, <1>5, <2>1 DEF HeldInv
<1>9. PlaceInv'
  BY <1>1, <1>2, <1>3, <1>8 DEF IInv, PlaceInv
<1>10. LostInv'
  BY <1>1, <1>3 DEF IInv, LostInv, Continuation
<1>11. ReleasedUseIsLast'
  BY <1>1 DEF IInv, LifeInv, ReleasedUseIsLast
<1> QED
  BY <1>4, <1>5, <1>7, <1>9, <1>10, <1>11 DEF IInv

(* Stopping and destroying *)
LEMMA OwnerStep ==
    ASSUME IInv, ThreadEnds \/ Stop \/ Destroy
    PROVE  IInv'
<1>1. CASE ThreadEnds
  BY <1>1 DEF ThreadEnds, IInv, RunnerTypeOK, HeldInv, LifeInv, PlaceInv, LostInv, ReleasedUseIsLast
<1>2. CASE Stop
  BY <1>2 DEF Stop, IInv, RunnerTypeOK, HeldInv, LifeInv, PlaceInv, LostInv, ReleasedUseIsLast
<1>3. CASE BeginDestroy \/ DestroyStop \/ ReleaseIsAlive \/ JoinThread
  <2>1. UNCHANGED <<queue, timers, current, thread, posted, ended, released>>
    BY <1>3 DEF BeginDestroy, DestroyStop, ReleaseIsAlive, JoinThread
  <2>2. /\ owner' \in OwnerPC \ {"alive", "gone"}
        /\ stopped' \in BOOLEAN /\ isAlive' \in BOOLEAN /\ (stopped => stopped')
        /\ ~stopped' => isAlive' = FALSE
    BY <1>3 DEF BeginDestroy, DestroyStop, ReleaseIsAlive, JoinThread, OwnerPC, IInv, RunnerTypeOK, LifeInv
  <2>3. RunnerTypeOK' /\ HeldInv' /\ PlaceInv'
    BY <2>1, <2>2 DEF IInv, RunnerTypeOK, HeldInv, PlaceInv
  <2>4. LifeInv'
    <3>1. owner' # "dying" => stopped'
      BY <1>3 DEF BeginDestroy, DestroyStop, ReleaseIsAlive, JoinThread, IInv, LifeInv
    <3>2. owner' = "joined" => thread = "ended"
      BY <1>3 DEF BeginDestroy, DestroyStop, ReleaseIsAlive, JoinThread
    <3> QED
      BY <2>1, <2>2, <3>1, <3>2 DEF IInv, LifeInv
  <2>5. LostInv' /\ ReleasedUseIsLast'
    BY <2>1, <2>2 DEF IInv, LostInv, ReleasedUseIsLast
  <2> QED
    BY <2>3, <2>4, <2>5 DEF IInv
<1>4. CASE DestroyContext
  <2>1. Tasks(queue') = {} /\ Distinct(queue') /\ queue' \in Seq(Handler) /\ timers' = {}
    BY <1>4 DEF DestroyContext, Tasks, Distinct
  <2> QED
    BY <1>4, <2>1 DEF DestroyContext, OwnerPC,
                      IInv, RunnerTypeOK, HeldInv, LifeInv, PlaceInv, LostInv, ReleasedUseIsLast
<1> QED
  BY <1>1, <1>2, <1>3, <1>4 DEF Destroy

LEMMA IInvStep == IInv /\ [Next]_runnerVars => IInv'
<1> SUFFICES ASSUME IInv, [Next]_runnerVars PROVE IInv'
  OBVIOUS
<1>1. CASE Next
  BY <1>1, PostStep, PostDelayedStep, TimerStep, BeginStep, FireStep, ResolveStep, OwnerStep DEF Next
<1>2. CASE UNCHANGED runnerVars
  BY <1>2 DEF runnerVars, IInv, RunnerTypeOK, HeldInv, LifeInv, PlaceInv, LostInv, ReleasedUseIsLast
<1> QED
  BY <1>1, <1>2
-----------------------------------------------------------------------------
(* The inductive invariant, which the properties below follow from *)
THEOREM Invariance == Spec => []IInv
BY InitIInv, IInvStep, PTL DEF Spec

LEMMA QueuedIsTasks == Queued = Tasks(queue)
BY DEF Queued, Tasks

(* What the inductive invariant says in terms of the properties *)
LEMMA Promises == IInv => OnePlace /\ NoTaskLost /\ NothingOutlivesRunner /\ ReleasedUseIsLast
<1> SUFFICES ASSUME IInv PROVE OnePlace /\ NoTaskLost /\ NothingOutlivesRunner /\ ReleasedUseIsLast
  OBVIOUS
<1>1. OnePlace
  BY QueuedIsTasks DEF IInv, PlaceInv, Distinct, OnePlace
<1>2. ASSUME ~stopped, isAlive PROVE posted \ ended \subseteq Held
  <2>1. posted \ ended \subseteq Tasks(queue) \cup timers \cup {current}
    BY <1>2 DEF IInv, LostInv
  <2>2. NoTask \notin posted
    BY NoTaskAssumption DEF IInv, RunnerTypeOK
  <2> QED
    BY <2>1, <2>2, QueuedIsTasks DEF Held
<1>3. ASSUME owner \in {"joined", "gone"}
      PROVE  current = NoTask /\ (owner = "gone" => Held = {})
  <2>1. current = NoTask
    BY <1>3 DEF IInv, LifeInv
  <2>2. ASSUME owner = "gone" PROVE Held = {}
    <3>1. queue = << >> /\ timers = {}
      BY <2>2 DEF IInv, LifeInv
    <3>2. Queued = {}
      BY <3>1 DEF Queued
    <3> QED
      BY <2>1, <3>1, <3>2 DEF Held
  <2> QED
    BY <2>1, <2>2
<1> QED
  BY <1>1, <1>2, <1>3 DEF NoTaskLost, NothingOutlivesRunner, IInv

(* However many tasks are posted and however they continue, a task is never in *)
(* two places: its run() never overlaps itself and its polls never multiply.   *)
THEOREM TasksDoNotMultiply == Spec => []OnePlace
BY Promises, Invariance, PTL

(* Until the runner is stopped it holds every task that has not ended. *)
THEOREM TasksAreKept == Spec => []NoTaskLost
BY Promises, Invariance, PTL

(* Nothing runs after ~TaskRunner's join, and no task is held after it. *)
THEOREM DestructionIsComplete == Spec => []NothingOutlivesRunner
BY Promises, Invariance, PTL

(* The destroyed m_isAlive is used by the task that runs last, or not at all. *)
THEOREM ReleasedUse == Spec => []ReleasedUseIsLast
BY Promises, Invariance, PTL
=============================================================================
