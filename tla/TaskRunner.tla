------------------------------ MODULE TaskRunner ------------------------------
(* util/async/Task: one io_context, one service thread that runs its handlers  *)
(* in the order they were posted, and tasks that ask to be run again, at once  *)
(* or after a delay.  A handler either runs a task ("run") or is the callback  *)
(* of an expired deadline_timer ("fire").  The io_context is Boost's.          *)
EXTENDS Naturals, Sequences, FiniteSets

CONSTANTS
    Task,       \* the tasks (std::shared_ptr<Task>) that are ever posted
    NoTask      \* the service thread is between two handlers

ASSUME NoTaskAssumption == NoTask \notin Task

VARIABLES
    queue,      \* the handlers waiting in m_ioContext
    timers,     \* the tasks held by a pending deadline_timer
    current,    \* the task whose run() the service thread is in
    stopped,    \* m_ioContext.stopped()
    isAlive,    \* *m_isAlive
    owner,      \* how far ~TaskRunner has come
    thread,     \* the service thread: "running" or "ended"
    posted,     \* the tasks that were posted
    ended,      \* the tasks whose run() returned End
    released    \* the service thread used m_isAlive after its destruction

contextVars == <<stopped, isAlive, owner, thread>>
runnerVars == <<queue, timers, current, contextVars, posted, ended, released>>

Handler == [op : {"run", "fire"}, task : Task]
Run(t)  == [op |-> "run",  task |-> t]
Fire(t) == [op |-> "fire", task |-> t]
Continuation == {"RunAgain", "RunAgainDelayed", "End"}
OwnerPC == {"alive", "dying", "stopping", "joining", "joined", "gone"}

(* The state of the runner is well formed. *)
RunnerTypeOK ==
    /\ queue \in Seq(Handler)
    /\ timers \subseteq Task
    /\ current \in Task \cup {NoTask}
    /\ stopped \in BOOLEAN /\ isAlive \in BOOLEAN /\ released \in BOOLEAN
    /\ owner \in OwnerPC
    /\ thread \in {"running", "ended"}
    /\ posted \subseteq Task /\ ended \subseteq posted

RunnerInit ==
    /\ queue = << >> /\ timers = {} /\ current = NoTask
    /\ stopped = FALSE /\ isAlive = TRUE
    /\ owner = "alive" /\ thread = "running"
    /\ posted = {} /\ ended = {} /\ released = FALSE
-----------------------------------------------------------------------------
(* Mutants: the task was moved from; queued twice; not queued; put in front. *)
PostedMoved(q, t)   == Append(q, [op |-> "run", task |-> NoTask])
PostedTwice(q, t)   == Append(Append(q, Run(t)), Run(t))
PostedNever(q, t)   == q
PostedInFront(q, t) == IF stopped THEN q ELSE <<Run(t)>> \o q

(* The queue after post(t), when `q` is the queue before: nothing is queued in *)
(* a stopped io_context.                                                       *)
Posted(q, t) == IF stopped THEN q ELSE Append(q, Run(t))

(* post<T>(...) and post(task), for a task that was just made *)
Post(t) ==
    /\ owner = "alive" /\ t \notin posted
    /\ queue' = Posted(queue, t)
    /\ posted' = posted \cup {t}
    /\ UNCHANGED <<timers, current, contextVars, ended, released>>

(* postDelayed(task, delay): a timer is made even when the context is stopped. *)
PostDelayed(t) ==
    /\ owner = "alive" /\ t \notin posted
    /\ timers' = timers \cup {t}
    /\ posted' = posted \cup {t}
    /\ UNCHANGED <<queue, current, contextVars, ended, released>>

(* A deadline_timer expires and its callback is queued. *)
TimerExpires(t) ==
    /\ thread = "running" /\ ~stopped /\ t \in timers
    /\ timers' = timers \ {t}
    /\ queue' = Append(queue, Fire(t))
    /\ UNCHANGED <<current, contextVars, posted, ended, released>>

(* Mutant: the thread drains the queue before it looks at the stop. *)
ServesStopped(op) == thread = "running" /\ current = NoTask /\ queue # << >> /\ Head(queue).op = op

(* m_ioContext.run() takes the next handler, which is of kind op. *)
Serves(op) ==
    /\ thread = "running" /\ ~stopped /\ current = NoTask
    /\ queue # << >> /\ Head(queue).op = op

(* A posted handler: resolve(task) enters task->run(). *)
BeginTask ==
    /\ Serves("run")
    /\ current' = Head(queue).task
    /\ queue' = Tail(queue)
    /\ UNCHANGED <<timers, contextVars, posted, ended, released>>

(* The callback of a timer: if (isAlive->load()) post(task). *)
FireTimer ==
    /\ Serves("fire")
    /\ queue' = IF isAlive THEN Posted(Tail(queue), Head(queue).task) ELSE Tail(queue)
    /\ UNCHANGED <<timers, current, contextVars, posted, ended, released>>

(* run() returned c, and resolve acts on it.  postDelayed copies m_isAlive,    *)
(* which ~TaskRunner destroys before it joins this thread.                     *)
Resolve(c) ==
    /\ current # NoTask
    /\ current' = NoTask
    /\ queue' = IF c = "RunAgain" THEN Posted(queue, current) ELSE queue
    /\ timers' = IF c = "RunAgainDelayed" THEN timers \cup {current} ELSE timers
    /\ ended' = IF c = "End" THEN ended \cup {current} ELSE ended
    /\ released' = (released \/ (c = "RunAgainDelayed" /\ owner = "joining"))
    /\ UNCHANGED <<contextVars, posted>>

(* m_ioContext.run() returns once the context is stopped. *)
ThreadEnds ==
    /\ thread = "running" /\ stopped /\ current = NoTask
    /\ thread' = "ended"
    /\ UNCHANGED <<queue, timers, current, stopped, isAlive, owner, posted, ended, released>>
-----------------------------------------------------------------------------
(* The thread that owns the runner *)

(* stop() *)
Stop ==
    /\ owner = "alive" /\ ~stopped
    /\ stopped' = TRUE
    /\ UNCHANGED <<queue, timers, current, isAlive, owner, thread, posted, ended, released>>

(* ~TaskRunner: m_isAlive->store(false) *)
BeginDestroy ==
    /\ owner = "alive"
    /\ owner' = "dying" /\ isAlive' = FALSE
    /\ UNCHANGED <<queue, timers, current, stopped, thread, posted, ended, released>>

(* Mutant: the destructor waits for the thread before it stops the context. *)
StopAfterJoin ==
    /\ owner = "dying" /\ thread = "ended"
    /\ owner' = "stopping" /\ stopped' = TRUE
    /\ UNCHANGED <<queue, timers, current, isAlive, thread, posted, ended, released>>

(* ~TaskRunner: stop() *)
DestroyStop ==
    /\ owner = "dying"
    /\ owner' = "stopping" /\ stopped' = TRUE
    /\ UNCHANGED <<queue, timers, current, isAlive, thread, posted, ended, released>>

(* ~shared_ptr of m_isAlive, declared last and so destroyed first *)
ReleaseIsAlive ==
    /\ owner = "stopping"
    /\ owner' = "joining"
    /\ UNCHANGED <<queue, timers, current, stopped, isAlive, thread, posted, ended, released>>

(* Mutant: the thread is detached. *)
DetachThread ==
    /\ owner = "joining"
    /\ owner' = "joined"
    /\ UNCHANGED <<queue, timers, current, stopped, isAlive, thread, posted, ended, released>>

(* ~Thread of m_serviceThread: join() *)
JoinThread ==
    /\ owner = "joining" /\ thread = "ended"
    /\ owner' = "joined"
    /\ UNCHANGED <<queue, timers, current, stopped, isAlive, thread, posted, ended, released>>

(* ~io_context: pending handlers and timers release their tasks. *)
DestroyContext ==
    /\ owner = "joined"
    /\ owner' = "gone" /\ queue' = << >> /\ timers' = {}
    /\ UNCHANGED <<current, stopped, isAlive, thread, posted, ended, released>>

Destroy == BeginDestroy \/ DestroyStop \/ ReleaseIsAlive \/ JoinThread \/ DestroyContext
-----------------------------------------------------------------------------
Next ==
    \/ \E t \in Task : Post(t) \/ PostDelayed(t) \/ TimerExpires(t)
    \/ BeginTask \/ FireTimer \/ ThreadEnds
    \/ \E c \in Continuation : Resolve(c)
    \/ Stop \/ Destroy

(* The service thread runs whatever it may, run() returns, timers expire and a *)
(* destructor that began goes on; nobody has to post, stop or destroy.         *)
RunnerFairness ==
    /\ WF_runnerVars(BeginTask \/ FireTimer \/ ThreadEnds)
    /\ WF_runnerVars(\E c \in Continuation : Resolve(c))
    /\ \A t \in Task : WF_runnerVars(TimerExpires(t))
    /\ WF_runnerVars(Destroy /\ owner # "alive")

Spec == RunnerInit /\ [][Next]_runnerVars /\ RunnerFairness
-----------------------------------------------------------------------------
(* Properties *)

Queued == {queue[i].task : i \in DOMAIN queue}

(* The tasks the runner holds a shared_ptr to. *)
Held == Queued \cup timers \cup ({current} \ {NoTask})

(* A task is in one place only: it is never queued twice, nor queued while a   *)
(* timer holds it, nor anywhere else while its run() is executing.  So run()   *)
(* never overlaps itself and a task's polls never multiply.                    *)
OnePlace ==
    /\ \A i, j \in DOMAIN queue : queue[i].task = queue[j].task => i = j
    /\ Queued \cap timers = {}
    /\ current \notin Queued \cup timers

(* No task gets lost: until the context is stopped, a task that was posted and *)
(* has not ended is held by the runner, unless the destructor has begun and    *)
(* its timer fired.                                                            *)
NoTaskLost == ~stopped /\ isAlive => posted \ ended \subseteq Held

(* Once ~TaskRunner has returned nothing of the runner executes and no task is *)
(* kept alive by it.                                                           *)
NothingOutlivesRunner ==
    owner \in {"joined", "gone"} => current = NoTask /\ (owner = "gone" => Held = {})

(* m_isAlive is used after its destruction only by a run() that was already    *)
(* executing when the context was stopped, so at most once.                    *)
ReleasedUseIsLast == released => current = NoTask /\ stopped

(* A queued task gets its turn, however often the others run again. *)
QueuedTaskRuns ==
    \A t \in Task : t \in Queued \cup timers ~> current = t \/ stopped

(* ~TaskRunner returns, whatever the tasks do. *)
DestructorReturns == owner # "alive" ~> owner = "gone"
=============================================================================
