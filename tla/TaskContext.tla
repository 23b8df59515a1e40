----------------------------- MODULE TaskContext -----------------------------
(* util/async/TaskContext.h: threads that run the handlers posted to them, in  *)
(* order, and a registry of them by name, on top of util/Thread.               *)
EXTENDS Naturals, Sequences

CONSTANTS
    Clients,        \* the threads that use contexts
    Names,          \* what contexts are registered as; "default" is one of them
    NumContexts,    \* bound: how many contexts are created
    NumPosts,       \* bound: how many handlers are posted to each
    None            \* no context, no handler, nullptr

Contexts == 1 .. NumContexts
Handlers == 1 .. NumPosts

VARIABLES
    m_registry, \* the context of each name
    made,       \* how many contexts there are
    thread,     \* what each context's thread does
    keepAlive,  \* whether its m_keepAlive holds a work guard
    queue,      \* the handlers posted to its m_ioContext, numbered as posted
    posted,     \* how many were posted
    running,    \* the handler that its thread is in
    held,       \* the Ptr that each client has
    pc,         \* "idle", "threw", or where it is in ~TaskContext
    atStop      \* the handler that ran when its latest stop() was called

contextVars == <<thread, keepAlive, queue, posted, running>>
clientVars  == <<held, pc, atStop>>
vars == <<m_registry, made, contextVars, clientVars>>

Init ==
    /\ m_registry = [n \in Names |-> None]
    /\ made = 0
    /\ thread = [x \in Contexts |-> "none"]
    /\ keepAlive = [x \in Contexts |-> FALSE]
    /\ queue = [x \in Contexts |-> << >>]
    /\ posted = [x \in Contexts |-> 0]
    /\ running = [x \in Contexts |-> None]
    /\ held = [c \in Clients |-> None]
    /\ pc = [c \in Clients |-> "idle"]
    /\ atStop = [c \in Clients |-> None]
-----------------------------------------------------------------------------
(* util::Thread *)

(* spawn: the thread is started by the constructor. *)
Spawn(x) == thread' = [thread EXCEPT ![x] = "started"]

(* ~Thread's join: requestStop() before it only sets the token, of which a     *)
(* function without a parameter does not know.                                 *)
Joinable(x) == thread[x] = "ended"
-----------------------------------------------------------------------------
(* The context's thread *)

(* A work guard is made, so that io_context::run() does not return for want of *)
(* handlers.                                                                   *)
Begin(x) ==
    /\ thread[x] = "started"
    /\ thread' = [thread EXCEPT ![x] = "runs"]
    /\ keepAlive' = [keepAlive EXCEPT ![x] = TRUE]
    /\ UNCHANGED <<m_registry, made, queue, posted, running, clientVars>>

RunHandler(x) ==
    /\ thread[x] = "runs" /\ running[x] = None /\ queue[x] # << >>
    /\ running' = [running EXCEPT ![x] = Head(queue[x])]
    /\ queue' = [queue EXCEPT ![x] = Tail(@)]
    /\ UNCHANGED <<m_registry, made, thread, keepAlive, posted, clientVars>>

EndHandler(x) ==
    /\ running[x] # None
    /\ running' = [running EXCEPT ![x] = None]
    /\ UNCHANGED <<m_registry, made, thread, keepAlive, queue, posted, clientVars>>

(* io_context::run() returns when there is no work; nobody stops the context.  *)
OutOfWork(x) == running[x] = None /\ queue[x] = << >> /\ ~keepAlive[x]
ThreadEnds(x) ==
    /\ thread[x] = "runs" /\ OutOfWork(x)
    /\ thread' = [thread EXCEPT ![x] = "ended"]
    /\ UNCHANGED <<m_registry, made, keepAlive, queue, posted, running, clientVars>>
-----------------------------------------------------------------------------
(* The clients *)

Hold(c, x) == held' = [held EXCEPT ![c] = x] /\ UNCHANGED <<pc, atStop>>
Free(c) == pc[c] = "idle" /\ held[c] = None

(* TaskContext() *)
Construct(x) ==
    /\ x = made + 1 /\ x \in Contexts
    /\ made' = x
    /\ Spawn(x)
    /\ UNCHANGED <<keepAlive, queue, posted, running>>

Create(c) ==
    /\ Free(c)
    /\ \E x \in Contexts : Construct(x) /\ Hold(c, x)
    /\ UNCHANGED m_registry

(* registerTaskContext(name), under the registry's lock: the context that the  *)
(* name has, or a new one                                                      *)
RegisterTaskContext(c, n) ==
    /\ Free(c)
    /\ IF m_registry[n] # None
       THEN Hold(c, m_registry[n]) /\ UNCHANGED <<m_registry, made, contextVars>>
       ELSE \E x \in Contexts :
            Construct(x) /\ Hold(c, x) /\ m_registry' = [m_registry EXCEPT ![n] = x]

(* getDefault(): the constructor that would register "default" is never run,   *)
(* and at() throws unless a client has registered that name.                   *)
GetDefault(c) ==
    /\ Free(c)
    /\ IF m_registry["default"] # None
       THEN Hold(c, m_registry["default"])
       ELSE pc' = [pc EXCEPT ![c] = "threw"] /\ UNCHANGED <<held, atStop>>
    /\ UNCHANGED <<m_registry, made, contextVars>>

(* getOrDefault(name, fallback), which may be nullptr *)
GetOrDefault(c, n, fallback) ==
    /\ Free(c)
    /\ Hold(c, IF m_registry[n] # None THEN m_registry[n] ELSE m_registry[fallback])
    /\ UNCHANGED <<m_registry, made, contextVars>>

(* post(f), also after stop() *)
Post(c) ==
    LET x == held[c] IN
    /\ pc[c] = "idle" /\ x # None /\ posted[x] < NumPosts
    /\ posted' = [posted EXCEPT ![x] = @ + 1]
    /\ queue' = [queue EXCEPT ![x] = Append(@, posted'[x])]
    /\ UNCHANGED <<m_registry, made, thread, keepAlive, running, clientVars>>

(* stop(): requestStop() and nothing else *)
Stop(c) ==
    /\ pc[c] = "idle" /\ held[c] # None
    /\ atStop' = [atStop EXCEPT ![c] = running[held[c]]]
    /\ UNCHANGED <<m_registry, made, contextVars, held, pc>>

(* The Ptr is dropped; the last one to a context destroys it. *)
LastPtr(c) ==
    /\ \A n \in Names : m_registry[n] # held[c]
    /\ \A d \in Clients \ {c} : held[d] # held[c]
Release(c) ==
    /\ pc[c] = "idle" /\ held[c] # None
    /\ atStop' = [atStop EXCEPT ![c] = None]
    /\ IF LastPtr(c)
       THEN pc' = [pc EXCEPT ![c] = "joining"] /\ UNCHANGED held
       ELSE held' = [held EXCEPT ![c] = None] /\ UNCHANGED pc
    /\ UNCHANGED <<m_registry, made, contextVars>>

(* ~TaskContext goes on: m_keepAlive is destroyed after m_thread. *)
Joined(c) ==
    /\ pc[c] = "joining" /\ Joinable(held[c])
    /\ keepAlive' = [keepAlive EXCEPT ![held[c]] = FALSE]
    /\ held' = [held EXCEPT ![c] = None]
    /\ pc' = [pc EXCEPT ![c] = "idle"]
    /\ UNCHANGED <<m_registry, made, thread, queue, posted, running, atStop>>

Use(c) == Create(c) \/ GetDefault(c) \/ Post(c) \/ Stop(c) \/ Release(c) \/ Joined(c)
Lookup(c) ==
    \E n \in Names : RegisterTaskContext(c, n) \/ \E f \in Names : GetOrDefault(c, n, f)
Thread(x) == Begin(x) \/ RunHandler(x) \/ EndHandler(x) \/ ThreadEnds(x)

Next == (\E c \in Clients : Use(c) \/ Lookup(c)) \/ \E x \in Contexts : Thread(x)

Spec == Init /\ [][Next]_vars
-----------------------------------------------------------------------------
(* Properties *)

(* "Blocks till atleast current task is finished": when stop() has returned the *)
(* handler that ran when it was called runs no longer.                         *)
StopBlocksTillTaskFinished ==
    \A c \in Clients : atStop[c] # None => running[held[c]] # atStop[c]

(* A thread never ends, and so the destructor of its context never returns:    *)
(* only the destruction of m_keepAlive would end it, which comes after the     *)
(* join.                                                                       *)
ThreadsNeverEnd == \A x \in Contexts : thread[x] # "ended"
=============================================================================
