------------------------------ MODULE Repository ------------------------------
(* The operations of repo/Repository.h as callers take them: each has its whole *)
(* effect, and finds its answer, in one step between its call and its return.  *)
EXTENDS Naturals

CONSTANTS
    Clients,    \* the threads that use the repository
    Writers,    \* those that create, update and remove
    NumKeys,    \* there are NumKeys keys, in the order of the map
    Items,      \* the values stored
    None

Keys == 1 .. NumKeys
Args == [key : Keys, item : Items \cup {None}]
Writes == {"create", "update", "remove"}
Reads  == {"read", "has"}

VARIABLES
    store,      \* what is stored under each key, or None
    op,         \* the operation each client has called, or "none"
    arg,        \* its arguments
    answer      \* its answer, None until it has one

callVars == <<op, arg, answer>>
vars == <<store, callVars>>

Init ==
    /\ store = [k \in Keys |-> None]
    /\ op = [c \in Clients |-> "none"]
    /\ arg = [c \in Clients |-> None]
    /\ answer = [c \in Clients |-> None]

(* A client calls an operation ... *)
Call(c, o, a) ==
    /\ op[c] = "none"
    /\ op' = [op EXCEPT ![c] = o]
    /\ arg' = [arg EXCEPT ![c] = a]
    /\ UNCHANGED <<store, answer>>

(* ... and gets its answer. *)
Return(c) ==
    /\ answer[c] # None
    /\ op' = [op EXCEPT ![c] = "none"]
    /\ arg' = [arg EXCEPT ![c] = None]
    /\ answer' = [answer EXCEPT ![c] = None]
    /\ UNCHANGED store

Pending(c, o) == op[c] = o /\ answer[c] = None
Stored(c) == store[arg[c].key]
Answer(c, a) == answer' = [answer EXCEPT ![c] = a] /\ UNCHANGED <<op, arg>>
Store(c, item) == store' = [store EXCEPT ![arg[c].key] = item]

Create(c) ==
    /\ Pending(c, "create")
    /\ IF Stored(c) = None THEN Store(c, arg[c].item) /\ Answer(c, "yes")
                           ELSE UNCHANGED store /\ Answer(c, "no")

Update(c) ==
    /\ Pending(c, "update")
    /\ IF Stored(c) # None THEN Store(c, arg[c].item) /\ Answer(c, "yes")
                           ELSE UNCHANGED store /\ Answer(c, "no")

Remove(c) ==
    /\ Pending(c, "remove")
    /\ IF Stored(c) # None THEN Store(c, None) /\ Answer(c, "yes")
                           ELSE UNCHANGED store /\ Answer(c, "no")

Read(c) ==
    /\ Pending(c, "read")
    /\ Answer(c, IF Stored(c) # None THEN Stored(c) ELSE "notFound")
    /\ UNCHANGED store

Has(c) ==
    /\ Pending(c, "has")
    /\ Answer(c, IF Stored(c) # None THEN "yes" ELSE "no")
    /\ UNCHANGED store

CallSome(c) ==
    \E k \in Keys :
        \/ \E o \in Reads : Call(c, o, [key |-> k, item |-> None])
        \/ c \in Writers /\ Call(c, "remove", [key |-> k, item |-> None])
        \/ c \in Writers /\ \E o \in {"create", "update"}, i \in Items : Call(c, o, [key |-> k, item |-> i])

Next ==
    \E c \in Clients :
        CallSome(c) \/ Create(c) \/ Update(c) \/ Remove(c) \/ Read(c) \/ Has(c) \/ Return(c)

Spec == Init /\ [][Next]_vars
=============================================================================
