--------------------------- MODULE DeviceRepository ---------------------------
(* repo/device/DeviceRepository: a map whose every access takes its lock.      *)
(* create, update and remove take it twice, first in has() and then to act, so *)
(* that another thread may come between.  iterate, findBy and contains hold it *)
(* while they hand one device after another to the caller's function.          *)
EXTENDS Naturals

CONSTANTS Clients, Writers, NumKeys, Items, None

VARIABLES
    m_devices,  \* the device under each key (MAC address), or None
    op, arg, answer,
    pc,         \* "check" before has(), "act" between has() and the second lock
    holder,     \* the client that iterates and holds the lock, or None
    at,         \* the last key it has visited
    seen,       \* the devices it has seen, by key
    overlapped, \* clients that act after another's write to the same key
    lost        \* clients whose create found the key taken

R == INSTANCE Repository WITH store <- m_devices

Keys == R!Keys
callVars == <<op, arg, answer>>
iterVars == <<holder, at, seen>>
vars == <<m_devices, callVars, pc, iterVars, overlapped, lost>>

ASSUME ClientsAssumption == Writers \subseteq Clients /\ None \notin Clients
ASSUME KeysAssumption == NumKeys \in Nat \ {0}
ASSUME ItemsAssumption == Items \cap {None, "yes", "no", "notFound", "outOfRange"} = {}
ASSUME NoneAssumption == None \notin {"yes", "no", "notFound", "outOfRange"}

TypeOK ==
    /\ m_devices \in [Keys -> Items \cup {None}]
    /\ op \in [Clients -> R!Writes \cup R!Reads \cup {"none"}]
    /\ arg \in [Clients -> R!Args \cup {None}]
    /\ answer \in [Clients -> Items \cup {None, "yes", "no", "notFound", "outOfRange"}]
    /\ pc \in [Clients -> {"idle", "check", "act"}]
    /\ \A c \in Clients : pc[c] = "idle" <=> op[c] = "none" \/ answer[c] # None
    /\ holder \in Clients \cup {None} /\ at \in 0 .. NumKeys
    /\ seen \in [Keys -> Items \cup {None}]
    /\ overlapped \subseteq Clients /\ lost \subseteq Clients

Init ==
    /\ R!Init
    /\ pc = [c \in Clients |-> "idle"]
    /\ holder = None /\ at = 0 /\ seen = [k \in Keys |-> None]
    /\ overlapped = {} /\ lost = {}
-----------------------------------------------------------------------------
(* Mutant: the map has no lock. *)
NoLock == TRUE

(* m_devices.synchronize() does not wait. *)
Unlocked == holder = None

Key(c) == arg[c].key
Present(c) == m_devices[Key(c)] # None
Answer(c, a) == answer' = [answer EXCEPT ![c] = a] /\ UNCHANGED <<op, arg>>

Call(c, o, a) ==
    /\ holder # c
    /\ R!Call(c, o, a)
    /\ pc' = [pc EXCEPT ![c] = "check"]
    /\ UNCHANGED <<iterVars, overlapped, lost>>

Return(c) ==
    /\ R!Return(c)
    /\ overlapped' = overlapped \ {c} /\ lost' = lost \ {c}
    /\ UNCHANGED <<pc, iterVars>>

(* Mutant: update and remove do not check. *)
RefusesCreate(c) == op[c] = "create" /\ Present(c)

(* The check ends the operation. *)
Refuses(c) == op[c] = "create" <=> Present(c)

(* Mutant: the early return is missing. *)
CheckFallsThrough(c) ==
    /\ op[c] \in R!Writes /\ pc[c] = "check" /\ Unlocked
    /\ pc' = [pc EXCEPT ![c] = "act"]
    /\ IF Refuses(c) THEN Answer(c, "no") ELSE UNCHANGED callVars
    /\ UNCHANGED <<m_devices, iterVars, overlapped, lost>>

(* has() at the beginning of create, update and remove *)
Check(c) ==
    /\ op[c] \in R!Writes /\ pc[c] = "check" /\ Unlocked
    /\ IF Refuses(c)
       THEN pc' = [pc EXCEPT ![c] = "idle"] /\ Answer(c, "no")
       ELSE pc' = [pc EXCEPT ![c] = "act"] /\ UNCHANGED callVars
    /\ UNCHANGED <<m_devices, iterVars, overlapped, lost>>

(* The second lock: client c stores `item`, or leaves things as they are. *)
Act(c, o, item) ==
    /\ op[c] = o /\ pc[c] = "act" /\ Unlocked
    /\ pc' = [pc EXCEPT ![c] = "idle"]
    /\ m_devices' = [m_devices EXCEPT ![Key(c)] = item]
    /\ overlapped' = overlapped \cup {d \in Clients \ {c} : pc[d] = "act" /\ Key(d) = Key(c)}
    /\ UNCHANGED iterVars

(* Mutant: the device is assigned. *)
Assigned(c) == arg[c].item

(* What emplace leaves under the key: it does not replace. *)
Emplaced(c) == IF Present(c) THEN m_devices[Key(c)] ELSE arg[c].item

(* create's emplace, whose result is ignored *)
Emplace(c) ==
    /\ Act(c, "create", Emplaced(c))
    /\ Answer(c, "yes")
    /\ lost' = IF Present(c) THEN lost \cup {c} ELSE lost

(* update's at(mac) = item; at() throws when the device is gone. *)
AssignAt(c) ==
    /\ Act(c, "update", IF Present(c) THEN arg[c].item ELSE None)
    /\ Answer(c, IF Present(c) THEN "yes" ELSE "outOfRange")
    /\ UNCHANGED lost

(* Mutant: the erase is missing. *)
EraseNothing(c) ==
    /\ Act(c, "remove", m_devices[Key(c)])
    /\ Answer(c, "yes")
    /\ UNCHANGED lost

(* remove's erase(mac) *)
EraseDevice(c) ==
    /\ Act(c, "remove", None)
    /\ Answer(c, "yes")
    /\ UNCHANGED lost

(* read and has: one locked access *)
Read(c) ==
    /\ op[c] \in R!Reads /\ pc[c] = "check" /\ Unlocked
    /\ pc' = [pc EXCEPT ![c] = "idle"]
    /\ Answer(c, CASE op[c] = "read" -> IF Present(c) THEN m_devices[Key(c)] ELSE "notFound"
                   [] op[c] = "has"  -> IF Present(c) THEN "yes" ELSE "no")
    /\ UNCHANGED <<m_devices, iterVars, overlapped, lost>>

(* iterate, findBy (and find) and contains *)
IterateBegin(c) ==
    /\ op[c] = "none" /\ Unlocked
    /\ holder' = c
    /\ UNCHANGED <<m_devices, callVars, pc, at, seen, overlapped, lost>>

(* func is called with the next device. *)
IterateNext(c) ==
    /\ holder = c
    /\ \E k \in Keys :
        /\ k > at /\ m_devices[k] # None
        /\ \A j \in Keys : at < j /\ j < k => m_devices[j] = None
        /\ at' = k /\ seen' = [seen EXCEPT ![k] = m_devices[k]]
    /\ UNCHANGED <<m_devices, callVars, pc, holder, overlapped, lost>>

(* The end of the map, a match or IterResult::Break *)
IterateEnd(c) ==
    /\ holder = c
    /\ holder' = None /\ at' = 0
    /\ seen' = [k \in Keys |-> None]
    /\ UNCHANGED <<m_devices, callVars, pc, overlapped, lost>>

Iterate(c) == IterateBegin(c) \/ IterateNext(c) \/ IterateEnd(c)
Write(c) == Check(c) \/ Emplace(c) \/ AssignAt(c) \/ EraseDevice(c)

CallSome(c) ==
    \E k \in Keys :
        \/ \E o \in R!Reads : Call(c, o, [key |-> k, item |-> None])
        \/ c \in Writers /\ Call(c, "remove", [key |-> k, item |-> None])
        \/ c \in Writers /\ \E o \in {"create", "update"}, i \in Items : Call(c, o, [key |-> k, item |-> i])

Next == \E c \in Clients : CallSome(c) \/ Write(c) \/ Read(c) \/ Return(c) \/ Iterate(c)

Spec == Init /\ [][Next]_vars
-----------------------------------------------------------------------------
(* Properties *)

(* No operation throws out_of_range, and no create reports a device that it    *)
(* did not store, unless another writer came between its check and its act.    *)
WrongNeedsRival == \A c \in Clients : answer[c] = "outOfRange" \/ c \in lost => c \in overlapped

(* The devices an iteration has seen are the map's, all up to where it is:     *)
(* nothing is inserted, replaced or removed under it.                          *)
IterationSeesMap == holder # None => \A k \in 1 .. at : seen[k] = m_devices[k]

(* A device is only replaced by an update and only removed by a remove: of two *)
(* creates of the same address the first one's device stays.                   *)
CreateNeverReplaces ==
    [][\A k \in Keys : m_devices[k] # None /\ m_devices'[k] # m_devices[k] =>
        \E c \in Clients : op[c] \in {"update", "remove"} /\ pc[c] = "act" /\ Key(c) = k]_vars

(* The two locks make a difference to overlapped writes only: every other step *)
(* is one of the repository whose operations are atomic.                       *)
AtomicUnlessOverlapped ==
    /\ R!Init
    /\ [][[R!Next]_(R!vars) \/ \E c \in overlapped : pc[c] = "act" /\ pc'[c] = "idle"]_vars

(* With one writer, as in the application, they make none.                     *)
ImplementsRepository == R!Spec
=============================================================================
