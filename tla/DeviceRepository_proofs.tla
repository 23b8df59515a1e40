------------------------ MODULE DeviceRepository_proofs ------------------------
(* Proofs about DeviceRepository, for any sets of clients, writers and devices *)
(* and any number of keys.                                                     *)
EXTENDS DeviceRepository, TLAPS

(* Between its check and its act a write finds what it checked, unless another *)
(* write to the same key came between.                                         *)
CheckInv ==
    \A c \in Clients : pc[c] = "act" =>
        /\ op[c] \in R!Writes
        /\ c \notin overlapped => (op[c] # "create" <=> Present(c))

(* Every called operation has its key, and only those have an answer. *)
ArgInv == \A c \in Clients : IF op[c] = "none" THEN answer[c] = None ELSE arg[c] \in R!Args

(* Only writers write. *)
WriterInv == \A c \in Clients : op[c] \in R!Writes => c \in Writers

IInv == TypeOK /\ ArgInv /\ CheckInv /\ WriterInv /\ WrongNeedsRival

USE DEF callVars, iterVars
-----------------------------------------------------------------------------
LEMMA InitIInv == Init => IInv
<1> USE ClientsAssumption, KeysAssumption, ItemsAssumption, NoneAssumption
<1> SUFFICES ASSUME Init PROVE IInv
  OBVIOUS
<1>1. TypeOK
  BY DEF Init, TypeOK, R!Init, Keys, R!Keys
<1>2. ArgInv /\ CheckInv /\ WriterInv /\ WrongNeedsRival
  BY DEF Init, R!Init, ArgInv, CheckInv, WriterInv, WrongNeedsRival, R!Writes
<1> QED
  BY <1>1, <1>2 DEF IInv

LEMMA CallStep ==
    ASSUME IInv, NEW c \in Clients, CallSome(c)
    PROVE  IInv'
<1> USE ClientsAssumption, KeysAssumption, ItemsAssumption, NoneAssumption
<1>1. PICK o \in R!Writes \cup R!Reads, a \in R!Args : Call(c, o, a) /\ (o \in R!Writes => c \in Writers)
  BY DEF CallSome, R!Writes, R!Reads, R!Args, Keys
<1>2. /\ op[c] = "none" /\ op' = [op EXCEPT ![c] = o] /\ arg' = [arg EXCEPT ![c] = a]
      /\ pc' = [pc EXCEPT ![c] = "check"] /\ answer' = answer /\ m_devices' = m_devices
      /\ UNCHANGED <<holder, at, seen, overlapped, lost>> /\ o # "none"
  BY <1>1 DEF Call, R!Call, R!Writes, R!Reads
<1>2a. answer[c] = None
  BY <1>2 DEF IInv, ArgInv
<1>3. TypeOK'
  BY <1>2, <1>2a DEF IInv, TypeOK
<1>4. ArgInv' /\ WriterInv'
  BY <1>1, <1>2 DEF IInv, TypeOK, ArgInv, WriterInv
<1>5. CheckInv' /\ WrongNeedsRival'
  BY <1>2 DEF IInv, TypeOK, CheckInv, WrongNeedsRival, Present, Key
<1> QED
  BY <1>3, <1>4, <1>5 DEF IInv

LEMMA ReturnStep ==
    ASSUME IInv, NEW c \in Clients, Return(c)
    PROVE  IInv'
<1> USE ClientsAssumption, KeysAssumption, ItemsAssumption, NoneAssumption
<1>1. /\ answer[c] # None /\ op' = [op EXCEPT ![c] = "none"] /\ arg' = [arg EXCEPT ![c] = None]
      /\ answer' = [answer EXCEPT ![c] = None] /\ overlapped' = overlapped \ {c} /\ lost' = lost \ {c}
      /\ UNCHANGED <<m_devices, pc, holder, at, seen>>
  BY DEF Return, R!Return
<1>2. pc[c] = "idle"
  BY <1>1 DEF IInv, TypeOK
<1>3. TypeOK'
  BY <1>1, <1>2 DEF IInv, TypeOK
<1>4. ArgInv' /\ WriterInv'
  BY <1>1 DEF IInv, TypeOK, ArgInv, WriterInv, R!Writes
<1>5. CheckInv' /\ WrongNeedsRival'
  BY <1>1, <1>2 DEF IInv, TypeOK, CheckInv, WrongNeedsRival, Present, Key
<1> QED
  BY <1>3, <1>4, <1>5 DEF IInv

LEMMA CheckStep ==
    ASSUME IInv, NEW c \in Clients, Check(c)
    PROVE  IInv'
<1> USE ClientsAssumption, KeysAssumption, ItemsAssumption, NoneAssumption
<1>1. /\ op[c] \in R!Writes /\ pc[c] = "check" /\ answer[c] = None
      /\ UNCHANGED <<m_devices, op, arg, holder, at, seen, overlapped, lost>>
  BY DEF IInv, TypeOK, Check, Answer
<1>2. CASE Refuses(c)
  <2>1. pc' = [pc EXCEPT ![c] = "idle"] /\ answer' = [answer EXCEPT ![c] = "no"]
    BY <1>2 DEF Check, Answer
  <2>2. TypeOK'
    BY <1>1, <2>1 DEF IInv, TypeOK
  <2>3. ArgInv' /\ WriterInv'
    BY <1>1, <2>1 DEF IInv, TypeOK, ArgInv, WriterInv, R!Writes
  <2>4. CheckInv' /\ WrongNeedsRival'
    BY <1>1, <2>1 DEF IInv, TypeOK, CheckInv, WrongNeedsRival, Present, Key
  <2> QED
    BY <2>2, <2>3, <2>4 DEF IInv
<1>3. CASE ~Refuses(c)
  <2>1. pc' = [pc EXCEPT ![c] = "act"] /\ answer' = answer
    BY <1>3 DEF Check
  <2>2. TypeOK'
    BY <1>1, <2>1 DEF IInv, TypeOK, R!Writes
  <2>3. ArgInv' /\ WriterInv' /\ WrongNeedsRival'
    BY <1>1, <2>1 DEF IInv, TypeOK, ArgInv, WriterInv, WrongNeedsRival
  <2>4. op[c] # "create" <=> Present(c)
    BY <1>3 DEF Refuses
  <2>5. CheckInv'
    BY <1>1, <2>1, <2>4 DEF IInv, TypeOK, CheckInv, Present, Key
  <2> QED
    BY <2>2, <2>3, <2>5 DEF IInv
<1> QED
  BY <1>2, <1>3

(* An act changes what is under its own key only; the other clients between    *)
(* check and act there are overlapped.                                         *)
LEMMA ActStep ==
    ASSUME IInv, NEW c \in Clients, NEW o \in R!Writes, NEW item \in Items \cup {None},
           Act(c, o, item), NEW a \in {"yes", "outOfRange"}, Answer(c, a),
           a = "outOfRange" \/ c \in lost' => c \in overlapped,
           lost' \in {lost, lost \cup {c}}
    PROVE  IInv'
<1> USE ClientsAssumption, KeysAssumption, ItemsAssumption, NoneAssumption
<1>1. /\ op[c] = o /\ pc[c] = "act" /\ pc' = [pc EXCEPT ![c] = "idle"]
      /\ m_devices' = [m_devices EXCEPT ![Key(c)] = item]
      /\ overlapped' = overlapped \cup {d \in Clients \ {c} : pc[d] = "act" /\ Key(d) = Key(c)}
      /\ answer' = [answer EXCEPT ![c] = a]
      /\ UNCHANGED <<op, arg, holder, at, seen>>
  BY DEF Act, Answer
<1>2. op[c] # "none" /\ Key(c) \in Keys
  BY <1>1 DEF IInv, ArgInv, Key, Keys, R!Args, R!Writes
<1>3. TypeOK'
  <2>1. m_devices' \in [Keys -> Items \cup {None}]
    BY <1>1, <1>2 DEF IInv, TypeOK
  <2>2. overlapped' \subseteq Clients /\ lost' \subseteq Clients
    BY <1>1 DEF IInv, TypeOK
  <2>3. \A d \in Clients : pc'[d] = "idle" <=> op'[d] = "none" \/ answer'[d] # None
    BY <1>1 DEF IInv, TypeOK
  <2> QED
    BY <1>1, <2>1, <2>2, <2>3 DEF IInv, TypeOK
<1>4. ArgInv' /\ WriterInv'
  BY <1>1, <1>2 DEF IInv, TypeOK, ArgInv, WriterInv
<1>5. CheckInv'
  <2> SUFFICES ASSUME NEW d \in Clients, pc'[d] = "act"
               PROVE  /\ op'[d] \in R!Writes
                      /\ d \notin overlapped' => (op'[d] # "create" <=> Present(d)')
    BY DEF CheckInv
  <2>1. d # c /\ pc[d] = "act"
    BY <1>1 DEF IInv, TypeOK
  <2>2. op[d] \in R!Writes /\ (d \notin overlapped => (op[d] # "create" <=> Present(d)))
    BY <2>1 DEF IInv, CheckInv
  <2>3. d \notin overlapped' => d \notin overlapped /\ Key(d) # Key(c)
    BY <1>1, <2>1
  <2>4. Key(d) # Key(c) => m_devices'[Key(d)] = m_devices[Key(d)]
    BY <1>1, <2>2 DEF IInv, TypeOK, ArgInv, Key, Keys, R!Args, R!Writes
  <2> QED
    BY <1>1, <2>2, <2>3, <2>4 DEF Present, Key
<1>6. WrongNeedsRival'
  BY <1>1 DEF IInv, TypeOK, WrongNeedsRival
<1> QED
  BY <1>3, <1>4, <1>5, <1>6 DEF IInv

LEMMA WriteStep ==
    ASSUME IInv, NEW c \in Clients, Emplace(c) \/ AssignAt(c) \/ EraseDevice(c)
    PROVE  IInv'
<1> USE ClientsAssumption, KeysAssumption, ItemsAssumption, NoneAssumption
<1>0. pc[c] = "act" /\ op[c] \in R!Writes /\ op[c] # "none" /\ Unlocked
  BY DEF Emplace, AssignAt, EraseDevice, Act, R!Writes
<1>1. Key(c) \in Keys /\ arg[c].item \in Items \cup {None} /\ m_devices[Key(c)] \in Items \cup {None}
  BY <1>0 DEF IInv, TypeOK, ArgInv, Key, R!Args, Keys
<1>2. c \notin overlapped => c \notin lost /\ (op[c] # "create" <=> Present(c))
  BY <1>0 DEF IInv, CheckInv, WrongNeedsRival
<1>3. CASE Emplace(c)
  <2>1. Act(c, "create", Emplaced(c)) /\ Answer(c, "yes") /\ op[c] = "create"
    BY <1>3 DEF Emplace, Act
  <2>2. lost' \in {lost, lost \cup {c}} /\ (c \in lost' => c \in overlapped)
    BY <1>2, <1>3, <2>1 DEF Emplace
  <2>3. Emplaced(c) \in Items \cup {None}
    BY <1>1 DEF Emplaced
  <2>4. "create" \in R!Writes
    BY DEF R!Writes
  <2> QED
    BY <2>1, <2>2, <2>3, <2>4, ActStep
<1>4. CASE AssignAt(c)
  <2> DEFINE item == IF Present(c) THEN arg[c].item ELSE None
  <2> DEFINE a == IF Present(c) THEN "yes" ELSE "outOfRange"
  <2>1. Act(c, "update", item) /\ Answer(c, a) /\ op[c] = "update" /\ lost' = lost
    BY <1>4 DEF AssignAt, Act
  <2>2. item \in Items \cup {None} /\ a \in {"yes", "outOfRange"} /\ "update" \in R!Writes
    BY <1>1 DEF R!Writes
  <2>3. a = "outOfRange" \/ c \in lost' => c \in overlapped
    BY <1>2, <2>1
  <2> HIDE DEF item, a
  <2> QED
    BY <2>1, <2>2, <2>3, ActStep
<1>5. CASE EraseDevice(c)
  <2>1. Act(c, "remove", None) /\ Answer(c, "yes") /\ lost' = lost /\ "remove" \in R!Writes
    BY <1>5 DEF EraseDevice, R!Writes
  <2>2. c \in lost' => c \in overlapped
    BY <1>2, <2>1
  <2> QED
    BY <2>1, <2>2, ActStep
<1> QED
  BY <1>3, <1>4, <1>5

LEMMA ReadStep ==
    ASSUME IInv, NEW c \in Clients, Read(c)
    PROVE  IInv'
<1> USE ClientsAssumption, KeysAssumption, ItemsAssumption, NoneAssumption
<1>1. /\ op[c] \in R!Reads /\ pc[c] = "check" /\ op[c] # "none"
      /\ pc' = [pc EXCEPT ![c] = "idle"]
      /\ UNCHANGED <<m_devices, op, arg, holder, at, seen, overlapped, lost>>
  BY DEF Read, Answer, R!Reads
<1>2. Key(c) \in Keys
  BY <1>1 DEF IInv, ArgInv, Key, R!Args, Keys
<1>3. PICK a \in Items \cup {"yes", "no", "notFound"} : answer' = [answer EXCEPT ![c] = a]
  <2>1. m_devices[Key(c)] \in Items \cup {None}
    BY <1>2 DEF IInv, TypeOK
  <2>2. CASE op[c] = "read"
    BY <2>1, <2>2 DEF Read, Answer, Present
  <2>3. CASE op[c] = "has"
    BY <2>3 DEF Read, Answer, Present
  <2> QED
    BY <1>1, <2>2, <2>3 DEF R!Reads
<1>4. a # None /\ a # "outOfRange"
  OBVIOUS
<1>5. TypeOK'
  BY <1>1, <1>3, <1>4 DEF IInv, TypeOK
<1>6. ArgInv' /\ WriterInv'
  BY <1>1, <1>3 DEF IInv, TypeOK, ArgInv, WriterInv
<1>7. CheckInv' /\ WrongNeedsRival'
  BY <1>1, <1>3, <1>4 DEF IInv, TypeOK, CheckInv, WrongNeedsRival, Present, Key
<1> QED
  BY <1>5, <1>6, <1>7 DEF IInv

LEMMA IterateStep ==
    ASSUME IInv, NEW c \in Clients, Iterate(c)
    PROVE  IInv'
<1> USE ClientsAssumption, KeysAssumption, ItemsAssumption, NoneAssumption
<1>1. UNCHANGED <<m_devices, op, arg, answer, pc, overlapped, lost>>
  BY DEF Iterate, IterateBegin, IterateNext, IterateEnd
<1>2. TypeOK'
  <2>1. CASE IterateBegin(c) \/ IterateEnd(c)
    BY <1>1, <2>1 DEF IInv, TypeOK, IterateBegin, IterateEnd
  <2>2. CASE IterateNext(c)
    <3>1. PICK k \in Keys : at' = k /\ seen' = [seen EXCEPT ![k] = m_devices[k]] /\ holder' = holder
      BY <2>2 DEF IterateNext
    <3>2. k \in 0 .. NumKeys /\ m_devices[k] \in Items \cup {None}
      BY <3>1 DEF IInv, TypeOK, Keys, R!Keys
    <3> QED
      BY <1>1, <3>1, <3>2 DEF IInv, TypeOK
  <2> QED
    BY <2>1, <2>2 DEF Iterate
<1>3. ArgInv' /\ WriterInv' /\ CheckInv' /\ WrongNeedsRival'
  BY <1>1 DEF IInv, ArgInv, WriterInv, CheckInv, WrongNeedsRival, Present, Key
<1> QED
  BY <1>2, <1>3 DEF IInv

LEMMA NextIInv == IInv /\ [Next]_vars => IInv'
<1> SUFFICES ASSUME IInv, [Next]_vars PROVE IInv'
  OBVIOUS
<1>1. CASE UNCHANGED vars
  BY <1>1 DEF vars, IInv, TypeOK, ArgInv, WriterInv, CheckInv, WrongNeedsRival, Present, Key
<1>2. ASSUME NEW c \in Clients,
             CallSome(c) \/ Write(c) \/ Read(c) \/ Return(c) \/ Iterate(c)
      PROVE  IInv'
  BY <1>2, CallStep, CheckStep, WriteStep, ReadStep, ReturnStep, IterateStep DEF Write
<1> QED
  BY <1>1, <1>2 DEF Next
-----------------------------------------------------------------------------
(* IInv holds in every reachable state. *)
THEOREM Invariance == Spec => []IInv
BY InitIInv, NextIInv, PTL DEF Spec

(* Every variable keeps its type. *)
THEOREM TypeCorrectness == Spec => []TypeOK
<1>1. IInv => TypeOK
  BY DEF IInv
<1> QED
  BY <1>1, Invariance, PTL

(* An exception or a create in vain takes a second writer. *)
THEOREM RivalNeeded == Spec => []WrongNeedsRival
<1>1. IInv => WrongNeedsRival
  BY DEF IInv
<1> QED
  BY <1>1, Invariance, PTL

(* However many writers there are, no create replaces a device. *)
THEOREM CreatingKeeps == Spec => CreateNeverReplaces
<1> DEFINE Kept == \A k \in Keys : m_devices[k] # None /\ m_devices'[k] # m_devices[k] =>
                    \E c \in Clients : op[c] \in {"update", "remove"} /\ pc[c] = "act" /\ Key(c) = k
<1>1. ASSUME IInv, NEW c \in Clients, NEW o \in {"update", "remove"}, NEW item, Act(c, o, item)
      PROVE  Kept
  BY <1>1 DEF IInv, TypeOK, Act
<1>2. ASSUME IInv, NEW c \in Clients, Emplace(c)
      PROVE  Kept
  BY <1>2 DEF IInv, TypeOK, Emplace, Act, Emplaced, Present
<1>3. ASSUME m_devices' = m_devices
      PROVE  Kept
  BY <1>3
<1> HIDE DEF Kept
<1>4. IInv /\ [Next]_vars => [Kept]_vars
  <2> SUFFICES ASSUME IInv, Next PROVE Kept
    OBVIOUS
  <2>1. PICK c \in Clients : CallSome(c) \/ Write(c) \/ Read(c) \/ Return(c) \/ Iterate(c)
    BY DEF Next
  <2>2. CASE CallSome(c) \/ Check(c) \/ Read(c) \/ Return(c) \/ Iterate(c)
    BY <1>3, <2>2 DEF CallSome, Call, R!Call, Check, Read, Return, R!Return, Iterate, IterateBegin, IterateNext, IterateEnd
  <2>3. CASE AssignAt(c) \/ EraseDevice(c)
    BY <1>1, <2>3 DEF AssignAt, EraseDevice
  <2> QED
    BY <1>2, <2>1, <2>2, <2>3 DEF Write
<1>5. Spec => [][Kept]_vars
  BY <1>4, Invariance, PTL DEF Spec
<1> QED
  BY <1>5 DEF Kept, CreateNeverReplaces
-----------------------------------------------------------------------------
(* Iteration: the lock keeps every write away, so what was seen stays true. *)

IterInv ==
    /\ holder = None => at = 0
    /\ \A k \in 1 .. at : seen[k] = m_devices[k]
    /\ \A k \in Keys : k > at => seen[k] = None

LEMMA IterStep == IInv /\ IterInv /\ [Next]_vars => IterInv'
<1> USE KeysAssumption, ClientsAssumption
<1> SUFFICES ASSUME IInv, IterInv, [Next]_vars PROVE IterInv'
  OBVIOUS
<1>1. CASE UNCHANGED <<m_devices, iterVars>>
  BY <1>1 DEF IterInv
<1>2. ASSUME NEW c \in Clients, NEW item, NEW o, Act(c, o, item)
      PROVE  IterInv'
  <2>1. holder = None /\ at = 0 /\ UNCHANGED iterVars
    BY <1>2 DEF IterInv, Act, Unlocked
  <2> QED
    BY <2>1 DEF IterInv
<1>3. ASSUME NEW c \in Clients, IterateBegin(c)
      PROVE  IterInv'
  BY <1>3 DEF IterInv, IterateBegin
<1>4. ASSUME NEW c \in Clients, IterateEnd(c)
      PROVE  IterInv'
  BY <1>4 DEF IterInv, IterateEnd
<1>5. ASSUME NEW c \in Clients, IterateNext(c)
      PROVE  IterInv'
  <2>1. PICK k \in Keys : /\ k > at /\ \A j \in Keys : at < j /\ j < k => m_devices[j] = None
                          /\ at' = k /\ seen' = [seen EXCEPT ![k] = m_devices[k]]
    BY <1>5 DEF IterateNext
  <2>2. m_devices' = m_devices /\ holder' = holder /\ holder # None
    BY <1>5 DEF IterateNext
  <2>3. at \in Nat /\ k \in Nat /\ Keys = 1 .. NumKeys /\ seen \in [Keys -> Items \cup {None}]
    BY <2>1 DEF IInv, TypeOK, Keys, R!Keys
  <2>4. ASSUME NEW j \in 1 .. at'
        PROVE  seen'[j] = m_devices'[j]
    <3>1. j \in Keys
      BY <2>1, <2>3
    <3> QED
      BY <2>1, <2>2, <2>3, <3>1 DEF IterInv
  <2>5. ASSUME NEW j \in Keys, j > at'
        PROVE  seen'[j] = None
    BY <2>1, <2>3, <2>5 DEF IterInv
  <2> QED
    BY <2>2, <2>4, <2>5 DEF IterInv
<1>6. CASE Next
  <2>1. PICK c \in Clients : CallSome(c) \/ Write(c) \/ Read(c) \/ Return(c) \/ Iterate(c)
    BY <1>6 DEF Next
  <2>2. CASE CallSome(c) \/ Return(c)
    BY <1>1, <2>2 DEF CallSome, Call, R!Call, Return, R!Return
  <2>3. CASE Check(c) \/ Read(c)
    BY <1>1, <2>3 DEF Check, Read
  <2>4. CASE Emplace(c) \/ AssignAt(c) \/ EraseDevice(c)
    BY <1>2, <2>4 DEF Emplace, AssignAt, EraseDevice
  <2>5. CASE Iterate(c)
    BY <1>3, <1>4, <1>5, <2>5 DEF Iterate
  <2> QED
    BY <2>1, <2>2, <2>3, <2>4, <2>5 DEF Write
<1> QED
  BY <1>1, <1>6 DEF vars

(* An iteration sees the map as it is, however many writers there are. *)
THEOREM IterationIsConsistent == Spec => []IterationSeesMap
<1>1. Init => IterInv
  BY KeysAssumption DEF Init, IterInv, Keys, R!Keys
<1>2. IterInv => IterationSeesMap
  BY DEF IterInv, IterationSeesMap
<1> QED
  BY <1>1, <1>2, IterStep, Invariance, PTL DEF Spec
-----------------------------------------------------------------------------
(* The refinement.  With one writer nothing is overlapped, so a write still    *)
(* finds what it checked: its effect is that of the atomic operation.          *)

(* No write is overlapped. *)
NoneOverlapped == overlapped = {}

LEMMA OverlapStep ==
    ASSUME \A c, d \in Writers : c = d, IInv, NoneOverlapped, [Next]_vars
    PROVE  NoneOverlapped'
<1>1. ASSUME NEW c \in Clients, NEW o \in R!Writes, NEW item, Act(c, o, item)
      PROVE  NoneOverlapped'
  <2>1. \A d \in Clients : pc[d] = "act" => d \in Writers
    BY DEF IInv, CheckInv, WriterInv
  <2>2. c \in Writers
    BY <1>1, <2>1 DEF Act
  <2> QED
    BY <1>1, <2>1, <2>2 DEF Act, NoneOverlapped
<1>2. ASSUME NEW c \in Clients,
             CallSome(c) \/ Write(c) \/ Read(c) \/ Return(c) \/ Iterate(c)
      PROVE  NoneOverlapped'
  <2>1. CASE Emplace(c) \/ AssignAt(c) \/ EraseDevice(c)
    BY <1>1, <2>1 DEF Emplace, AssignAt, EraseDevice, R!Writes
  <2>2. CASE CallSome(c) \/ Check(c) \/ Read(c) \/ Return(c) \/ Iterate(c)
    BY <2>2 DEF CallSome, Call, Check, Read, Return, Iterate, IterateBegin, IterateNext, IterateEnd, NoneOverlapped
  <2> QED
    BY <1>2, <2>1, <2>2 DEF Write
<1> QED
  BY <1>2 DEF Next, vars, NoneOverlapped

(* The second step of an overlapped write *)
OverlappedAct == \E c \in overlapped : pc[c] = "act" /\ pc'[c] = "idle"

(* Every step is a step of the atomic repository, or changes nothing of it,    *)
(* but for the acts of overlapped writes.                                      *)
LEMMA StepSimulation ==
    ASSUME IInv, ~OverlappedAct, [Next]_vars
    PROVE  [R!Next]_(R!vars)
<1> USE ClientsAssumption
<1>1. ASSUME NEW c \in Clients, CallSome(c)
      PROVE  R!CallSome(c)
  BY <1>1 DEF CallSome, Call, R!CallSome, Keys
<1>2. ASSUME NEW c \in Clients, Check(c)
      PROVE  R!Next \/ UNCHANGED R!vars
  <2>1. answer[c] = None /\ m_devices' = m_devices
    BY <1>2 DEF IInv, TypeOK, Check
  <2>2. CASE ~Refuses(c)
    BY <1>2, <2>2 DEF Check, R!vars, R!callVars
  <2>3. CASE Refuses(c)
    BY <1>2, <2>1, <2>3 DEF Check, Refuses, Answer, Present, Key, R!Next, R!Create, R!Update, R!Remove,
                            R!Pending, R!Stored, R!Answer, R!Writes
  <2> QED
    BY <2>2, <2>3
<1>3. ASSUME NEW c \in Clients, Emplace(c) \/ AssignAt(c) \/ EraseDevice(c)
      PROVE  R!Create(c) \/ R!Update(c) \/ R!Remove(c)
  <2>0. pc[c] = "act" /\ pc' = [pc EXCEPT ![c] = "idle"]
    BY <1>3 DEF Emplace, AssignAt, EraseDevice, Act
  <2>0a. pc \in [Clients -> {"idle", "check", "act"}]
    BY DEF IInv, TypeOK
  <2>0b. c \notin overlapped
    BY <2>0, <2>0a DEF OverlappedAct
  <2>1. answer[c] = None /\ (op[c] # "create" <=> Present(c))
    BY <2>0, <2>0b DEF IInv, TypeOK, CheckInv
  <2>2. CASE Emplace(c)
    BY <2>1, <2>2 DEF Emplace, Act, Emplaced, Answer, Present, Key, R!Create, R!Pending, R!Stored,
                      R!Store, R!Answer
  <2>3. CASE AssignAt(c)
    BY <2>1, <2>3 DEF AssignAt, Act, Answer, Present, Key, R!Update, R!Pending, R!Stored, R!Store, R!Answer
  <2>4. CASE EraseDevice(c)
    BY <2>1, <2>4 DEF EraseDevice, Act, Answer, Present, Key, R!Remove, R!Pending, R!Stored, R!Store, R!Answer
  <2> QED
    BY <1>3, <2>2, <2>3, <2>4
<1>4. ASSUME NEW c \in Clients, Read(c)
      PROVE  R!Read(c) \/ R!Has(c)
  <2>1. answer[c] = None /\ m_devices' = m_devices /\ UNCHANGED <<op, arg>>
    BY <1>4 DEF IInv, TypeOK, Read, Answer
  <2>2. CASE op[c] = "read"
    BY <1>4, <2>1, <2>2 DEF Read, Answer, Present, Key, R!Read, R!Pending, R!Stored, R!Answer
  <2>3. CASE op[c] = "has"
    BY <1>4, <2>1, <2>3 DEF Read, Answer, Present, Key, R!Has, R!Pending, R!Stored, R!Answer
  <2> QED
    BY <1>4, <2>2, <2>3 DEF Read, R!Reads
<1>5. ASSUME NEW c \in Clients, Return(c) PROVE R!Return(c)
  BY <1>5 DEF Return
<1>6. ASSUME NEW c \in Clients, Iterate(c) PROVE UNCHANGED R!vars
  BY <1>6 DEF Iterate, IterateBegin, IterateNext, IterateEnd, R!vars, R!callVars
<1>7. CASE UNCHANGED vars
  BY <1>7 DEF vars, R!vars, R!callVars
<1>8. CASE Next
  <2>1. PICK c \in Clients : CallSome(c) \/ Write(c) \/ Read(c) \/ Return(c) \/ Iterate(c)
    BY <1>8 DEF Next
  <2> QED
    BY <1>1, <1>2, <1>3, <1>4, <1>5, <1>6, <2>1 DEF Write, R!Next
<1> QED
  BY <1>7, <1>8

(* However many threads write, only the act of an overlapped write may differ  *)
(* from the atomic operation.                                                  *)
THEOREM OnlyOverlappedDiffer == Spec => AtomicUnlessOverlapped
<1>1. Init => R!Init
  BY DEF Init
<1>2. IInv /\ [Next]_vars => [R!Next]_(R!vars) \/ OverlappedAct
  BY StepSimulation
<1>3. IInv /\ [Next]_vars => [[R!Next]_(R!vars) \/ \E c \in overlapped : pc[c] = "act" /\ pc'[c] = "idle"]_vars
  BY <1>2 DEF OverlappedAct
<1>4. Spec => R!Init
  BY <1>1 DEF Spec
<1> QED
  BY <1>3, <1>4, Invariance, PTL DEF Spec, AtomicUnlessOverlapped

LEMMA OneWriterOverlapsNothing ==
    ASSUME \A c, d \in Writers : c = d
    PROVE  Spec => []IInv /\ []NoneOverlapped
<1>1. Init => NoneOverlapped
  BY DEF Init, NoneOverlapped
<1>2. IInv /\ NoneOverlapped /\ [Next]_vars => NoneOverlapped'
  BY OverlapStep
<1> QED
  BY <1>1, <1>2, Invariance, PTL DEF Spec

(* No operation throws, and every create that says so has stored its device. *)
NothingGoesWrong == (\A c \in Clients : answer[c] # "outOfRange") /\ lost = {}

(* With one writer, no update meets a device that is gone, and no create is in *)
(* vain.                                                                       *)
THEOREM OneWriterIsSafe ==
    ASSUME \A c, d \in Writers : c = d
    PROVE  Spec => []NothingGoesWrong
<1>1. IInv /\ NoneOverlapped => NothingGoesWrong
  BY DEF IInv, TypeOK, WrongNeedsRival, NoneOverlapped, NothingGoesWrong
<1> QED
  BY <1>1, OneWriterOverlapsNothing, PTL

(* With one writer the repository of devices implements the atomic one. *)
THEOREM Refinement ==
    ASSUME \A c, d \in Writers : c = d
    PROVE  Spec => ImplementsRepository
<1>1. Init => R!Init
  BY DEF Init
<1>3. IInv /\ NoneOverlapped /\ [Next]_vars => [R!Next]_(R!vars)
  BY StepSimulation DEF NoneOverlapped, OverlappedAct
<1>4. Spec => []IInv /\ []NoneOverlapped
  BY OneWriterOverlapsNothing, PTL
<1>5. Spec => [][R!Next]_(R!vars)
  BY <1>3, <1>4, PTL DEF Spec
<1>6. Spec => R!Init
  BY <1>1 DEF Spec
<1>7. Spec => R!Spec
  BY <1>5, <1>6, PTL DEF R!Spec
<1> QED
  BY <1>7 DEF ImplementsRepository
=============================================================================
