-------------------------- MODULE EngineBoots_proofs --------------------------
(* Proofs about EngineBoots, for any number of clients, and, in the second     *)
(* part, about TaskContext, for any number of contexts and handlers.           *)
EXTENDS EngineBoots, TLAPS

(* The client has loaded its number, which it keeps from then on. *)
Numbered(d) == pc[d] \notin {"none", "load"}

(* The file holds the highest of the numbers it has kept ... *)
KeptInv == \A d \in kept : Numbered(d) /\ file \in Nat /\ boots[d] <= file

(* ... so that a client is numbered beyond all of them. *)
BeforeInv ==
    \A c \in Clients : \A d \in before[c] : Numbered(d) /\ boots[d] < boots[c]

IInv == TypeOK /\ KeptInv /\ BeforeInv

LEMMA InitBoots == Init => IInv
BY DEF Init, IInv, TypeOK, KeptInv, BeforeInv, PC

LEMMA LoadStep ==
    ASSUME IInv, NEW c \in Clients, Load(c)
    PROVE  IInv'
<1> DEFINE n == IF file = Missing THEN 1 ELSE file + 1
<1>1. /\ file # Damaged /\ pc[c] = "load" /\ pc' = [pc EXCEPT ![c] = "save"]
      /\ boots' = [boots EXCEPT ![c] = n] /\ before' = [before EXCEPT ![c] = kept]
      /\ file' = file /\ kept' = kept
  BY DEF Load, At
<1>2. n \in Nat /\ (file \in Nat => n = file + 1)
  BY <1>1 DEF IInv, TypeOK, Missing, Damaged
<1> HIDE DEF n
<1>3. TypeOK'
  BY <1>1, <1>2 DEF IInv, TypeOK, PC
<1>4. \A d \in Clients : Numbered(d) => Numbered(d)' /\ boots'[d] = boots[d]
  BY <1>1 DEF IInv, TypeOK, Numbered
<1>5. KeptInv'
  BY <1>1, <1>4 DEF IInv, TypeOK, KeptInv
<1>6. ASSUME NEW e \in Clients, NEW d \in before'[e]
      PROVE  Numbered(d)' /\ boots'[d] < boots'[e]
  <2>1. CASE e = c
    <3>1. d \in kept /\ boots'[e] = n
      BY <1>1, <1>6, <2>1 DEF IInv, TypeOK
    <3>2. d \in Clients /\ Numbered(d) /\ file \in Nat /\ boots[d] \in Nat /\ boots[d] <= file
      BY <3>1 DEF IInv, TypeOK, KeptInv
    <3> QED
      BY <1>2, <1>4, <3>1, <3>2
  <2>2. CASE e # c
    BY <1>1, <1>4, <1>6, <2>2 DEF IInv, TypeOK, BeforeInv
  <2> QED
    BY <2>1, <2>2
<1> QED
  BY <1>3, <1>5, <1>6 DEF IInv, BeforeInv

LEMMA SaveStep ==
    ASSUME IInv, NEW c \in Clients, Save(c)
    PROVE  IInv'
<1>1. /\ pc[c] = "save" /\ pc' = [pc EXCEPT ![c] = "model"] /\ file' = boots[c]
      /\ boots' = boots /\ before' = before
      /\ kept' = IF file = boots[c] - 1 THEN kept \cup {c} ELSE {c}
  BY DEF Save, At, Keep
<1>2. TypeOK'
  BY <1>1 DEF IInv, TypeOK, PC
<1>3. \A d \in Clients : Numbered(d) => Numbered(d)'
  BY <1>1 DEF IInv, TypeOK, Numbered
<1>4. Numbered(c)'
  BY <1>1 DEF IInv, TypeOK, Numbered
<1>5. KeptInv'
  BY <1>1, <1>3, <1>4 DEF IInv, TypeOK, KeptInv
<1>6. BeforeInv'
  BY <1>1, <1>3 DEF IInv, TypeOK, BeforeInv
<1> QED
  BY <1>2, <1>5, <1>6 DEF IInv

(* The other steps of a client leave the file and the numbers alone. *)
LEMMA QuietStep ==
    ASSUME IInv, NEW c \in Clients,
           Create(c) \/ LoadFails(c) \/ SaveFails(c) \/ MakeModel(c) \/ Die(c)
    PROVE  IInv'
<1>1. /\ UNCHANGED <<file, boots, kept, before>>
      /\ \E to \in PC : pc' = [pc EXCEPT ![c] = to] /\ (Numbered(c) => to \notin {"none", "load"})
  BY DEF Create, LoadFails, SaveFails, MakeModel, Die, At, PC, Numbered
<1>2. TypeOK'
  BY <1>1 DEF IInv, TypeOK
<1>3. \A d \in Clients : Numbered(d) => Numbered(d)'
  BY <1>1 DEF IInv, TypeOK, Numbered
<1>4. KeptInv' /\ BeforeInv'
  BY <1>1, <1>3 DEF IInv, TypeOK, KeptInv, BeforeInv
<1> QED
  BY <1>2, <1>4 DEF IInv

LEMMA BootsStep == IInv /\ [Next]_vars => IInv'
<1> SUFFICES ASSUME IInv, [Next]_vars PROVE IInv'
  OBVIOUS
<1>1. CASE Lose
  BY <1>1 DEF Lose, IInv, TypeOK, KeptInv, BeforeInv, Numbered
<1>2. CASE UNCHANGED vars
  BY <1>2 DEF vars, IInv, TypeOK, KeptInv, BeforeInv, Numbered
<1>3. CASE Next
  BY <1>1, <1>3, LoadStep, SaveStep, QuietStep DEF Next
<1> QED
  BY <1>2, <1>3

(* The file holds the highest number it has kept, in every reachable state. *)
THEOREM Invariance == Spec => []IInv
BY InitBoots, BootsStep, PTL DEF Spec

(* Every variable keeps its type. *)
THEOREM TypeCorrectness == Spec => []TypeOK
BY Invariance, PTL DEF IInv

(* No number that the file has kept is given again, for any number of clients, *)
(* crashes, failed saves and losses of the file.                               *)
THEOREM NumbersGrow == Spec => []BootsGrow
<1>1. IInv => BootsGrow
  BY DEF IInv, BeforeInv, BootsGrow
<1> QED
  BY <1>1, Invariance, PTL
-----------------------------------------------------------------------------
(* TaskContext *)

CONSTANTS Users, Names, NumContexts, NumPosts, None
VARIABLES m_registry, made, thread, keepAlive, queue, posted, running, held, at, atStop

T == INSTANCE TaskContext WITH Clients <- Users, pc <- at

(* A client in a destructor has its context, so do the registry's names. *)
PtrInv ==
    /\ held \in [Users -> T!Contexts \cup {None}]
    /\ m_registry \in [Names -> T!Contexts \cup {None}]
    /\ \A c \in Users : at[c] = "joining" => held[c] \in T!Contexts

(* A thread that runs has its work guard. *)
GuardInv ==
    /\ thread \in [T!Contexts -> {"none", "started", "runs"}]
    /\ keepAlive \in [T!Contexts -> BOOLEAN]
    /\ \A x \in T!Contexts : thread[x] = "runs" => keepAlive[x]

ContextInv == PtrInv /\ GuardInv /\ at \in [Users -> {"idle", "threw", "joining"}] /\ "default" \in Names
-----------------------------------------------------------------------------
LEMMA ConstructStep ==
    ASSUME GuardInv, NEW x \in T!Contexts, T!Construct(x)
    PROVE  GuardInv'
<1>1. thread' = [thread EXCEPT ![x] = "started"] /\ keepAlive' = keepAlive
  BY DEF T!Construct, T!Spawn
<1> QED
  BY <1>1 DEF GuardInv

LEMMA ThreadStep ==
    ASSUME GuardInv, NEW x \in T!Contexts, T!Thread(x)
    PROVE  GuardInv'
<1>1. CASE T!Begin(x)
  BY <1>1 DEF T!Begin, GuardInv
<1>2. CASE T!RunHandler(x) \/ T!EndHandler(x)
  BY <1>2 DEF T!RunHandler, T!EndHandler, GuardInv
<1>3. CASE T!ThreadEnds(x)
  BY <1>3 DEF T!ThreadEnds, T!OutOfWork, GuardInv
<1> QED
  BY <1>1, <1>2, <1>3 DEF T!Thread

(* The join of a destructor does not return. *)
LEMMA NoJoin ==
    ASSUME ContextInv, NEW c \in Users
    PROVE  ~T!Joined(c)
BY DEF ContextInv, PtrInv, GuardInv, T!Joined, T!Joinable

LEMMA ClientStep ==
    ASSUME ContextInv, NEW c \in Users, T!Use(c) \/ T!Lookup(c)
    PROVE  ContextInv'
<1>1. CASE T!Create(c)
  <2>1. PICK x \in T!Contexts : T!Construct(x) /\ T!Hold(c, x)
    BY <1>1 DEF T!Create
  <2>2. GuardInv'
    BY <2>1, ConstructStep DEF ContextInv
  <2>3. m_registry' = m_registry /\ held' = [held EXCEPT ![c] = x] /\ at' = at
    BY <1>1, <2>1 DEF T!Create, T!Hold
  <2> QED
    BY <2>2, <2>3 DEF ContextInv, PtrInv
<1>2. ASSUME NEW n \in Names, T!RegisterTaskContext(c, n)
      PROVE  ContextInv'
  <2>1. CASE m_registry[n] # None
    <3>1. /\ UNCHANGED <<thread, keepAlive, m_registry, at>>
          /\ held' = [held EXCEPT ![c] = m_registry[n]]
      BY <1>2, <2>1 DEF T!RegisterTaskContext, T!Hold, T!contextVars
    <3>2. m_registry[n] \in T!Contexts /\ held \in [Users -> T!Contexts \cup {None}]
      BY <2>1 DEF ContextInv, PtrInv
    <3>3. PtrInv'
      BY <3>1, <3>2 DEF ContextInv, PtrInv
    <3> QED
      BY <3>1, <3>3 DEF ContextInv, GuardInv
  <2>2. CASE m_registry[n] = None
    <3>1. PICK x \in T!Contexts :
            T!Construct(x) /\ T!Hold(c, x) /\ m_registry' = [m_registry EXCEPT ![n] = x]
      BY <1>2, <2>2 DEF T!RegisterTaskContext
    <3>2. GuardInv'
      BY <3>1, ConstructStep DEF ContextInv
    <3>3. held' = [held EXCEPT ![c] = x] /\ at' = at
      BY <3>1 DEF T!Hold
    <3> QED
      BY <3>1, <3>2, <3>3 DEF ContextInv, PtrInv
  <2> QED
    BY <2>1, <2>2
<1>3. CASE T!GetDefault(c)
  BY <1>3 DEF T!GetDefault, T!Free, T!Hold, T!contextVars, ContextInv, PtrInv, GuardInv
<1>4. ASSUME NEW n \in Names, NEW f \in Names, T!GetOrDefault(c, n, f)
      PROVE  ContextInv'
  BY <1>4 DEF T!GetOrDefault, T!Free, T!Hold, T!contextVars, ContextInv, PtrInv, GuardInv
<1>5. CASE T!Post(c) \/ T!Stop(c)
  BY <1>5 DEF T!Post, T!Stop, T!clientVars, T!contextVars, ContextInv, PtrInv, GuardInv
<1>6. CASE T!Release(c)
  BY <1>6 DEF T!Release, T!contextVars, ContextInv, PtrInv, GuardInv
<1> QED
  BY <1>1, <1>2, <1>3, <1>4, <1>5, <1>6, NoJoin DEF T!Use, T!Lookup

LEMMA ContextStep == ContextInv /\ [T!Next]_(T!vars) => ContextInv'
<1> SUFFICES ASSUME ContextInv, [T!Next]_(T!vars) PROVE ContextInv'
  OBVIOUS
<1>1. ASSUME NEW x \in T!Contexts, T!Thread(x)
      PROVE  ContextInv'
  <2>1. UNCHANGED <<m_registry, held, at>>
    BY <1>1 DEF T!Thread, T!Begin, T!RunHandler, T!EndHandler, T!ThreadEnds, T!clientVars
  <2> QED
    BY <1>1, <2>1, ThreadStep DEF ContextInv, PtrInv
<1>2. CASE UNCHANGED T!vars
  BY <1>2 DEF T!vars, T!contextVars, T!clientVars, ContextInv, PtrInv, GuardInv
<1>3. CASE T!Next
  BY <1>1, <1>3, ClientStep DEF T!Next
<1> QED
  BY <1>2, <1>3

(* No context's thread ever ends, so that whoever drops the last Ptr to a      *)
(* context waits for ever in its destructor, in the join.                      *)
THEOREM DestructorsNeverReturn ==
    ASSUME "default" \in Names
    PROVE  T!Spec => []T!ThreadsNeverEnd
<1>1. T!Init => ContextInv
  BY DEF T!Init, ContextInv, PtrInv, GuardInv
<1>2. ContextInv => T!ThreadsNeverEnd
  BY DEF ContextInv, GuardInv, T!ThreadsNeverEnd
<1> QED
  BY <1>1, <1>2, ContextStep, PTL DEF T!Spec
=============================================================================
