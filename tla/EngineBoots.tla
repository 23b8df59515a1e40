------------------------------ MODULE EngineBoots ------------------------------
(* SnmpClient::create and initializeV3: each client counts up the number of    *)
(* boots of the SNMPv3 engine "snmp_engine_proc" in a file, which clients of   *)
(* other processes use as well.  SNMPv3 tells one boot of an engine from the   *)
(* next by this number, so no two clients may run with the same one.           *)
EXTENDS Integers

CONSTANTS NumClients    \* bound: how many clients are created

ASSUME NumClientsAssumption == NumClients \in Nat

Clients == 1 .. NumClients

Missing == -1   \* getBootCounter: SNMPv3_FILEOPEN_ERROR or above, and 0 boots
Damaged == -2   \* getBootCounter: an error below that

VARIABLES
    file,       \* the number in snmpv3_boot_counter, Missing or Damaged
    pc,         \* where each client's create() is
    boots,      \* its snmpEngineBoots
    kept,       \* the clients whose numbers the file has kept count of
    before      \* those that were kept when a client loaded the file

vars == <<file, pc, boots, kept, before>>

PC == {"none", "load", "save", "model", "running", "failed", "gone"}

TypeOK ==
    /\ file \in Nat \cup {Missing, Damaged}
    /\ pc \in [Clients -> PC]
    /\ boots \in [Clients -> Nat]
    /\ kept \subseteq Clients
    /\ before \in [Clients -> SUBSET Clients]

Init ==
    /\ file \in {Missing, Damaged, 0}
    /\ pc = [c \in Clients |-> "none"]
    /\ boots = [c \in Clients |-> 0]
    /\ kept = {}
    /\ before = [c \in Clients |-> {}]

At(c, from, to) == pc[c] = from /\ pc' = [pc EXCEPT ![c] = to]
-----------------------------------------------------------------------------
(* create(): the session is opened, or the port is in use. *)
Create(c) ==
    /\ At(c, "none", "load") \/ At(c, "none", "failed")
    /\ UNCHANGED <<file, boots, kept, before>>

(* getBootCounter and snmpEngineBoots++: a missing file counts as 0 boots. *)
Load(c) ==
    /\ file # Damaged
    /\ At(c, "load", "save")
    /\ boots' = [boots EXCEPT ![c] = IF file = Missing THEN 1 ELSE file + 1]
    /\ before' = [before EXCEPT ![c] = kept]
    /\ UNCHANGED <<file, kept>>

LoadFails(c) ==
    /\ file = Damaged
    /\ At(c, "load", "failed")
    /\ UNCHANGED <<file, boots, kept, before>>

(* Client c has its number.  A save over a number that c has not loaded, of a   *)
(* client that came between, is one that the file loses count with.            *)
Keep(c) == kept' = IF file = boots[c] - 1 THEN kept \cup {c} ELSE {c}

(* saveBootCounter *)
Save(c) ==
    /\ At(c, "save", "model")
    /\ file' = boots[c]
    /\ Keep(c)
    /\ UNCHANGED <<boots, before>>

(* Mutant: the status of saveBootCounter is ignored. *)
SaveFailureIgnored(c) ==
    /\ At(c, "save", "model")
    /\ Keep(c)
    /\ UNCHANGED <<file, boots, before>>

SaveFails(c) ==
    /\ At(c, "save", "failed")
    /\ UNCHANGED <<file, boots, kept, before>>

(* v3MP(engineId, snmpEngineBoots, status) *)
MakeModel(c) ==
    /\ At(c, "model", "running") \/ At(c, "model", "failed")
    /\ UNCHANGED <<file, boots, kept, before>>

(* The destructor, or a crash at any time *)
Die(c) ==
    /\ pc[c] \notin {"none", "failed", "gone"}
    /\ pc' = [pc EXCEPT ![c] = "gone"]
    /\ UNCHANGED <<file, boots, kept, before>>

(* The file is removed, or left in pieces by a crash while it is written. *)
Lose ==
    /\ file' \in {Missing, Damaged}
    /\ kept' = {}
    /\ UNCHANGED <<pc, boots, before>>

Next ==
    \/ Lose
    \/ \E c \in Clients :
        \/ Create(c) \/ Load(c) \/ LoadFails(c) \/ Save(c) \/ SaveFails(c)
        \/ MakeModel(c) \/ Die(c)

Spec == Init /\ [][Next]_vars
-----------------------------------------------------------------------------
(* Properties *)

(* The number of a client is beyond that of every client whose number the file *)
(* had kept when it loaded it, whichever of them crashed or failed.  Only the  *)
(* loss of the file, or clients created at once, can repeat a number.          *)
BootsGrow ==
    \A c \in Clients : pc[c] \in {"model", "running"} =>
        \A d \in before[c] : boots[d] < boots[c]
=============================================================================
