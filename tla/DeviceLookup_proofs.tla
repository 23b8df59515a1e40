-------------------------- MODULE DeviceLookup_proofs --------------------------
(* Proofs about DeviceLookup and the callback of DeviceTracking that it runs   *)
(* with, for any hosts, keys, devices, times and versions.                     *)
EXTENDS DeviceLookup, DeviceRepository_proofs

AddressType == [ip : Hosts, mac : Keys]

TrackTypeOK ==
    /\ tpc \in {"idle", "reading", "made", "creating"}
    /\ result \in [ip : Hosts, mac : Keys, time : Times] \cup {None}
    /\ tpc = "idle" <=> result = None
    /\ made \subseteq Items /\ address \in [Items -> AddressType \cup {None}]
    /\ responseTime \in [Items -> Times \cup {Uninitialised}]
    /\ latest \in [Keys -> Times \cup {None}]
    /\ lpc \in {"idle", "finding", "found", "crashed"}
    /\ found \in Items \cup {None} /\ host \in Hosts \cup {None}
    /\ lastUsed \in [Items -> Versions \cup {Unset}]
    /\ handled \subseteq Hosts \X Keys /\ known \subseteq handled

(* Only the callback calls, what its place says; and its read found what is    *)
(* there, because nobody else writes.                                          *)
CallInv ==
    /\ op[Main] = "none"
    /\ tpc \in {"idle", "made"} => op[Runner] = "none"
    /\ tpc = "reading" =>
        /\ op[Runner] = "read" /\ arg[Runner].key = result.mac
        /\ answer[Runner] \in Items => m_devices[result.mac] = answer[Runner]
        /\ answer[Runner] = "notFound" => m_devices[result.mac] = None
    /\ tpc = "creating" =>
        /\ op[Runner] = "create" /\ arg[Runner].key = result.mac
        /\ answer[Runner] # None =>
            m_devices[result.mac] # None /\ responseTime[m_devices[result.mac]] = result.time

(* Each device is in the map once, under the MAC address it was made for.      *)
DeviceInv ==
    /\ \A k \in Keys : m_devices[k] # None => m_devices[k] \in made /\ address[m_devices[k]].mac = k
    /\ \A d \in made : address[d] \in AddressType /\ <<address[d].ip, address[d].mac>> \in Reports

(* At most one device was made and is not in the map: the one that the         *)
(* callback is about to store for the address it did not find.                 *)
NewDeviceInv ==
    /\ \A d \in made \ InMap :
        /\ tpc \in {"made", "creating"} /\ m_devices[result.mac] = None
        /\ address[d] = [ip |-> result.ip, mac |-> result.mac] /\ responseTime[d] = result.time
    /\ \A d, e \in made \ InMap : d = e
    /\ tpc = "creating" /\ answer[Runner] = None => arg[Runner].item \in made \ InMap

(* Every handled result has a device, with the time of the latest. *)
HandledInv ==
    /\ \A r \in handled : m_devices[r[2]] # None
    /\ \A k \in Keys : latest[k] # None =>
            m_devices[k] # None /\ responseTime[m_devices[k]] = latest[k]

(* An address whose host and MAC address did not stay together *)
Moved == {r \in Hosts \X Keys : \E q \in Reports : ~(q[1] = r[1] <=> q[2] = r[2])}

(* The main thread holds the lock while it searches, finds a device of the     *)
(* host, and finds none only if no device of the map matched.                  *)
FindInv ==
    /\ holder = IF lpc = "finding" THEN Main ELSE None
    /\ lpc # "finding" => at = 0
    /\ lpc \in {"finding", "found"} => request = None /\ host \in Hosts
    /\ found # None => found \in made /\ address[found].ip = host
    /\ lpc = "finding" /\ found = None =>
        \A k \in Keys : k <= at /\ m_devices[k] # None => address[m_devices[k]].ip # host
    /\ lpc = "found" /\ found = None => \A r \in known : r[1] = host => r \in Moved

LookupInv ==
    /\ IInv /\ TrackTypeOK /\ CallInv /\ DeviceInv /\ NewDeviceInv /\ HandledInv /\ FindInv
    /\ PingsReachStableHosts /\ RequestsReachTheirHost

USE DEF callVars, iterVars
-----------------------------------------------------------------------------
LEMMA ConstantFacts ==
    /\ Runner \in Clients /\ Main \in Clients /\ Runner # Main /\ Writers = {Runner}
    /\ None \notin Clients
    /\ None \notin Items /\ "notFound" \notin Items /\ "notFound" # None
    /\ None \notin [ip : Hosts, mac : Keys, time : Times]
    /\ Keys = 1 .. NumKeys /\ NumKeys \in Nat \ {0} /\ Broadcast \notin Keys
BY RunnerAssumption, MainAssumption, ClientsAssumption, ItemsAssumption, NoneAssumption,
   ResultAssumption, KeysAssumption, BroadcastAssumption DEF Keys, R!Keys

(* What a caller does is a step of the repository, or leaves it alone. *)
LEMMA StepIsRepository == TrackTypeOK /\ [LookupNext]_everyVar => [Next]_vars
<1> SUFFICES ASSUME TrackTypeOK, [LookupNext]_everyVar PROVE [Next]_vars
  OBVIOUS
<1> USE ConstantFacts
<1>1. CASE UNCHANGED vars
  BY <1>1
<1>2. ASSUME NEW h \in Hosts, NEW k \in Keys, NEW t \in Times, Called(h, k, t) PROVE Next
  BY <1>2 DEF Called, Next, CallSome, R!Reads
<1>3. CASE Found \/ Created \/ \E d \in Items \ made : Make(d)
  BY <1>3 DEF Found, Created, Make, Next
<1>4. ASSUME NEW d \in made \ InMap, Publish(d) PROVE Next
  <2>1. d \in Items /\ result.mac \in Keys
    BY <1>4 DEF TrackTypeOK, Publish
  <2> QED
    BY <1>4, <2>1 DEF Publish, Next, CallSome
<1>5. CASE Operation
  BY <1>5 DEF Operation, Next
<1>6. CASE Lookup
  <2>1. CASE \E h \in Hosts : FindBegin(h)
    BY <2>1 DEF FindBegin, Next, Iterate
  <2>2. CASE FindNext \/ FindEnd
    BY <2>2 DEF FindNext, FindEnd, Next, Iterate
  <2>3. CASE UNCHANGED vars
    BY <2>3
  <2> QED
    BY <1>6, <2>1, <2>2, <2>3 DEF Lookup, Discover, CreateTarget, RequestSystem,
       SetLastUsedSnmpVersion, allVars
<1> QED
  BY <1>1, <1>2, <1>3, <1>4, <1>5, <1>6
     DEF LookupNext, Track, TrackingNext, Callback, everyVar, allVars

LEMMA InitLookupInv == LookupInit => LookupInv
<1> SUFFICES ASSUME LookupInit PROVE LookupInv
  OBVIOUS
<1> USE ConstantFacts DEF LookupInit, TrackingInit
<1>1. IInv
  BY InitIInv
<1>2. /\ m_devices = [k \in Keys |-> None] /\ op = [c \in Clients |-> "none"]
      /\ holder = None /\ at = 0
  BY DEF Init, R!Init, Keys
<1>3. TrackTypeOK
  BY DEF TrackTypeOK
<1>4. CallInv /\ DeviceInv /\ NewDeviceInv /\ HandledInv /\ FindInv
  BY <1>2 DEF CallInv, DeviceInv, NewDeviceInv, HandledInv, FindInv
<1>5. PingsReachStableHosts /\ RequestsReachTheirHost
  BY DEF PingsReachStableHosts, RequestsReachTheirHost
<1> QED
  BY <1>1, <1>3, <1>4, <1>5 DEF LookupInv
-----------------------------------------------------------------------------
(* The callback *)

(* What was reported stays reported. *)
LEMMA ReportsGrow ==
    ASSUME LookupInv, Track
    PROVE  Reports \subseteq Reports' /\ Moved \subseteq Moved'
<1>1. Reports \subseteq Reports'
  <2>1. CASE result' = result
    BY <2>1 DEF Track, Reports
  <2>2. CASE result = None
    BY <2>2 DEF Track, Reports
  <2>3. CASE result # None /\ result' = None
    BY <2>3 DEF Track, Reports
  <2>4. result' = result \/ result = None \/ result' = None
    BY DEF Track, TrackingNext, Callback, Called, Found, Created, Make, Publish, Finish,
           Operation, trackVars, LookupInv, TrackTypeOK
  <2> QED
    BY <2>1, <2>2, <2>3, <2>4
<1> QED
  BY <1>1 DEF Moved

(* The callback adds devices to those made, and to the map when the main       *)
(* thread is not searching: what that has found stays true.                    *)
LEMMA FindKept ==
    ASSUME LookupInv, Track, made \subseteq made', \A d \in made : address'[d] = address[d],
           UNCHANGED <<holder, at>>, holder # None => m_devices' = m_devices
    PROVE  FindInv' /\ PingsReachStableHosts' /\ RequestsReachTheirHost'
<1> USE ConstantFacts DEF LookupInv
<1>1. /\ UNCHANGED <<lpc, host, found, lastUsed, ping, request, known>>
      /\ Reports \subseteq Reports' /\ Moved \subseteq Moved'
  BY ReportsGrow DEF Track
<1>2. \A k \in Keys : m_devices[k] # None => m_devices[k] \in made
  BY DEF DeviceInv
<1>3. FindInv'
  BY <1>1, <1>2 DEF FindInv
<1>4. PingsReachStableHosts'
  BY <1>1 DEF PingsReachStableHosts
<1>5. RequestsReachTheirHost'
  BY <1>1 DEF RequestsReachTheirHost
<1> QED
  BY <1>3, <1>4, <1>5

LEMMA CalledStep ==
    ASSUME LookupInv, IInv', Track, NEW h \in Hosts, NEW k \in Keys, NEW t \in Times, Called(h, k, t)
    PROVE  LookupInv'
<1> USE ConstantFacts DEF LookupInv
<1>1. /\ tpc = "idle" /\ tpc' = "reading" /\ result' = [ip |-> h, mac |-> k, time |-> t]
      /\ UNCHANGED <<made, address, responseTime, latest, m_devices, answer, holder, at>>
      /\ op' = [op EXCEPT ![Runner] = "read"]
      /\ arg' = [arg EXCEPT ![Runner] = [key |-> k, item |-> None]]
  BY DEF Called, Call, R!Call
<1>2. result = None /\ handled' = handled /\ UNCHANGED <<lpc, host, found, lastUsed, known>>
  BY <1>1 DEF Track, TrackTypeOK
<1>3. TrackTypeOK'
  BY <1>1, <1>2 DEF TrackTypeOK
<1>4. answer[Runner] = None
  BY <1>1 DEF CallInv, IInv, ArgInv
<1>5. CallInv'
  BY <1>1, <1>4 DEF CallInv, IInv, TypeOK
<1>6. DeviceInv'
  BY <1>1, ReportsGrow DEF DeviceInv
<1>7. NewDeviceInv' /\ HandledInv'
  BY <1>1, <1>2 DEF NewDeviceInv, HandledInv, InMap
<1>8. FindInv' /\ PingsReachStableHosts' /\ RequestsReachTheirHost'
  BY <1>1, FindKept
<1> QED
  BY <1>3, <1>5, <1>6, <1>7, <1>8

(* Found sets the time of the device that the read found, which is still there. *)
LEMMA FoundStep ==
    ASSUME LookupInv, IInv', Track, Found
    PROVE  LookupInv'
<1> USE ConstantFacts DEF LookupInv
<1> DEFINE d == answer[Runner]
<1>1. /\ tpc = "reading" /\ tpc' = "idle" /\ result' = None /\ d \in Items
      /\ latest' = [latest EXCEPT ![result.mac] = result.time]
      /\ responseTime' = [responseTime EXCEPT ![d] = result.time]
      /\ UNCHANGED <<made, address, m_devices, holder, at>>
      /\ op' = [op EXCEPT ![Runner] = "none"]
  BY DEF Found, Finish, SetTime, Return, R!Return
<1>2. /\ result \in [ip : Hosts, mac : Keys, time : Times] /\ m_devices[result.mac] = d
      /\ handled' = handled \cup {<<result.ip, result.mac>>}
      /\ UNCHANGED <<lpc, host, found, lastUsed, known>>
  BY <1>1 DEF Track, TrackTypeOK, CallInv
<1> HIDE DEF d
<1>3. TrackTypeOK'
  BY <1>1, <1>2 DEF TrackTypeOK
<1>4. CallInv'
  BY <1>1 DEF CallInv, IInv, TypeOK
<1>5. DeviceInv'
  BY <1>1, ReportsGrow DEF DeviceInv
<1>6. NewDeviceInv'
  BY <1>1 DEF NewDeviceInv, InMap
<1>7. HandledInv'
  <2>1. \A r \in handled' : m_devices'[r[2]] # None
    BY <1>1, <1>2 DEF HandledInv
  <2>2. ASSUME NEW k \in Keys, latest'[k] # None
        PROVE  m_devices'[k] # None /\ responseTime'[m_devices'[k]] = latest'[k]
    <3>1. CASE k = result.mac
      BY <1>1, <1>2, <3>1 DEF TrackTypeOK
    <3>2. CASE k # result.mac
      <4>1. latest[k] # None /\ latest'[k] = latest[k]
        BY <1>1, <2>2, <3>2 DEF TrackTypeOK
      <4>2. m_devices[k] # None /\ responseTime[m_devices[k]] = latest[k]
        BY <4>1 DEF HandledInv
      <4>3. m_devices[k] # d
        BY <1>1, <1>2, <3>2, <4>2 DEF DeviceInv
      <4> QED
        BY <1>1, <4>1, <4>2, <4>3 DEF TrackTypeOK, IInv, TypeOK
    <3> QED
      BY <3>1, <3>2
  <2> QED
    BY <2>1, <2>2 DEF HandledInv
<1>8. FindInv' /\ PingsReachStableHosts' /\ RequestsReachTheirHost'
  BY <1>1, FindKept
<1> QED
  BY <1>3, <1>4, <1>5, <1>6, <1>7, <1>8

(* Make makes the device for an address that has none. *)
LEMMA MakeStep ==
    ASSUME LookupInv, IInv', Track, NEW d \in Items \ made, Make(d)
    PROVE  LookupInv'
<1> USE ConstantFacts DEF LookupInv
<1>1. /\ tpc = "reading" /\ tpc' = "made" /\ answer[Runner] = "notFound"
      /\ made' = made \cup {d} /\ UNCHANGED <<result, latest, m_devices, holder, at>>
      /\ address' = [address EXCEPT ![d] = [ip |-> result.ip, mac |-> result.mac]]
      /\ responseTime' = [responseTime EXCEPT ![d] = result.time]
      /\ op' = [op EXCEPT ![Runner] = "none"]
  BY DEF Make, SetTime, Return, R!Return
<1>2. /\ result \in [ip : Hosts, mac : Keys, time : Times] /\ m_devices[result.mac] = None
      /\ UNCHANGED <<lpc, host, found, lastUsed, known, handled>>
  BY <1>1 DEF Track, TrackTypeOK, CallInv
<1>3. TrackTypeOK'
  BY <1>1, <1>2 DEF TrackTypeOK, AddressType
<1>4. CallInv'
  BY <1>1 DEF CallInv, IInv, TypeOK
<1>5. \A k \in Keys : m_devices[k] # None => m_devices[k] \in made /\ m_devices[k] # d
  BY DEF DeviceInv
<1>6. DeviceInv'
  <2>1. address'[d] = [ip |-> result.ip, mac |-> result.mac] /\ address'[d] \in AddressType
    BY <1>1, <1>2 DEF TrackTypeOK, AddressType
  <2>2. <<result.ip, result.mac>> \in Reports'
    BY <1>1, <1>2 DEF Reports
  <2>3. \A e \in made : address'[e] = address[e]
    BY <1>1 DEF TrackTypeOK
  <2> QED
    BY <1>1, <1>5, <2>1, <2>2, <2>3, ReportsGrow DEF DeviceInv
<1>7. NewDeviceInv'
  <2>1. made \ InMap = {} /\ InMap' = InMap
    BY <1>1 DEF NewDeviceInv, InMap
  <2>2. address'[d] = [ip |-> result.ip, mac |-> result.mac] /\ responseTime'[d] = result.time
    BY <1>1 DEF TrackTypeOK
  <2> QED
    BY <1>1, <1>2, <2>1, <2>2 DEF NewDeviceInv
<1>8. HandledInv'
  BY <1>1, <1>2, <1>5 DEF HandledInv, TrackTypeOK
<1>9. FindInv' /\ PingsReachStableHosts' /\ RequestsReachTheirHost'
  <2>1. \A e \in made : address'[e] = address[e]
    BY <1>1 DEF TrackTypeOK
  <2> QED
    BY <1>1, <2>1, FindKept
<1> QED
  BY <1>3, <1>4, <1>6, <1>7, <1>8, <1>9

LEMMA PublishStep ==
    ASSUME LookupInv, IInv', Track, NEW d \in made \ InMap, Publish(d)
    PROVE  LookupInv'
<1> USE ConstantFacts DEF LookupInv
<1>1. /\ tpc = "made" /\ tpc' = "creating"
      /\ UNCHANGED <<result, made, address, responseTime, latest, m_devices, answer, holder, at>>
      /\ op[Runner] = "none" /\ op' = [op EXCEPT ![Runner] = "create"]
      /\ arg' = [arg EXCEPT ![Runner] = [key |-> result.mac, item |-> d]]
  BY DEF Publish, Call, R!Call
<1>2. answer[Runner] = None /\ UNCHANGED <<lpc, host, found, lastUsed, known, handled>>
  BY <1>1 DEF Track, TrackTypeOK, IInv, ArgInv
<1>3. TrackTypeOK'
  BY <1>1, <1>2 DEF TrackTypeOK
<1>4. CallInv'
  BY <1>1, <1>2 DEF CallInv, IInv, TypeOK
<1>5. DeviceInv'
  BY <1>1, ReportsGrow DEF DeviceInv
<1>6. NewDeviceInv'
  BY <1>1 DEF NewDeviceInv, InMap, IInv, TypeOK
<1>7. HandledInv'
  BY <1>1, <1>2 DEF HandledInv
<1>8. FindInv' /\ PingsReachStableHosts' /\ RequestsReachTheirHost'
  BY <1>1, FindKept
<1> QED
  BY <1>3, <1>4, <1>5, <1>6, <1>7, <1>8

LEMMA CreatedStep ==
    ASSUME LookupInv, IInv', Track, Created
    PROVE  LookupInv'
<1> USE ConstantFacts DEF LookupInv
<1>1. /\ tpc = "creating" /\ tpc' = "idle" /\ result' = None /\ answer[Runner] # None
      /\ latest' = [latest EXCEPT ![result.mac] = result.time]
      /\ UNCHANGED <<made, address, responseTime, m_devices, holder, at>>
      /\ op' = [op EXCEPT ![Runner] = "none"]
  BY DEF Created, Finish, Return, R!Return
<1>2. /\ result \in [ip : Hosts, mac : Keys, time : Times]
      /\ m_devices[result.mac] # None /\ responseTime[m_devices[result.mac]] = result.time
      /\ handled' = handled \cup {<<result.ip, result.mac>>}
      /\ UNCHANGED <<lpc, host, found, lastUsed, known>>
  BY <1>1 DEF Track, TrackTypeOK, CallInv
<1>3. TrackTypeOK'
  BY <1>1, <1>2 DEF TrackTypeOK
<1>4. CallInv'
  BY <1>1 DEF CallInv, IInv, TypeOK
<1>5. DeviceInv'
  BY <1>1, ReportsGrow DEF DeviceInv
<1>6. NewDeviceInv'
  BY <1>1, <1>2 DEF NewDeviceInv, InMap
<1>7. HandledInv'
  BY <1>1, <1>2 DEF HandledInv, TrackTypeOK
<1>8. FindInv' /\ PingsReachStableHosts' /\ RequestsReachTheirHost'
  BY <1>1, FindKept
<1> QED
  BY <1>3, <1>4, <1>5, <1>6, <1>7, <1>8

(* The repository's steps for the callback: its read finds what is there, its  *)
(* create finds nothing under the address and so stores the new device.        *)
LEMMA OperationStep ==
    ASSUME LookupInv, IInv', Track, Operation
    PROVE  LookupInv'
<1> USE ConstantFacts DEF LookupInv
<1>1. /\ UNCHANGED <<tpc, result, made, address, responseTime, latest, holder, at, op, arg, handled>>
      /\ UNCHANGED <<lpc, host, found, lastUsed, known>>
      /\ op[Runner] # "none" /\ tpc \in {"reading", "creating"}
      /\ result \in [ip : Hosts, mac : Keys, time : Times] /\ Key(Runner) = result.mac
  <2>1. /\ UNCHANGED <<tpc, result, made, address, responseTime, latest, holder, at, op, arg>>
        /\ op[Runner] # "none"
    BY DEF Operation, trackVars, Write, Read, Check, Emplace, AssignAt, EraseDevice, Act, Answer,
           R!Writes, R!Reads
  <2> QED
    BY <2>1 DEF Track, TrackTypeOK, CallInv, Key
<1>2. TrackTypeOK'
  BY <1>1 DEF TrackTypeOK
<1>3. CASE Read(Runner)
  <2>1. op[Runner] = "read" /\ tpc = "reading"
    BY <1>1, <1>3 DEF CallInv, Read, R!Reads
  <2>2. /\ m_devices' = m_devices
        /\ answer' = [answer EXCEPT ![Runner] =
                        IF m_devices[result.mac] # None THEN m_devices[result.mac] ELSE "notFound"]
    BY <1>1, <1>3, <2>1 DEF Read, Answer, Present
  <2>3. CallInv'
    BY <1>1, <2>1, <2>2 DEF CallInv, IInv, TypeOK
  <2>4. DeviceInv' /\ NewDeviceInv' /\ HandledInv'
    BY <1>1, <2>1, <2>2, ReportsGrow DEF DeviceInv, NewDeviceInv, HandledInv, InMap
  <2>5. FindInv' /\ PingsReachStableHosts' /\ RequestsReachTheirHost'
    BY <1>1, <2>2, FindKept
  <2> QED
    BY <1>2, <2>3, <2>4, <2>5
<1>4. CASE Write(Runner)
  <2>1. op[Runner] = "create" /\ tpc = "creating" /\ answer[Runner] = None
    BY <1>1, <1>4 DEF CallInv, Write, Check, Emplace, AssignAt, EraseDevice, Act, R!Writes, IInv, TypeOK
  <2> DEFINE d == arg[Runner].item
  <2>2. /\ d \in made \ InMap /\ m_devices[result.mac] = None /\ ~Present(Runner)
        /\ address[d] = [ip |-> result.ip, mac |-> result.mac] /\ responseTime[d] = result.time
    BY <1>1, <2>1 DEF NewDeviceInv, Present
  <2>3. CASE Check(Runner)
    <3>1. m_devices' = m_devices /\ answer' = answer
      BY <2>1, <2>2, <2>3 DEF Check, Refuses
    <3>2. CallInv' /\ DeviceInv' /\ NewDeviceInv' /\ HandledInv'
      BY <1>1, <3>1, ReportsGrow DEF CallInv, DeviceInv, NewDeviceInv, HandledInv, InMap
    <3>3. FindInv' /\ PingsReachStableHosts' /\ RequestsReachTheirHost'
      BY <1>1, <3>1, FindKept
    <3> QED
      BY <1>2, <3>2, <3>3
  <2>4. CASE Emplace(Runner)
    <3>1. /\ m_devices' = [m_devices EXCEPT ![result.mac] = d] /\ holder = None
          /\ answer' = [answer EXCEPT ![Runner] = "yes"]
      BY <1>1, <2>2, <2>4 DEF Emplace, Emplaced, Act, Answer, Unlocked
    <3>2. d \in Items /\ m_devices'[result.mac] = d /\ result.mac \in Keys
      BY <1>1, <2>2, <3>1 DEF TrackTypeOK, IInv, TypeOK
    <3>3. \A k \in Keys : m_devices[k] # None => m_devices'[k] = m_devices[k]
      BY <2>2, <3>1 DEF IInv, TypeOK
    <3>4. \A k \in Keys \ {result.mac} : m_devices'[k] = m_devices[k]
      BY <3>1 DEF IInv, TypeOK
    <3> HIDE DEF d
    <3>5. CallInv'
      BY <1>1, <2>1, <2>2, <3>1, <3>2 DEF CallInv
    <3>6. DeviceInv'
      BY <1>1, <2>2, <3>2, <3>4, ReportsGrow DEF DeviceInv
    <3>7. NewDeviceInv'
      <4>1. InMap \subseteq InMap' /\ d \in InMap'
        BY <3>2, <3>3 DEF InMap
      <4>2. made' \ InMap' = {}
        BY <1>1, <2>2, <4>1 DEF NewDeviceInv
      <4>3. answer'[Runner] # None
        BY <3>1, NoneAssumption DEF IInv, TypeOK
      <4> QED
        BY <4>2, <4>3 DEF NewDeviceInv
    <3>8. HandledInv'
      BY <1>1, <3>3, <3>4 DEF HandledInv, TrackTypeOK
    <3>9. FindInv' /\ PingsReachStableHosts' /\ RequestsReachTheirHost'
      BY <1>1, <3>1, FindKept
    <3> QED
      BY <1>2, <3>5, <3>6, <3>7, <3>8, <3>9
  <2>5. ~AssignAt(Runner) /\ ~EraseDevice(Runner)
    BY <2>1 DEF AssignAt, EraseDevice, Act
  <2> QED
    BY <1>4, <2>3, <2>4, <2>5 DEF Write
<1> QED
  BY <1>3, <1>4 DEF Operation
-----------------------------------------------------------------------------
(* The main thread *)

(* What it leaves alone *)
LEMMA CallbackKept ==
    ASSUME LookupInv, UNCHANGED <<m_devices, callVars, trackVars, handled>>
    PROVE  CallInv' /\ DeviceInv' /\ NewDeviceInv' /\ HandledInv' /\ Reports' = Reports /\ Moved' = Moved
<1> USE DEF LookupInv, trackVars
<1>1. CallInv'
  BY DEF CallInv
<1>2. Reports' = Reports
  BY DEF Reports
<1>3. DeviceInv' /\ Moved' = Moved
  BY <1>2 DEF DeviceInv, Moved
<1>4. NewDeviceInv' /\ HandledInv'
  BY DEF NewDeviceInv, InMap, HandledInv
<1> QED
  BY <1>1, <1>2, <1>3, <1>4

LEMMA FindBeginStep ==
    ASSUME LookupInv, IInv', NEW h \in Hosts, FindBegin(h)
    PROVE  LookupInv'
<1> USE ConstantFacts DEF LookupInv
<1>1. /\ lpc = "idle" /\ lpc' = "finding" /\ host' = h /\ found' = None /\ ping' = None
      /\ request' = None /\ known' = handled /\ holder' = Main
      /\ UNCHANGED <<m_devices, callVars, trackVars, at, lastUsed, handled>>
  BY DEF FindBegin, IterateBegin
<1>2. CallInv' /\ DeviceInv' /\ NewDeviceInv' /\ HandledInv'
  BY <1>1, CallbackKept
<1>3. TrackTypeOK'
  BY <1>1 DEF TrackTypeOK, trackVars
<1>4. FindInv'
  BY <1>1 DEF FindInv
<1>5. PingsReachStableHosts' /\ RequestsReachTheirHost'
  BY <1>1 DEF PingsReachStableHosts, RequestsReachTheirHost
<1> QED
  BY <1>2, <1>3, <1>4, <1>5

LEMMA FindNextStep ==
    ASSUME LookupInv, IInv', FindNext
    PROVE  LookupInv'
<1> USE ConstantFacts DEF LookupInv
<1>1. /\ lpc = "finding" /\ found = None
      /\ found' = IF address[m_devices[at']].ip = host THEN m_devices[at'] ELSE None
      /\ UNCHANGED <<m_devices, callVars, trackVars, lpc, host, lastUsed, ping, request, handled, known>>
      /\ holder' = holder
  BY DEF FindNext, IterateNext, Matches
<1>2. PICK k \in Keys : /\ k > at /\ m_devices[k] # None /\ at' = k
                        /\ \A j \in Keys : at < j /\ j < k => m_devices[j] = None
  BY DEF FindNext, IterateNext
<1>3. CallInv' /\ DeviceInv' /\ NewDeviceInv' /\ HandledInv' /\ Reports' = Reports
  BY <1>1, CallbackKept
<1>4. m_devices[k] \in made /\ m_devices[k] \in Items
  BY <1>2 DEF DeviceInv, TrackTypeOK
<1>5. TrackTypeOK'
  BY <1>1, <1>2, <1>4 DEF TrackTypeOK, trackVars
<1>6. request = None /\ request' = None
  BY <1>1 DEF FindInv
<1>7. FindInv'
  <2>1. found' # None => found' \in made' /\ address'[found'].ip = host'
    BY <1>1, <1>2, <1>4 DEF trackVars
  <2>2. ASSUME found' = None, NEW j \in Keys, j <= at', m_devices'[j] # None
        PROVE  address'[m_devices'[j]].ip # host'
    <3>1. CASE j = k
      BY <1>1, <1>2, <1>4, <2>2, <3>1 DEF trackVars
    <3>2. CASE j <= at
      BY <1>1, <2>2, <3>2 DEF FindInv, trackVars
    <3>3. j = k \/ j <= at
      BY <1>1, <1>2, <2>2 DEF IInv, TypeOK
    <3> QED
      BY <3>1, <3>2, <3>3
  <2> QED
    BY <1>1, <1>6, <2>1, <2>2 DEF FindInv
<1>8. PingsReachStableHosts'
  BY <1>1, <1>3 DEF PingsReachStableHosts
<1>9. RequestsReachTheirHost'
  BY <1>1, <1>6 DEF RequestsReachTheirHost
<1> QED
  BY <1>3, <1>5, <1>7, <1>8, <1>9

(* If nothing was found, no device of the map has the host's address: a device *)
(* made for a MAC address that has answered for the host has another.          *)
LEMMA FindEndStep ==
    ASSUME LookupInv, IInv', FindEnd
    PROVE  LookupInv'
<1> USE ConstantFacts DEF LookupInv
<1>1. /\ lpc = "finding" /\ lpc' = "found" /\ holder' = None /\ at' = 0
      /\ found # None \/ \A k \in Keys : k > at => m_devices[k] = None
      /\ UNCHANGED <<m_devices, callVars, trackVars, host, found, lastUsed, ping, request, handled, known>>
  BY DEF FindEnd, IterateEnd
<1>2. CallInv' /\ DeviceInv' /\ NewDeviceInv' /\ HandledInv' /\ Reports' = Reports /\ Moved' = Moved
  BY <1>1, CallbackKept
<1>3. TrackTypeOK'
  BY <1>1 DEF TrackTypeOK, trackVars
<1>4. ASSUME found = None, NEW r \in known, r[1] = host
      PROVE  r \in Moved
  <2>1. r \in handled /\ r \in Hosts \X Keys /\ r[2] \in Keys
    BY DEF TrackTypeOK
  <2>2. m_devices[r[2]] # None
    BY <2>1 DEF HandledInv
  <2> DEFINE d == m_devices[r[2]]
  <2>3. d \in made /\ address[d].mac = r[2] /\ <<address[d].ip, address[d].mac>> \in Reports
    BY <2>1, <2>2 DEF DeviceInv
  <2>4. address[d].ip # host
    <3>1. r[2] <= at
      BY <1>1, <1>4, <2>1, <2>2 DEF IInv, TypeOK
    <3> QED
      BY <1>1, <1>4, <2>1, <2>2, <3>1 DEF FindInv
  <2> QED
    BY <1>4, <2>1, <2>3, <2>4 DEF Moved
<1>5. FindInv'
  BY <1>1, <1>2, <1>4 DEF FindInv, trackVars
<1>6. PingsReachStableHosts'
  BY <1>1, <1>2 DEF PingsReachStableHosts
<1>7. RequestsReachTheirHost'
  BY <1>1 DEF RequestsReachTheirHost, FindInv
<1> QED
  BY <1>2, <1>3, <1>5, <1>6, <1>7

(* A device of the host has the MAC address that it was made with, which has   *)
(* answered for the host.                                                      *)
LEMMA DiscoverStep ==
    ASSUME LookupInv, IInv', Discover
    PROVE  LookupInv'
<1> USE ConstantFacts DEF LookupInv
<1>1. /\ lpc = "found" /\ lpc' = "idle"
      /\ ping' = [ip |-> host, mac |-> IF found # None THEN address[found].mac ELSE Broadcast]
      /\ UNCHANGED <<vars, m_devices, callVars, trackVars, host, found, lastUsed, request, handled, known>>
      /\ UNCHANGED <<holder, at>>
  BY DEF Discover, allVars, vars
<1>2. CallInv' /\ DeviceInv' /\ NewDeviceInv' /\ HandledInv' /\ Reports' = Reports
  BY <1>1, CallbackKept
<1>3. TrackTypeOK'
  BY <1>1 DEF TrackTypeOK, trackVars
<1>4. FindInv'
  BY <1>1 DEF FindInv, trackVars
<1>5. PingsReachStableHosts'
  <2>1. CASE found = None
    BY <1>1, <1>2, <2>1 DEF PingsReachStableHosts, FindInv, Moved, TrackTypeOK
  <2>2. CASE found # None
    <3>1. <<host, address[found].mac>> \in Reports
      BY <2>2 DEF FindInv, DeviceInv
    <3> QED
      BY <1>1, <1>2, <2>2, <3>1 DEF PingsReachStableHosts
  <2> QED
    BY <2>1, <2>2
<1>6. RequestsReachTheirHost'
  BY <1>1 DEF RequestsReachTheirHost, FindInv
<1> QED
  BY <1>2, <1>3, <1>4, <1>5, <1>6

(* What SNMP++ is given for a target of version 1 or 2 *)
LEMMA CommunityRequest ==
    ASSUME NEW v \in {"V1", "V2"}, NEW h, NEW port \in Ports \cup {Unset}
    PROVE  LET target == ToTarget(WithPort(CommunityTarget(v, h), port))
           IN  /\ ~IsNull(CommunityTarget(v, h))
               /\ target.address = h /\ target.port = port /\ target.version = SnmpVersion[v]
<1> DEFINE t == CommunityTarget(v, h)
<1> DEFINE p == [t EXCEPT !.port = port]
<1> DEFINE s == SnmpTarget(v, h)
<1>1. /\ DOMAIN s = {"ipAddress", "version", "timeout", "retries", "port"}
      /\ s.ipAddress = h /\ s.version = v /\ s.port = Unset
  BY DEF SnmpTarget
<1> DEFINE D == {"ipAddress", "version", "timeout", "retries", "port", "readCommunity", "writeCommunity"}
<1>2. t = [x \in D |-> t[x]] /\ t.ipAddress = h /\ t.version = v /\ t.port = Unset
  <2> HIDE DEF s
  <2>1. DOMAIN s \cup {"readCommunity", "writeCommunity"} = D
    BY <1>1
  <2>2. t = [x \in D |-> IF x \in DOMAIN s THEN s[x] ELSE "public"]
    BY <2>1 DEF CommunityTarget, s
  <2> HIDE DEF t
  <2> QED
    BY <1>1, <2>2
<1> HIDE DEF t
<1>3. p.ipAddress = h /\ p.version = v /\ p.port = port
  BY <1>2
<1>4. ~IsNull(t)
  BY <1>2 DEF IsNull
<1> QED
  BY <1>2, <1>3, <1>4 DEF ToTarget, WithPort, SetPort, t

LEMMA CreateTargetStep ==
    ASSUME LookupInv, IInv', NEW port \in Ports \cup {Unset}, CreateTarget(port)
    PROVE  LookupInv'
<1> USE ConstantFacts DEF LookupInv
<1> DEFINE target == IF found # None THEN TargetOfDevice(address[found].ip, lastUsed[found])
                                     ELSE TargetOfStranger(host)
<1>1. /\ lpc = "found" /\ request = None
      /\ IF IsNull(target) THEN lpc' = "crashed" /\ request' = request
                           ELSE lpc' = "idle" /\ Request(target, port)
      /\ UNCHANGED <<vars, m_devices, callVars, trackVars, host, found, lastUsed, ping, handled, known>>
      /\ UNCHANGED <<holder, at>>
  BY DEF CreateTarget, allVars, vars, FindInv
<1>2. CallInv' /\ DeviceInv' /\ NewDeviceInv' /\ HandledInv' /\ Reports' = Reports
  BY <1>1, CallbackKept
<1>3. TrackTypeOK'
  BY <1>1 DEF TrackTypeOK, trackVars
<1>4. FindInv'
  BY <1>1 DEF FindInv, trackVars
<1>5. PingsReachStableHosts'
  BY <1>1, <1>2 DEF PingsReachStableHosts
<1>6. RequestsReachTheirHost'
  <2>1. CASE found # None /\ lastUsed[found] = "V3"
    <3>1. IsNull(target)
      BY <2>1 DEF TargetOfDevice, CreateTargetV3, IsNull
    <3> QED
      BY <1>1, <2>1, <3>1 DEF RequestsReachTheirHost
  <2>2. CASE ~(found # None /\ lastUsed[found] = "V3")
    <3>1. PICK v \in {"V1", "V2"} :
            /\ target = CommunityTarget(v, host)
            /\ found # None /\ lastUsed[found] \in {"V1", "V2"} => v = lastUsed[found]
      BY <2>2 DEF FindInv, TargetOfDevice, TargetOfStranger, CreateTargetV1, CreateTargetV2,
                  CreateV1, CreateV2
    <3> HIDE DEF target
    <3>2. lpc' = "idle" /\ Request(target, port)
      BY <1>1, <3>1, CommunityRequest
    <3> QED
      BY <1>1, <3>1, <3>2, CommunityRequest DEF RequestsReachTheirHost, Request
  <2> QED
    BY <2>1, <2>2
<1> QED
  BY <1>2, <1>3, <1>4, <1>5, <1>6

LEMMA RequestSystemStep ==
    ASSUME LookupInv, IInv', NEW h \in Hosts, NEW port \in Ports \cup {Unset}, RequestSystem(h, port)
    PROVE  LookupInv'
<1> USE ConstantFacts DEF LookupInv
<1>1. /\ lpc = "idle" /\ host' = h /\ found' = None /\ Request(CreateV2(h), port) /\ ping' = None
      /\ UNCHANGED <<vars, m_devices, callVars, trackVars, lpc, lastUsed, handled, known>>
      /\ UNCHANGED <<holder, at>>
  BY DEF RequestSystem, allVars, vars
<1>2. CallInv' /\ DeviceInv' /\ NewDeviceInv' /\ HandledInv'
  BY <1>1, CallbackKept
<1>3. TrackTypeOK'
  BY <1>1 DEF TrackTypeOK, trackVars
<1>4. FindInv'
  BY <1>1 DEF FindInv, trackVars
<1>5. PingsReachStableHosts'
  BY <1>1 DEF PingsReachStableHosts
<1>6. RequestsReachTheirHost'
  BY <1>1, CommunityRequest DEF RequestsReachTheirHost, Request, CreateV2
<1> QED
  BY <1>2, <1>3, <1>4, <1>5, <1>6

LEMMA SetVersionStep ==
    ASSUME LookupInv, IInv', NEW v \in Versions, SetLastUsedSnmpVersion(v)
    PROVE  LookupInv'
<1> USE ConstantFacts DEF LookupInv
<1>1. /\ lpc = "found" /\ found # None /\ lastUsed' = [lastUsed EXCEPT ![found] = v]
      /\ UNCHANGED <<vars, m_devices, callVars, trackVars, lpc, host, found, ping, request, handled, known>>
      /\ UNCHANGED <<holder, at>>
  BY DEF SetLastUsedSnmpVersion, allVars, vars
<1>2. CallInv' /\ DeviceInv' /\ NewDeviceInv' /\ HandledInv' /\ Reports' = Reports /\ Moved' = Moved
  BY <1>1, CallbackKept
<1>3. TrackTypeOK'
  BY <1>1 DEF TrackTypeOK, trackVars
<1>4. FindInv'
  BY <1>1, <1>2 DEF FindInv, trackVars
<1>5. PingsReachStableHosts'
  BY <1>1, <1>2 DEF PingsReachStableHosts
<1>6. RequestsReachTheirHost'
  BY <1>1 DEF RequestsReachTheirHost, FindInv
<1> QED
  BY <1>2, <1>3, <1>4, <1>5, <1>6
-----------------------------------------------------------------------------
LEMMA NextLookupInv == LookupInv /\ [LookupNext]_everyVar => LookupInv'
<1> SUFFICES ASSUME LookupInv, [LookupNext]_everyVar PROVE LookupInv'
  OBVIOUS
<1>1. IInv'
  BY StepIsRepository, NextIInv DEF LookupInv
<1>2. CASE UNCHANGED everyVar
  <2>1. /\ UNCHANGED <<m_devices, callVars, trackVars, handled>>
        /\ UNCHANGED <<holder, at, lpc, host, found, lastUsed, ping, request, known>>
    BY <1>2 DEF everyVar, allVars, vars, lookupVars
  <2>2. CallInv' /\ DeviceInv' /\ NewDeviceInv' /\ HandledInv' /\ Reports' = Reports /\ Moved' = Moved
    BY <2>1, CallbackKept
  <2>3. TrackTypeOK'
    BY <2>1 DEF LookupInv, TrackTypeOK, trackVars
  <2>4. FindInv'
    BY <2>1, <2>2 DEF LookupInv, FindInv, trackVars
  <2>5. PingsReachStableHosts' /\ RequestsReachTheirHost'
    BY <2>1, <2>2 DEF LookupInv, PingsReachStableHosts, RequestsReachTheirHost
  <2> QED
    BY <1>1, <2>2, <2>3, <2>4, <2>5 DEF LookupInv
<1>3. CASE Track
  BY <1>1, <1>3, CalledStep, FoundStep, MakeStep, PublishStep, CreatedStep, OperationStep
     DEF Track, TrackingNext, Callback
<1>4. CASE Lookup
  BY <1>1, <1>4, FindBeginStep, FindNextStep, FindEndStep, DiscoverStep, CreateTargetStep,
     RequestSystemStep, SetVersionStep DEF Lookup
<1> QED
  BY <1>2, <1>3, <1>4 DEF LookupNext

(* The callback and the main thread, with what each makes of the repository,   *)
(* hold the invariant.                                                         *)
LEMMA LookupInvariance == LookupSpec => []LookupInv
BY InitLookupInv, NextLookupInv, PTL DEF LookupSpec

(* Between two results every address heard of has a device with the response   *)
(* time of the latest: for any number of hosts that answer with any of the     *)
(* addresses, while the main thread searches at any time.                      *)
THEOREM LatestKept == LookupSpec => []LatestResultKept
<1>1. LookupInv => LatestResultKept
  BY DEF LookupInv, HandledInv, LatestResultKept
<1> QED
  BY <1>1, LookupInvariance, PTL

(* A ping goes to a MAC address that has answered for its host or to everyone, *)
(* and to the host's own once the result of a host that keeps its addresses    *)
(* was handled.                                                                *)
THEOREM PingsReach == LookupSpec => []PingsReachStableHosts
<1>1. LookupInv => PingsReachStableHosts
  BY DEF LookupInv
<1> QED
  BY <1>1, LookupInvariance, PTL

(* An SNMP request goes to the host, port and version it was made for, and     *)
(* only a device last used with version 3 yields a null target.                *)
THEOREM RequestsReach == LookupSpec => []RequestsReachTheirHost
<1>1. LookupInv => RequestsReachTheirHost
  BY DEF LookupInv
<1> QED
  BY <1>1, LookupInvariance, PTL
-----------------------------------------------------------------------------
(* What the application makes of the repository *)

(* The callback and the main thread use the repository as its specification    *)
(* allows: each of their steps is one of the repository, or leaves it alone.   *)
THEOREM UsesRepository == LookupSpec => Spec
<1>1. LookupInit => Init
  BY DEF LookupInit, TrackingInit
<1>2. LookupInv /\ [LookupNext]_everyVar => [Next]_vars
  BY StepIsRepository DEF LookupInv
<1> QED
  BY <1>1, <1>2, LookupInvariance, PTL DEF LookupSpec, Spec

LEMMA OneWriter == \A c, d \in Writers : c = d
BY RunnerAssumption

(* In the application the two locks of a write make no difference: as the      *)
(* callback is the only writer, the repository's operations are atomic.        *)
THEOREM ApplicationRefines == LookupSpec => ImplementsRepository
BY UsesRepository, OneWriter, Refinement, PTL

(* ... so that none of them throws, and no create of the callback is in vain.  *)
THEOREM ApplicationIsSafe == LookupSpec => []NothingGoesWrong
BY UsesRepository, OneWriter, OneWriterIsSafe, PTL

(* A device that was stored stays, so one that find returned is still the      *)
(* repository's whenever the main thread comes to use it.                      *)
DevicesStay == \A k \in Keys : m_devices[k] # None => m_devices'[k] = m_devices[k]
FoundIsStored == found # None => found \in InMap

THEOREM StoredDevicesStay == LookupSpec => [][DevicesStay]_vars
<1> DEFINE Asked == \A k \in Keys : m_devices[k] # None /\ m_devices'[k] # m_devices[k] =>
                       \E c \in Clients : op[c] \in {"update", "remove"} /\ pc[c] = "act" /\ Key(c) = k
<1>1. LookupInv => \A c \in Clients : op[c] \notin {"update", "remove"}
  BY MainAssumption DEF LookupInv, CallInv, TrackTypeOK
<1>2. LookupInv /\ [Asked]_vars => [DevicesStay]_vars
  BY <1>1 DEF DevicesStay
<1>3. LookupSpec => [][Asked]_vars
  BY UsesRepository, CreatingKeeps, PTL DEF CreateNeverReplaces
<1> QED
  BY <1>2, <1>3, LookupInvariance, PTL

THEOREM FoundDevicesAreStored == LookupSpec => []FoundIsStored
<1>1. LookupInit => FoundIsStored
  BY DEF LookupInit, FoundIsStored
<1>2. LookupInv /\ FoundIsStored /\ [DevicesStay]_vars /\ [LookupNext]_everyVar => FoundIsStored'
  <2> SUFFICES ASSUME LookupInv, FoundIsStored, [DevicesStay]_vars, [LookupNext]_everyVar
               PROVE  FoundIsStored'
    OBVIOUS
  <2>1. InMap \subseteq InMap'
    BY DEF DevicesStay, InMap, vars
  <2>2. CASE found' = found
    BY <2>1, <2>2 DEF FoundIsStored
  <2>3. CASE FindNext
    <3>1. at' \in Keys /\ m_devices' = m_devices /\ found' \in {m_devices[at'], None}
      BY <2>3 DEF FindNext, IterateNext
    <3> QED
      BY <3>1 DEF FoundIsStored, InMap
  <2>4. CASE \E h \in Hosts : FindBegin(h) \/ \E port \in Ports \cup {Unset} : RequestSystem(h, port)
    BY <2>4 DEF FindBegin, RequestSystem, FoundIsStored
  <2> QED
    BY <2>2, <2>3, <2>4 DEF LookupNext, Lookup, Track, FindEnd, Discover, CreateTarget,
       SetLastUsedSnmpVersion, everyVar, lookupVars
<1> QED
  BY <1>1, <1>2, StoredDevicesStay, LookupInvariance, PTL DEF LookupSpec
=============================================================================
