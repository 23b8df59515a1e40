----------------------------- MODULE DeviceLookup -----------------------------
(* What the main thread looks up in the repository by IP address while the     *)
(* callback of DeviceTracking adds devices to it: the MAC address that a ping  *)
(* of MyIcmpDeviceDiscoveryTask is sent to, and the target for SNMP requests   *)
(* of SnmpTargetFactory.                                                       *)
EXTENDS DeviceTracking, SnmpTarget

CONSTANTS
    Main,       \* the main thread
    Ports,      \* port numbers
    Versions,   \* bound: the versions that a device may be set to
    Broadcast   \* MacAddress::broadcast()

ASSUME MainAssumption == Clients = {Main, Runner} /\ Main # Runner
ASSUME BroadcastAssumption == Broadcast \notin Keys
ASSUME UnsetAssumption == Unset \notin Ports
ASSUME VersionsAssumption == Versions \subseteq DOMAIN SnmpVersion

VARIABLES
    lpc,        \* "idle", "finding", "found", or "crashed" by a null target
    host,       \* the host that is looked up
    found,      \* its device, or None
    lastUsed,   \* m_lastUsedSnmpVersion of each device, or Unset
    ping,       \* the latest ping, or None
    request,    \* the latest SNMP request, or None
    handled,    \* the <<IP, MAC>> of every result the callback has handled
    known       \* `handled` when the lookup began

lookupVars == <<lpc, host, found, lastUsed, ping, request, handled, known>>
everyVar == <<allVars, lookupVars>>

LookupInit ==
    /\ TrackingInit
    /\ lpc = "idle" /\ host = None /\ found = None
    /\ lastUsed = [d \in Items |-> Unset]
    /\ ping = None /\ request = None /\ handled = {} /\ known = {}
-----------------------------------------------------------------------------
(* DeviceRepository::find(h), an iteration *)

FindBegin(h) ==
    /\ lpc = "idle"
    /\ IterateBegin(Main)
    /\ lpc' = "finding" /\ host' = h /\ found' = None
    /\ ping' = None /\ request' = None /\ known' = handled
    /\ UNCHANGED <<trackVars, lastUsed, handled>>

(* Mutant: the first device will do. *)
MatchesAll(d, h) == TRUE

(* find's predicate: device.ipAddress() == ip *)
Matches(d, h) == address[d].ip = h

FindNext ==
    /\ lpc = "finding" /\ found = None
    /\ IterateNext(Main)
    /\ found' = LET d == m_devices[at'] IN IF Matches(d, host) THEN d ELSE None
    /\ UNCHANGED <<trackVars, lpc, host, lastUsed, ping, request, handled, known>>

(* A device matches, or there is no other. *)
FindEnd ==
    /\ lpc = "finding"
    /\ found # None \/ \A k \in Keys : k > at => m_devices[k] = None
    /\ IterateEnd(Main)
    /\ lpc' = "found"
    /\ UNCHANGED <<trackVars, host, found, lastUsed, ping, request, handled, known>>
-----------------------------------------------------------------------------
(* What find was called for *)

(* MyIcmpDeviceDiscoveryTask::discover: the frame that pingAsync sends *)
Discover ==
    /\ lpc = "found"
    /\ ping' = [ip |-> host, mac |-> IF found # None THEN address[found].mac ELSE Broadcast]
    /\ lpc' = "idle"
    /\ UNCHANGED <<allVars, host, found, lastUsed, request, handled, known>>

(* The client is asked to request from `target`, with `port` set if given; what *)
(* it does then is module SnmpClient.                                          *)
Request(target, port) == request' = [target |-> ToTarget(WithPort(target, port)), port |-> port]

(* createTarget(host) and createTarget(host, port), and a request with what it *)
(* returns: nullptr is used by setPort and by whoever makes the request.       *)
CreateTarget(port) ==
    LET target == IF found # None THEN TargetOfDevice(address[found].ip, lastUsed[found])
                                  ELSE TargetOfStranger(host) IN
    /\ lpc = "found"
    /\ IF IsNull(target)
       THEN lpc' = "crashed" /\ UNCHANGED request
       ELSE lpc' = "idle" /\ Request(target, port)
    /\ UNCHANGED <<allVars, host, found, lastUsed, ping, handled, known>>

(* SnmpService::requestSystem(h, port), which looks nothing up *)
RequestSystem(h, port) ==
    /\ lpc = "idle"
    /\ host' = h /\ found' = None
    /\ Request(CreateV2(h), port) /\ ping' = None
    /\ UNCHANGED <<allVars, lpc, lastUsed, handled, known>>

(* Device::setLastUsedSnmpVersion, of the device that was found *)
SetLastUsedSnmpVersion(v) ==
    /\ lpc = "found" /\ found # None
    /\ lastUsed' = [lastUsed EXCEPT ![found] = v]
    /\ UNCHANGED <<allVars, lpc, host, found, ping, request, handled, known>>

Lookup ==
    \/ \E h \in Hosts : FindBegin(h)
    \/ FindNext \/ FindEnd \/ Discover
    \/ \E port \in Ports \cup {Unset} : CreateTarget(port)
    \/ \E h \in Hosts, port \in Ports \cup {Unset} : RequestSystem(h, port)
    \/ \E v \in Versions : SetLastUsedSnmpVersion(v)

(* The callback *)
Track ==
    /\ TrackingNext
    /\ handled' = IF result # None /\ result' = None
                  THEN handled \cup {<<result.ip, result.mac>>} ELSE handled
    /\ UNCHANGED <<lpc, host, found, lastUsed, ping, request, known>>

LookupNext == lpc # "crashed" /\ (Lookup \/ Track)

LookupSpec == LookupInit /\ [][LookupNext]_everyVar
-----------------------------------------------------------------------------
(* Properties *)

(* What answered, whether or not the callback has handled it *)
Reports == handled \cup (IF result = None THEN {} ELSE {<<result.ip, result.mac>>})

(* Nobody else's frames: a ping goes to everyone, or to a MAC address that has *)
(* answered for its host.  If the host has only ever answered with one MAC     *)
(* address, and that MAC address only for this host, the ping goes there once  *)
(* such an answer was handled.  (A device keeps the IP address that it was     *)
(* first seen with, so hosts that moved are not found, or found where they no  *)
(* longer are.)                                                                *)
PingsReachStableHosts ==
    ping # None =>
        /\ ping.mac # Broadcast => <<ping.ip, ping.mac>> \in Reports
        /\ \A r \in known :
            /\ r[1] = ping.ip
            /\ \A q \in Reports : q[1] = r[1] <=> q[2] = r[2]
            => ping.mac = r[2]

(* Every request goes to the host it was meant for, at the port asked for, and *)
(* in the version last used there if that is 1 or 2; only for a device last    *)
(* used with version 3 does the caller of createTarget use a null target.      *)
RequestsReachTheirHost ==
    /\ request # None =>
        /\ request.target.address = host /\ request.target.port = request.port
        /\ found # None /\ lastUsed[found] \in {"V1", "V2"} =>
            request.target.version = SnmpVersion[lastUsed[found]]
    /\ lpc = "crashed" => lastUsed[found] = "V3"
=============================================================================
