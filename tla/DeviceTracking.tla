---------------------------- MODULE DeviceTracking ----------------------------
(* The success callback of src/app/main.cpp, which the runner's thread calls   *)
(* with each result: it reads the device of the result's address and sets its  *)
(* response time, or creates one.  Module DeviceLookup adds the main thread.   *)
EXTENDS DeviceRepository

CONSTANTS
    Runner,         \* the thread that runs the callback
    Hosts,          \* the IP addresses that answer
    Times,          \* response times
    Uninitialised   \* what a new Device has as its response time

ASSUME RunnerAssumption == Runner \in Clients /\ Writers = {Runner}
ASSUME TimesAssumption == Uninitialised \notin Times
ASSUME ResultAssumption == None \notin [ip : Hosts, mac : Keys, time : Times]

VARIABLES
    tpc,            \* where the callback is
    result,         \* the result it is called with
    made,           \* the devices made so far
    address,        \* m_ipAddress and m_macAddress of each device, or None
    responseTime,   \* m_responseTime of each device
    latest          \* the response time of each address's latest result, or None

trackVars == <<tpc, result, made, address, responseTime, latest>>
allVars == <<vars, trackVars>>

TrackingInit ==
    /\ Init
    /\ tpc = "idle" /\ result = None
    /\ made = {} /\ address = [d \in Items |-> None]
    /\ responseTime = [d \in Items |-> Uninitialised]
    /\ latest = [k \in Keys |-> None]

Finish ==
    /\ tpc' = "idle" /\ result' = None
    /\ latest' = [latest EXCEPT ![result.mac] = result.time]

(* A result with a MAC address: deviceRepo->read(result.dstMac) *)
Called(h, k, t) ==
    /\ tpc = "idle"
    /\ Call(Runner, "read", [key |-> k, item |-> None])
    /\ tpc' = "reading" /\ result' = [ip |-> h, mac |-> k, time |-> t]
    /\ UNCHANGED <<made, address, responseTime, latest>>

SetTime(d) == [responseTime EXCEPT ![d] = result.time]

(* Mutant: a known device keeps its response time. *)
FoundKeepsTime ==
    /\ tpc = "reading" /\ answer[Runner] \in Items
    /\ Return(Runner)
    /\ Finish /\ UNCHANGED <<made, address, responseTime>>

Found ==
    /\ tpc = "reading" /\ answer[Runner] \in Items
    /\ Return(Runner)
    /\ responseTime' = SetTime(answer[Runner])
    /\ Finish /\ UNCHANGED <<made, address>>

(* make_shared<Device>, an item not used before, and its setResponseTime *)
Make(d) ==
    /\ tpc = "reading" /\ answer[Runner] = "notFound"
    /\ Return(Runner)
    /\ made' = made \cup {d}
    /\ address' = [address EXCEPT ![d] = [ip |-> result.ip, mac |-> result.mac]]
    /\ responseTime' = SetTime(d)
    /\ tpc' = "made" /\ UNCHANGED <<result, latest>>

(* deviceRepo->create(result.dstMac, device) with the device d *)
Publish(d) ==
    /\ tpc = "made"
    /\ Call(Runner, "create", [key |-> result.mac, item |-> d])
    /\ tpc' = "creating"
    /\ UNCHANGED <<result, made, address, responseTime, latest>>

Created ==
    /\ tpc = "creating" /\ answer[Runner] # None
    /\ Return(Runner)
    /\ Finish /\ UNCHANGED <<made, address, responseTime>>

InMap == {m_devices[k] : k \in Keys} \ {None}

Callback ==
    \/ \E h \in Hosts, k \in Keys, t \in Times : Called(h, k, t)
    \/ Found \/ Created
    \/ \E d \in Items \ made : Make(d)
    \/ \E d \in made \ InMap : Publish(d)

(* The steps of the repository's operations that the callback has called *)
Operation == (Write(Runner) \/ Read(Runner)) /\ UNCHANGED trackVars

TrackingNext == Callback \/ Operation
-----------------------------------------------------------------------------
(* Properties *)

(* Between two results every address heard of has a device, and it has the     *)
(* response time of the latest result: no result is lost by create's failing.  *)
LatestResultKept ==
    tpc = "idle" => \A k \in Keys : latest[k] # None =>
        m_devices[k] # None /\ responseTime[m_devices[k]] = latest[k]
=============================================================================
