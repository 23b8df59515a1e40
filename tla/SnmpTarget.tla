------------------------------ MODULE SnmpTarget ------------------------------
(* net/snmp/SnmpTarget.h, and the factory of src/app/SnmpTargetFactory.h: whom *)
(* an SnmpClient asks, how, and what SNMP++ makes of it.                       *)
EXTENDS Naturals

CONSTANT Unset  \* std::nullopt: no port, no version

(* enum class SnmpVersion, and what the client casts it to *)
SnmpVersion == [V1 |-> 0, V2 |-> 1, UnusedV2 |-> 2, V3 |-> 3]

SnmpTarget(version, host) ==
    [ipAddress |-> host, version |-> version, timeout |-> 5000, retries |-> 0, port |-> Unset]

CommunityTarget(version, host) ==
    LET base == SnmpTarget(version, host) IN
    [field \in DOMAIN base \cup {"readCommunity", "writeCommunity"} |->
        IF field \in DOMAIN base THEN base[field] ELSE "public"]

CreateV1(host) == CommunityTarget("V1", host)
CreateV2(host) == CommunityTarget("V2", host)

(* Mutant: the port is the host's own business. *)
IgnorePort(target, port) == target

SetPort(target, port) == [target EXCEPT !.port = port]

(* CommunityTarget::toTarget; SNMP++ counts a timeout in hundredths of a       *)
(* second, and has a port of its own for an address without one.               *)
ToTarget(target) ==
    [address |-> target.ipAddress,
     port    |-> target.port,
     read    |-> target.readCommunity, write |-> target.writeCommunity,
     retry   |-> target.retries,
     timeout |-> target.timeout \div 10,
     version |-> SnmpVersion[target.version]]

-----------------------------------------------------------------------------
(* SnmpTargetFactory *)

CreateTargetV1(host) == CreateV1(host)
CreateTargetV2(host) == CreateV2(host)
CreateTargetV3(host) == [nullptr |-> TRUE]

IsNull(target) == "nullptr" \in DOMAIN target

(* createTarget for a device with the address `host`, whose                    *)
(* lastUsedSnmpVersion() is `version`                                          *)
TargetOfDevice(host, version) ==
    CASE version = "V1" -> CreateTargetV1(host)
      [] version = "V3" -> CreateTargetV3(host)
      [] OTHER          -> CreateTargetV2(host)

(* ... and for a host of which the repository has no device *)
TargetOfStranger(host) == CreateV2(host)

(* createTarget(host, port) and SnmpService::requestSystem: the port, if given *)
WithPort(target, port) == IF port = Unset THEN target ELSE SetPort(target, port)
=============================================================================
