--------------------------- MODULE MCDeviceDiscovery ---------------------------
(* TLC instances of DeviceDiscovery. *)
EXTENDS DeviceDiscovery

MCTask == Pollers \cup Resolvers
=============================================================================
