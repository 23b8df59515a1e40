-------------------------- MODULE MCDeviceRepository --------------------------
(* TLC instances of DeviceRepository. *)
EXTENDS DeviceRepository, TLC

CONSTANTS c1, c2, c3, d1, d2

(* The two writers, and the devices, are interchangeable. *)
Symmetry == Permutations({c1, c2}) \cup Permutations({d1, d2})
=============================================================================
