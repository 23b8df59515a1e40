---------------------------- MODULE MCDeviceLookup ----------------------------
(* TLC instances of DeviceLookup. *)
EXTENDS DeviceLookup, TLC

CONSTANTS runner, main, h1, h2, d1, d2, t1, t2

(* The hosts, the devices and the times are interchangeable. *)
Symmetry == Permutations({h1, h2}) \cup Permutations({d1, d2}) \cup Permutations({t1, t2})
=============================================================================
