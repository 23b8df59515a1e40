---------------------------- MODULE MCIcmpScanner ----------------------------
(* TLC instances of IcmpScanner. *)
EXTENDS IcmpScanner

MCPacket == 1 .. NumHosts \cup {None}
=============================================================================
