------------------------------ MODULE MCSequence ------------------------------
(* TLC instance of Sequence. *)
EXTENDS Sequence

(* All values, but of MAC addresses those next to a change of the top bytes *)
MCBounds(t) ==
    CASE t = "ip"    -> IP!Address
      [] t = "mac"   -> {Mac!ParseNumber(n) : n \in {0, 1, 31, 62, 63}}
      [] t = "part"  -> MinValue .. MaxValue
      [] t = "whole" -> TypeMin .. TypeMax
=============================================================================
