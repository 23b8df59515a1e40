----------------------------- MODULE MCSnmpClient -----------------------------
(* TLC instances of SnmpClient. *)
EXTENDS SnmpClient

=============================================================================
