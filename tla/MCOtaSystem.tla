---------------------------- MODULE MCOtaSystem ----------------------------
(* OtaSystem for TLC: the constants are given in the configurations.       *)
EXTENDS OtaSystem
============================================================================
