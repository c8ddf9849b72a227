---------------------------- MODULE MCRbootApi -----------------------------
(* RbootApi for TLC: the constants are given in the configurations.        *)
EXTENDS RbootApi
============================================================================
