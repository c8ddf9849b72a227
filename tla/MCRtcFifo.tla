----------------------------- MODULE MCRtcFifo -----------------------------
(* RtcFifo for TLC: the default storage is slots 2 to 5, another one takes  *)
(* in a slot more at either end.  Fields are one bit wide, clocks two.      *)
EXTENDS RtcFifo

MCStorages == {<<1, 5>>}
MCSlots == 1 .. 4
============================================================================
