---------------------------- MODULE MCCompMsgOta ---------------------------
(* CompMsgOta for TLC: the constants are given in the configurations.  Two *)
(* structs and three attempts let a callback of the first attempt meet the *)
(* second one, and a third reuse the first one's memory.                   *)
EXTENDS CompMsgOta
============================================================================
