--------------------------- MODULE UpdateSession ---------------------------
(***************************************************************************)
(* What an update session promises to the one who started it, without the  *)
(* connection, the timer and the flag that src/app/compMsg/compMsgOta.c    *)
(* needs for it: sessions come one after the other, the result of each is  *)
(* told at most once and while it is the current one, and a success means  *)
(* that the whole file was received.                                       *)
(***************************************************************************)
EXTENDS Naturals

VARIABLES
  session,  \* the number of the current session, 0 if there is none
  told      \* the last result: its session, whether it succeeded, and
            \* whether the file was complete

vars == <<session, told>>

Init ==
  /\ session = 0
  /\ told = [att |-> 0, result |-> FALSE, complete |-> FALSE]

\* A new session; one that could not be started is forgotten.
Begin ==
  /\ session' \in Nat
  /\ session' > session
  /\ session' > told.att
  /\ UNCHANGED told

\* The session ends and its result is told.
End ==
  /\ session # 0
  /\ session' = 0
  /\ \E ok, all \in BOOLEAN :
       /\ ok => all
       /\ told' = [att |-> session, result |-> ok, complete |-> all]

\* The session is gone without a word: out of memory, or a reset.
Lose ==
  /\ session # 0
  /\ session' = 0
  /\ UNCHANGED told

Next == Begin \/ End \/ Lose

Spec == Init /\ [][Next]_vars
============================================================================
