---------------------------- MODULE MCSwapExecution ----------------------------
(* Instances of SwapExecution for TLC. *)
EXTENDS SwapExecution

CONSTANTS a1, a2

SwapsOfFirst == [a \in Agents |-> IF a = a1 THEN 2 ELSE 0]
Outgoing     == {-300}
===============================================================================
