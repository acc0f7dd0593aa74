------------------------------- MODULE MCQuotes -------------------------------
(* Instances of Quotes for TLC: clocks in step, or the last agent ahead.   *)
EXTENDS Quotes

CONSTANT Ahead   \* the agents whose clock is MaxSkew ahead
InStep == [a \in Agents |-> IF a \in Ahead THEN MaxSkew ELSE 0]
===============================================================================
