------------------------------ MODULE Settlement ------------------------------
(***************************************************************************)
(* What becomes of the swaps an agent hands to the chain.  An agent        *)
(* numbers its swaps and has one of them with the chain at a time, which   *)
(* puts it on chain, once, or forgets it for good.  A swap is announced    *)
(* when it is on chain, and only while it is the agent's latest: once it   *)
(* has sent or simulated another, no earlier one is announced any more.    *)
(***************************************************************************)
EXTENDS Naturals

CONSTANT Agents

VARIABLES
  issued,    \* issued[a]: how many swaps a has numbered
  pending,   \* swaps <<a, n>> that the chain has not decided
  settled,   \* swaps on chain
  announced  \* swaps announced to peers

vars == <<issued, pending, settled, announced>>

Init ==
  /\ issued = [a \in Agents |-> 0]
  /\ pending = {} /\ settled = {} /\ announced = {}

Outstanding(a) == {s \in pending : s[1] = a}
Latest(a)      == <<a, issued[a]>>

(* A simulated swap takes a number and goes nowhere.                       *)
Simulate(a) ==
  /\ issued' = [issued EXCEPT ![a] = @ + 1]
  /\ UNCHANGED <<pending, settled, announced>>

Send(a) ==
  /\ Outstanding(a) = {}
  /\ issued' = [issued EXCEPT ![a] = @ + 1]
  /\ pending' = pending \cup {Latest(a)'}
  /\ UNCHANGED <<settled, announced>>

Settle(s) ==
  /\ pending' = pending \ {s}
  /\ settled' = settled \cup {s}
  /\ UNCHANGED <<issued, announced>>

Forget(s) ==
  /\ pending' = pending \ {s}
  /\ UNCHANGED <<issued, settled, announced>>

Announce(a) ==
  /\ Latest(a) \in settled
  /\ announced' = announced \cup {Latest(a)}
  /\ UNCHANGED <<issued, pending, settled>>

Next ==
  \/ \E a \in Agents : Simulate(a) \/ Send(a) \/ Announce(a)
  \/ \E s \in pending : Settle(s) \/ Forget(s)

Spec == Init /\ [][Next]_vars
===============================================================================
