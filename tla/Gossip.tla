-------------------------------- MODULE Gossip --------------------------------
(***************************************************************************)
(* The gossipsub network as the agents use it (agent/src/network.rs and    *)
(* publish_message of main.rs).  Message ids are a hash of the content, so *)
(* publishing the same content again is publishing nothing, and an agent   *)
(* handles each message at most once and never its own.  A message may be  *)
(* delayed, overtaken, or never arrive.                                    *)
(***************************************************************************)
CONSTANTS
  Agents,   \* the peers of the swap topic
  Carried   \* message kinds the network delivers; all others are lost

VARIABLES
  msgs,     \* every message the network ever took
  rcvd      \* rcvd[a]: messages a has handled

DeliverableAgain(a, kind) ==
  {m \in msgs : m.kind = kind /\ m.from # a}

(* What the network may hand to a next.                                    *)
Deliverable(a, kind) ==
  {m \in msgs \ rcvd[a] : m.kind = kind /\ m.from # a}

Handled(a, m) == rcvd' = [rcvd EXCEPT ![a] = @ \cup {m}]

(* A failed publish and a message that reaches nobody are both lost, and   *)
(* the sender does not notice.                                             *)
Publish(ms) == msgs' = msgs \cup {m \in ms : m.kind \in Carried}
===============================================================================
