---------------------------- MODULE MCCoordination ----------------------------
(* Instances of Coordination for TLC: who has met whom before the start.   *)
EXTENDS Coordination, TLC

Everyone == Agents \X Agents
Nobody   == {}

(* Every agent but the proposers may be renamed.                           *)
Symmetry == Permutations(Agents \ Proposers)
===============================================================================
