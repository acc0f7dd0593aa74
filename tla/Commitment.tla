------------------------------ MODULE Commitment ------------------------------
(***************************************************************************)
(* What coordination promises, whatever the network does.  For each        *)
(* proposal an agent is open to it until it commits (accepts) or the       *)
(* proposal is closed to it; a commitment ends, in a swap or without one,  *)
(* and is never renewed; an agent is committed to one proposal at a time.  *)
(* Anyone may believe that an agent swapped for a proposal only if it did, *)
(* and may forget it.                                                      *)
(***************************************************************************)
CONSTANTS Agents, Ids

VARIABLES
  stage,   \* stage[a][i]: where a stands with proposal i
  credit   \* <<o, a, i>>: o believes that a swapped for i

Stages == {"open", "committed", "executed", "closed"}

TypeOK == /\ stage \in [Agents -> [Ids -> Stages]]
          /\ credit \subseteq Agents \X Agents \X Ids

Init == /\ stage = [a \in Agents |-> [i \in Ids |-> "open"]]
        /\ credit = {}

Free(a) == \A i \in Ids : stage[a][i] # "committed"

Move(a, i, from, to) ==
  /\ stage[a][i] = from
  /\ stage' = [stage EXCEPT ![a][i] = to]

Commit(a, i)  == Free(a) /\ Move(a, i, "open", "committed")
Perform(a, i) == Move(a, i, "committed", "executed")
Abandon(a, i) == Move(a, i, "committed", "closed")

(* One event may close any number of proposals to an agent.                *)
Close(a) ==
  \E S \in SUBSET {i \in Ids : stage[a][i] = "open"} :
    stage' = [stage EXCEPT ![a] =
                [i \in Ids |-> IF i \in S THEN "closed" ELSE stage[a][i]]]

CreditDeserved == \A c \in credit : stage[c[2]][c[3]] = "executed"

Next == /\ \E a \in Agents :
             Close(a) \/ \E i \in Ids : Commit(a, i) \/ Perform(a, i) \/ Abandon(a, i)
        /\ CreditDeserved'

vars == <<stage, credit>>

Spec == Init /\ [][Next]_vars

(* Every commitment ends.                                                  *)
CommitmentsEnd ==
  \A a \in Agents, i \in Ids : stage[a][i] = "committed" ~> stage[a][i] # "committed"

FairSpec == Spec /\ CommitmentsEnd
===============================================================================
