--------------------------- MODULE CommitmentProofs ---------------------------
(***************************************************************************)
(* Coordination implements Commitment: whatever the network does, an       *)
(* acceptance is a commitment that is kept or dropped, one at a time, and  *)
(* never renewed, and credit goes to those who swapped.                    *)
(***************************************************************************)
EXTENDS CoordinationProofs

-----------------------------------------------------------------------------
(* What a step does to the variables the refinement reads.                 *)

(* Only a's book, pending swap and transactions may have changed.          *)
Acts(a) ==
  /\ \A b \in Agents \ {a} : pending'[b] = pending[b]
  /\ \A b \in Agents \ {a}, j \in Ids : book'[b][j] = book[b][j]
  /\ ledger \subseteq ledger' /\ \A t \in ledger' \ ledger : t.by = a

(* Books may change, commitments do not.                                   *)
Marks(a) == /\ Acts(a) /\ ledger' = ledger
            /\ \A i \in Ids : Committed(a, i)' <=> Committed(a, i)

(* A swap becomes pending by accept.                                       *)
Accepts(a, i) == /\ Acts(a) /\ ledger' = ledger
                 /\ Idle(a) /\ Knows(a, i) /\ Status(a, i) = Pending
                 /\ Committed(a, i)'
                 /\ \A j \in Ids \ {i} : book'[a][j] = book[a][j]

(* The pending swap is given up.                                           *)
Drops(a) == /\ Acts(a) /\ ledger' = ledger /\ book' = book
            /\ ~Idle(a) /\ Idle(a)'

(* The pending swap is made.                                               *)
Makes(a) == /\ Acts(a) /\ ~Idle(a) /\ Idle(a)'
            /\ \E t : ledger' = ledger \cup {t} /\ t.by = a /\ t.for = pending[a].id
            /\ \A j \in Ids : j # pending[a].id => book'[a][j] = book[a][j]

StepOf(a) == \/ Marks(a) \/ Drops(a) \/ Makes(a)
             \/ \E i \in Ids : Accepts(a, i)

LEMMA OneAgentActs ==
  ASSUME TypeOK, [Next]_vars
  PROVE  UNCHANGED <<book, pending, ledger>> \/ \E a \in Agents : StepOf(a)
<1> USE DEF StepOf
<1>1. ASSUME NEW a \in Agents, NEW t \in Terms, NEW r \in MinReps, Propose(a, t, r)
      PROVE  StepOf(a)
  <2>1. pending' = pending /\ ledger' = ledger
    BY <1>1 DEF Propose
  <2>2. \A b \in Agents \ {a} : book'[b] = book[b]
    BY <1>1 DEF Propose, TypeOK
  <2> QED
    BY <2>1, <2>2 DEF Marks, Acts, Committed, Idle
<1>2. ASSUME NEW a \in Agents, NEW i \in Ids, Accept(a, i)
      PROVE  StepOf(a)
  <2>1. /\ ledger' = ledger /\ Idle(a) /\ Knows(a, i) /\ Status(a, i) = Pending
        /\ book' = UpdateStatus(a, i, Accepted(a))
        /\ pending' = [pending EXCEPT
             ![a] = [id |-> i, terms |-> book[a][i].terms, minRep |-> 0]]
    BY <1>2 DEF Accept
  <2>2. \A b \in Agents, j \in Ids : b # a \/ j # i => book'[b][j] = book[b][j]
    BY <2>1, StatusTypes, UpdateStatusEffect
  <2>3. \A b \in Agents \ {a} : pending'[b] = pending[b]
    BY <2>1 DEF TypeOK
  <2>4. Committed(a, i)'
    <3>1. book[a][i] \in SwapProposal
      BY <2>1 DEF Knows, TypeOK
    <3>2. [id |-> i, terms |-> book[a][i].terms, minRep |-> 0] \in PendingSwap
      BY <3>1, BoundsAssumption DEF SwapProposal, PendingSwap
    <3>3. pending'[a] = [id |-> i, terms |-> book[a][i].terms, minRep |-> 0]
      BY <2>1 DEF TypeOK
    <3> QED
      BY <3>2, <3>3, NullsAssumption DEF Committed, Idle
  <2>5. Accepts(a, i)
    BY <2>1, <2>2, <2>3, <2>4 DEF Accepts, Acts
  <2> QED
    BY <2>5
<1>3. ASSUME NEW a \in Agents, NEW t \in Terms, NEW r \in MinReps, Defer(a, t, r)
      PROVE  StepOf(a)
  <2>1. /\ ledger' = ledger /\ book' = book /\ Idle(a)
        /\ pending' = [pending EXCEPT ![a] = [id |-> NoId, terms |-> t, minRep |-> r]]
    BY <1>3 DEF Defer
  <2>2. pending'[a].id = NoId
    BY <2>1 DEF TypeOK
  <2>3. \A b \in Agents \ {a} : pending'[b] = pending[b]
    BY <2>1 DEF TypeOK
  <2>4. \A i \in Ids : ~Committed(a, i) /\ ~Committed(a, i)'
    BY <2>1, <2>2, NullsAssumption DEF Committed
  <2> QED
    BY <2>1, <2>3, <2>4 DEF Marks, Acts
<1>4. ASSUME NEW a \in Agents, ListProposals(a) \/ Refresh(a)
      PROVE  StepOf(a)
  <2>1. pending' = pending /\ ledger' = ledger
    BY <1>4 DEF ListProposals, Refresh
  <2>2. \A b \in Agents \ {a} : book'[b] = book[b]
    BY <1>4 DEF ListProposals, Refresh, TypeOK
  <2> QED
    BY <2>1, <2>2 DEF Marks, Acts, Committed, Idle
<1>5. ASSUME NEW a \in Agents, Execute(a) \/ ExecuteUnreported(a)
      PROVE  StepOf(a)
  <2>1. ~Idle(a) /\ pending' = [pending EXCEPT ![a] = NoSwap]
    BY <1>5 DEF Execute, ExecuteUnreported
  <2>2. PICK i \in Ids \cup {NoId} : i = pending[a].id
    BY <2>1 DEF Idle, TypeOK, PendingSwap
  <2>3. PICK t : t = [by |-> a, nonce |-> nonce[a] + 1, for |-> i]
    OBVIOUS
  <2>4. ledger' = ledger \cup {t} /\ t.by = a /\ t.for = i
    BY <1>5, <2>2, <2>3 DEF Execute, ExecuteUnreported
  <2>5. Idle(a)' /\ \A b \in Agents \ {a} : pending'[b] = pending[b]
    BY <2>1 DEF Idle, TypeOK
  <2>6. \A b \in Agents, j \in Ids : b # a \/ j # i => book'[b][j] = book[b][j]
    <3>1. CASE book' = book
      BY <3>1
    <3>2. CASE i # NoId /\ book' = UpdateStatus(a, i, InitiatorExecuted(t))
      <4>1. t \in Tx
        BY <2>2, <2>3 DEF Tx, TypeOK
      <4>2. InitiatorExecuted(t) \in CoordinationStatus
        BY <4>1, StatusTypes
      <4> QED
        BY <2>2, <3>2, <4>2, UpdateStatusEffect
    <3> QED
      BY <1>5, <2>2, <2>3, <3>1, <3>2 DEF Execute, ExecuteUnreported
  <2>7. Makes(a)
    BY <2>1, <2>2, <2>4, <2>5, <2>6 DEF Makes, Acts
  <2> QED
    BY <2>7
<1>6. ASSUME NEW a \in Agents, ExecuteFails(a) \/ RejectConditions(a)
      PROVE  StepOf(a)
  <2>1. /\ ledger' = ledger /\ book' = book /\ ~Idle(a)
        /\ pending' = [pending EXCEPT ![a] = NoSwap]
    BY <1>6 DEF ExecuteFails, RejectConditions
  <2> QED
    BY <2>1 DEF Drops, Acts, Idle, TypeOK
<1>7. ASSUME NEW a \in Agents,
             RecvSwapProposal(a) \/ RecvSwapAcceptance(a) \/ RecvSwapFill(a)
      PROVE  StepOf(a)
  <2>1. pending' = pending /\ ledger' = ledger
    BY <1>7 DEF RecvSwapProposal, RecvSwapAcceptance, RecvSwapFill
  <2>2. \A b \in Agents \ {a} : book'[b] = book[b]
    BY <1>7 DEF RecvSwapProposal, RecvSwapAcceptance, RecvSwapFill, UpdateStatus, TypeOK
  <2> QED
    BY <2>1, <2>2 DEF Marks, Acts, Committed, Idle
<1> QED
  BY <1>1, <1>2, <1>3, <1>4, <1>5, <1>6, <1>7, BoundsAssumption
     DEF Next, vars, Tick, AnnounceIntent, Swap, CSwap, RecvIdentityAttestation,
         RecvSwapIntent, RecvSwapExecuted
-----------------------------------------------------------------------------
(* What it does to the stages.                                             *)

Stages == [a \in Agents |-> [i \in Ids |-> Stage(a, i)]]

Made(a, i) == \E t \in ledger : t.by = a /\ t.for = i

(* The stages of an agent whose commitments agree with its book.           *)
LEMMA StageValues ==
  ASSUME Once, NEW a \in Agents, NEW i \in Ids
  PROVE  /\ Stages[a][i] \in {"open", "committed", "executed", "closed"}
         /\ Stages[a][i] = "executed" <=> Made(a, i)
         /\ Stages[a][i] = "committed" <=> Committed(a, i)
         /\ Stages[a][i] = "open" <=> ~Left(a, i)
<1>1. Made(a, i) => Left(a, i) /\ ~Committed(a, i)
  BY NullsAssumption DEF Once, Made
<1>2. Committed(a, i) => Left(a, i)
  BY DEF Once
<1> QED
  BY <1>1, <1>2 DEF Stages, Stage, Made, Committed, Left

StageStep(a) ==
  /\ \A b \in Agents \ {a}, j \in Ids : Stages'[b][j] = Stages[b][j]
  /\ \/ \A j \in Ids :
          \/ Stages'[a][j] = Stages[a][j]
          \/ Stages[a][j] = "open" /\ Stages'[a][j] = "closed"
     \/ \E i \in Ids :
          /\ \A j \in Ids \ {i} : Stages'[a][j] = Stages[a][j]
          /\ \/ /\ Stages[a][i] = "open" /\ Stages'[a][i] = "committed"
                /\ \A j \in Ids : Stages[a][j] # "committed"
             \/ Stages[a][i] = "committed" /\ Stages'[a][i] \in {"executed", "closed"}

LEMMA StageChange ==
  ASSUME ~SameSecond, TypeOK, Origin, Once, Once', [Next]_vars, NEW a \in Agents, StepOf(a)
  PROVE  StageStep(a)
<1>1. Acts(a)
  BY DEF StepOf, Marks, Accepts, Drops, Makes
<1>2. ASSUME NEW b \in Agents, NEW j \in Ids
      PROVE  /\ Stages'[b][j] \in {"open", "committed", "executed", "closed"}
             /\ Stages'[b][j] = "executed" <=> Made(b, j)'
             /\ Stages'[b][j] = "committed" <=> Committed(b, j)'
             /\ Stages'[b][j] = "open" <=> ~Left(b, j)'
  <2>1. Made(b, j)' => Left(b, j)' /\ ~Committed(b, j)'
    BY NullsAssumption DEF Once, Made, Left, Committed, Idle, Knows, Status
  <2>2. Committed(b, j)' => Left(b, j)'
    BY DEF Once
  <2> QED
    BY <2>1, <2>2 DEF Stages, Stage, Made, Committed, Idle, Left, Knows, Status
<1>3. ASSUME NEW b \in Agents \ {a}, NEW j \in Ids
      PROVE  Stages'[b][j] = Stages[b][j]
  BY <1>1 DEF Acts, Stages, Stage, Idle, Knows, Status
<1>4. \A j \in Ids : Left(a, j) => Left(a, j)'
  BY LeftForGood
<1>5. \A j \in Ids : Made(a, j) => Made(a, j)'
  BY <1>1 DEF Acts, Made
<1>6. CASE Marks(a)
  <2>1. ASSUME NEW j \in Ids
        PROVE  \/ Stages'[a][j] = Stages[a][j]
               \/ Stages[a][j] = "open" /\ Stages'[a][j] = "closed"
    <3>1. /\ Made(a, j)' <=> Made(a, j)
          /\ Committed(a, j)' <=> Committed(a, j)
      BY <1>6 DEF Marks, Made
    <3> QED
      BY <1>2, <1>4, <3>1, StageValues
  <2> QED
    BY <1>3, <2>1 DEF StageStep
<1>7. CASE Drops(a)
  <2>1. ASSUME NEW j \in Ids
        PROVE  /\ Committed(a, j) =>
                    Stages[a][j] = "committed" /\ Stages'[a][j] = "closed"
               /\ ~Committed(a, j) => Stages'[a][j] = Stages[a][j]
    <3>1. /\ Made(a, j)' <=> Made(a, j)
          /\ Left(a, j)' <=> Left(a, j)
          /\ ~Committed(a, j)'
      BY <1>7 DEF Drops, Made, Left, Knows, Status, Committed
    <3>2. Committed(a, j) => Left(a, j) /\ ~Made(a, j)
      BY NullsAssumption DEF Once, Made
    <3> QED
      BY <1>2, <3>1, <3>2, StageValues
  <2>2. \A i, j \in Ids : Committed(a, i) /\ Committed(a, j) => i = j
    BY DEF Committed
  <2>3. CASE \E i \in Ids : Committed(a, i)
    BY <1>3, <2>1, <2>2, <2>3 DEF StageStep
  <2>4. CASE \A i \in Ids : ~Committed(a, i)
    BY <1>3, <2>1, <2>4 DEF StageStep
  <2> QED
    BY <2>3, <2>4
<1>8. CASE Makes(a)
  <2>1. PICK t : ledger' = ledger \cup {t} /\ t.by = a /\ t.for = pending[a].id
    BY <1>8 DEF Makes
  <2>2. ASSUME NEW j \in Ids
        PROVE  /\ Committed(a, j) =>
                    Stages[a][j] = "committed" /\ Stages'[a][j] = "executed"
               /\ ~Committed(a, j) => Stages'[a][j] = Stages[a][j]
    <3>1. Committed(a, j) <=> j = pending[a].id
      BY <1>8 DEF Makes, Committed
    <3>2. Made(a, j)' <=> Made(a, j) \/ Committed(a, j)
      BY <2>1, <3>1 DEF Made
    <3>3. ~Committed(a, j)'
      BY <1>8 DEF Makes, Committed
    <3>4. ~Committed(a, j) => (Left(a, j)' <=> Left(a, j))
      BY <1>8, <3>1 DEF Makes, Left, Knows, Status
    <3> QED
      BY <1>2, <3>2, <3>3, <3>4, StageValues
  <2>3. \A i, j \in Ids : Committed(a, i) /\ Committed(a, j) => i = j
    BY DEF Committed
  <2>4. CASE \E i \in Ids : Committed(a, i)
    BY <1>3, <2>2, <2>3, <2>4 DEF StageStep
  <2>5. CASE \A i \in Ids : ~Committed(a, i)
    BY <1>3, <2>2, <2>5 DEF StageStep
  <2> QED
    BY <2>4, <2>5
<1>9. ASSUME NEW i \in Ids, Accepts(a, i)
      PROVE  StageStep(a)
  <2>1. \A j \in Ids : ~Committed(a, j)
    BY <1>9 DEF Accepts, Committed
  <2>2. \A j \in Ids : Made(a, j)' <=> Made(a, j)
    BY <1>9 DEF Accepts, Made
  <2>3. Stages[a][i] = "open" /\ Stages'[a][i] = "committed"
    BY <1>2, <1>9, StageValues DEF Accepts, Left
  <2>4. ASSUME NEW j \in Ids \ {i}
        PROVE  Stages'[a][j] = Stages[a][j]
    <3>1. Left(a, j)' <=> Left(a, j)
      BY <1>9 DEF Accepts, Left, Knows, Status
    <3>2. ~Committed(a, j)'
      BY <1>9 DEF Accepts, Committed
    <3> QED
      BY <1>2, <2>1, <2>2, <3>1, <3>2, StageValues
  <2> QED
    BY <1>3, <2>1, <2>3, <2>4, StageValues DEF StageStep
<1> QED
  BY <1>6, <1>7, <1>8, <1>9 DEF StepOf

-----------------------------------------------------------------------------
(* The refinement.                                                         *)

Credits == UNION {Credit(a) : a \in Agents}

(* Credit goes to an agent's own swaps.                                    *)
LEMMA CreditsDeserved ==
  TypeOK /\ FillsBacked => Promise!CreditDeserved
<1> SUFFICES ASSUME TypeOK, FillsBacked, NEW c \in Credits
             PROVE  Stages[c[2]][c[3]] = "executed"
  BY DEF Promise!CreditDeserved, Credits, Stages
<1>1. PICK a \in Agents : c \in Credit(a)
  BY DEF Credits
<1>2. PICK i \in Ids :
        Knows(a, i) /\ \E t \in TxOf(Status(a, i)) : c = <<a, t.by, i>>
  BY <1>1 DEF Credit
<1>6. PICK t \in TxOf(Status(a, i)) : c = <<a, t.by, i>>
  BY <1>2
<1>3. t \in ledger /\ t.for = i
  BY <1>2, <1>6 DEF FillsBacked
<1>4. t.by \in Agents
  BY <1>3 DEF TypeOK, Tx
<1>5. Stage(t.by, i) = "executed"
  BY <1>3 DEF Stage
<1> QED
  BY <1>2, <1>4, <1>5, <1>6 DEF Stages

(* Every step of the agents is a step of the promise.                      *)
LEMMA StepKeepsPromise ==
  ASSUME ~SameSecond, TypeOK, Origin, Once, Once', Promise!CreditDeserved', [Next]_vars
  PROVE  [Promise!Next]_(Promise!vars)
<1>1. CASE UNCHANGED <<book, pending, ledger>>
  <2>1. Stages' = Stages
    BY <1>1 DEF Stages, Stage, Idle, Knows, Status
  <2>2. Credits' = Credits
    BY <1>1 DEF Credits, Credit, Knows, Status, TxOf
  <2> QED
    BY <2>1, <2>2 DEF Promise!vars, Stages, Credits
<1>2. ASSUME NEW a \in Agents, StageStep(a)
      PROVE  Promise!Next
  <2> DEFINE Before == [b \in Agents |-> [j \in Ids |-> Stages[b][j]]]
             After  == [b \in Agents |-> [j \in Ids |-> Stages'[b][j]]]
  <2>6. Stages = Before /\ Stages' = After
    BY DEF Stages
  <2>7. \A b \in Agents \ {a}, j \in Ids : Stages'[b][j] = Stages[b][j]
    BY <1>2 DEF StageStep
  <2>1. \A b \in Agents \ {a} : After[b] = Before[b]
    BY <2>7
  <2>2. CASE \A j \in Ids :
               \/ Stages'[a][j] = Stages[a][j]
               \/ Stages[a][j] = "open" /\ Stages'[a][j] = "closed"
    <3> DEFINE S == {j \in Ids : Stages[a][j] = "open" /\ Stages'[a][j] = "closed"}
    <3>1. S \in SUBSET {j \in Ids : Stages[a][j] = "open"}
      BY DEF Stages
    <3>4. After[a] = [j \in Ids |-> IF j \in S THEN "closed" ELSE Stages[a][j]]
      BY <2>2
    <3>5. After = [Before EXCEPT ![a] = After[a]]
      BY <2>1
    <3>2. Stages' = [Stages EXCEPT ![a] =
                       [j \in Ids |-> IF j \in S THEN "closed" ELSE Stages[a][j]]]
      BY <2>6, <3>4, <3>5
    <3>3. Promise!Close(a)
      BY <3>1, <3>2 DEF Promise!Close, Stages
    <3> QED
      BY <3>3 DEF Promise!Next
  <2>3. ASSUME NEW i \in Ids, \A j \in Ids \ {i} : Stages'[a][j] = Stages[a][j]
        PROVE  Stages' = [Stages EXCEPT ![a][i] = Stages'[a][i]]
    <3>1. After = [Before EXCEPT ![a] = After[a]]
      BY <2>1
    <3>2. After[a] = [Before[a] EXCEPT ![i] = After[a][i]]
      BY <2>3
    <3>3. After = [Before EXCEPT ![a][i] = After[a][i]]
      BY <3>1, <3>2
    <3> QED
      BY <2>6, <3>3
  <2>4. ASSUME NEW i \in Ids, \A j \in Ids \ {i} : Stages'[a][j] = Stages[a][j],
               Stages[a][i] = "open", Stages'[a][i] = "committed",
               \A j \in Ids : Stages[a][j] # "committed"
        PROVE  Promise!Next
    <3>1. Promise!Commit(a, i)
      BY <2>3, <2>4 DEF Promise!Commit, Promise!Free, Promise!Move, Stages
    <3> QED
      BY <3>1 DEF Promise!Next
  <2>5. ASSUME NEW i \in Ids, \A j \in Ids \ {i} : Stages'[a][j] = Stages[a][j],
               Stages[a][i] = "committed", Stages'[a][i] \in {"executed", "closed"}
        PROVE  Promise!Next
    <3>1. Promise!Perform(a, i) \/ Promise!Abandon(a, i)
      BY <2>3, <2>5 DEF Promise!Perform, Promise!Abandon, Promise!Move, Stages
    <3> QED
      BY <3>1 DEF Promise!Next
  <2> QED
    BY <1>2, <2>2, <2>4, <2>5 DEF StageStep
<1> QED
  BY <1>1, <1>2, OneAgentActs, StageChange

(* The safety of the promise: with one proposal per second at most, every  *)
(* run of the agents is one that Commitment allows, whatever the network   *)
(* loses or delays (the accept command, execute_pending_swap and the       *)
(* acceptance and fill handlers).                                          *)
THEOREM PromiseImplemented ==
  ASSUME ~SameSecond
  PROVE  Spec => Promise!Spec
<1>1. Init => Promise!Init
  BY DEF Init, Promise!Init, Stage, Idle, Knows, Credit
<1>2. /\ TypeOK /\ Origin /\ Once /\ Once' /\ Promise!CreditDeserved' /\ [Next]_vars
      => [Promise!Next]_(Promise!vars)
  BY StepKeepsPromise
<1> QED
  BY <1>1, <1>2, TypeCorrect, OriginHolds, OnceHolds, FillsAreBacked, CreditsDeserved,
     PTL DEF Spec, Promise!Spec
===============================================================================
