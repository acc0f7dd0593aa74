-------------------------- MODULE CoordinationProofs --------------------------
(***************************************************************************)
(* Invariants of Coordination for any agents, terms, bounds and network.   *)
(***************************************************************************)
EXTENDS Coordination, FiniteSetTheorems, TLAPS

-----------------------------------------------------------------------------
(* Types.                                                                  *)

(* Each record_ update of the store yields a record again.                 *)
LEMMA RecordUpdates ==
  ASSUME NEW r \in PeerReputation
  PROVE  /\ RecordSwap(r, Recent) \in PeerReputation
         /\ RecordIntent(r, Recent) \in PeerReputation
         /\ SetVerified(r, Recent) \in PeerReputation
         /\ \A n \in Nat : RecordExpired(r, n) \in PeerReputation
<1> DEFINE more == r.swaps + 1
           most == r.intents + 1
<1>0. Recent \in Nat /\ more \in Nat /\ most \in Nat
  BY DEF PeerReputation, Recent
<1>1. RecordSwap(r, Recent) \in PeerReputation
  <2> HIDE DEF more
  <2>1. RecordSwap(r, Recent) = [r EXCEPT !.swaps = more, !.lastActive = Recent]
    BY DEF RecordSwap, PeerReputation, more
  <2> QED
    BY <1>0, <2>1 DEF PeerReputation
<1>2. RecordIntent(r, Recent) \in PeerReputation
  <2> HIDE DEF most
  <2>1. RecordIntent(r, Recent) = [r EXCEPT !.intents = most, !.lastActive = Recent]
    BY DEF RecordIntent, PeerReputation, most
  <2> QED
    BY <1>0, <2>1 DEF PeerReputation
<1>3. SetVerified(r, Recent) \in PeerReputation
  BY <1>0 DEF PeerReputation, SetVerified
<1>4. ASSUME NEW n \in Nat
      PROVE  RecordExpired(r, n) \in PeerReputation
  BY DEF PeerReputation, RecordExpired
<1> QED
  BY <1>1, <1>2, <1>3, <1>4

LEMMA NewReputationType == NewReputation \in PeerReputation
  BY DEF NewReputation, PeerReputation

(* The ids in reach of the horizon are finitely many.                      *)
LEMMA IdsFinite == IsFiniteSet(Ids)
<1>1. IsFiniteSet(0 .. MaxTime + MaxSkew)
  BY FS_Interval, BoundsAssumption
<1> QED
  BY <1>1, FS_Product, AgentsAssumption DEF Ids

(* Every status the code builds is one.                                    *)
LEMMA StatusTypes ==
  /\ Pending \in CoordinationStatus
  /\ Expired \in CoordinationStatus
  /\ \A b \in Agents : Accepted(b) \in CoordinationStatus
  /\ \A t \in Tx : InitiatorExecuted(t) \in CoordinationStatus
  /\ \A t, u \in Tx : Completed(t, u) \in CoordinationStatus
  BY DEF CoordinationStatus, Pending, Expired, Accepted, InitiatorExecuted, Completed

(* update_status keeps the book a book.                                    *)
LEMMA UpdateStatusType ==
  ASSUME TypeOK, NEW a \in Agents, NEW i \in Ids, NEW s \in CoordinationStatus
  PROVE  UpdateStatus(a, i, s) \in [Agents -> [Ids -> SwapProposal \cup {NoEntry}]]
<1>1. ASSUME book[a][i] # NoEntry
      PROVE  [book[a][i] EXCEPT !.status = s] \in SwapProposal
  <2>1. book[a][i] \in SwapProposal
    BY <1>1 DEF TypeOK
  <2> QED
    BY <2>1 DEF SwapProposal
<1> QED
  BY <1>1 DEF TypeOK, UpdateStatus

(* A fill turns a status into a status.                                    *)
LEMMA FilledType ==
  ASSUME NEW s \in CoordinationStatus, NEW t \in Tx
  PROVE  Filled(s, t) \in CoordinationStatus
<1>1. CASE s.is = "Accepted"
  BY <1>1, StatusTypes DEF Filled
<1>2. CASE s.is = "InitiatorExecuted"
  <2>1. s.tx \in Tx
    BY <1>2 DEF CoordinationStatus
  <2> QED
    BY <1>2, <2>1, StatusTypes DEF Filled
<1>3. CASE s.is # "Accepted" /\ s.is # "InitiatorExecuted"
  BY <1>3 DEF Filled
<1> QED
  BY <1>1, <1>2, <1>3

(* What gossip delivers is a message of the kind the handler expects.      *)
LEMMA DeliveredType ==
  ASSUME TypeOK, NEW a \in Agents
  PROVE  /\ \A k : Deliverable(a, k) \subseteq msgs
         /\ \A k : \A m \in Deliverable(a, k) : m.kind = k /\ m.from \in Agents \ {a}
         /\ Deliverable(a, "SwapProposal") \subseteq ProposalMsg
         /\ Deliverable(a, "SwapAcceptance") \subseteq AcceptanceMsg
         /\ Deliverable(a, "SwapFill") \subseteq FillMsg
<1>1. \A m \in AgentMessage : m.from \in Agents
  BY DEF AgentMessage, AttestationMsg, ProposalMsg, AcceptanceMsg, IntentMsg,
         ExecutedMsg, FillMsg
<1>2. \A m \in AgentMessage : m.kind = "SwapProposal" => m \in ProposalMsg
  BY DEF AgentMessage, AttestationMsg, ProposalMsg, AcceptanceMsg, IntentMsg,
         ExecutedMsg, FillMsg
<1>3. \A m \in AgentMessage : m.kind = "SwapAcceptance" => m \in AcceptanceMsg
  BY DEF AgentMessage, AttestationMsg, ProposalMsg, AcceptanceMsg, IntentMsg,
         ExecutedMsg, FillMsg
<1>4. \A m \in AgentMessage : m.kind = "SwapFill" => m \in FillMsg
  BY DEF AgentMessage, AttestationMsg, ProposalMsg, AcceptanceMsg, IntentMsg,
         ExecutedMsg, FillMsg
<1> QED
  BY <1>1, <1>2, <1>3, <1>4 DEF Deliverable, TypeOK

(* The clocks an intent is stamped with are natural numbers.               *)
LEMMA IntentType ==
  ASSUME TypeOK, NEW a \in Agents, NEW t \in Terms
  PROVE  Intent(a, t) \in AgentMessage
<1>1. time + skew[a] \in Nat
  BY BoundsAssumption DEF TypeOK
<1> QED
  BY <1>1 DEF Intent, AgentMessage, IntentMsg

(* Every variable stays in its type.                                       *)
THEOREM TypeCorrect == Spec => []TypeOK
<1>1. Init => TypeOK
  <2> SUFFICES ASSUME Init PROVE TypeOK
    OBVIOUS
  <2>1. time \in 0 .. MaxTime
    BY BoundsAssumption DEF Init
  <2>2. rep \in [Agents -> [Agents -> PeerReputation]]
    BY NewReputationType, RecordUpdates DEF Init
  <2>3. \A a \in Agents : Attestation(a) \in AgentMessage
    BY DEF Attestation, AgentMessage, AttestationMsg
  <2>4. msgs \subseteq AgentMessage
    BY <2>3 DEF Init
  <2>5. rcvd \in [Agents -> SUBSET AgentMessage]
    BY <2>3 DEF Init
  <2> QED
    BY <2>1, <2>2, <2>4, <2>5 DEF Init, TypeOK
<1>2. TypeOK /\ [Next]_vars => TypeOK'
  <2> SUFFICES ASSUME TypeOK, [Next]_vars PROVE TypeOK'
    OBVIOUS
  <2> USE DEF Handled
  <2>1. CASE Tick
    BY <2>1, BoundsAssumption DEF Tick, TypeOK
  <2>2. ASSUME NEW a \in Agents, NEW t \in Terms, NEW r \in MinReps, Propose(a, t, r)
        PROVE  TypeOK'
    <3>1. Now(a) \in 0 .. MaxTime + MaxSkew
      BY BoundsAssumption DEF TypeOK, Now
    <3>2. <<a, Now(a)>> \in Ids
      BY <3>1 DEF Ids
    <3>3. [terms |-> t, minRep |-> r, status |-> Pending] \in SwapProposal
      BY StatusTypes DEF SwapProposal
    <3>4. book' \in [Agents -> [Ids -> SwapProposal \cup {NoEntry}]]
      BY <2>2, <3>2, <3>3 DEF Propose, TypeOK
    <3>5. [kind |-> "SwapProposal", from |-> a, id |-> <<a, Now(a)>>,
           terms |-> t, minRep |-> r] \in AgentMessage
      BY <3>2 DEF AgentMessage, ProposalMsg
    <3>6. msgs' \subseteq AgentMessage
      BY <2>2, <3>5 DEF Propose, Publish, TypeOK
    <3> QED
      BY <2>2, <3>4, <3>6 DEF Propose, TypeOK
  <2>3. ASSUME NEW a \in Agents, NEW i \in Ids, Accept(a, i)
        PROVE  TypeOK'
    <3>1. book[a][i] \in SwapProposal
      BY <2>3 DEF Accept, Knows, TypeOK
    <3>2. book[a][i].terms \in Terms
      BY <3>1 DEF SwapProposal
    <3>3. book' \in [Agents -> [Ids -> SwapProposal \cup {NoEntry}]]
      BY <2>3, StatusTypes, UpdateStatusType DEF Accept
    <3>4. [kind |-> "SwapAcceptance", from |-> a, id |-> i] \in AgentMessage
      BY DEF AgentMessage, AcceptanceMsg
    <3>5. msgs' \subseteq AgentMessage
      BY <2>3, <3>2, <3>4, IntentType DEF Accept, Publish, TypeOK
    <3>6. [id |-> i, terms |-> book[a][i].terms, minRep |-> 0] \in PendingSwap
      BY <3>2, BoundsAssumption DEF PendingSwap
    <3>7. pending' \in [Agents -> PendingSwap \cup {NoSwap}]
      BY <2>3, <3>6 DEF Accept, TypeOK
    <3> QED
      BY <2>3, <3>3, <3>5, <3>7 DEF Accept, TypeOK
  <2>4. ASSUME NEW a \in Agents, NEW t \in Terms, NEW r \in MinReps, Defer(a, t, r)
        PROVE  TypeOK'
    <3>1. msgs' \subseteq AgentMessage
      BY <2>4, IntentType DEF Defer, Publish, TypeOK
    <3>2. [id |-> NoId, terms |-> t, minRep |-> r] \in PendingSwap
      BY DEF PendingSwap
    <3>3. rep' \in [Agents -> [Agents -> PeerReputation]]
      BY <2>4, RecordUpdates DEF Defer, TypeOK
    <3> QED
      BY <2>4, <3>1, <3>2, <3>3 DEF Defer, TypeOK
  <2>16. ASSUME NEW a \in Agents, NEW t \in Terms, AnnounceIntent(a, t)
         PROVE  TypeOK'
    <3>1. msgs' \subseteq AgentMessage
      BY <2>16, IntentType DEF AnnounceIntent, Publish, TypeOK
    <3>2. rep' \in [Agents -> [Agents -> PeerReputation]]
      BY <2>16, RecordUpdates DEF AnnounceIntent, TypeOK
    <3> QED
      BY <2>16, <3>1, <3>2 DEF AnnounceIntent, TypeOK
  <2>5. ASSUME NEW a \in Agents, ListProposals(a)
        PROVE  TypeOK'
    <3>1. ASSUME NEW i \in Ids, Knows(a, i)
          PROVE  [book[a][i] EXCEPT !.status = Expired] \in SwapProposal
      <4>1. book[a][i] \in SwapProposal
        BY <3>1 DEF Knows, TypeOK
      <4> QED
        BY <4>1, StatusTypes DEF SwapProposal
    <3> QED
      BY <2>5, <3>1 DEF ListProposals, TypeOK
  <2>6. ASSUME NEW a \in Agents, Execute(a)
        PROVE  TypeOK'
    <3> DEFINE i  == pending[a].id
               tx == [by |-> a, nonce |-> nonce[a] + 1, for |-> i]
    <3>1. pending[a] \in PendingSwap
      BY <2>6 DEF Execute, Idle, TypeOK
    <3>2. i \in Ids \cup {NoId}
      BY <3>1 DEF PendingSwap
    <3>3. nonce[a] + 1 \in Nat
      BY DEF TypeOK
    <3>4. tx \in Tx
      BY <3>2, <3>3 DEF Tx
    <3>5. ledger' = ledger \cup {tx}
      BY <2>6 DEF Execute
    <3>6. rep' \in [Agents -> [Agents -> PeerReputation]]
      BY <2>6, RecordUpdates DEF Execute, TypeOK
    <3>7. msgs' \subseteq AgentMessage
      <4>1. [kind |-> "SwapExecuted", from |-> a, tx |-> tx] \in AgentMessage
        BY <3>4 DEF AgentMessage, ExecutedMsg
      <4>2. i # NoId =>
              [kind |-> "SwapFill", from |-> a, id |-> i, tx |-> tx] \in AgentMessage
        BY <3>2, <3>4 DEF AgentMessage, FillMsg
      <4> QED
        BY <2>6, <4>1, <4>2 DEF Execute, Publish, TypeOK
    <3>8. book' \in [Agents -> [Ids -> SwapProposal \cup {NoEntry}]]
      <4>1. CASE i = NoId
        BY <2>6, <4>1 DEF Execute, TypeOK
      <4>2. CASE i # NoId
        <5>1. book' = UpdateStatus(a, i, InitiatorExecuted(tx))
          BY <2>6, <4>2 DEF Execute
        <5>2. InitiatorExecuted(tx) \in CoordinationStatus
          BY <3>4, StatusTypes
        <5> HIDE DEF tx
        <5> QED
          BY <3>2, <4>2, <5>1, <5>2, UpdateStatusType
      <4> QED
        BY <4>1, <4>2
    <3>9. nonce' \in [Agents -> Nat]
      BY <2>6, <3>3 DEF Execute, TypeOK
    <3> QED
      BY <2>6, <3>4, <3>5, <3>6, <3>7, <3>8, <3>9 DEF Execute, TypeOK
  <2>17. ASSUME NEW a \in Agents, ExecuteUnreported(a)
         PROVE  TypeOK'
    <3>1. pending[a].id \in Ids \cup {NoId}
      BY <2>17 DEF ExecuteUnreported, Idle, TypeOK, PendingSwap
    <3>2. nonce[a] + 1 \in Nat
      BY DEF TypeOK
    <3>3. ledger' \subseteq Tx
      BY <2>17, <3>1, <3>2 DEF ExecuteUnreported, Tx, TypeOK
    <3> QED
      BY <2>17, <3>2, <3>3 DEF ExecuteUnreported, TypeOK
  <2>7. ASSUME NEW a \in Agents, ExecuteFails(a) \/ RejectConditions(a)
        PROVE  TypeOK'
    BY <2>7 DEF ExecuteFails, RejectConditions, TypeOK
  <2>8. ASSUME NEW a \in Agents, RecvIdentityAttestation(a)
        PROVE  TypeOK'
    BY <2>8, DeliveredType, RecordUpdates DEF RecvIdentityAttestation, TypeOK
  <2>9. ASSUME NEW a \in Agents, RecvSwapProposal(a)
        PROVE  TypeOK'
    <3>1. PICK m \in Deliverable(a, "SwapProposal") : RecvSwapProposal(a)!(m)
      BY <2>9 DEF RecvSwapProposal
    <3>2. m \in ProposalMsg /\ m \in msgs
      BY DeliveredType
    <3>3. m.id \in Ids
          /\ [terms |-> m.terms, minRep |-> m.minRep, status |-> Pending] \in SwapProposal
      BY <3>2, StatusTypes DEF ProposalMsg, SwapProposal
    <3>4. book' \in [Agents -> [Ids -> SwapProposal \cup {NoEntry}]]
      BY <3>1, <3>3 DEF TypeOK
    <3> QED
      BY <3>1, <3>2, <3>4 DEF TypeOK
  <2>10. ASSUME NEW a \in Agents, RecvSwapAcceptance(a)
         PROVE  TypeOK'
    <3>1. PICK m \in Deliverable(a, "SwapAcceptance") : RecvSwapAcceptance(a)!(m)
      BY <2>10 DEF RecvSwapAcceptance
    <3>2. m \in AcceptanceMsg /\ m \in msgs
      BY DeliveredType
    <3>3. m.id \in Ids /\ Accepted(m.from) \in CoordinationStatus
      BY <3>2, StatusTypes DEF AcceptanceMsg
    <3>5. book' = UpdateStatus(a, m.id, Accepted(m.from)) \/ book' = book
      BY <3>1
    <3>4. book' \in [Agents -> [Ids -> SwapProposal \cup {NoEntry}]]
      BY <3>3, <3>5, UpdateStatusType DEF TypeOK
    <3> QED
      BY <3>1, <3>2, <3>4 DEF TypeOK
  <2>11. ASSUME NEW a \in Agents, RecvSwapIntent(a)
         PROVE  TypeOK'
    BY <2>11, DeliveredType, RecordUpdates DEF RecvSwapIntent, TypeOK
  <2>12. ASSUME NEW a \in Agents, RecvSwapExecuted(a)
         PROVE  TypeOK'
    BY <2>12, DeliveredType, RecordUpdates DEF RecvSwapExecuted, TypeOK
  <2>13. ASSUME NEW a \in Agents, RecvSwapFill(a)
         PROVE  TypeOK'
    <3>1. PICK m \in Deliverable(a, "SwapFill") : RecvSwapFill(a)!(m)
      BY <2>13 DEF RecvSwapFill
    <3>2. m \in FillMsg /\ m \in msgs
      BY DeliveredType
    <3>3. m.id \in Ids /\ m.tx \in Tx
      BY <3>2 DEF FillMsg
    <3>4. Knows(a, m.id) => Status(a, m.id) \in CoordinationStatus
      BY <3>3 DEF Knows, Status, TypeOK, SwapProposal
    <3>5. book' \in [Agents -> [Ids -> SwapProposal \cup {NoEntry}]]
      BY <3>1, <3>3, <3>4, FilledType, UpdateStatusType DEF TypeOK
    <3> QED
      BY <3>1, <3>2, <3>5 DEF TypeOK
  <2>14. ASSUME NEW a \in Agents, Refresh(a)
         PROVE  TypeOK'
    <3>1. ASSUME NEW i \in NewlyExpired(a)
          PROVE  [book[a][i] EXCEPT !.status = Expired] \in SwapProposal
      <4>1. book[a][i] \in SwapProposal
        BY DEF NewlyExpired, Knows, TypeOK
      <4> QED
        BY <4>1, StatusTypes DEF SwapProposal
    <3>2. book' \in [Agents -> [Ids -> SwapProposal \cup {NoEntry}]]
      BY <2>14, <3>1 DEF Refresh, TypeOK
    <3>3. \A p \in Agents :
            Cardinality({i \in NewlyExpired(a) : Initiator(i) = p}) \in Nat
      BY IdsFinite, FS_Subset, FS_CardinalityType DEF NewlyExpired
    <3>4. rep' \in [Agents -> [Agents -> PeerReputation]]
      BY <2>14, <3>3, RecordUpdates DEF Refresh, PenaltiesOfRefresh, TypeOK
    <3> QED
      BY <2>14, <3>2, <3>4 DEF Refresh, TypeOK
  <2>15. CASE UNCHANGED vars
    BY <2>15 DEF vars, TypeOK
  <2> QED
    BY <2>1, <2>2, <2>3, <2>4, <2>5, <2>6, <2>7, <2>8, <2>9, <2>10, <2>11, <2>12,
       <2>13, <2>14, <2>15, <2>16, <2>17, BoundsAssumption DEF Next, Swap, CSwap
<1> QED
  BY <1>1, <1>2, PTL DEF Spec

-----------------------------------------------------------------------------
(* What a step may do to one entry of one book.                            *)

Committed(a, i) == ~Idle(a) /\ pending[a].id = i

(* An entry whose status alone may have changed.                           *)
Kept(b, j) ==
  /\ Knows(b, j) /\ Knows(b, j)'
  /\ book'[b][j].terms = book[b][j].terms /\ book'[b][j].minRep = book[b][j].minRep

Takes(b, m) == rcvd'[b] = rcvd[b] \cup {m}

Marked(b, j)   == Kept(b, j) /\ Idle(b) /\ IsExpired(b, j) /\ Status(b, j)' = Expired
Taken(b, j)    == Kept(b, j) /\ Status(b, j)' = Accepted(b) /\ Accept(b, j)
Told(b, j)     == Kept(b, j) /\ \E m \in Deliverable(b, "SwapAcceptance") :
                    m.id = j /\ Takes(b, m) /\ Status(b, j)' = Accepted(m.from)
Swapped(b, j)  == Kept(b, j) /\ Committed(b, j) /\ \E t \in ledger' :
                    t.by = b /\ t.for = j /\ Status(b, j)' = InitiatorExecuted(t)
Advanced(b, j) == Kept(b, j) /\ \E m \in Deliverable(b, "SwapFill") :
                    m.id = j /\ Takes(b, m) /\ Status(b, j)' = Filled(Status(b, j), m.tx)
Issued(b, j)   == /\ Knows(b, j)' /\ Status(b, j)' = Pending
                  /\ j = <<b, Now(b)>> /\ (SameSecond \/ ~Knows(b, j))
Heard(b, j)    == /\ Knows(b, j)' /\ Status(b, j)' = Pending
                  /\ \E m \in Deliverable(b, "SwapProposal") : m.id = j /\ Takes(b, m)

EntryStep(b, j) ==
  \/ book'[b][j] = book[b][j]
  \/ Marked(b, j) \/ Taken(b, j) \/ Told(b, j) \/ Swapped(b, j)
  \/ Advanced(b, j) \/ Issued(b, j) \/ Heard(b, j)

(* update_status changes the status of the one entry, if it is there.      *)
LEMMA UpdateStatusEffect ==
  ASSUME TypeOK, NEW a \in Agents, NEW i \in Ids, NEW s \in CoordinationStatus,
         book' = UpdateStatus(a, i, s)
  PROVE  /\ \A b \in Agents, j \in Ids : b # a \/ j # i => book'[b][j] = book[b][j]
         /\ ~Knows(a, i) => book'[a][i] = book[a][i]
         /\ Knows(a, i) => Kept(a, i) /\ Status(a, i)' = s
<1>1. \A b \in Agents, j \in Ids : b # a \/ j # i => book'[b][j] = book[b][j]
  BY DEF UpdateStatus, TypeOK
<1>2. book'[a][i] = IF book[a][i] = NoEntry THEN NoEntry
                    ELSE [book[a][i] EXCEPT !.status = s]
  BY DEF UpdateStatus, TypeOK
<1>3. ASSUME Knows(a, i)
      PROVE  Kept(a, i) /\ Status(a, i)' = s
  <2>1. book[a][i] \in SwapProposal
    BY <1>3 DEF Knows, TypeOK
  <2>2. /\ book'[a][i] \in SwapProposal /\ book'[a][i].status = s
        /\ book'[a][i].terms = book[a][i].terms /\ book'[a][i].minRep = book[a][i].minRep
    BY <1>2, <1>3, <2>1 DEF Knows, SwapProposal
  <2> QED
    BY <1>3, <2>2, NullsAssumption DEF Kept, Knows, Status
<1> QED
  BY <1>1, <1>2, <1>3 DEF Knows

(* An entry put in place of another is known.                              *)
LEMMA ProposalIsEntry ==
  ASSUME NEW t \in Terms, NEW r \in MinReps
  PROVE  LET e == [terms |-> t, minRep |-> r, status |-> Pending]
         IN  e # NoEntry /\ e.status = Pending
<1>1. [terms |-> t, minRep |-> r, status |-> Pending] \in SwapProposal
  BY StatusTypes DEF SwapProposal
<1> QED
  BY <1>1, NullsAssumption

(* Marking an entry expired keeps it known.                                *)
LEMMA MarkingKeeps ==
  ASSUME TypeOK, NEW a \in Agents, NEW i \in Ids, Knows(a, i)
  PROVE  LET e == [book[a][i] EXCEPT !.status = Expired]
         IN  /\ e # NoEntry /\ e.status = Expired
             /\ e.terms = book[a][i].terms /\ e.minRep = book[a][i].minRep
<1>1. book[a][i] \in SwapProposal
  BY DEF Knows, TypeOK
<1>2. LET e == [book[a][i] EXCEPT !.status = Expired]
      IN  /\ e \in SwapProposal /\ e.status = Expired
          /\ e.terms = book[a][i].terms /\ e.minRep = book[a][i].minRep
  BY <1>1, StatusTypes DEF SwapProposal
<1> QED
  BY <1>2, NullsAssumption

(* Every step of Next treats every entry in one of these ways.             *)
LEMMA BookChange ==
  ASSUME TypeOK, [Next]_vars
  PROVE  \A b \in Agents, j \in Ids : EntryStep(b, j)
<1>1. ASSUME book' = book
      PROVE  \A b \in Agents, j \in Ids : EntryStep(b, j)
  BY <1>1 DEF EntryStep
<1>2. ASSUME NEW a \in Agents, NEW t \in Terms, NEW r \in MinReps, Propose(a, t, r)
      PROVE  \A b \in Agents, j \in Ids : EntryStep(b, j)
  <2> DEFINE e == [terms |-> t, minRep |-> r, status |-> Pending]
  <2>3. Now(a) \in 0 .. MaxTime + MaxSkew
    BY BoundsAssumption DEF TypeOK, Now
  <2>4. PICK i \in Ids : i = <<a, Now(a)>>
    BY <2>3 DEF Ids
  <2>1. e # NoEntry /\ e.status = Pending
    BY ProposalIsEntry
  <2>2. book' = [book EXCEPT ![a][i] = e] /\ (SameSecond \/ ~Knows(a, i))
    BY <1>2, <2>4 DEF Propose
  <2> HIDE DEF e
  <2>5. \A b \in Agents, j \in Ids : b # a \/ j # i => book'[b][j] = book[b][j]
    BY <2>2, <2>4 DEF TypeOK
  <2>6. book'[a][i] = e
    BY <2>2, <2>4 DEF TypeOK
  <2>7. Issued(a, i)
    BY <2>1, <2>2, <2>4, <2>6 DEF Issued, Knows, Status
  <2> QED
    BY <2>5, <2>7 DEF EntryStep
<1>3. ASSUME NEW a \in Agents, NEW i \in Ids, Accept(a, i)
      PROVE  \A b \in Agents, j \in Ids : EntryStep(b, j)
  <2>1. book' = UpdateStatus(a, i, Accepted(a)) /\ Knows(a, i)
    BY <1>3 DEF Accept
  <2>2. Accepted(a) \in CoordinationStatus
    BY StatusTypes
  <2>3. Taken(a, i)
    BY <1>3, <2>1, <2>2, UpdateStatusEffect DEF Taken
  <2> QED
    BY <2>1, <2>2, <2>3, UpdateStatusEffect DEF EntryStep
<1>4. ASSUME NEW a \in Agents, ListProposals(a)
      PROVE  \A b \in Agents, j \in Ids : EntryStep(b, j)
  <2>1. ASSUME NEW b \in Agents, NEW j \in Ids, book'[b][j] # book[b][j]
        PROVE  Marked(b, j)
    <3>1. /\ b = a /\ Knows(a, j) /\ Idle(a) /\ IsExpired(a, j)
          /\ book'[a][j] = [book[a][j] EXCEPT !.status = Expired]
      BY <1>4, <2>1 DEF ListProposals, TypeOK
    <3> QED
      BY <3>1, MarkingKeeps DEF Marked, Kept, Knows, Status
  <2> QED
    BY <2>1 DEF EntryStep
<1>5. ASSUME NEW a \in Agents, Execute(a)
      PROVE  \A b \in Agents, j \in Ids : EntryStep(b, j)
  <2>1. pending[a] \in PendingSwap
    BY <1>5 DEF Execute, Idle, TypeOK
  <2>2. PICK i \in Ids \cup {NoId} : i = pending[a].id
    BY <2>1 DEF PendingSwap
  <2>5. PICK tx : tx = [by |-> a, nonce |-> nonce[a] + 1, for |-> i]
    OBVIOUS
  <2>3. CASE i = NoId
    BY <1>1, <1>5, <2>2, <2>3 DEF Execute
  <2>4. CASE i # NoId
    <3>1. tx \in Tx
      BY <2>2, <2>5 DEF Tx, TypeOK
    <3>2. tx \in ledger' /\ tx.for = i /\ tx.by = a
      BY <1>5, <2>2, <2>5 DEF Execute
    <3>6. Committed(a, i)
      BY <1>5, <2>2 DEF Execute, Committed
    <3>3. book' = UpdateStatus(a, i, InitiatorExecuted(tx))
      BY <1>5, <2>2, <2>4, <2>5 DEF Execute
    <3>4. InitiatorExecuted(tx) \in CoordinationStatus
      BY <3>1, StatusTypes
    <3>5. Knows(a, i) => Swapped(a, i)
      BY <2>2, <2>4, <3>2, <3>3, <3>4, <3>6, UpdateStatusEffect DEF Swapped
    <3> QED
      BY <2>2, <2>4, <3>3, <3>4, <3>5, UpdateStatusEffect DEF EntryStep
  <2> QED
    BY <2>3, <2>4
<1>6. ASSUME NEW a \in Agents, RecvSwapProposal(a)
      PROVE  \A b \in Agents, j \in Ids : EntryStep(b, j)
  <2>1. PICK m \in Deliverable(a, "SwapProposal") : RecvSwapProposal(a)!(m)
    BY <1>6 DEF RecvSwapProposal
  <2>2. m \in ProposalMsg
    BY DeliveredType
  <2>3. m.id \in Ids /\ m.terms \in Terms /\ m.minRep \in MinReps
    BY <2>2 DEF ProposalMsg
  <2> DEFINE e == [terms |-> m.terms, minRep |-> m.minRep, status |-> Pending]
  <2>4. e # NoEntry /\ e.status = Pending
    BY <2>3, ProposalIsEntry
  <2>5. rcvd'[a] = rcvd[a] \cup {m}
    BY <2>1 DEF Handled, TypeOK
  <2>8. PICK d \in Decay :
          book' = IF Trusts(a, m.from, d) THEN [book EXCEPT ![a][m.id] = e] ELSE book
    BY <2>1
  <2>6. CASE Trusts(a, m.from, d)
    <3>1. book' = [book EXCEPT ![a][m.id] = e]
      BY <2>6, <2>8
    <3> HIDE DEF e
    <3>2. \A b \in Agents, j \in Ids : b # a \/ j # m.id => book'[b][j] = book[b][j]
      BY <2>3, <3>1 DEF TypeOK
    <3>3. book'[a][m.id] = e
      BY <2>3, <3>1 DEF TypeOK
    <3>4. Heard(a, m.id)
      BY <2>4, <2>5, <3>3 DEF Heard, Takes, Knows, Status
    <3> QED
      BY <3>2, <3>4 DEF EntryStep
  <2>7. CASE ~Trusts(a, m.from, d)
    BY <1>1, <2>7, <2>8
  <2> QED
    BY <2>6, <2>7
<1>7. ASSUME NEW a \in Agents, RecvSwapAcceptance(a)
      PROVE  \A b \in Agents, j \in Ids : EntryStep(b, j)
  <2>1. PICK m \in Deliverable(a, "SwapAcceptance") : RecvSwapAcceptance(a)!(m)
    BY <1>7 DEF RecvSwapAcceptance
  <2>2. m \in AcceptanceMsg /\ m \in msgs /\ m.kind = "SwapAcceptance"
    BY DeliveredType
  <2>3. m.id \in Ids /\ m.from \in Agents /\ Accepted(m.from) \in CoordinationStatus
    BY <2>2, StatusTypes DEF AcceptanceMsg
  <2>6. PICK d \in Decay :
          book' = IF Trusts(a, m.from, d)
                  THEN UpdateStatus(a, m.id, Accepted(m.from)) ELSE book
    BY <2>1
  <2>4. CASE Trusts(a, m.from, d)
    <3>1. book' = UpdateStatus(a, m.id, Accepted(m.from))
      BY <2>4, <2>6
    <3>3. Takes(a, m)
      BY <2>1 DEF Takes, Handled, TypeOK
    <3>2. Knows(a, m.id) => Told(a, m.id)
      BY <2>3, <3>1, <3>3, UpdateStatusEffect DEF Told
    <3> QED
      BY <2>3, <3>1, <3>2, UpdateStatusEffect DEF EntryStep
  <2>5. CASE ~Trusts(a, m.from, d)
    BY <1>1, <2>5, <2>6
  <2> QED
    BY <2>4, <2>5
<1>8. ASSUME NEW a \in Agents, RecvSwapFill(a)
      PROVE  \A b \in Agents, j \in Ids : EntryStep(b, j)
  <2>1. PICK m \in Deliverable(a, "SwapFill") : RecvSwapFill(a)!(m)
    BY <1>8 DEF RecvSwapFill
  <2>2. m \in FillMsg /\ m \in msgs /\ m.kind = "SwapFill"
    BY DeliveredType
  <2>3. m.id \in Ids /\ m.tx \in Tx
    BY <2>2 DEF FillMsg
  <2>4. CASE Knows(a, m.id)
    <3>1. book' = UpdateStatus(a, m.id, Filled(Status(a, m.id), m.tx))
      BY <2>1, <2>4
    <3>2. Status(a, m.id) \in CoordinationStatus
      BY <2>3, <2>4 DEF Knows, Status, TypeOK, SwapProposal
    <3>3. Filled(Status(a, m.id), m.tx) \in CoordinationStatus
      BY <2>3, <3>2, FilledType
    <3>5. Takes(a, m)
      BY <2>1 DEF Takes, Handled, TypeOK
    <3>4. Advanced(a, m.id)
      BY <2>3, <2>4, <3>1, <3>3, <3>5, UpdateStatusEffect DEF Advanced
    <3> QED
      BY <2>3, <3>1, <3>3, <3>4, UpdateStatusEffect DEF EntryStep
  <2>5. CASE ~Knows(a, m.id)
    BY <1>1, <2>1, <2>5
  <2> QED
    BY <2>4, <2>5
<1>9. ASSUME NEW a \in Agents, Refresh(a)
      PROVE  \A b \in Agents, j \in Ids : EntryStep(b, j)
  <2>1. ASSUME NEW b \in Agents, NEW j \in Ids, book'[b][j] # book[b][j]
        PROVE  Marked(b, j)
    <3>1. /\ b = a /\ Knows(a, j) /\ Idle(a) /\ IsExpired(a, j)
          /\ book'[a][j] = [book[a][j] EXCEPT !.status = Expired]
      BY <1>9, <2>1 DEF Refresh, NewlyExpired, TypeOK
    <3> QED
      BY <3>1, MarkingKeeps DEF Marked, Kept, Knows, Status
  <2> QED
    BY <2>1 DEF EntryStep
<1> QED
  BY <1>1, <1>2, <1>3, <1>4, <1>5, <1>6, <1>7, <1>8, <1>9
     DEF Next, vars, Tick, AnnounceIntent, Swap, CSwap, Defer, ExecuteUnreported,
         ExecuteFails, RejectConditions,
         RecvIdentityAttestation, RecvSwapIntent, RecvSwapExecuted

-----------------------------------------------------------------------------
(* Every transaction a fill or a status names was made by its filler.      *)

LEMMA TxOfStatuses ==
  /\ TxOf(Pending) = {} /\ TxOf(Expired) = {}
  /\ \A c : TxOf(Accepted(c)) = {}
  /\ \A t : TxOf(InitiatorExecuted(t)) = {t}
  /\ \A s, t : TxOf(Filled(s, t)) \subseteq TxOf(s) \cup {t}
<1>1. \A s, t : TxOf(Filled(s, t)) \subseteq TxOf(s) \cup {t}
  <2> TAKE s, t
  <2>1. CASE s.is = "Accepted"
    BY <2>1 DEF Filled, TxOf, InitiatorExecuted
  <2>2. CASE s.is = "InitiatorExecuted"
    BY <2>2 DEF Filled, TxOf, Completed
  <2>3. CASE s.is # "Accepted" /\ s.is # "InitiatorExecuted"
    BY <2>3 DEF Filled
  <2> QED
    BY <2>1, <2>2, <2>3
<1> QED
  BY <1>1 DEF TxOf, Pending, Expired, Accepted, InitiatorExecuted

FillBacked(m) == m.tx \in ledger /\ m.tx.for = m.id /\ m.tx.by = m.from

(* The ledger only grows, and a new fill is of a swap the step put there.  *)
LEMMA LedgerAndFills ==
  ASSUME TypeOK, [Next]_vars
  PROVE  /\ ledger \subseteq ledger'
         /\ \A m \in msgs' \ msgs : m.kind = "SwapFill" => FillBacked(m)'
<1>1. ASSUME UNCHANGED <<ledger, msgs>>
      PROVE  /\ ledger \subseteq ledger'
             /\ \A m \in msgs' \ msgs : m.kind = "SwapFill" => FillBacked(m)'
  BY <1>1
<1>2. ASSUME NEW a \in Agents, NEW t \in Terms, NEW r \in MinReps, Propose(a, t, r)
      PROVE  /\ ledger \subseteq ledger'
             /\ \A m \in msgs' \ msgs : m.kind # "SwapFill"
  BY <1>2 DEF Propose, Publish
<1>3. ASSUME NEW a \in Agents, NEW i \in Ids, Accept(a, i)
      PROVE  /\ ledger \subseteq ledger'
             /\ \A m \in msgs' \ msgs : m.kind # "SwapFill"
  BY <1>3 DEF Accept, Publish, Intent
<1>4. ASSUME NEW a \in Agents, NEW t \in Terms, NEW r \in MinReps, Defer(a, t, r)
      PROVE  /\ ledger \subseteq ledger'
             /\ \A m \in msgs' \ msgs : m.kind # "SwapFill"
  BY <1>4 DEF Defer, Publish, Intent
<1>6. ASSUME NEW a \in Agents, NEW t \in Terms, AnnounceIntent(a, t)
      PROVE  /\ ledger \subseteq ledger'
             /\ \A m \in msgs' \ msgs : m.kind # "SwapFill"
  BY <1>6 DEF AnnounceIntent, Publish, Intent
<1>7. ASSUME NEW a \in Agents, ExecuteUnreported(a)
      PROVE  /\ ledger \subseteq ledger'
             /\ \A m \in msgs' \ msgs : m.kind # "SwapFill"
  BY <1>7 DEF ExecuteUnreported
<1>5. ASSUME NEW a \in Agents, Execute(a)
      PROVE  /\ ledger \subseteq ledger'
             /\ \A m \in msgs' \ msgs : m.kind = "SwapFill" => FillBacked(m)'
  <2>1. PICK tx : tx = [by |-> a, nonce |-> nonce[a] + 1, for |-> pending[a].id]
    OBVIOUS
  <2>2. ledger' = ledger \cup {tx}
    BY <1>5, <2>1 DEF Execute
  <2>3. \A m \in msgs' \ msgs : m.kind = "SwapFill" =>
          m = [kind |-> "SwapFill", from |-> a, id |-> pending[a].id, tx |-> tx]
    BY <1>5, <2>1 DEF Execute, Publish
  <2>4. tx.by = a /\ tx.for = pending[a].id
    BY <2>1
  <2>5. ASSUME NEW m \in msgs' \ msgs, m.kind = "SwapFill"
        PROVE  m.tx \in ledger' /\ m.tx.for = m.id /\ m.tx.by = m.from
    <3>1. m.tx = tx /\ m.id = pending[a].id /\ m.from = a
      BY <2>3, <2>5
    <3> QED
      BY <2>2, <2>4, <3>1
  <2> QED
    BY <2>2, <2>5 DEF FillBacked
<1> QED
  BY <1>1, <1>2, <1>3, <1>4, <1>5, <1>6, <1>7, BoundsAssumption
     DEF Next, vars, Tick, Swap, CSwap, ListProposals, ExecuteFails, RejectConditions,
         RecvIdentityAttestation, RecvSwapProposal, RecvSwapAcceptance,
         RecvSwapIntent, RecvSwapExecuted, RecvSwapFill, Refresh

(* Whatever is lost, delayed or reordered, and whatever expires meanwhile, *)
(* an entry names only swaps made for its proposal, and a fill only the    *)
(* filler's own (the swap branch of execute_pending_swap).  Whether they   *)
(* succeeded, reverted or were simulated is not told.                      *)
THEOREM FillsAreBacked == Spec => []FillsBacked
<1>1. Init => FillsBacked
  BY DEF Init, FillsBacked, Attestation, Knows
<1>2. TypeOK /\ FillsBacked /\ [Next]_vars => FillsBacked'
  <2> SUFFICES ASSUME TypeOK, FillsBacked, [Next]_vars PROVE FillsBacked'
    OBVIOUS
  <2>1. ledger \subseteq ledger'
    BY LedgerAndFills
  <2>2. \A m \in msgs' : m.kind = "SwapFill" => FillBacked(m)'
    <3>1. \A m \in msgs : m.kind = "SwapFill" => FillBacked(m)'
      BY <2>1 DEF FillsBacked, FillBacked
    <3> QED
      BY <3>1, LedgerAndFills
  <2>3. ASSUME NEW a \in Agents, NEW i \in Ids, Knows(a, i)',
               NEW t \in TxOf(Status(a, i)')
        PROVE  t \in ledger' /\ t.for = i
    <3>1. CASE book'[a][i] = book[a][i]
      BY <2>1, <2>3, <3>1 DEF FillsBacked, Knows, Status
    <3>2. CASE Marked(a, i) \/ Taken(a, i) \/ Told(a, i) \/ Issued(a, i) \/ Heard(a, i)
      BY <2>3, <3>2, TxOfStatuses DEF Marked, Taken, Told, Issued, Heard
    <3>3. CASE Swapped(a, i)
      BY <2>3, <3>3, TxOfStatuses DEF Swapped
    <3>4. CASE Advanced(a, i)
      <4>1. PICK m \in msgs : /\ m.kind = "SwapFill" /\ m.id = i
                              /\ Status(a, i)' = Filled(Status(a, i), m.tx)
        BY <3>4, DeliveredType DEF Advanced
      <4>2. t \in TxOf(Status(a, i)) \/ t = m.tx
        BY <2>3, <4>1, TxOfStatuses
      <4> QED
        BY <2>1, <3>4, <4>1, <4>2 DEF Advanced, Kept, FillsBacked
    <3> QED
      BY <3>1, <3>2, <3>3, <3>4, BookChange DEF EntryStep
  <2> QED
    BY <2>2, <2>3 DEF FillsBacked, FillBacked, TxOf
<1> QED
  BY <1>1, <1>2, TypeCorrect, PTL DEF Spec

-----------------------------------------------------------------------------
(* With one proposal per second at most, an entry that left Pending never  *)
(* comes back to it, so accept works once.                                 *)

Left(a, i) == Knows(a, i) /\ Status(a, i) # Pending

(* Where an entry comes from: its initiator, or the one message there is   *)
(* with its id.                                                            *)
Origin ==
  /\ \A m \in msgs : m.kind = "SwapProposal" =>
       m.from = Initiator(m.id) /\ Knows(m.from, m.id)
  /\ \A m, n \in msgs :
       m.kind = "SwapProposal" /\ n.kind = "SwapProposal" /\ m.id = n.id => m = n
  /\ \A a \in Agents, i \in Ids : Knows(a, i) /\ a # Initiator(i) =>
       \E m \in msgs \cap rcvd[a] : m.kind = "SwapProposal" /\ m.id = i

LEMMA EntriesStay ==
  ASSUME TypeOK, [Next]_vars, NEW a \in Agents, NEW i \in Ids, Knows(a, i)
  PROVE  Knows(a, i)'
<1>1. CASE book'[a][i] = book[a][i]
  BY <1>1 DEF Knows
<1> QED
  BY <1>1, BookChange DEF EntryStep, Marked, Taken, Told, Swapped, Advanced,
     Issued, Heard, Kept

(* Messages and what was handled of them only grow; a new proposal message *)
(* is the proposer's own, about an entry it just made.                     *)
LEMMA Growth ==
  ASSUME TypeOK, [Next]_vars
  PROVE  /\ msgs \subseteq msgs'
         /\ \A a \in Agents : rcvd[a] \subseteq rcvd'[a]
         /\ \A m, n \in msgs' \ msgs :
              m.kind = "SwapProposal" /\ n.kind = "SwapProposal" => m = n
         /\ \A m \in msgs' \ msgs : m.kind = "SwapProposal" =>
              /\ m.from \in Agents /\ m.id \in Ids
              /\ m.from = Initiator(m.id) /\ Knows(m.from, m.id)'
              /\ SameSecond \/ ~Knows(m.from, m.id)
<1> DEFINE G ==
      /\ msgs \subseteq msgs'
      /\ \A a \in Agents : rcvd[a] \subseteq rcvd'[a]
      /\ \A m \in msgs' \ msgs : m.kind # "SwapProposal"
<1>1. CASE UNCHANGED <<msgs, rcvd>>
  BY <1>1
<1>2. ASSUME NEW a \in Agents, NEW t \in Terms, NEW r \in MinReps, Propose(a, t, r)
      PROVE  /\ msgs \subseteq msgs'
             /\ \A b \in Agents : rcvd[b] \subseteq rcvd'[b]
             /\ \A m, n \in msgs' \ msgs : m = n
             /\ \A m \in msgs' \ msgs :
                  /\ m.from \in Agents /\ m.id \in Ids
                  /\ m.from = Initiator(m.id) /\ Knows(m.from, m.id)'
                  /\ SameSecond \/ ~Knows(m.from, m.id)
  <2> DEFINE e == [terms |-> t, minRep |-> r, status |-> Pending]
  <2>1. Now(a) \in 0 .. MaxTime + MaxSkew
    BY BoundsAssumption DEF TypeOK, Now
  <2>2. PICK i \in Ids : i = <<a, Now(a)>>
    BY <2>1 DEF Ids
  <2>3. PICK p : p = [kind |-> "SwapProposal", from |-> a, id |-> i,
                      terms |-> t, minRep |-> r]
    OBVIOUS
  <2>4. msgs \subseteq msgs' /\ msgs' \ msgs \subseteq {p}
    BY <1>2, <2>2, <2>3 DEF Propose, Publish
  <2>5. p.from = a /\ p.id = i /\ Initiator(i) = a
    BY <2>2, <2>3 DEF Initiator
  <2>6. e # NoEntry
    BY ProposalIsEntry
  <2>7. book' = [book EXCEPT ![a][i] = e]
    BY <1>2, <2>2 DEF Propose
  <2> HIDE DEF e
  <2>8. Knows(a, i)'
    BY <2>6, <2>7 DEF Knows, TypeOK
  <2>9. SameSecond \/ ~Knows(a, i)
    BY <1>2, <2>2 DEF Propose
  <2>10. rcvd' = rcvd
    BY <1>2 DEF Propose
  <2>11. ASSUME NEW m \in msgs' \ msgs
         PROVE  /\ m.from \in Agents /\ m.id \in Ids
                /\ m.from = Initiator(m.id) /\ Knows(m.from, m.id)'
                /\ SameSecond \/ ~Knows(m.from, m.id)
    <3>1. m.from = a /\ m.id = i
      BY <2>4, <2>5
    <3> QED
      BY <2>5, <2>8, <2>9, <3>1 DEF Knows
  <2> QED
    BY <2>4, <2>10, <2>11
<1>3. ASSUME NEW a \in Agents, NEW i \in Ids, Accept(a, i)
      PROVE  G
  BY <1>3 DEF Accept, Publish, Intent
<1>4. ASSUME NEW a \in Agents, NEW t \in Terms, NEW r \in MinReps, Defer(a, t, r)
      PROVE  G
  BY <1>4 DEF Defer, Publish, Intent
<1>5. ASSUME NEW a \in Agents, Execute(a)
      PROVE  G
  BY <1>5 DEF Execute, Publish
<1>7. ASSUME NEW a \in Agents, NEW t \in Terms, AnnounceIntent(a, t)
      PROVE  G
  BY <1>7 DEF AnnounceIntent, Publish, Intent
<1>6. ASSUME NEW a \in Agents,
             \/ RecvIdentityAttestation(a) \/ RecvSwapProposal(a)
             \/ RecvSwapAcceptance(a) \/ RecvSwapIntent(a)
             \/ RecvSwapExecuted(a) \/ RecvSwapFill(a)
      PROVE  G
  <2>1. msgs' = msgs /\ \E m \in msgs : Handled(a, m)
    BY <1>6, DeliveredType
       DEF RecvIdentityAttestation, RecvSwapProposal, RecvSwapAcceptance,
           RecvSwapIntent, RecvSwapExecuted, RecvSwapFill
  <2>2. PICK m \in msgs : rcvd' = [rcvd EXCEPT ![a] = rcvd[a] \cup {m}]
    BY <2>1 DEF Handled
  <2>3. \A b \in Agents : rcvd[b] \subseteq rcvd'[b]
    BY <2>2 DEF TypeOK
  <2> QED
    BY <2>1, <2>3
<1> QED
  BY <1>1, <1>2, <1>3, <1>4, <1>5, <1>6, <1>7, BoundsAssumption
     DEF Next, vars, Tick, Swap, CSwap, ListProposals, ExecuteUnreported, ExecuteFails,
         RejectConditions, Refresh

LEMMA OriginHolds ==
  ASSUME ~SameSecond
  PROVE  Spec => []Origin
<1>1. Init => Origin
  BY DEF Init, Origin, Knows, Attestation
<1>2. TypeOK /\ Origin /\ [Next]_vars => Origin'
  <2> SUFFICES ASSUME TypeOK, Origin, [Next]_vars PROVE Origin'
    OBVIOUS
  <2>1. ASSUME NEW m \in msgs', m.kind = "SwapProposal"
        PROVE  m.from = Initiator(m.id) /\ Knows(m.from, m.id)'
    <3>1. CASE m \in msgs
      <4>1. m \in ProposalMsg
        BY <2>1, <3>1 DEF TypeOK, AgentMessage, AttestationMsg, ProposalMsg,
           AcceptanceMsg, IntentMsg, ExecutedMsg, FillMsg
      <4>2. m.from \in Agents /\ m.id \in Ids
        BY <4>1 DEF ProposalMsg
      <4> QED
        BY <2>1, <3>1, <4>2, EntriesStay DEF Origin
    <3>2. CASE m \notin msgs
      BY <2>1, <3>2, Growth
    <3> QED
      BY <3>1, <3>2
  <2>2. ASSUME NEW m \in msgs', NEW n \in msgs',
               m.kind = "SwapProposal", n.kind = "SwapProposal", m.id = n.id
        PROVE  m = n
    BY <2>2, Growth DEF Origin
  <2>3. ASSUME NEW a \in Agents, NEW i \in Ids, Knows(a, i)', a # Initiator(i)
        PROVE  \E m \in msgs' \cap rcvd'[a] : m.kind = "SwapProposal" /\ m.id = i
    <3>1. CASE Knows(a, i)
      BY <2>3, <3>1, Growth DEF Origin
    <3>2. CASE ~Knows(a, i)
      <4>1. Issued(a, i) \/ Heard(a, i)
        BY <2>3, <3>2, BookChange
           DEF EntryStep, Knows, Marked, Taken, Told, Swapped, Advanced, Kept
      <4>2. ~Issued(a, i)
        BY <2>3 DEF Issued, Initiator
      <4>3. PICK m \in Deliverable(a, "SwapProposal") :
              m.id = i /\ rcvd'[a] = rcvd[a] \cup {m}
        BY <4>1, <4>2 DEF Heard, Takes
      <4>4. m \in msgs /\ m.kind = "SwapProposal"
        BY <4>3, DeliveredType
      <4> QED
        BY <4>3, <4>4, Growth
    <3> QED
      BY <3>1, <3>2
  <2> QED
    BY <2>1, <2>2, <2>3 DEF Origin
<1> QED
  BY <1>1, <1>2, TypeCorrect, PTL DEF Spec

(* No step replaces an entry: neither the operator nor a peer issues its   *)
(* proposal again.                                                         *)
LEMMA NeverReplaced ==
  ASSUME ~SameSecond, TypeOK, Origin, [Next]_vars,
         NEW a \in Agents, NEW i \in Ids, Knows(a, i)
  PROVE  ~Issued(a, i) /\ ~Heard(a, i)
<1>1. ~Issued(a, i)
  BY DEF Issued
<1>2. ~Heard(a, i)
  <2> SUFFICES ASSUME NEW m \in Deliverable(a, "SwapProposal"), m.id = i
               PROVE  FALSE
    BY DEF Heard
  <2>1. m \in msgs /\ m.kind = "SwapProposal" /\ m.from # a
    BY DeliveredType
  <2>2. m.from = Initiator(i)
    BY <2>1 DEF Origin
  <2>3. PICK n \in msgs \cap rcvd[a] : n.kind = "SwapProposal" /\ n.id = i
    BY <2>1, <2>2 DEF Origin
  <2>4. m = n
    BY <2>1, <2>3 DEF Origin
  <2> QED
    BY <2>3, <2>4 DEF Deliverable
<1> QED
  BY <1>1, <1>2

(* No step puts a pending status in the place of another.                  *)
LEMMA LeftForGood ==
  ASSUME ~SameSecond, TypeOK, Origin, [Next]_vars,
         NEW a \in Agents, NEW i \in Ids, Left(a, i)
  PROVE  Left(a, i)'
<1>1. CASE book'[a][i] = book[a][i]
  BY <1>1 DEF Left, Knows, Status
<1>2. CASE Marked(a, i) \/ Taken(a, i) \/ Told(a, i) \/ Swapped(a, i)
  BY <1>2 DEF Marked, Taken, Told, Swapped, Kept, Left, Expired, Accepted,
     InitiatorExecuted, Pending
<1>3. CASE Advanced(a, i)
  <2>1. PICK m \in msgs : Status(a, i)' = Filled(Status(a, i), m.tx)
    BY <1>3, DeliveredType DEF Advanced
  <2>2. Filled(Status(a, i), m.tx) # Pending
    BY DEF Filled, Left, InitiatorExecuted, Completed, Pending
  <2> QED
    BY <1>3, <2>1, <2>2 DEF Advanced, Kept, Left
<1> QED
  BY <1>1, <1>2, <1>3, NeverReplaced, BookChange DEF EntryStep, Left

(* What the books of an agent say of its own commitments.                  *)
Once ==
  /\ \A t \in ledger : t.for # NoId =>
       Left(t.by, t.for) /\ ~Committed(t.by, t.for)
  /\ \A a \in Agents, i \in Ids : Committed(a, i) => Left(a, i)
  /\ \A m \in msgs : m.kind = "SwapAcceptance" => Left(m.from, m.id)
  /\ SwapOncePerProposal
  /\ AcceptanceBacked

(* How a step changes the commitments, the ledger and the acceptances.     *)
Quiet ==
  /\ ledger' = ledger
  /\ \A b \in Agents, j \in Ids : Committed(b, j)' => Committed(b, j)
  /\ \A m \in msgs' \ msgs : m.kind # "SwapAcceptance"

Commits(a, i) ==
  /\ ledger' = ledger
  /\ Accept(a, i) /\ Left(a, i)'
  /\ \A b \in Agents, j \in Ids :
       Committed(b, j)' => Committed(b, j) \/ (b = a /\ j = i)
  /\ \A m \in msgs' \ msgs : m.kind = "SwapAcceptance" => m.from = a /\ m.id = i

Delivers(a, i) ==
  /\ i # NoId => Committed(a, i)
  /\ Idle(a)'
  /\ \A b \in Agents, j \in Ids : Committed(b, j)' => Committed(b, j)
  /\ \E t : ledger' = ledger \cup {t} /\ t.by = a /\ t.for = i
  /\ \A m \in msgs' \ msgs : m.kind # "SwapAcceptance"

LEMMA CommitmentChange ==
  ASSUME TypeOK, [Next]_vars
  PROVE  \/ Quiet
         \/ \E a \in Agents, i \in Ids : Commits(a, i)
         \/ \E a \in Agents, i \in Ids \cup {NoId} : Delivers(a, i)
<1>1. CASE UNCHANGED <<ledger, pending, msgs>>
  BY <1>1 DEF Quiet, Committed, Idle
<1>2. ASSUME NEW a \in Agents, NEW t \in Terms, NEW r \in MinReps, Propose(a, t, r)
      PROVE  Quiet
  BY <1>2 DEF Quiet, Propose, Publish, Committed, Idle
<1>3. ASSUME NEW a \in Agents, NEW t \in Terms, NEW r \in MinReps, Defer(a, t, r)
      PROVE  Quiet
  <2>1. pending' = [pending EXCEPT ![a] = [id |-> NoId, terms |-> t, minRep |-> r]]
    BY <1>3 DEF Defer
  <2>2. \A b \in Agents, i \in Ids : Committed(b, i)' => Committed(b, i)
    BY <2>1, NullsAssumption DEF Committed, Idle, TypeOK
  <2> QED
    BY <1>3, <2>2 DEF Quiet, Defer, Publish, Intent
<1>4. ASSUME NEW a \in Agents, ExecuteFails(a) \/ RejectConditions(a)
      PROVE  Quiet
  <2>1. pending' = [pending EXCEPT ![a] = NoSwap] /\ ledger' = ledger /\ msgs' = msgs
    BY <1>4 DEF ExecuteFails, RejectConditions
  <2> QED
    BY <2>1 DEF Quiet, Committed, Idle, TypeOK
<1>5. ASSUME NEW a \in Agents, NEW i \in Ids, Accept(a, i)
      PROVE  Commits(a, i)
  <2>1. Left(a, i)'
    <3>1. book' = UpdateStatus(a, i, Accepted(a)) /\ Knows(a, i)
      BY <1>5 DEF Accept
    <3>2. Knows(a, i)' /\ Status(a, i)' = Accepted(a)
      BY <3>1, StatusTypes, UpdateStatusEffect DEF Kept
    <3> QED
      BY <3>2 DEF Left, Accepted, Pending
  <2>2. ASSUME NEW b \in Agents, NEW j \in Ids, Committed(b, j)', ~Committed(b, j)
        PROVE  b = a /\ j = i
    <3>1. pending' = [pending EXCEPT
            ![a] = [id |-> i, terms |-> book[a][i].terms, minRep |-> 0]]
      BY <1>5 DEF Accept
    <3> QED
      BY <2>2, <3>1 DEF Committed, Idle, TypeOK
  <2>3. \A m \in msgs' \ msgs :
          m.kind = "SwapAcceptance" => m.from = a /\ m.id = i
    BY <1>5 DEF Accept, Publish, Intent
  <2> QED
    BY <1>5, <2>1, <2>2, <2>3 DEF Commits, Accept
<1>6. ASSUME NEW a \in Agents, Execute(a) \/ ExecuteUnreported(a)
      PROVE  \E i \in Ids \cup {NoId} : Delivers(a, i)
  <2>1. ~Idle(a) /\ pending' = [pending EXCEPT ![a] = NoSwap]
    BY <1>6 DEF Execute, ExecuteUnreported
  <2>2. PICK i \in Ids \cup {NoId} : i = pending[a].id
    BY <2>1 DEF Idle, TypeOK, PendingSwap
  <2>3. PICK t : t = [by |-> a, nonce |-> nonce[a] + 1, for |-> i]
    OBVIOUS
  <2>4. ledger' = ledger \cup {t} /\ t.by = a /\ t.for = i
    BY <1>6, <2>2, <2>3 DEF Execute, ExecuteUnreported
  <2>5. \A m \in msgs' \ msgs : m.kind # "SwapAcceptance"
    BY <1>6 DEF Execute, ExecuteUnreported, Publish
  <2>6. /\ Idle(a)'
        /\ \A b \in Agents, j \in Ids : Committed(b, j)' => Committed(b, j)
    BY <2>1 DEF Committed, Idle, TypeOK
  <2>7. i # NoId => Committed(a, i)
    BY <2>1, <2>2 DEF Committed
  <2> QED
    BY <2>2, <2>4, <2>5, <2>6, <2>7 DEF Delivers
<1>7. ASSUME NEW a \in Agents, NEW t \in Terms, AnnounceIntent(a, t)
      PROVE  Quiet
  BY <1>7 DEF Quiet, AnnounceIntent, Publish, Intent, Committed, Idle
<1> QED
  BY <1>1, <1>2, <1>3, <1>4, <1>5, <1>6, <1>7, BoundsAssumption
     DEF Next, vars, Tick, Swap, CSwap, ListProposals, RecvIdentityAttestation,
         RecvSwapProposal,
         RecvSwapAcceptance, RecvSwapIntent, RecvSwapExecuted, RecvSwapFill, Refresh

LEMMA OnceHolds ==
  ASSUME ~SameSecond
  PROVE  Spec => []Once
<1>1. Init => Once
  BY DEF Init, Once, Committed, Idle, Knows, Attestation, SwapOncePerProposal,
     AcceptanceBacked
<1>2. TypeOK /\ TypeOK' /\ Origin /\ Once /\ [Next]_vars => Once'
  <2> SUFFICES ASSUME TypeOK, TypeOK', Origin, Once, [Next]_vars PROVE Once'
    OBVIOUS
  <2>1. ASSUME NEW t \in ledger', t.for # NoId
        PROVE  Left(t.by, t.for)' /\ ~Committed(t.by, t.for)'
    <3>1. t.by \in Agents /\ t.for \in Ids
      BY <2>1 DEF TypeOK, Tx
    <3>2. CASE t \in ledger
      <4>1. Left(t.by, t.for) /\ ~Committed(t.by, t.for)
        BY <2>1, <3>2 DEF Once
      <4>2. Left(t.by, t.for)'
        BY <3>1, <4>1, LeftForGood
      <4>3. \A a \in Agents, i \in Ids :
              Commits(a, i) => Knows(a, i) /\ Status(a, i) = Pending
        BY DEF Commits, Accept
      <4>4. ~Committed(t.by, t.for)'
        BY <3>1, <4>1, <4>3, CommitmentChange DEF Quiet, Commits, Delivers, Left
      <4> QED
        BY <4>2, <4>4
    <3>3. CASE t \notin ledger
      <4>1. Committed(t.by, t.for) /\ Idle(t.by)'
        BY <2>1, <3>3, CommitmentChange DEF Quiet, Commits, Delivers
      <4>2. Left(t.by, t.for)'
        BY <3>1, <4>1, LeftForGood DEF Once
      <4> QED
        BY <4>1, <4>2 DEF Committed
    <3> QED
      BY <3>2, <3>3
  <2>2. ASSUME NEW a \in Agents, NEW i \in Ids, Committed(a, i)'
        PROVE  Left(a, i)'
    <3>1. CASE Committed(a, i)
      BY <3>1, LeftForGood DEF Once
    <3>2. CASE ~Committed(a, i)
      BY <2>2, <3>2, CommitmentChange DEF Quiet, Commits, Delivers
    <3> QED
      BY <3>1, <3>2
  <2>3. ASSUME NEW m \in msgs', m.kind = "SwapAcceptance"
        PROVE  Left(m.from, m.id)'
    <3>1. CASE m \in msgs
      <4>1. m \in AcceptanceMsg
        BY <2>3, <3>1 DEF TypeOK, AgentMessage, AttestationMsg, ProposalMsg,
           AcceptanceMsg, IntentMsg, ExecutedMsg, FillMsg
      <4>2. m.from \in Agents /\ m.id \in Ids
        BY <4>1 DEF AcceptanceMsg
      <4> QED
        BY <2>3, <3>1, <4>2, LeftForGood DEF Once
    <3>2. CASE m \notin msgs
      <4>1. PICK a \in Agents, i \in Ids : Commits(a, i) /\ m.from = a /\ m.id = i
        BY <2>3, <3>2, CommitmentChange DEF Quiet, Commits, Delivers
      <4>2. Left(a, i)'
        BY <4>1 DEF Commits
      <4> QED
        BY <4>1, <4>2 DEF Left, Knows, Status
    <3> QED
      BY <3>1, <3>2
  <2>4. SwapOncePerProposal'
    <3> SUFFICES ASSUME NEW t \in ledger', NEW u \in ledger',
                        t.by = u.by, t.for = u.for, t.for # NoId
                 PROVE  t = u
      BY DEF SwapOncePerProposal
    <3>1. ASSUME NEW v \in ledger, v.for # NoId
          PROVE  ~Committed(v.by, v.for)
      BY <3>1 DEF Once
    <3>2. CASE t \in ledger /\ u \in ledger
      BY <3>2 DEF Once, SwapOncePerProposal
    <3>3. CASE t \notin ledger \/ u \notin ledger
      <4>1. PICK a \in Agents, i \in Ids \cup {NoId} : Delivers(a, i)
        BY <3>3, CommitmentChange DEF Quiet, Commits
      <4>2. PICK v : ledger' = ledger \cup {v} /\ v.by = a /\ v.for = i
        BY <4>1 DEF Delivers
      <4>3. i = t.for /\ a = t.by
        BY <3>3, <4>2
      <4>4. Committed(t.by, t.for)
        BY <4>1, <4>3 DEF Delivers
      <4> QED
        BY <3>1, <4>2, <4>4
    <3> QED
      BY <3>2, <3>3
  <2>5. AcceptanceBacked'
    <3> SUFFICES ASSUME NEW a \in Agents, NEW i \in Ids,
                        Knows(a, i)', Status(a, i)'.is = "Accepted"
                 PROVE  Left(Status(a, i).acceptor, i)'
      BY DEF AcceptanceBacked, Left, Knows, Status
    <3>1. CASE book'[a][i] = book[a][i]
      <4>1. PICK b : b = Status(a, i).acceptor /\ b = Status(a, i)'.acceptor
        BY <3>1 DEF Status
      <4>2. Knows(a, i) /\ Status(a, i).is = "Accepted"
        BY <3>1 DEF Knows, Status
      <4>3. Left(b, i)
        BY <4>1, <4>2 DEF Once, AcceptanceBacked, Left
      <4>4. b \in Agents
        <5>1. Status(a, i) \in CoordinationStatus
          BY <4>2 DEF Knows, Status, TypeOK, SwapProposal
        <5> QED
          BY <4>1, <4>2, <5>1 DEF CoordinationStatus
      <4>5. Left(b, i)'
        BY <4>3, <4>4, LeftForGood
      <4> QED
        BY <4>1, <4>5 DEF Left, Knows, Status
    <3>2. CASE Taken(a, i)
      <4>1. Left(a, i)'
        BY <3>2 DEF Taken, Kept, Left, Accepted, Pending
      <4>2. Status(a, i)'.acceptor = a
        BY <3>2 DEF Taken, Accepted
      <4> QED
        BY <4>1, <4>2 DEF Left, Knows, Status
    <3>3. CASE Told(a, i)
      <4>1. PICK m \in msgs : /\ m.kind = "SwapAcceptance" /\ m.id = i
                              /\ m.from \in Agents
                              /\ Status(a, i)' = Accepted(m.from)
        BY <3>3, DeliveredType DEF Told
      <4>2. Left(m.from, i)
        BY <4>1 DEF Once
      <4>3. Left(m.from, i)'
        BY <4>1, <4>2, LeftForGood
      <4>4. Status(a, i)'.acceptor = m.from
        BY <4>1 DEF Accepted
      <4> QED
        BY <4>3, <4>4 DEF Left, Knows, Status
    <3>4. ~Marked(a, i) /\ ~Swapped(a, i) /\ ~Issued(a, i) /\ ~Heard(a, i)
      BY DEF Marked, Swapped, Issued, Heard, Expired, Pending, InitiatorExecuted
    <3>5. ~Advanced(a, i)
      <4>1. \A s, t : Filled(s, t).is # "Accepted"
        BY DEF Filled, InitiatorExecuted, Completed
      <4> QED
        BY <4>1 DEF Advanced
    <3> QED
      BY <3>1, <3>2, <3>3, <3>4, <3>5, BookChange DEF EntryStep
  <2> QED
    BY <2>1, <2>2, <2>3, <2>4, <2>5 DEF Once
<1> QED
  BY <1>1, <1>2, TypeCorrect, OriginHolds, PTL DEF Spec

(* However acceptances, fills and expiries interleave, no agent swaps twice *)
(* for one proposal, if no two proposals share a second.                    *)
THEOREM SwapsOnce ==
  ASSUME ~SameSecond
  PROVE  Spec => []SwapOncePerProposal
<1>1. Once => SwapOncePerProposal
  BY DEF Once
<1> QED
  BY <1>1, OnceHolds, PTL

(* An entry that says an agent accepted is right about it: that agent's own *)
(* book has left Pending.                                                   *)
THEOREM AcceptancesAreReal ==
  ASSUME ~SameSecond
  PROVE  Spec => []AcceptanceBacked
<1>1. Once => AcceptanceBacked
  BY DEF Once
<1> QED
  BY <1>1, OnceHolds, PTL

-----------------------------------------------------------------------------
(* A completed entry speaks of two agents.                                 *)

FillHandled(a, t) ==
  \E m \in msgs \cap rcvd[a] : m.kind = "SwapFill" /\ m.tx = t

(* Of a first swap an entry knows because it is the agent's own, or from   *)
(* the fill it handled.                                                    *)
FirstSwapKnown ==
  \A a \in Agents, i \in Ids : Knows(a, i) /\ Status(a, i).is = "InitiatorExecuted" =>
    Status(a, i).tx.by = a \/ FillHandled(a, Status(a, i).tx)

(* There is one fill for a swap.                                           *)
LEMMA FillsDiffer ==
  ASSUME TypeOK, FillsBacked, SwapOncePerProposal,
         NEW m \in msgs, m.kind = "SwapFill", NEW n \in msgs, n.kind = "SwapFill",
         m.id = n.id, m.from = n.from
  PROVE  m = n
<1>1. \A k \in msgs : k.kind = "SwapFill" => k \in FillMsg
  BY DEF TypeOK, AgentMessage, AttestationMsg, ProposalMsg, AcceptanceMsg, IntentMsg,
     ExecutedMsg, FillMsg
<1>2. m.id # NoId
  BY <1>1, NullsAssumption DEF FillMsg
<1>3. m.tx = n.tx
  BY <1>2 DEF FillsBacked, SwapOncePerProposal
<1> QED
  BY <1>1, <1>3 DEF FillMsg

(* "Both sides executed": neither a fill that comes twice nor an agent's   *)
(* own fill completes an entry, so the two swaps are of two agents.        *)
THEOREM CompletedByTwo ==
  ASSUME ~SameSecond
  PROVE  Spec => []CompletedByTwoAgents
<1>1. Init => FirstSwapKnown /\ CompletedByTwoAgents
  BY DEF Init, FirstSwapKnown, CompletedByTwoAgents, Knows
<1>2. /\ TypeOK /\ FillsBacked /\ SwapOncePerProposal
      /\ FirstSwapKnown /\ CompletedByTwoAgents /\ [Next]_vars
      => FirstSwapKnown' /\ CompletedByTwoAgents'
  <2> SUFFICES ASSUME TypeOK, FillsBacked, SwapOncePerProposal, FirstSwapKnown,
                      CompletedByTwoAgents, [Next]_vars,
                      NEW a \in Agents, NEW i \in Ids, Knows(a, i)'
               PROVE  /\ Status(a, i)'.is = "InitiatorExecuted" =>
                           \/ Status(a, i)'.tx.by = a
                           \/ \E m \in msgs' \cap rcvd'[a] :
                                m.kind = "SwapFill" /\ m.tx = Status(a, i)'.tx
                      /\ Status(a, i)'.is = "Completed" =>
                           Status(a, i)'.txA.by # Status(a, i)'.txB.by
    BY DEF FirstSwapKnown, FillHandled, CompletedByTwoAgents
  <2>1. CASE Knows(a, i) /\ Status(a, i)' = Status(a, i)
    BY <2>1, Growth DEF FirstSwapKnown, FillHandled, CompletedByTwoAgents
  <2>2. CASE Marked(a, i) \/ Taken(a, i) \/ Told(a, i) \/ Issued(a, i) \/ Heard(a, i)
    BY <2>2 DEF Marked, Taken, Told, Issued, Heard, Expired, Accepted, Pending
  <2>3. CASE Swapped(a, i)
    BY <2>3 DEF Swapped, InitiatorExecuted
  <2>4. CASE Advanced(a, i)
    <3> DEFINE s == Status(a, i)
    <3>1. PICK m \in Deliverable(a, "SwapFill") :
            m.id = i /\ Takes(a, m) /\ Status(a, i)' = Filled(s, m.tx)
      BY <2>4 DEF Advanced
    <3>2. m \in msgs /\ m \notin rcvd[a] /\ m.kind = "SwapFill" /\ m.from # a
      BY DeliveredType DEF Deliverable
    <3>3. m.tx \in ledger /\ m.tx.for = i /\ m.tx.by = m.from
      BY <3>1, <3>2 DEF FillsBacked
    <3>4. CASE s.is = "Accepted"
      <4>1. Status(a, i)' = InitiatorExecuted(m.tx)
        BY <3>1, <3>4 DEF Filled
      <4>2. m \in msgs' \cap rcvd'[a]
        BY <3>1, <3>2, Growth DEF Takes
      <4> QED
        BY <3>2, <4>1, <4>2 DEF InitiatorExecuted
    <3>5. CASE s.is = "InitiatorExecuted"
      <4>1. Status(a, i)' = Completed(s.tx, m.tx)
        BY <3>1, <3>5 DEF Filled
      <4>2. s.tx.by # m.from
        <5>1. CASE s.tx.by = a
          BY <3>2, <5>1
        <5>2. CASE s.tx.by # a
          <6>1. PICK n \in msgs \cap rcvd[a] : n.kind = "SwapFill" /\ n.tx = s.tx
            BY <2>4, <3>5, <5>2 DEF FirstSwapKnown, FillHandled, Advanced, Kept
          <6>2. s.tx.for = i
            BY <2>4, <3>5 DEF FillsBacked, TxOf, Advanced, Kept
          <6>3. n.id = i /\ n.from = s.tx.by
            BY <6>1, <6>2 DEF FillsBacked
          <6>4. n # m
            BY <3>2, <6>1
          <6> QED
            BY <3>1, <3>2, <6>1, <6>3, <6>4, FillsDiffer
        <5> QED
          BY <5>1, <5>2
      <4> QED
        BY <3>3, <4>1, <4>2 DEF Completed
    <3>6. CASE s.is # "Accepted" /\ s.is # "InitiatorExecuted"
      <4>1. Status(a, i)' = s
        BY <3>1, <3>6 DEF Filled
      <4> QED
        BY <2>1, <2>4, <4>1 DEF Advanced, Kept
    <3> QED
      BY <3>4, <3>5, <3>6
  <2>5. CASE book'[a][i] = book[a][i]
    BY <2>1, <2>5 DEF Knows, Status
  <2> QED
    BY <2>2, <2>3, <2>4, <2>5, BookChange DEF EntryStep
<1> QED
  BY <1>1, <1>2, TypeCorrect, FillsAreBacked, SwapsOnce, PTL DEF Spec

-----------------------------------------------------------------------------
(* An accepted entry waits for its swap as it was accepted.                *)

(* The terms of an entry stand as long as the entry.                       *)
LEMMA TermsStand ==
  ASSUME ~SameSecond, TypeOK, Origin, [Next]_vars,
         NEW a \in Agents, NEW i \in Ids, Knows(a, i)
  PROVE  /\ Knows(a, i)'
         /\ book'[a][i].terms = book[a][i].terms
         /\ book'[a][i].minRep = book[a][i].minRep
<1>1. CASE book'[a][i] = book[a][i]
  BY <1>1 DEF Knows
<1> QED
  BY <1>1, NeverReplaced, BookChange
     DEF EntryStep, Marked, Taken, Told, Swapped, Advanced, Kept

(* While an agent has a swap pending nothing touches that swap or the      *)
(* agent's record of itself; a coordinated swap becomes pending by accept. *)
HeldOver(a) == pending'[a] = pending[a] /\ rep'[a][a] = rep[a][a]

PendingStep(a) ==
  \/ HeldOver(a)
  \/ Idle(a) /\ pending'[a] = pending[a]
  \/ Idle(a)'
  \/ ~Idle(a)' /\ pending'[a].id = NoId
  \/ \E i \in Ids : Accept(a, i)

LEMMA PendingChange ==
  ASSUME TypeOK, [Next]_vars, NEW a \in Agents
  PROVE  PendingStep(a)
<1> USE DEF PendingStep, HeldOver
<1>1. CASE UNCHANGED <<pending, rep>>
  BY <1>1
<1>2. ASSUME NEW b \in Agents, NEW t \in Terms, NEW r \in MinReps, Defer(b, t, r)
      PROVE  PendingStep(a)
  <2>1. CASE b = a
    <3>1. pending'[a] = [id |-> NoId, terms |-> t, minRep |-> r]
      BY <1>2, <2>1 DEF Defer, TypeOK
    <3> QED
      BY <3>1 DEF Idle
  <2>2. CASE b # a
    BY <1>2, <2>2 DEF Defer, TypeOK
  <2> QED
    BY <2>1, <2>2
<1>3. ASSUME NEW b \in Agents, NEW i \in Ids, Accept(b, i)
      PROVE  PendingStep(a)
  <2>1. CASE b = a
    BY <1>3, <2>1
  <2>2. CASE b # a
    BY <1>3, <2>2 DEF Accept, TypeOK
  <2> QED
    BY <2>1, <2>2
<1>4. ASSUME NEW b \in Agents,
             Execute(b) \/ ExecuteUnreported(b) \/ ExecuteFails(b) \/ RejectConditions(b)
      PROVE  PendingStep(a)
  <2>1. CASE b = a
    <3>1. pending'[a] = NoSwap
      BY <1>4, <2>1 DEF Execute, ExecuteUnreported, ExecuteFails, RejectConditions, TypeOK
    <3> QED
      BY <3>1 DEF Idle
  <2>2. CASE b # a
    BY <1>4, <2>2 DEF Execute, ExecuteUnreported, ExecuteFails, RejectConditions, TypeOK
  <2> QED
    BY <2>1, <2>2
<1>5. ASSUME NEW b \in Agents, NEW t \in Terms, AnnounceIntent(b, t)
      PROVE  PendingStep(a)
  BY <1>5 DEF AnnounceIntent, Idle, TypeOK
<1>6. ASSUME NEW b \in Agents,
             RecvIdentityAttestation(b) \/ RecvSwapIntent(b) \/ RecvSwapExecuted(b)
      PROVE  PendingStep(a)
  <2>1. pending' = pending
    BY <1>6 DEF RecvIdentityAttestation, RecvSwapIntent, RecvSwapExecuted
  <2>2. PICK m \in msgs : m.from # b /\ \E r : rep' = [rep EXCEPT ![b][m.from] = r]
    <3>1. \E k : \E m \in Deliverable(b, k) :
            \E r : rep' = [rep EXCEPT ![b][m.from] = r]
      BY <1>6 DEF RecvIdentityAttestation, RecvSwapIntent, RecvSwapExecuted
    <3> QED
      BY <3>1, DeliveredType
  <2> QED
    BY <2>1, <2>2 DEF TypeOK
<1>7. ASSUME NEW b \in Agents, Refresh(b)
      PROVE  PendingStep(a)
  <2>1. pending' = pending /\ Idle(b)
    BY <1>7 DEF Refresh
  <2>2. b # a => rep'[a] = rep[a]
    BY <1>7 DEF Refresh, PenaltiesOfRefresh, TypeOK
  <2> QED
    BY <2>1, <2>2
<1> QED
  BY <1>1, <1>2, <1>3, <1>4, <1>5, <1>6, <1>7, BoundsAssumption
     DEF Next, vars, Tick, Propose, Swap, CSwap, ListProposals, RecvSwapProposal,
         RecvSwapAcceptance, RecvSwapFill

(* A score is a number, and what it has lost by decay only lowers it.      *)
LEMMA ScoreIsNumber ==
  ASSUME NEW r \in PeerReputation
  PROVE  CompositeScore(r, Recent) \in Nat
<1>1. /\ r.swaps \in Nat /\ r.intents \in Nat /\ r.lastActive \in Nat
      /\ r.invalid \in Nat /\ r.unfollowed \in Nat /\ r.expired \in Nat
      /\ r.verified \in BOOLEAN
  BY DEF PeerReputation
<1>2. RecencyScore(r, Recent) \in Int
  <2>1. Len(RecencyTable) = 8 /\ RecencyTable[1] = 1500 /\ RecencyTable[2] = 750
    BY DEF RecencyTable
  <2>2. CASE r.lastActive = 0
    BY <2>2 DEF RecencyScore
  <2>3. CASE r.lastActive > 0
    BY <1>1, <2>1, <2>3 DEF RecencyScore, Recent
  <2> QED
    BY <1>1, <2>2, <2>3
<1>3. FollowThrough(r) \in Int
  <2>1. CASE r.intents = 0
    BY <2>1 DEF FollowThrough, WEIGHT_FOLLOW_THROUGH
  <2>2. CASE r.intents # 0
    <3> DEFINE top == 2500 * (IF r.swaps <= r.intents THEN r.swaps ELSE r.intents)
    <3>1. top \in Int
      BY <1>1
    <3>2. FollowThrough(r) = top \div r.intents
      BY <2>2 DEF FollowThrough, WEIGHT_FOLLOW_THROUGH
    <3> HIDE DEF top
    <3> QED
      BY <1>1, <2>2, <3>1, <3>2
  <2> QED
    BY <2>1, <2>2
<1>4. PenaltyScore(r) \in Int
  BY <1>1 DEF PenaltyScore, PENALTY_INVALID_MESSAGE, PENALTY_UNFOLLOWED_INTENT,
              PENALTY_EXPIRED_PROPOSAL, MAX_PENALTY
<1>5. BaseScore(r, Recent) \in Int
  <2>1. (WEIGHT_SWAP_COUNT \div MAX_SWAP_COUNT) = 80
    BY DEF WEIGHT_SWAP_COUNT, MAX_SWAP_COUNT
  <2> QED
    BY <1>1, <1>2, <1>3, <2>1 DEF BaseScore, WEIGHT_IDENTITY, MAX_SWAP_COUNT
<1> QED
  BY <1>4, <1>5 DEF CompositeScore

LEMMA DecayLowers ==
  ASSUME TypeOK, NEW a \in Agents, NEW p \in Agents, NEW d \in Decay, NEW n \in Nat,
         Score(a, p, d) >= n
  PROVE  Score(a, p, 0) >= n
<1> DEFINE full == CompositeScore(rep[a][p], Recent)
<1>1. full \in Nat
  BY ScoreIsNumber DEF TypeOK
<1>2. d \in Nat
  BY BoundsAssumption DEF Decay
<1>3. Score(a, p, d) = IF d < full THEN full - d ELSE 0
  BY DEF Score
<1>4. Score(a, p, 0) = IF 0 < full THEN full - 0 ELSE 0
  BY DEF Score
<1> HIDE DEF full
<1> QED
  BY <1>1, <1>2, <1>3, <1>4

(* An entry its agent is committed to is neither reopened nor expired.     *)
LEMMA StaysTaken ==
  ASSUME ~SameSecond, TypeOK, Origin, [Next]_vars,
         NEW a \in Agents, NEW i \in Ids, Knows(a, i), ~Idle(a),
         Status(a, i) \notin {Pending, Expired}
  PROVE  Status(a, i)' \notin {Pending, Expired}
<1> USE DEF Pending, Expired, Accepted, InitiatorExecuted, Completed
<1>1. CASE book'[a][i] = book[a][i]
  BY <1>1 DEF Status
<1>2. CASE Told(a, i) \/ Swapped(a, i)
  BY <1>2 DEF Told, Swapped
<1>3. CASE Advanced(a, i)
  <2>1. PICK m : Status(a, i)' = Filled(Status(a, i), m.tx)
    BY <1>3 DEF Advanced
  <2> QED
    BY <2>1 DEF Filled
<1>4. ~Marked(a, i) /\ ~Taken(a, i)
  BY DEF Marked, Taken, Accept
<1> QED
  BY <1>1, <1>2, <1>3, <1>4, NeverReplaced, BookChange DEF EntryStep

(* A swap waits up to half a second for its execution, and gossip is       *)
(* handled meanwhile: the entry it was accepted for keeps its terms, is    *)
(* neither reopened nor marked expired, and nothing but the decay of       *)
(* recency lowers the acceptor's score below the entry's gate.             *)
THEOREM PendingStands ==
  ASSUME ~SameSecond
  PROVE  Spec => []PendingAsAccepted
<1>1. Init => PendingAsAccepted
  BY DEF Init, PendingAsAccepted, Idle
<1>2. TypeOK /\ TypeOK' /\ Origin /\ PendingAsAccepted /\ [Next]_vars => PendingAsAccepted'
  <2> SUFFICES ASSUME TypeOK, TypeOK', Origin, PendingAsAccepted, [Next]_vars,
                      NEW a \in Agents, ~Idle(a)', pending'[a].id # NoId
               PROVE  /\ Knows(a, pending[a].id)'
                      /\ book'[a][pending'[a].id].status \notin {Pending, Expired}
                      /\ pending'[a].terms = book'[a][pending'[a].id].terms
                      /\ Score(a, a, 0)' >= book'[a][pending'[a].id].minRep
    BY DEF PendingAsAccepted
  <2>1. PICK i \in Ids : i = pending'[a].id
    BY DEF TypeOK, Idle, PendingSwap
  <2>2. CASE HeldOver(a)
    <3>1. ~Idle(a) /\ pending[a].id = i
      BY <2>1, <2>2 DEF HeldOver, Idle
    <3>2. /\ Knows(a, i) /\ pending[a].terms = book[a][i].terms
          /\ Status(a, i) \notin {Pending, Expired}
          /\ Score(a, a, 0) >= book[a][i].minRep
      BY <3>1, NullsAssumption DEF PendingAsAccepted, Status
    <3>3. Score(a, a, 0)' = Score(a, a, 0)
      BY <2>2 DEF HeldOver, Score
    <3>4. Status(a, i)' \notin {Pending, Expired}
      BY <3>1, <3>2, StaysTaken
    <3> QED
      BY <2>1, <2>2, <3>2, <3>3, <3>4, TermsStand DEF HeldOver, Knows, Status
  <2>3. CASE \E j \in Ids : Accept(a, j)
    <3>1. PICK j \in Ids : Accept(a, j)
      BY <2>3
    <3>2. /\ Knows(a, j)
          /\ book' = UpdateStatus(a, j, Accepted(a))
          /\ rep' = rep
          /\ pending' = [pending EXCEPT
               ![a] = [id |-> j, terms |-> book[a][j].terms, minRep |-> 0]]
      BY <3>1 DEF Accept
    <3>3. pending'[a] = [id |-> j, terms |-> book[a][j].terms, minRep |-> 0]
      BY <3>2 DEF TypeOK
    <3>4. i = j /\ pending'[a].terms = book[a][j].terms
      BY <2>1, <3>3
    <3>5. Score(a, a, 0)' = Score(a, a, 0)
      BY <3>2 DEF Score
    <3>6. Status(a, j)' = Accepted(a)
      BY <3>2, StatusTypes, UpdateStatusEffect
    <3>7. PICK d \in Decay : Score(a, a, d) >= book[a][j].minRep
      BY <3>1 DEF Accept
    <3>8. book[a][j].minRep \in Nat
      <4>1. book[a][j] \in SwapProposal
        BY <3>2 DEF Knows, TypeOK
      <4> QED
        BY <4>1, BoundsAssumption DEF SwapProposal
    <3>9. Score(a, a, 0) >= book[a][j].minRep
      BY <3>7, <3>8, DecayLowers
    <3>10. book'[a][i].status \notin {Pending, Expired}
      BY <3>4, <3>6 DEF Status, Accepted, Pending, Expired
    <3>11. /\ Knows(a, i)' /\ book'[a][i].terms = book[a][i].terms
           /\ book'[a][i].minRep = book[a][i].minRep
      BY <3>2, <3>4, TermsStand
    <3> QED
      BY <2>1, <3>4, <3>5, <3>9, <3>10, <3>11 DEF Knows
  <2>4. CASE Idle(a) /\ pending'[a] = pending[a]
    BY <2>4 DEF Idle
  <2>5. PendingStep(a)
    BY PendingChange
  <2> QED
    BY <2>1, <2>2, <2>3, <2>4, <2>5, NullsAssumption DEF PendingStep
<1> QED
  BY <1>1, <1>2, TypeCorrect, OriginHolds, PTL DEF Spec

-----------------------------------------------------------------------------
(* "Both sides executed successfully" (coordination.rs) is what Completed  *)
(* means as long as the initiator has a single peer: it takes a third      *)
(* agent to complete a proposal without the initiator's swap.              *)
THEOREM BothSidesExecuted ==
  ASSUME ~SameSecond, NEW b, NEW c, Agents = {b, c}
  PROVE  Spec => []CompletedMeansInitiatorSwapped
<1>1. TypeOK /\ FillsBacked /\ CompletedByTwoAgents => CompletedMeansInitiatorSwapped
  <2> SUFFICES ASSUME TypeOK, FillsBacked, CompletedByTwoAgents,
                      NEW a \in Agents, NEW i \in Ids,
                      Knows(a, i), Status(a, i).is = "Completed"
               PROVE  Initiator(i) \in {t.by : t \in TxOf(Status(a, i))}
    BY DEF CompletedMeansInitiatorSwapped
  <2> DEFINE s == Status(a, i)
  <2>1. TxOf(s) = {s.txA, s.txB}
    BY DEF TxOf
  <2>2. s.txA \in Tx /\ s.txB \in Tx
    BY <2>1 DEF FillsBacked, TypeOK
  <2>3. s.txA.by \in {b, c} /\ s.txB.by \in {b, c}
    BY <2>2 DEF Tx
  <2>4. s.txA.by # s.txB.by
    BY DEF CompletedByTwoAgents
  <2>5. Initiator(i) \in {b, c}
    BY DEF Ids, Initiator
  <2> QED
    BY <2>1, <2>3, <2>4, <2>5
<1> QED
  BY <1>1, TypeCorrect, FillsAreBacked, CompletedByTwo, PTL
===============================================================================
