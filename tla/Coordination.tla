----------------------------- MODULE Coordination -----------------------------
(***************************************************************************)
(* Coordinated swaps between agents: the commands propose, accept,         *)
(* proposals, swap and cswap of agent/src/main.rs, the pending swap of its *)
(* main loop, the gossip handlers that keep a CoordinationBook and a       *)
(* ReputationStore on every agent, and the 30-second refresh.              *)
(*                                                                         *)
(* An agent is one task: an action below is one pass of its main loop, or  *)
(* one event handled in the 500 ms flush window that a pending swap waits  *)
(* for.  Commands and the refresh run only when no swap is pending.        *)
(***************************************************************************)
EXTENDS Integers, FiniteSets, Gossip, Reputation

CONSTANTS
  Proposers,        \* the agents whose operator issues proposals,
  Acceptors,        \* and those whose operator accepts them
  Terms,            \* directions and amounts of a swap
  MinReps,          \* values of --min-rep; 0 stands for none
  Acquainted,       \* <<a, p>>: a verified p's attestation before the start
  SameSecond,       \* may an operator issue two proposals within one second?
  ProposalExpiry,   \* PROPOSAL_EXPIRY_SECS, in units of time
  MaxTime, MaxSkew, \* bounds: the horizon, and how far clocks differ
  MaxProposals,     \* bound: proposals per agent
  MaxSwaps,         \* bound: swaps made per agent
  MaxIntents,       \* bound: swap and cswap commands per agent
  MaxDecay,         \* bound: what recency loses after the last activity
  NoEntry, NoSwap, NoId

VARIABLES
  time,     \* real time
  skew,     \* skew[a]: what a's SystemTime::now() is ahead of real time
  book,     \* book[a][i]: a's CoordinationBook
  rep,      \* rep[a][p]: a's ReputationStore
  pending,  \* pending[a]: the PendingSwap of a's main loop
  ledger,   \* the swaps made: mined, succeeded or reverted alike, or simulated
  nonce     \* nonce[a]: how many of them are a's

vars == <<time, skew, book, rep, pending, msgs, rcvd, ledger, nonce>>

-----------------------------------------------------------------------------
(* Proposals are named by their initiator and the second they were made,   *)
(* and expire a fixed time after that second.                              *)
Ids == Agents \X (0 .. MaxTime + MaxSkew)
Initiator(i) == i[1]
ExpiresAt(i) == i[2] + ProposalExpiry

Tx == [by : Agents, nonce : Nat, for : Ids \cup {NoId}]

Pending               == [is |-> "Pending"]
Accepted(acceptor)    == [is |-> "Accepted", acceptor |-> acceptor]
InitiatorExecuted(tx) == [is |-> "InitiatorExecuted", tx |-> tx]
Completed(txA, txB)   == [is |-> "Completed", txA |-> txA, txB |-> txB]
Expired               == [is |-> "Expired"]

CoordinationStatus ==
  [is : {"Pending", "Expired"}]
    \cup [is : {"Accepted"}, acceptor : Agents]
    \cup [is : {"InitiatorExecuted"}, tx : Tx]
    \cup [is : {"Completed"}, txA : Tx, txB : Tx]

SwapProposal == [terms : Terms, minRep : MinReps, status : CoordinationStatus]
PendingSwap  == [id : Ids \cup {NoId}, terms : Terms, minRep : MinReps]

AttestationMsg == [kind : {"IdentityAttestation"}, from : Agents]
ProposalMsg    == [kind : {"SwapProposal"}, from : Agents, id : Ids,
                   terms : Terms, minRep : MinReps]
AcceptanceMsg  == [kind : {"SwapAcceptance"}, from : Agents, id : Ids]
IntentMsg      == [kind : {"SwapIntent"}, from : Agents, terms : Terms, at : Nat]
ExecutedMsg    == [kind : {"SwapExecuted"}, from : Agents, tx : Tx]
FillMsg        == [kind : {"SwapFill"}, from : Agents, id : Ids, tx : Tx]
AgentMessage   == AttestationMsg \cup ProposalMsg \cup AcceptanceMsg
                    \cup IntentMsg \cup ExecutedMsg \cup FillMsg

Attestation(a) == [kind |-> "IdentityAttestation", from |-> a]
Intent(a, t)   == [kind |-> "SwapIntent", from |-> a, terms |-> t,
                   at |-> time + skew[a]]

ASSUME AgentsAssumption ==
  /\ IsFiniteSet(Agents)
  /\ Proposers \subseteq Agents /\ Acceptors \subseteq Agents
  /\ Acquainted \subseteq Agents \X Agents
ASSUME BoundsAssumption ==
  /\ MinReps \subseteq Nat /\ 0 \in MinReps
  /\ ProposalExpiry \in Nat
  /\ MaxTime \in Nat /\ MaxSkew \in Nat /\ MaxDecay \in Nat
ASSUME NullsAssumption ==
  /\ NoEntry \notin SwapProposal
  /\ NoSwap \notin PendingSwap
  /\ NoId \notin Ids

-----------------------------------------------------------------------------
(* Recency decays by whole seconds.  All activity falls in the current     *)
(* half-life, and a score read later has lost up to MaxDecay of it, in     *)
(* units of 1/10000: nothing in the same second, 1 for the next 83.        *)
Recent == 1
Decay  == 0 .. MaxDecay

Now(a) == time + skew[a]

Score(a, p, d) ==
  LET full == CompositeScore(rep[a][p], Recent) IN IF d < full THEN full - d ELSE 0

Trusts(a, p, d) == TrustLevel(Score(a, p, d)) # "Unknown"

IsExpired(a, i) == Now(a) > ExpiresAt(i)

Knows(a, i)  == book[a][i] # NoEntry
Status(a, i) == book[a][i].status

(* update_status: nothing happens to an id the book does not hold.         *)
UpdateStatus(a, i, s) ==
  [book EXCEPT ![a][i] = IF @ = NoEntry THEN NoEntry ELSE [@ EXCEPT !.status = s]]

Init ==
  /\ time = 0
  /\ skew \in [Agents -> 0 .. MaxSkew]
  /\ book = [a \in Agents |-> [i \in Ids |-> NoEntry]]
  /\ rep = [a \in Agents |-> [p \in Agents |->
             IF p = a \/ <<a, p>> \in Acquainted
             THEN SetVerified(NewReputation, Recent) ELSE NewReputation]]
  /\ pending = [a \in Agents |-> NoSwap]
  /\ msgs = {m \in {Attestation(a) : a \in Agents} : m.kind \in Carried}
  /\ rcvd = [a \in Agents |->
               {Attestation(p) : p \in {q \in Agents : <<a, q>> \in Acquainted}}]
  /\ ledger = {}
  /\ nonce = [a \in Agents |-> 0]

-----------------------------------------------------------------------------
(* Commands.                                                               *)

Idle(a) == pending[a] = NoSwap

Proposed(a) == {i \in Ids : Initiator(i) = a /\ Knows(a, i)}

(* propose: a new id every second; a second proposal in the same second    *)
(* replaces the entry of the first.  The horizon leaves time to expire.    *)
Propose(a, t, r) ==
  LET i == <<a, Now(a)>>
  IN  /\ Idle(a)
      /\ a \in Proposers
      /\ Cardinality(Proposed(a) \ {i}) < MaxProposals
      /\ time + ProposalExpiry + MaxSkew < MaxTime
      /\ SameSecond \/ ~Knows(a, i)
      /\ book' = [book EXCEPT
           ![a][i] = [terms |-> t, minRep |-> r, status |-> Pending]]
      /\ Publish({[kind |-> "SwapProposal", from |-> a, id |-> i,
                   terms |-> t, minRep |-> r]})
      /\ UNCHANGED <<time, skew, rep, pending, rcvd, ledger, nonce>>

(* accept: gated by the acceptor's own score.  The intent it publishes is  *)
(* not recorded in its own store, unlike that of swap and cswap.           *)
AcceptUnlessExpired(a, i) ==
  /\ Idle(a)
  /\ a \in Acceptors
  /\ nonce[a] < MaxSwaps
  /\ Knows(a, i) /\ Status(a, i) # Expired
  /\ ~IsExpired(a, i)
  /\ book' = UpdateStatus(a, i, Accepted(a))
  /\ pending' = [pending EXCEPT
       ![a] = [id |-> i, terms |-> book[a][i].terms, minRep |-> 0]]
  /\ UNCHANGED <<time, skew, rep, msgs, rcvd, ledger, nonce>>

Accept(a, i) ==
  /\ Idle(a)
  /\ a \in Acceptors
  /\ nonce[a] < MaxSwaps
  /\ Knows(a, i) /\ Status(a, i) = Pending
  /\ ~IsExpired(a, i)
  /\ \E d \in Decay : Score(a, a, d) >= book[a][i].minRep
  /\ book' = UpdateStatus(a, i, Accepted(a))
  /\ Publish({[kind |-> "SwapAcceptance", from |-> a, id |-> i],
               Intent(a, book[a][i].terms)})
  /\ pending' = [pending EXCEPT
       ![a] = [id |-> i, terms |-> book[a][i].terms, minRep |-> 0]]
  /\ UNCHANGED <<time, skew, rep, rcvd, ledger, nonce>>

(* intent: announced and recorded, and no swap follows.                    *)
AnnounceIntent(a, t) ==
  /\ Idle(a)
  /\ rep[a][a].intents < MaxIntents
  /\ Publish({Intent(a, t)})
  /\ rep' = [rep EXCEPT ![a][a] = RecordIntent(@, Recent)]
  /\ UNCHANGED <<time, skew, book, pending, rcvd, ledger, nonce>>

(* Publish and record the intent, then defer the swap.                     *)
Defer(a, t, r) ==
  /\ Idle(a)
  /\ nonce[a] < MaxSwaps
  /\ rep[a][a].intents < MaxIntents
  /\ Publish({Intent(a, t)})
  /\ rep' = [rep EXCEPT ![a][a] = RecordIntent(@, Recent)]
  /\ pending' = [pending EXCEPT ![a] = [id |-> NoId, terms |-> t, minRep |-> r]]
  /\ UNCHANGED <<time, skew, book, rcvd, ledger, nonce>>

(* swap and swap-b, for either pool, are unconditional; cswap may carry    *)
(* --min-rep.  A price bound that does not parse fails every time, as a    *)
(* --min-rep above every score does; one that does is not looked at again. *)
Swap(a, t)     == Defer(a, t, 0)
CSwap(a, t, r) == Defer(a, t, r)

(* proposals: cleanup_expired marks everything past its time, and nobody   *)
(* is penalised for it.                                                    *)
ListProposals(a) ==
  /\ Idle(a)
  /\ book' = [book EXCEPT ![a] = [i \in Ids |->
       IF Knows(a, i) /\ IsExpired(a, i)
       THEN [book[a][i] EXCEPT !.status = Expired] ELSE book[a][i]]]
  /\ UNCHANGED <<time, skew, rep, pending, msgs, rcvd, ledger, nonce>>

-----------------------------------------------------------------------------
(* The pending swap.                                                       *)

MeetsConditions(a) == \E d \in Decay : Score(a, a, d) >= pending[a].minRep
FailsConditions(a) == \E d \in Decay : Score(a, a, d) < pending[a].minRep

(* The swap goes through: a transaction with a receipt, or a simulated     *)
(* one, is announced and recorded.  Nobody looks at the receipt's status,  *)
(* so a reverted swap goes through as well.                                *)
Execute(a) ==
  LET i  == pending[a].id
      tx == [by |-> a, nonce |-> nonce[a] + 1, for |-> i]
  IN  /\ ~Idle(a)
      /\ MeetsConditions(a)
      /\ ledger' = ledger \cup {tx}
      /\ nonce' = [nonce EXCEPT ![a] = @ + 1]
      /\ rep' = [rep EXCEPT ![a][a] = RecordSwap(@, Recent)]
      /\ Publish({[kind |-> "SwapExecuted", from |-> a, tx |-> tx]}
                   \cup (IF i = NoId THEN {} ELSE
                         {[kind |-> "SwapFill", from |-> a, id |-> i, tx |-> tx]}))
      /\ book' = IF i = NoId THEN book
                 ELSE UpdateStatus(a, i, InitiatorExecuted(tx))
      /\ pending' = [pending EXCEPT ![a] = NoSwap]
      /\ UNCHANGED <<time, skew, rcvd>>

(* The swap is mined, but asking for its receipt or for the balance after  *)
(* it fails: nobody is told, the agent itself included.                    *)
ExecuteUnreported(a) ==
  /\ ~Idle(a)
  /\ MeetsConditions(a)
  /\ ledger' = ledger \cup
       {[by |-> a, nonce |-> nonce[a] + 1, for |-> pending[a].id]}
  /\ nonce' = [nonce EXCEPT ![a] = @ + 1]
  /\ pending' = [pending EXCEPT ![a] = NoSwap]
  /\ UNCHANGED <<time, skew, book, rep, msgs, rcvd>>

(* The swap fails: no message says so, and the book keeps its status.      *)
ExecuteFailsAnnounced(a) ==
  LET tx == [by |-> a, nonce |-> nonce[a] + 1, for |-> pending[a].id]
  IN  /\ ~Idle(a) /\ pending[a].id # NoId
      /\ Publish({[kind |-> "SwapFill", from |-> a, id |-> pending[a].id, tx |-> tx]})
      /\ pending' = [pending EXCEPT ![a] = NoSwap]
      /\ UNCHANGED <<time, skew, book, rep, rcvd, ledger, nonce>>

ExecuteFails(a) ==
  /\ ~Idle(a)
  /\ MeetsConditions(a)
  /\ pending' = [pending EXCEPT ![a] = NoSwap]
  /\ UNCHANGED <<time, skew, book, rep, msgs, rcvd, ledger, nonce>>

(* A cswap whose own-score condition does not hold is dropped.             *)
RejectConditions(a) ==
  /\ ~Idle(a)
  /\ FailsConditions(a)
  /\ pending' = [pending EXCEPT ![a] = NoSwap]
  /\ UNCHANGED <<time, skew, book, rep, msgs, rcvd, ledger, nonce>>

-----------------------------------------------------------------------------
(* Gossip handlers.                                                        *)

RecvIdentityAttestation(a) ==
  \E m \in Deliverable(a, "IdentityAttestation") :
    /\ Handled(a, m)
    /\ rep' = [rep EXCEPT ![a][m.from] = SetVerified(@, Recent)]
    /\ UNCHANGED <<time, skew, book, pending, msgs, ledger, nonce>>

(* An unknown initiator's proposal is dropped; any other replaces whatever *)
(* the book holds under its id.                                            *)
RecvSwapProposal(a) ==
  \E m \in Deliverable(a, "SwapProposal") :
    /\ Handled(a, m)
    /\ \E d \in Decay :
         book' = IF Trusts(a, m.from, d)
                 THEN [book EXCEPT ![a][m.id] =
                        [terms |-> m.terms, minRep |-> m.minRep, status |-> Pending]]
                 ELSE book
    /\ UNCHANGED <<time, skew, rep, pending, msgs, ledger, nonce>>

(* The status becomes Accepted whatever it was before, even Expired.       *)
RecvSwapAcceptance(a) ==
  \E m \in Deliverable(a, "SwapAcceptance") :
    /\ Handled(a, m)
    /\ \E d \in Decay :
         book' = IF Trusts(a, m.from, d)
                 THEN UpdateStatus(a, m.id, Accepted(m.from)) ELSE book
    /\ UNCHANGED <<time, skew, rep, pending, msgs, ledger, nonce>>

RecvSwapIntent(a) ==
  \E m \in Deliverable(a, "SwapIntent") :
    /\ Handled(a, m)
    /\ rep' = [rep EXCEPT ![a][m.from] = RecordIntent(@, Recent)]
    /\ UNCHANGED <<time, skew, book, pending, msgs, ledger, nonce>>

RecvSwapExecuted(a) ==
  \E m \in Deliverable(a, "SwapExecuted") :
    /\ Handled(a, m)
    /\ rep' = [rep EXCEPT ![a][m.from] = RecordSwap(@, Recent)]
    /\ UNCHANGED <<time, skew, book, pending, msgs, ledger, nonce>>

(* The first fill after an acceptance, and the second one, advance the     *)
(* status; a fill that finds any other status is forgotten.                *)
Filled(s, tx) ==
  CASE s.is = "Accepted"          -> InitiatorExecuted(tx)
    [] s.is = "InitiatorExecuted" -> Completed(s.tx, tx)
    [] OTHER                      -> s

RecvSwapFill(a) ==
  \E m \in Deliverable(a, "SwapFill") :
    /\ Handled(a, m)
    /\ book' = IF Knows(a, m.id)
               THEN UpdateStatus(a, m.id, Filled(Status(a, m.id), m.tx))
               ELSE book
    /\ UNCHANGED <<time, skew, rep, pending, msgs, ledger, nonce>>

-----------------------------------------------------------------------------
(* The refresh penalises the initiator of every entry it finds expired and *)
(* not yet marked so, the agent itself included.                           *)
NewlyExpiredPending(a) ==
  {i \in Ids : Knows(a, i) /\ IsExpired(a, i) /\ Status(a, i) = Pending}

NewlyExpired(a) ==
  {i \in Ids : Knows(a, i) /\ IsExpired(a, i) /\ Status(a, i) # Expired}

PenaltiesOfRefresh(a) ==
  rep' = [rep EXCEPT ![a] = [p \in Agents |->
    RecordExpired(rep[a][p],
      Cardinality({i \in NewlyExpired(a) : Initiator(i) = p}))]]

RefreshAnytime(a) ==
  /\ PenaltiesOfRefresh(a)
  /\ book' = [book EXCEPT ![a] = [i \in Ids |->
       IF i \in NewlyExpired(a)
       THEN [book[a][i] EXCEPT !.status = Expired] ELSE book[a][i]]]
  /\ UNCHANGED <<time, skew, pending, msgs, rcvd, ledger, nonce>>

RefreshUnmarked(a) ==
  /\ Idle(a)
  /\ PenaltiesOfRefresh(a)
  /\ UNCHANGED <<time, skew, book, pending, msgs, rcvd, ledger, nonce>>

Refresh(a) ==
  /\ Idle(a)
  /\ book' = [book EXCEPT ![a] = [i \in Ids |->
       IF i \in NewlyExpired(a)
       THEN [book[a][i] EXCEPT !.status = Expired] ELSE book[a][i]]]
  /\ PenaltiesOfRefresh(a)
  /\ UNCHANGED <<time, skew, pending, msgs, rcvd, ledger, nonce>>

Tick ==
  /\ time < MaxTime
  /\ time' = time + 1
  /\ UNCHANGED <<skew, book, rep, pending, msgs, rcvd, ledger, nonce>>

Next ==
  \/ Tick
  \/ \E a \in Agents :
       \/ \E t \in Terms, r \in MinReps : Propose(a, t, r)
       \/ \E i \in Ids : Accept(a, i)
       \/ \E t \in Terms : AnnounceIntent(a, t)
       \/ \E t \in Terms : Swap(a, t)
       \/ \E t \in Terms, r \in MinReps : CSwap(a, t, r)
       \/ ListProposals(a)
       \/ Execute(a)
       \/ ExecuteUnreported(a)
       \/ ExecuteFails(a)
       \/ RejectConditions(a)
       \/ RecvIdentityAttestation(a)
       \/ RecvSwapProposal(a)
       \/ RecvSwapAcceptance(a)
       \/ RecvSwapIntent(a)
       \/ RecvSwapExecuted(a)
       \/ RecvSwapFill(a)
       \/ Refresh(a)

Spec == Init /\ [][Next]_vars

(* Time passes, an idle agent's refresh timer fires, and an awaited swap   *)
(* ends one way or the other.  The network owes nobody anything.           *)
Fairness ==
  /\ WF_vars(Tick)
  /\ \A a \in Agents :
       /\ WF_vars(Refresh(a))
       /\ WF_vars(Execute(a) \/ ExecuteUnreported(a) \/ ExecuteFails(a)
                    \/ RejectConditions(a))

FairSpec == Spec /\ Fairness

-----------------------------------------------------------------------------
(* Properties.                                                             *)

(* Every variable stays in its type.                                       *)
TypeOK ==
  /\ time \in 0 .. MaxTime
  /\ skew \in [Agents -> 0 .. MaxSkew]
  /\ book \in [Agents -> [Ids -> SwapProposal \cup {NoEntry}]]
  /\ rep \in [Agents -> [Agents -> PeerReputation]]
  /\ pending \in [Agents -> PendingSwap \cup {NoSwap}]
  /\ msgs \subseteq AgentMessage
  /\ rcvd \in [Agents -> SUBSET AgentMessage]
  /\ ledger \subseteq Tx
  /\ nonce \in [Agents -> Nat]

(* A transaction an entry names is a swap made for that proposal, and one  *)
(* a fill names is moreover the filler's own.  Made is all it is: no fill  *)
(* and no status tells a swap that succeeded from one that reverted (its   *)
(* receipt's status is not read) or from a simulated one, whatever         *)
(* network.rs ("executed their swap on-chain") and coordination.rs ("Both  *)
(* sides executed successfully") say.                                      *)
TxOf(s) == CASE s.is = "InitiatorExecuted" -> {s.tx}
             [] s.is = "Completed"         -> {s.txA, s.txB}
             [] OTHER                      -> {}

FillsBacked ==
  /\ \A m \in msgs : m.kind = "SwapFill" =>
       m.tx \in ledger /\ m.tx.for = m.id /\ m.tx.by = m.from
  /\ \A a \in Agents, i \in Ids : Knows(a, i) =>
       \A t \in TxOf(Status(a, i)) : t \in ledger /\ t.for = i

(* An agent swaps at most once for a proposal, whatever acceptances, fills *)
(* and expiries its book sees meanwhile: accept takes only a pending       *)
(* entry, and none becomes pending again.                                  *)
SwapOncePerProposal ==
  \A t, u \in ledger : t.by = u.by /\ t.for = u.for /\ t.for # NoId => t = u

(* An entry says "accepted by b" only if b's own book holds the proposal   *)
(* and is past Pending: b did accept, and cannot do so again.              *)
AcceptanceBacked ==
  \A a \in Agents, i \in Ids : Knows(a, i) /\ Status(a, i).is = "Accepted" =>
    LET b == Status(a, i).acceptor
    IN  Knows(b, i) /\ Status(b, i) # Pending

(* The two transactions of a completed entry come from two agents.         *)
CompletedByTwoAgents ==
  \A a \in Agents, i \in Ids : Knows(a, i) /\ Status(a, i).is = "Completed" =>
    Status(a, i).txA.by # Status(a, i).txB.by

(* During the flush window the entry of a coordinated swap is still the    *)
(* one accept took: its terms are those of the swap, it is neither open    *)
(* again nor given up, and no penalty or replacement undoes the reputation *)
(* gate.  What may undo it is time: recency decays (hence the undecayed    *)
(* score here) and the proposal's expiry passes, and the swap is made all  *)
(* the same, for the code looks at neither again.                          *)
PendingAsAccepted ==
  \A a \in Agents : ~Idle(a) /\ pending[a].id # NoId =>
    LET p == book[a][pending[a].id]
    IN  /\ Knows(a, pending[a].id)
        /\ p.status \notin {Pending, Expired}
        /\ pending[a].terms = p.terms
        /\ Score(a, a, 0) >= p.minRep

(* No agent credits a peer with more swaps than the peer counts itself,    *)
(* and none counts more than it made (see ledger); a peer is charged with  *)
(* no more intents than it published.                                      *)
CountsHonest ==
  \A a, p \in Agents :
    /\ rep[a][p].swaps <= rep[p][p].swaps
    /\ rep[p][p].swaps <= nonce[p]
    /\ a # p => rep[a][p].intents <=
         Cardinality({m \in msgs : m.kind = "SwapIntent" /\ m.from = p})

(* Penalties are accounted for: a charges p with one for every proposal of *)
(* p it holds past its time, executed or not, and with at most one more    *)
(* for every acceptance of such a proposal that it handled.                *)
PastExpiry(a, p) ==
  {i \in Ids : Knows(a, i) /\ Initiator(i) = p /\ IsExpired(a, i)}

PenaltiesAccounted ==
  \A a, p \in Agents :
    rep[a][p].expired <=
      Cardinality(PastExpiry(a, p))
        + Cardinality({m \in rcvd[a] :
            m.kind = "SwapAcceptance" /\ m.id \in PastExpiry(a, p)})

(* The refinement of Commitment: a proposal is open to an agent until its  *)
(* book holds it with another status than Pending, committed while its     *)
(* pending swap names it, and executed once that swap is made.             *)
Stage(a, i) ==
  IF \E t \in ledger : t.by = a /\ t.for = i THEN "executed"
  ELSE IF ~Idle(a) /\ pending[a].id = i THEN "committed"
  ELSE IF ~Knows(a, i) \/ Status(a, i) = Pending THEN "open"
  ELSE "closed"

Credit(a) == UNION {{<<a, t.by, i>> : t \in TxOf(Status(a, i))} :
                     i \in {j \in Ids : Knows(a, j)}}

Promise == INSTANCE Commitment WITH
  stage  <- [a \in Agents |-> [i \in Ids |-> Stage(a, i)]],
  credit <- UNION {Credit(a) : a \in Agents}

(* Coordination implements Commitment: accept is a commitment that is kept *)
(* or dropped but never renewed, and no status credits an agent with a     *)
(* swap it did not make.                                                   *)
KeepsPromise == Promise!FairSpec

(* Every proposal an agent knows ends up expired in its book and stays so, *)
(* whatever acceptances and fills arrive late.                             *)
ProposalsSettle ==
  \A a \in Agents, i \in Ids :
    <>[](Knows(a, i) => Status(a, i) = Expired)

(* coordination.rs says of Completed "Both sides executed successfully":   *)
(* one of the two swaps should then be the initiator's.                    *)
CompletedMeansInitiatorSwapped ==
  \A a \in Agents, i \in Ids : Knows(a, i) /\ Status(a, i).is = "Completed" =>
    Initiator(i) \in {t.by : t \in TxOf(Status(a, i))}

(* cleanup_expired_with_initiators is documented to catch a proposal only  *)
(* the first time it expires, "preventing double-counting".                *)
PenalisedOncePerProposal ==
  \A a, p \in Agents :
    rep[a][p].expired <= Cardinality({i \in Ids : Knows(a, i) /\ Initiator(i) = p})

(* reputation.rs documents the penalty as one "per expired proposal        *)
(* (created but never executed)": a should not charge p for a proposal     *)
(* that a itself executed, and announced so, before its refresh came by.   *)
PenalisedOnlyUnexecuted ==
  \A a, p \in Agents :
    rep[a][p].expired <=
      Cardinality({i \in PastExpiry(a, p) :
        \A m \in msgs : m.kind = "SwapFill" /\ m.from = a => m.id # i})
===============================================================================
