--------------------------- MODULE ReputationProofs ---------------------------
(***************************************************************************)
(* What the ReputationStores of Coordination count, for any agents, terms, *)
(* bounds and network: penalties, and swaps and intents.                   *)
(***************************************************************************)
EXTENDS CoordinationProofs

-----------------------------------------------------------------------------
(* Penalties.                                                              *)

(* The proposals of p that a has marked expired, and the acceptances that  *)
(* may have revived one.                                                   *)
Settled(a, p)  == {i \in PastExpiry(a, p) : Status(a, i) = Expired}
Revivals(a, p) == {m \in rcvd[a] :
                     m.kind = "SwapAcceptance" /\ m.id \in PastExpiry(a, p)}

LEMMA AcceptancesFinite == IsFiniteSet(AcceptanceMsg)
<1> DEFINE f == [m \in AcceptanceMsg |-> <<m.from, m.id>>]
<1>1. IsFiniteSet(Agents \X Ids)
  BY AgentsAssumption, IdsFinite, FS_Product
<1>2. f \in Injection(AcceptanceMsg, Agents \X Ids)
  BY DEF AcceptanceMsg, Injection, IsInjective
<1> QED
  BY <1>1, <1>2, FS_Injection

(* Both are finite, before a step and after it.                            *)
LEMMA PenaltySetsFinite ==
  ASSUME NEW a \in Agents, NEW p \in Agents
  PROVE  /\ IsFiniteSet(PastExpiry(a, p)) /\ Cardinality(PastExpiry(a, p)) \in Nat
         /\ IsFiniteSet(Settled(a, p)) /\ Cardinality(Settled(a, p)) \in Nat
         /\ IsFiniteSet(Settled(a, p)') /\ Cardinality(Settled(a, p)') \in Nat
         /\ TypeOK => IsFiniteSet(Revivals(a, p)) /\ Cardinality(Revivals(a, p)) \in Nat
         /\ TypeOK' => IsFiniteSet(Revivals(a, p)') /\ Cardinality(Revivals(a, p)') \in Nat
<1>1. PastExpiry(a, p) \subseteq Ids
      /\ Settled(a, p) \subseteq Ids /\ Settled(a, p)' \subseteq Ids
  BY DEF PastExpiry, Settled
<1>2. \A m \in AgentMessage : m.kind = "SwapAcceptance" => m \in AcceptanceMsg
  BY DEF AgentMessage, AttestationMsg, ProposalMsg, AcceptanceMsg, IntentMsg,
     ExecutedMsg, FillMsg
<1>3. /\ TypeOK => Revivals(a, p) \subseteq AcceptanceMsg
      /\ TypeOK' => Revivals(a, p)' \subseteq AcceptanceMsg
  BY <1>2 DEF Revivals, TypeOK
<1> QED
  BY <1>1, <1>3, IdsFinite, AcceptancesFinite, FS_Subset, FS_CardinalityType

(* Nothing but its refresh makes an agent penalise anybody.                *)
LEMMA PenaltyChange ==
  ASSUME TypeOK, [Next]_vars, NEW a \in Agents, NEW p \in Agents, ~Refresh(a)
  PROVE  rep'[a][p].expired = rep[a][p].expired
<1>1. CASE UNCHANGED rep
  BY <1>1
<1>2. \A r \in PeerReputation :
        /\ RecordSwap(r, Recent).expired = r.expired
        /\ RecordIntent(r, Recent).expired = r.expired
        /\ SetVerified(r, Recent).expired = r.expired
  BY DEF PeerReputation, RecordSwap, RecordIntent, SetVerified
<1>3. ASSUME NEW b \in Agents, NEW q \in Agents, NEW r,
             rep' = [rep EXCEPT ![b][q] = r], r.expired = rep[b][q].expired
      PROVE  rep'[a][p].expired = rep[a][p].expired
  BY <1>3 DEF TypeOK
<1>4. ASSUME NEW b \in Agents, NEW t \in Terms, NEW r \in MinReps,
             Defer(b, t, r) \/ AnnounceIntent(b, t)
      PROVE  rep'[a][p].expired = rep[a][p].expired
  <2>1. rep' = [rep EXCEPT ![b][b] = RecordIntent(rep[b][b], Recent)]
    BY <1>4 DEF Defer, AnnounceIntent
  <2> QED
    BY <1>2, <1>3, <2>1 DEF TypeOK
<1>5. ASSUME NEW b \in Agents, Execute(b)
      PROVE  rep'[a][p].expired = rep[a][p].expired
  <2>1. rep' = [rep EXCEPT ![b][b] = RecordSwap(rep[b][b], Recent)]
    BY <1>5 DEF Execute
  <2> QED
    BY <1>2, <1>3, <2>1 DEF TypeOK
<1>6. ASSUME NEW b \in Agents,
             RecvIdentityAttestation(b) \/ RecvSwapIntent(b) \/ RecvSwapExecuted(b)
      PROVE  rep'[a][p].expired = rep[a][p].expired
  <2>1. PICK q \in Agents :
          \/ rep' = [rep EXCEPT ![b][q] = SetVerified(rep[b][q], Recent)]
          \/ rep' = [rep EXCEPT ![b][q] = RecordIntent(rep[b][q], Recent)]
          \/ rep' = [rep EXCEPT ![b][q] = RecordSwap(rep[b][q], Recent)]
    BY <1>6, DeliveredType DEF RecvIdentityAttestation, RecvSwapIntent, RecvSwapExecuted
  <2>2. rep[b][q] \in PeerReputation
    BY DEF TypeOK
  <2>3. CASE rep' = [rep EXCEPT ![b][q] = SetVerified(rep[b][q], Recent)]
    BY <1>2, <1>3, <2>2, <2>3
  <2>4. CASE rep' = [rep EXCEPT ![b][q] = RecordIntent(rep[b][q], Recent)]
    BY <1>2, <1>3, <2>2, <2>4
  <2>5. CASE rep' = [rep EXCEPT ![b][q] = RecordSwap(rep[b][q], Recent)]
    BY <1>2, <1>3, <2>2, <2>5
  <2> QED
    BY <2>1, <2>3, <2>4, <2>5
<1>7. ASSUME NEW b \in Agents, Refresh(b)
      PROVE  rep'[a][p].expired = rep[a][p].expired
  BY <1>7 DEF Refresh, PenaltiesOfRefresh, TypeOK
<1> QED
  BY <1>1, <1>4, <1>5, <1>6, <1>7, BoundsAssumption
     DEF Next, vars, Tick, Propose, Accept, Swap, CSwap, ListProposals, ExecuteUnreported,
         ExecuteFails, RejectConditions, RecvSwapProposal, RecvSwapAcceptance,
         RecvSwapFill

(* Time does not run backwards, and books do not forget.                   *)
LEMMA PastExpiryGrows ==
  ASSUME TypeOK, [Next]_vars, NEW a \in Agents, NEW p \in Agents
  PROVE  PastExpiry(a, p) \subseteq PastExpiry(a, p)'
<1>1. time' \in {time, time + 1} /\ skew' = skew
  <2>1. Tick => time' = time + 1 /\ skew' = skew
    BY DEF Tick
  <2>2. ASSUME NEW b \in Agents,
               \/ \E t \in Terms, r \in MinReps : Propose(b, t, r) \/ CSwap(b, t, r)
               \/ \E t \in Terms : AnnounceIntent(b, t) \/ Swap(b, t)
               \/ \E i \in Ids : Accept(b, i)
               \/ ListProposals(b)
        PROVE  time' = time /\ skew' = skew
    BY <2>2 DEF Propose, Accept, AnnounceIntent, Swap, CSwap, Defer, ListProposals
  <2>3. ASSUME NEW b \in Agents,
               \/ Execute(b) \/ ExecuteUnreported(b) \/ ExecuteFails(b)
               \/ RejectConditions(b) \/ Refresh(b)
        PROVE  time' = time /\ skew' = skew
    BY <2>3 DEF Execute, ExecuteUnreported, ExecuteFails, RejectConditions, Refresh
  <2>4. ASSUME NEW b \in Agents,
               \/ RecvIdentityAttestation(b) \/ RecvSwapProposal(b)
               \/ RecvSwapAcceptance(b) \/ RecvSwapIntent(b)
               \/ RecvSwapExecuted(b) \/ RecvSwapFill(b)
        PROVE  time' = time /\ skew' = skew
    BY <2>4 DEF RecvIdentityAttestation, RecvSwapProposal, RecvSwapAcceptance,
       RecvSwapIntent, RecvSwapExecuted, RecvSwapFill
  <2> QED
    BY <2>1, <2>2, <2>3, <2>4 DEF Next, vars
<1>2. \A i \in Ids : ExpiresAt(i) \in Int
  BY BoundsAssumption DEF ExpiresAt, Ids
<1>3. time \in Int /\ skew[a] \in Int
  BY BoundsAssumption DEF TypeOK
<1>4. ASSUME NEW i \in Ids, IsExpired(a, i)
      PROVE  IsExpired(a, i)'
  BY <1>1, <1>2, <1>3, <1>4 DEF IsExpired, Now, ExpiresAt
<1> QED
  BY <1>4, EntriesStay DEF PastExpiry, Initiator

(* No swap is pending for an entry that its agent has marked expired.      *)
CommittedLive ==
  \A a \in Agents, i \in Ids : Committed(a, i) => Status(a, i) # Expired

LEMMA CommittedLiveHolds ==
  ASSUME ~SameSecond
  PROVE  Spec => []CommittedLive
<1>1. Init => CommittedLive
  BY DEF Init, CommittedLive, Committed, Idle
<1>2. TypeOK /\ Origin /\ Once /\ CommittedLive /\ [Next]_vars => CommittedLive'
  <2> SUFFICES ASSUME TypeOK, Origin, Once, CommittedLive, [Next]_vars,
                      NEW a \in Agents, NEW i \in Ids, Committed(a, i)'
               PROVE  Status(a, i)' # Expired
    BY DEF CommittedLive
  <2>1. CASE Committed(a, i)
    <3>1. ~Idle(a) /\ Knows(a, i) /\ Status(a, i) # Expired
      BY <2>1 DEF Committed, CommittedLive, Once, Left
    <3>2. CASE book'[a][i] = book[a][i]
      BY <3>1, <3>2 DEF Status
    <3>3. CASE Taken(a, i) \/ Told(a, i) \/ Swapped(a, i)
      BY <3>3 DEF Taken, Told, Swapped, Accepted, InitiatorExecuted, Expired
    <3>4. CASE Advanced(a, i)
      <4>1. PICK m : Status(a, i)' = Filled(Status(a, i), m.tx)
        BY <3>4 DEF Advanced
      <4> QED
        BY <3>1, <4>1 DEF Filled, InitiatorExecuted, Completed, Expired
    <3> QED
      BY <3>1, <3>2, <3>3, <3>4, NeverReplaced, BookChange DEF EntryStep, Marked
  <2>2. CASE ~Committed(a, i)
    <3>1. Accept(a, i)
      BY <2>2, CommitmentChange DEF Quiet, Commits, Delivers
    <3>2. book' = UpdateStatus(a, i, Accepted(a)) /\ Knows(a, i)
      BY <3>1 DEF Accept
    <3>3. Status(a, i)' = Accepted(a)
      BY <3>2, StatusTypes, UpdateStatusEffect
    <3> QED
      BY <3>3 DEF Accepted, Expired
  <2> QED
    BY <2>1, <2>2
<1> QED
  BY <1>1, <1>2, TypeCorrect, OriginHolds, OnceHolds, PTL DEF Spec

(* Only an acceptance that arrives late makes an expired entry live again. *)
LEMMA RevivedByAcceptance ==
  ASSUME ~SameSecond, TypeOK, Origin, CommittedLive, [Next]_vars,
         NEW a \in Agents, NEW i \in Ids, Knows(a, i), Status(a, i) = Expired
  PROVE  \/ Status(a, i)' = Expired
         \/ \E m \in Deliverable(a, "SwapAcceptance") : m.id = i /\ Takes(a, m)
<1>1. CASE book'[a][i] = book[a][i]
  BY <1>1 DEF Status
<1>2. CASE Marked(a, i) \/ Told(a, i)
  BY <1>2 DEF Marked, Told
<1>3. ~Taken(a, i)
  BY DEF Taken, Accept, Expired, Pending
<1>4. ~Swapped(a, i)
  BY DEF Swapped, CommittedLive
<1>5. CASE Advanced(a, i)
  BY <1>5 DEF Advanced, Filled, Expired
<1> QED
  BY <1>1, <1>2, <1>3, <1>4, <1>5, NeverReplaced, BookChange DEF EntryStep

(* One penalty for every settled entry, and one for every revival of one.  *)
PenaltiesCovered ==
  \A a, p \in Agents :
    rep[a][p].expired <= Cardinality(Settled(a, p)) + Cardinality(Revivals(a, p))

(* Without a refresh of a, each side counts as much as before: an entry    *)
(* that is no longer settled is one for which an acceptance came.          *)
LEMMA CoverStands ==
  ASSUME ~SameSecond, TypeOK, TypeOK', Origin, CommittedLive, [Next]_vars,
         NEW a \in Agents, NEW p \in Agents
  PROVE  Cardinality(Settled(a, p)) + Cardinality(Revivals(a, p))
           <= Cardinality(Settled(a, p)') + Cardinality(Revivals(a, p)')
<1>1. /\ IsFiniteSet(Settled(a, p)) /\ Cardinality(Settled(a, p)) \in Nat
      /\ IsFiniteSet(Revivals(a, p)) /\ Cardinality(Revivals(a, p)) \in Nat
  BY PenaltySetsFinite
<1>2. /\ IsFiniteSet(Settled(a, p)') /\ Cardinality(Settled(a, p)') \in Nat
      /\ IsFiniteSet(Revivals(a, p)') /\ Cardinality(Revivals(a, p)') \in Nat
  BY PenaltySetsFinite
<1>3. Revivals(a, p) \subseteq Revivals(a, p)'
  BY Growth, PastExpiryGrows DEF Revivals
<1>4. \A i \in Settled(a, p) : i \in Ids /\ Knows(a, i) /\ Status(a, i) = Expired
  BY DEF Settled, PastExpiry
<1>5. \A i \in Settled(a, p) :
        \/ i \in Settled(a, p)'
        \/ \E m \in Deliverable(a, "SwapAcceptance") : m.id = i /\ Takes(a, m)
  BY <1>4, RevivedByAcceptance, PastExpiryGrows DEF Settled
<1>6. CASE Settled(a, p) \subseteq Settled(a, p)'
  <2>1. /\ Cardinality(Settled(a, p)) <= Cardinality(Settled(a, p)')
        /\ Cardinality(Revivals(a, p)) <= Cardinality(Revivals(a, p)')
    BY <1>2, <1>3, <1>6, FS_Subset
  <2> QED
    BY <1>1, <1>2, <2>1
<1>7. CASE ~(Settled(a, p) \subseteq Settled(a, p)')
  <2>1. PICK m \in Deliverable(a, "SwapAcceptance") :
          m.id \in Settled(a, p) /\ Takes(a, m)
    BY <1>5, <1>7
  <2>2. m \notin rcvd[a] /\ m.kind = "SwapAcceptance"
    BY <2>1, DeliveredType DEF Deliverable
  <2>3. Settled(a, p) \ {m.id} \subseteq Settled(a, p)'
    BY <1>5, <2>1 DEF Takes, Deliverable
  <2>4. Revivals(a, p) \cup {m} \subseteq Revivals(a, p)'
    BY <1>3, <2>1, <2>2, PastExpiryGrows DEF Revivals, Takes, Settled
  <2>5. Cardinality(Settled(a, p) \ {m.id}) = Cardinality(Settled(a, p)) - 1
    BY <1>1, <2>1, FS_RemoveElement
  <2>6. m \notin Revivals(a, p)
    BY <2>2 DEF Revivals
  <2>7. Cardinality(Revivals(a, p) \cup {m}) = Cardinality(Revivals(a, p)) + 1
    BY <1>1, <2>6, FS_AddElement
  <2>8. Cardinality(Settled(a, p) \ {m.id}) <= Cardinality(Settled(a, p)')
    BY <1>2, <2>3, FS_Subset
  <2>9. Cardinality(Revivals(a, p) \cup {m}) <= Cardinality(Revivals(a, p)')
    BY <1>2, <2>4, FS_Subset
  <2> QED
    BY <1>1, <1>2, <2>5, <2>7, <2>8, <2>9
<1> QED
  BY <1>6, <1>7

(* The refresh settles what it penalises.                                  *)
LEMMA RefreshSettles ==
  ASSUME TypeOK, TypeOK', [Next]_vars, NEW a \in Agents, NEW p \in Agents, Refresh(a)
  PROVE  \E n \in Nat :
           /\ rep'[a][p].expired = rep[a][p].expired + n
           /\ Cardinality(Settled(a, p)') >= Cardinality(Settled(a, p)) + n
           /\ Cardinality(Revivals(a, p)') >= Cardinality(Revivals(a, p))
<1> DEFINE N == {i \in NewlyExpired(a) : Initiator(i) = p}
<1>1. N \subseteq Ids /\ N \subseteq PastExpiry(a, p)
  BY DEF NewlyExpired, PastExpiry
<1>2. IsFiniteSet(N) /\ Cardinality(N) \in Nat
  BY <1>1, IdsFinite, FS_Subset, FS_CardinalityType
<1>3. rep'[a][p].expired = rep[a][p].expired + Cardinality(N)
  <2>1. rep'[a][p] = RecordExpired(rep[a][p], Cardinality(N))
    BY DEF Refresh, PenaltiesOfRefresh, TypeOK
  <2>2. rep[a][p] \in PeerReputation
    BY DEF TypeOK
  <2> HIDE DEF N
  <2> QED
    BY <2>1, <2>2 DEF RecordExpired, PeerReputation
<1>4. \A i \in N : Status(a, i)' = Expired
  <2> TAKE i \in N
  <2>1. i \in Ids /\ Knows(a, i) /\ i \in NewlyExpired(a)
    BY DEF NewlyExpired
  <2>2. book'[a][i] = [book[a][i] EXCEPT !.status = Expired]
    BY <2>1 DEF Refresh, TypeOK
  <2> QED
    BY <2>1, <2>2, MarkingKeeps DEF Status
<1>5. \A i \in Settled(a, p) : Status(a, i)' = Expired /\ i \notin N
  <2> TAKE i \in Settled(a, p)
  <2>1. i \in Ids /\ i \notin NewlyExpired(a) /\ Status(a, i) = Expired
    BY DEF Settled, PastExpiry, NewlyExpired
  <2>2. book'[a][i] = book[a][i]
    BY <2>1 DEF Refresh, TypeOK
  <2> QED
    BY <2>1, <2>2 DEF Status
<1>6. Settled(a, p) \cup N \subseteq Settled(a, p)'
  BY <1>1, <1>4, <1>5, PastExpiryGrows DEF Settled
<1>7. Cardinality(Settled(a, p) \cup N) = Cardinality(Settled(a, p)) + Cardinality(N)
  <2>1. Settled(a, p) \cap N = {}
    BY <1>5
  <2> HIDE DEF N
  <2>2. Cardinality(Settled(a, p) \cup N)
          = Cardinality(Settled(a, p)) + Cardinality(N) - Cardinality(Settled(a, p) \cap N)
    BY <1>2, PenaltySetsFinite, FS_Union
  <2>3. Cardinality(Settled(a, p) \cap N) = 0
    BY <2>1, FS_EmptySet
  <2> QED
    BY <1>2, <2>2, <2>3, PenaltySetsFinite
<1>8. Cardinality(Settled(a, p) \cup N) <= Cardinality(Settled(a, p)')
  BY <1>6, PenaltySetsFinite, FS_Subset
<1>9. Revivals(a, p) \subseteq Revivals(a, p)'
  BY Growth, PastExpiryGrows DEF Revivals
<1>10. Cardinality(Revivals(a, p)') >= Cardinality(Revivals(a, p))
  BY <1>9, PenaltySetsFinite, FS_Subset
<1> HIDE DEF N
<1> QED
  BY <1>2, <1>3, <1>7, <1>8, <1>10, PenaltySetsFinite

(* However expiries, refreshes and late acceptances interleave, an agent   *)
(* penalises an initiator at most once for every proposal of its that is   *)
(* past its time, executed or not, and once more for every acceptance of   *)
(* it that arrived (cleanup_expired_with_initiators).                      *)
THEOREM PenaltiesAreAccounted ==
  ASSUME ~SameSecond
  PROVE  Spec => []PenaltiesAccounted
<1>1. Init => PenaltiesCovered
  <2> SUFFICES ASSUME Init, NEW a \in Agents, NEW p \in Agents
               PROVE  rep[a][p].expired
                        <= Cardinality(Settled(a, p)) + Cardinality(Revivals(a, p))
    BY DEF PenaltiesCovered
  <2>1. rep[a][p].expired = 0
    BY DEF Init, NewReputation, SetVerified
  <2>3. rcvd[a] = {Attestation(q) : q \in {r \in Agents : <<a, r>> \in Acquainted}}
    BY DEF Init
  <2>4. \A m \in rcvd[a] : m.kind = "IdentityAttestation"
    <3> TAKE m \in rcvd[a]
    <3>1. PICK q \in Agents : m = Attestation(q)
      BY <2>3
    <3> QED
      BY <3>1 DEF Attestation
  <2>2. Revivals(a, p) = {}
    BY <2>4 DEF Revivals
  <2> QED
    BY <2>1, <2>2, PenaltySetsFinite, FS_EmptySet
<1>2. /\ TypeOK /\ TypeOK' /\ Origin /\ CommittedLive /\ PenaltiesCovered /\ [Next]_vars
      => PenaltiesCovered'
  <2> SUFFICES ASSUME TypeOK, TypeOK', Origin, CommittedLive, PenaltiesCovered, [Next]_vars,
                      NEW a \in Agents, NEW p \in Agents
               PROVE  rep'[a][p].expired
                        <= Cardinality(Settled(a, p)') + Cardinality(Revivals(a, p)')
    BY DEF PenaltiesCovered
  <2>1. rep[a][p].expired \in Nat
    BY DEF TypeOK, PeerReputation
  <2>2. rep[a][p].expired <= Cardinality(Settled(a, p)) + Cardinality(Revivals(a, p))
    BY DEF PenaltiesCovered
  <2>3. CASE Refresh(a)
    BY <2>1, <2>2, <2>3, RefreshSettles, PenaltySetsFinite
  <2>4. CASE ~Refresh(a)
    BY <2>1, <2>2, <2>4, CoverStands, PenaltyChange, PenaltySetsFinite
  <2> QED
    BY <2>3, <2>4
<1>3. TypeOK /\ PenaltiesCovered => PenaltiesAccounted
  <2> SUFFICES ASSUME TypeOK, PenaltiesCovered, NEW a \in Agents, NEW p \in Agents
               PROVE  rep[a][p].expired
                        <= Cardinality(PastExpiry(a, p)) + Cardinality(Revivals(a, p))
    BY DEF PenaltiesAccounted, Revivals
  <2>1. Cardinality(Settled(a, p)) <= Cardinality(PastExpiry(a, p))
    BY PenaltySetsFinite, FS_Subset DEF Settled
  <2>2. rep[a][p].expired \in Nat
    BY DEF TypeOK, PeerReputation
  <2> QED
    BY <2>1, <2>2, PenaltySetsFinite DEF PenaltiesCovered
<1> QED
  BY <1>1, <1>2, <1>3, TypeCorrect, OriginHolds, CommittedLiveHolds, PTL DEF Spec

-----------------------------------------------------------------------------
(* Swaps and intents.                                                      *)

SentBy(p, k)     == {m \in msgs : m.kind = k /\ m.from = p}
HeardOf(a, p, k) == {m \in rcvd[a] : m.kind = k /\ m.from = p}

(* How a step changes what a's record of p counts.                         *)
SameCounts(a, p) == /\ rep'[a][p].swaps = rep[a][p].swaps
                    /\ rep'[a][p].intents = rep[a][p].intents

HearsSwap(a, p) ==
  \E m \in Deliverable(a, "SwapExecuted") :
    /\ m.from = p /\ Takes(a, m)
    /\ rep'[a][p].swaps = rep[a][p].swaps + 1
    /\ rep'[a][p].intents = rep[a][p].intents

HearsIntent(a, p) ==
  \E m \in Deliverable(a, "SwapIntent") :
    /\ m.from = p /\ Takes(a, m)
    /\ rep'[a][p].swaps = rep[a][p].swaps
    /\ rep'[a][p].intents = rep[a][p].intents + 1

CountStep(a, p) ==
  \/ SameCounts(a, p) \/ HearsSwap(a, p) \/ HearsIntent(a, p)
  \/ a = p /\ Execute(a)
  \/ a = p /\ rep'[a][p].swaps = rep[a][p].swaps

LEMMA RecordCounts ==
  ASSUME NEW r \in PeerReputation
  PROVE  /\ RecordSwap(r, Recent).swaps = r.swaps + 1
         /\ RecordSwap(r, Recent).intents = r.intents
         /\ RecordIntent(r, Recent).swaps = r.swaps
         /\ RecordIntent(r, Recent).intents = r.intents + 1
         /\ SetVerified(r, Recent).swaps = r.swaps
         /\ SetVerified(r, Recent).intents = r.intents
         /\ \A n \in Nat : /\ RecordExpired(r, n).swaps = r.swaps
                            /\ RecordExpired(r, n).intents = r.intents
<1>1. /\ RecordSwap(r, Recent).swaps = r.swaps + 1
      /\ RecordSwap(r, Recent).intents = r.intents
  BY DEF RecordSwap, PeerReputation
<1>2. /\ RecordIntent(r, Recent).swaps = r.swaps
      /\ RecordIntent(r, Recent).intents = r.intents + 1
  BY DEF RecordIntent, PeerReputation
<1>3. /\ SetVerified(r, Recent).swaps = r.swaps
      /\ SetVerified(r, Recent).intents = r.intents
  BY DEF SetVerified, PeerReputation
<1>4. \A n \in Nat : /\ RecordExpired(r, n).swaps = r.swaps
                     /\ RecordExpired(r, n).intents = r.intents
  BY DEF RecordExpired, PeerReputation
<1> QED
  BY <1>1, <1>2, <1>3, <1>4

LEMMA CountChange ==
  ASSUME TypeOK, [Next]_vars, NEW a \in Agents, NEW p \in Agents
  PROVE  CountStep(a, p)
<1>1. CASE UNCHANGED rep
  BY <1>1 DEF CountStep, SameCounts
<1>2. rep[a][p] \in PeerReputation
  BY DEF TypeOK
<1>3. ASSUME NEW b \in Agents, NEW q \in Agents, NEW r,
             rep' = [rep EXCEPT ![b][q] = r]
      PROVE  rep'[a][p] = IF b = a /\ q = p THEN r ELSE rep[a][p]
  BY <1>3 DEF TypeOK
<1>4. ASSUME NEW b \in Agents, NEW t \in Terms, NEW r \in MinReps,
             Defer(b, t, r) \/ AnnounceIntent(b, t)
      PROVE  CountStep(a, p)
  <2>1. rep' = [rep EXCEPT ![b][b] = RecordIntent(rep[b][b], Recent)]
    BY <1>4 DEF Defer, AnnounceIntent
  <2>2. rep'[a][p] = IF b = a /\ b = p THEN RecordIntent(rep[b][b], Recent) ELSE rep[a][p]
    BY <1>3, <2>1
  <2> QED
    BY <1>2, <2>2, RecordCounts DEF CountStep, SameCounts
<1>5. ASSUME NEW b \in Agents, Execute(b)
      PROVE  CountStep(a, p)
  <2>1. rep' = [rep EXCEPT ![b][b] = RecordSwap(rep[b][b], Recent)]
    BY <1>5 DEF Execute
  <2> QED
    BY <1>3, <1>5, <2>1 DEF CountStep, SameCounts
<1>6. ASSUME NEW b \in Agents, RecvIdentityAttestation(b)
      PROVE  CountStep(a, p)
  <2>1. PICK q \in Agents : rep' = [rep EXCEPT ![b][q] = SetVerified(rep[b][q], Recent)]
    BY <1>6, DeliveredType DEF RecvIdentityAttestation
  <2>2. rep'[a][p] = IF b = a /\ q = p THEN SetVerified(rep[b][q], Recent) ELSE rep[a][p]
    BY <1>3, <2>1
  <2> QED
    BY <1>2, <2>2, RecordCounts DEF CountStep, SameCounts
<1>7. ASSUME NEW b \in Agents, RecvSwapIntent(b)
      PROVE  CountStep(a, p)
  <2>1. PICK m \in Deliverable(b, "SwapIntent") :
          /\ Handled(b, m)
          /\ rep' = [rep EXCEPT ![b][m.from] = RecordIntent(rep[b][m.from], Recent)]
    BY <1>7 DEF RecvSwapIntent
  <2>2. PICK q \in Agents : q = m.from
    BY DeliveredType
  <2>3. rep'[a][p] = IF b = a /\ q = p THEN RecordIntent(rep[b][q], Recent) ELSE rep[a][p]
    BY <1>3, <2>1, <2>2
  <2>4. Takes(b, m)
    BY <2>1 DEF Takes, Handled, TypeOK
  <2>5. b = a /\ q = p => HearsIntent(a, p)
    <3> SUFFICES ASSUME b = a, q = p PROVE HearsIntent(a, p)
      OBVIOUS
    <3>1. rep'[a][p] = RecordIntent(rep[a][p], Recent)
      BY <2>3
    <3>2. /\ rep'[a][p].swaps = RecordIntent(rep[a][p], Recent).swaps
          /\ rep'[a][p].intents = RecordIntent(rep[a][p], Recent).intents
      BY <3>1
    <3> QED
      BY <1>2, <2>2, <2>4, <3>2, RecordCounts DEF HearsIntent
  <2> QED
    BY <2>3, <2>5 DEF CountStep, SameCounts
<1>8. ASSUME NEW b \in Agents, RecvSwapExecuted(b)
      PROVE  CountStep(a, p)
  <2>1. PICK m \in Deliverable(b, "SwapExecuted") :
          /\ Handled(b, m)
          /\ rep' = [rep EXCEPT ![b][m.from] = RecordSwap(rep[b][m.from], Recent)]
    BY <1>8 DEF RecvSwapExecuted
  <2>2. PICK q \in Agents : q = m.from
    BY DeliveredType
  <2>3. rep'[a][p] = IF b = a /\ q = p THEN RecordSwap(rep[b][q], Recent) ELSE rep[a][p]
    BY <1>3, <2>1, <2>2
  <2>4. Takes(b, m)
    BY <2>1 DEF Takes, Handled, TypeOK
  <2>5. b = a /\ q = p => HearsSwap(a, p)
    <3> SUFFICES ASSUME b = a, q = p PROVE HearsSwap(a, p)
      OBVIOUS
    <3>1. rep'[a][p] = RecordSwap(rep[a][p], Recent)
      BY <2>3
    <3>2. /\ rep'[a][p].swaps = RecordSwap(rep[a][p], Recent).swaps
          /\ rep'[a][p].intents = RecordSwap(rep[a][p], Recent).intents
      BY <3>1
    <3> QED
      BY <1>2, <2>2, <2>4, <3>2, RecordCounts DEF HearsSwap
  <2> QED
    BY <2>3, <2>5 DEF CountStep, SameCounts
<1>9. ASSUME NEW b \in Agents, Refresh(b)
      PROVE  CountStep(a, p)
  <2>1. CASE b = a
    <3>1. Cardinality({i \in NewlyExpired(a) : Initiator(i) = p}) \in Nat
      BY IdsFinite, FS_Subset, FS_CardinalityType DEF NewlyExpired
    <3>2. rep'[a][p] = RecordExpired(rep[a][p],
                         Cardinality({i \in NewlyExpired(a) : Initiator(i) = p}))
      BY <1>9, <2>1 DEF Refresh, PenaltiesOfRefresh, TypeOK
    <3> QED
      BY <1>2, <3>1, <3>2, RecordCounts DEF CountStep, SameCounts
  <2>2. CASE b # a
    BY <1>9, <2>2 DEF Refresh, PenaltiesOfRefresh, TypeOK, CountStep, SameCounts
  <2> QED
    BY <2>1, <2>2
<1> QED
  BY <1>1, <1>4, <1>5, <1>6, <1>7, <1>8, <1>9, BoundsAssumption
     DEF Next, vars, Tick, Propose, Accept, Swap, CSwap, ListProposals, ExecuteUnreported,
         ExecuteFails, RejectConditions, RecvSwapProposal, RecvSwapAcceptance,
         RecvSwapFill

GainsOne(p, k) == \E x : \A m \in SentBy(p, k)' : m \in SentBy(p, k) \/ m = x

(* An agent counts its swap and announces it in one step, and announces no *)
(* other; it announces at most one intent in a step.                       *)
LEMMA SentChange ==
  ASSUME TypeOK, [Next]_vars, NEW p \in Agents
  PROVE  /\ GainsOne(p, "SwapIntent")
         /\ ~Execute(p) =>
              SentBy(p, "SwapExecuted")' \subseteq SentBy(p, "SwapExecuted")
         /\ nonce'[p] \in {nonce[p], nonce[p] + 1}
<1> DEFINE Effect ==
      /\ \E x : \A m \in msgs' \ msgs : m.kind = "SwapIntent" /\ m.from = p => m = x
      /\ Execute(p) \/ \A m \in msgs' \ msgs : ~(m.kind = "SwapExecuted" /\ m.from = p)
      /\ nonce'[p] \in {nonce[p], nonce[p] + 1}
<1>1. ASSUME UNCHANGED <<msgs, nonce>>
      PROVE  Effect
  BY <1>1
<1>2. ASSUME NEW a \in Agents, NEW t \in Terms, NEW r \in MinReps, Propose(a, t, r)
      PROVE  Effect
  BY <1>2 DEF Propose, Publish
<1>3. ASSUME NEW a \in Agents, NEW i \in Ids, Accept(a, i)
      PROVE  Effect
  <2>1. \A m \in msgs' \ msgs : \/ m = Intent(a, book[a][i].terms)
                               \/ m = [kind |-> "SwapAcceptance", from |-> a, id |-> i]
    BY <1>3 DEF Accept, Publish
  <2> QED
    BY <1>3, <2>1 DEF Accept, Intent
<1>4. ASSUME NEW a \in Agents, NEW t \in Terms, NEW r \in MinReps,
             Defer(a, t, r) \/ AnnounceIntent(a, t)
      PROVE  Effect
  <2>1. nonce' = nonce /\ \A m \in msgs' \ msgs : m = Intent(a, t)
    BY <1>4 DEF Defer, AnnounceIntent, Publish
  <2> QED
    BY <2>1 DEF Intent
<1>5. ASSUME NEW a \in Agents, ExecuteUnreported(a)
      PROVE  Effect
  BY <1>5 DEF ExecuteUnreported, TypeOK
<1>6. ASSUME NEW a \in Agents, Execute(a)
      PROVE  Effect
  <2>1. nonce' = [nonce EXCEPT ![a] = nonce[a] + 1]
    BY <1>6 DEF Execute
  <2>2. \A m \in msgs' \ msgs : m.from = a /\ m.kind # "SwapIntent"
    BY <1>6 DEF Execute, Publish
  <2> QED
    BY <1>6, <2>1, <2>2 DEF TypeOK
<1>7. Effect
  BY <1>1, <1>2, <1>3, <1>4, <1>5, <1>6, BoundsAssumption
     DEF Next, vars, Tick, Swap, CSwap, ListProposals, ExecuteFails, RejectConditions,
         RecvIdentityAttestation, RecvSwapProposal, RecvSwapAcceptance, RecvSwapIntent,
         RecvSwapExecuted, RecvSwapFill, Refresh
<1>8. PICK x : \A m \in msgs' \ msgs : m.kind = "SwapIntent" /\ m.from = p => m = x
  BY <1>7
<1>9. GainsOne(p, "SwapIntent")
  BY <1>8 DEF GainsOne, SentBy
<1>10. ASSUME ~Execute(p)
       PROVE  SentBy(p, "SwapExecuted")' \subseteq SentBy(p, "SwapExecuted")
  BY <1>7, <1>10 DEF SentBy
<1>11. nonce'[p] \in {nonce[p], nonce[p] + 1}
  BY <1>7
<1> QED
  BY <1>9, <1>10, <1>11

(* What a reported swap adds.                                              *)
LEMMA ExecuteCounts ==
  ASSUME TypeOK, NEW p \in Agents, Execute(p)
  PROVE  /\ rep'[p][p].swaps = rep[p][p].swaps + 1
         /\ nonce'[p] = nonce[p] + 1
         /\ GainsOne(p, "SwapExecuted")
<1>1. rep'[p][p] = RecordSwap(rep[p][p], Recent) /\ nonce'[p] = nonce[p] + 1
  BY DEF Execute, TypeOK
<1>2. rep'[p][p].swaps = rep[p][p].swaps + 1
  BY <1>1, RecordCounts DEF TypeOK
<1>3. PICK tx : tx = [by |-> p, nonce |-> nonce[p] + 1, for |-> pending[p].id]
  OBVIOUS
<1>4. \A m \in msgs' \ msgs : m.kind = "SwapExecuted" =>
        m = [kind |-> "SwapExecuted", from |-> p, tx |-> tx]
  BY <1>3 DEF Execute, Publish
<1> QED
  BY <1>1, <1>2, <1>4 DEF GainsOne, SentBy

LEMMA GainsOneBound ==
  ASSUME NEW p, NEW k, GainsOne(p, k), IsFiniteSet(SentBy(p, k))
  PROVE  /\ IsFiniteSet(SentBy(p, k)')
         /\ Cardinality(SentBy(p, k)') <= Cardinality(SentBy(p, k)) + 1
<1>1. PICK x : \A m \in SentBy(p, k)' : m \in SentBy(p, k) \/ m = x
  BY DEF GainsOne
<1> DEFINE More == SentBy(p, k) \cup {x}
<1>2. IsFiniteSet(More)
  BY FS_AddElement
<1>3. Cardinality(More) = IF x \in SentBy(p, k) THEN Cardinality(SentBy(p, k))
                          ELSE Cardinality(SentBy(p, k)) + 1
  BY FS_AddElement
<1>4. SentBy(p, k)' \subseteq More
  BY <1>1
<1>5. IsFiniteSet(SentBy(p, k)') /\ Cardinality(SentBy(p, k)') <= Cardinality(More)
  BY <1>2, <1>4, FS_Subset
<1>6. /\ Cardinality(More) \in Nat /\ Cardinality(SentBy(p, k)') \in Nat
      /\ Cardinality(SentBy(p, k)) \in Nat
  BY <1>2, <1>5, FS_CardinalityType
<1> HIDE DEF More
<1> QED
  BY <1>3, <1>5, <1>6

(* What is handled in a step was published.                                *)
LEMMA HandledWasSent ==
  ASSUME TypeOK, [Next]_vars, NEW a \in Agents
  PROVE  rcvd'[a] \subseteq rcvd[a] \cup msgs
<1>1. CASE UNCHANGED rcvd
  BY <1>1
<1>2. ASSUME NEW b \in Agents,
             \/ RecvIdentityAttestation(b) \/ RecvSwapProposal(b)
             \/ RecvSwapAcceptance(b) \/ RecvSwapIntent(b)
             \/ RecvSwapExecuted(b) \/ RecvSwapFill(b)
      PROVE  rcvd'[a] \subseteq rcvd[a] \cup msgs
  <2>1. PICK m \in msgs : Handled(b, m)
    BY <1>2, DeliveredType
       DEF RecvIdentityAttestation, RecvSwapProposal, RecvSwapAcceptance,
           RecvSwapIntent, RecvSwapExecuted, RecvSwapFill
  <2> QED
    BY <2>1 DEF Handled, TypeOK
<1>3. ASSUME NEW b \in Agents,
             \/ \E t \in Terms, r \in MinReps : Propose(b, t, r) \/ CSwap(b, t, r)
             \/ \E t \in Terms : AnnounceIntent(b, t) \/ Swap(b, t)
             \/ \E i \in Ids : Accept(b, i)
             \/ ListProposals(b)
      PROVE  UNCHANGED rcvd
  BY <1>3 DEF Propose, Accept, AnnounceIntent, Swap, CSwap, Defer, ListProposals
<1>4. ASSUME NEW b \in Agents,
             \/ Execute(b) \/ ExecuteUnreported(b) \/ ExecuteFails(b)
             \/ RejectConditions(b) \/ Refresh(b)
      PROVE  UNCHANGED rcvd
  BY <1>4 DEF Execute, ExecuteUnreported, ExecuteFails, RejectConditions, Refresh
<1>5. Tick \/ UNCHANGED vars => UNCHANGED rcvd
  BY DEF Tick, vars
<1> QED
  BY <1>1, <1>2, <1>3, <1>4, <1>5 DEF Next

(* A store counts what was handled, that was published, and the publisher  *)
(* counted it first.                                                       *)
CountsBacked ==
  /\ \A p \in Agents :
       /\ IsFiniteSet(SentBy(p, "SwapIntent")) /\ IsFiniteSet(SentBy(p, "SwapExecuted"))
       /\ Cardinality(SentBy(p, "SwapExecuted")) <= rep[p][p].swaps
       /\ rep[p][p].swaps <= nonce[p]
  /\ \A a, p \in Agents : a # p =>
       /\ HeardOf(a, p, "SwapIntent") \subseteq SentBy(p, "SwapIntent")
       /\ HeardOf(a, p, "SwapExecuted") \subseteq SentBy(p, "SwapExecuted")
       /\ rep[a][p].intents <= Cardinality(HeardOf(a, p, "SwapIntent"))
       /\ rep[a][p].swaps <= Cardinality(HeardOf(a, p, "SwapExecuted"))

LEMMA CountsBackedImplies == TypeOK /\ CountsBacked => CountsHonest
<1> SUFFICES ASSUME TypeOK, CountsBacked, NEW a \in Agents, NEW p \in Agents
             PROVE  /\ rep[a][p].swaps <= rep[p][p].swaps
                    /\ rep[p][p].swaps <= nonce[p]
                    /\ a # p => rep[a][p].intents <= Cardinality(SentBy(p, "SwapIntent"))
  BY DEF CountsHonest, SentBy
<1>1. /\ rep[a][p].swaps \in Nat /\ rep[a][p].intents \in Nat
      /\ rep[p][p].swaps \in Nat
  BY DEF TypeOK, PeerReputation
<1>2. rep[p][p].swaps <= nonce[p]
  BY DEF CountsBacked
<1>3. CASE a = p
  BY <1>1, <1>2, <1>3
<1>4. CASE a # p
  <2>1. /\ IsFiniteSet(SentBy(p, "SwapIntent")) /\ IsFiniteSet(SentBy(p, "SwapExecuted"))
        /\ HeardOf(a, p, "SwapIntent") \subseteq SentBy(p, "SwapIntent")
        /\ HeardOf(a, p, "SwapExecuted") \subseteq SentBy(p, "SwapExecuted")
        /\ rep[a][p].intents <= Cardinality(HeardOf(a, p, "SwapIntent"))
        /\ rep[a][p].swaps <= Cardinality(HeardOf(a, p, "SwapExecuted"))
        /\ Cardinality(SentBy(p, "SwapExecuted")) <= rep[p][p].swaps
    BY <1>4 DEF CountsBacked
  <2>2. /\ Cardinality(HeardOf(a, p, "SwapIntent")) <= Cardinality(SentBy(p, "SwapIntent"))
        /\ Cardinality(HeardOf(a, p, "SwapExecuted"))
             <= Cardinality(SentBy(p, "SwapExecuted"))
        /\ Cardinality(HeardOf(a, p, "SwapIntent")) \in Nat
        /\ Cardinality(HeardOf(a, p, "SwapExecuted")) \in Nat
        /\ Cardinality(SentBy(p, "SwapIntent")) \in Nat
        /\ Cardinality(SentBy(p, "SwapExecuted")) \in Nat
    BY <2>1, FS_Subset, FS_CardinalityType
  <2> QED
    BY <1>1, <1>2, <2>1, <2>2
<1> QED
  BY <1>3, <1>4

(* What an agent handles of a kind in a step that is about something else, *)
(* and in one that counts it.                                              *)
LEMMA HeardGrows ==
  ASSUME TypeOK, [Next]_vars, NEW a \in Agents, NEW p \in Agents, NEW k,
         NEW m, Takes(a, m), m \notin rcvd[a], m \in msgs, m.kind = k, m.from = p,
         IsFiniteSet(SentBy(p, k)), HeardOf(a, p, k) \subseteq SentBy(p, k)
  PROVE  /\ HeardOf(a, p, k)' = HeardOf(a, p, k) \cup {m}
         /\ Cardinality(HeardOf(a, p, k)') = Cardinality(HeardOf(a, p, k)) + 1
<1>1. HeardOf(a, p, k)' = HeardOf(a, p, k) \cup {m} /\ m \notin HeardOf(a, p, k)
  BY DEF HeardOf, Takes
<1>2. IsFiniteSet(HeardOf(a, p, k))
  BY FS_Subset
<1>3. Cardinality(HeardOf(a, p, k) \cup {m}) = Cardinality(HeardOf(a, p, k)) + 1
  BY <1>1, <1>2, FS_AddElement
<1> QED
  BY <1>1, <1>3

(* Whatever arrives of it, an agent cannot be credited with a swap it did  *)
(* not make, nor be charged with an intent it did not publish: stores      *)
(* count each message once (handle_gossip_message, record_swap and         *)
(* record_intent).                                                         *)
THEOREM CountsAreHonest == Spec => []CountsHonest
<1>1. Init => CountsBacked
  <2> SUFFICES ASSUME Init PROVE CountsBacked
    OBVIOUS
  <2>1. ASSUME NEW a \in Agents, NEW m \in rcvd[a]
        PROVE  m.kind = "IdentityAttestation"
    <3>1. rcvd[a] = {Attestation(q) : q \in {r \in Agents : <<a, r>> \in Acquainted}}
      BY DEF Init
    <3>2. PICK q \in Agents : m = Attestation(q)
      BY <2>1, <3>1
    <3> QED
      BY <3>2 DEF Attestation
  <2>2. \A m \in msgs : m.kind = "IdentityAttestation"
    BY DEF Init, Attestation
  <2>3. \A a, p \in Agents : rep[a][p].swaps = 0 /\ rep[a][p].intents = 0
    BY DEF Init, NewReputation, SetVerified
  <2>4. \A p \in Agents : nonce[p] = 0
    BY DEF Init
  <2>5. \A p \in Agents : SentBy(p, "SwapIntent") = {} /\ SentBy(p, "SwapExecuted") = {}
    BY <2>2 DEF SentBy
  <2>6. \A a, p \in Agents :
          HeardOf(a, p, "SwapIntent") = {} /\ HeardOf(a, p, "SwapExecuted") = {}
    BY <2>1 DEF HeardOf
  <2>7. IsFiniteSet({}) /\ Cardinality({}) = 0
    BY FS_EmptySet
  <2>8. ASSUME NEW p \in Agents
        PROVE  /\ IsFiniteSet(SentBy(p, "SwapIntent"))
               /\ IsFiniteSet(SentBy(p, "SwapExecuted"))
               /\ Cardinality(SentBy(p, "SwapExecuted")) <= rep[p][p].swaps
               /\ rep[p][p].swaps <= nonce[p]
    <3>1. SentBy(p, "SwapIntent") = {} /\ SentBy(p, "SwapExecuted") = {}
      BY <2>5
    <3>2. rep[p][p].swaps = 0 /\ nonce[p] = 0
      BY <2>3, <2>4
    <3> QED
      BY <2>7, <3>1, <3>2
  <2>9. ASSUME NEW a \in Agents, NEW p \in Agents
        PROVE  /\ HeardOf(a, p, "SwapIntent") \subseteq SentBy(p, "SwapIntent")
               /\ HeardOf(a, p, "SwapExecuted") \subseteq SentBy(p, "SwapExecuted")
               /\ rep[a][p].intents <= Cardinality(HeardOf(a, p, "SwapIntent"))
               /\ rep[a][p].swaps <= Cardinality(HeardOf(a, p, "SwapExecuted"))
    <3>1. HeardOf(a, p, "SwapIntent") = {} /\ HeardOf(a, p, "SwapExecuted") = {}
      BY <2>6
    <3>2. rep[a][p].swaps = 0 /\ rep[a][p].intents = 0
      BY <2>3
    <3> QED
      BY <2>7, <3>1, <3>2
  <2> QED
    BY <2>8, <2>9 DEF CountsBacked
<1>2. TypeOK /\ TypeOK' /\ CountsBacked /\ [Next]_vars => CountsBacked'
  <2> SUFFICES ASSUME TypeOK, TypeOK', CountsBacked, [Next]_vars PROVE CountsBacked'
    OBVIOUS
  <2>1. ASSUME NEW p \in Agents
        PROVE  /\ IsFiniteSet(SentBy(p, "SwapIntent")')
               /\ IsFiniteSet(SentBy(p, "SwapExecuted")')
               /\ Cardinality(SentBy(p, "SwapExecuted")') <= rep'[p][p].swaps
               /\ rep'[p][p].swaps <= nonce'[p]
    <3>1. /\ IsFiniteSet(SentBy(p, "SwapIntent")) /\ IsFiniteSet(SentBy(p, "SwapExecuted"))
          /\ Cardinality(SentBy(p, "SwapExecuted")) <= rep[p][p].swaps
          /\ rep[p][p].swaps <= nonce[p]
      BY DEF CountsBacked
    <3>2. IsFiniteSet(SentBy(p, "SwapIntent")')
      BY <3>1, SentChange, GainsOneBound
    <3>3. /\ rep[p][p].swaps \in Nat /\ nonce[p] \in Nat
          /\ Cardinality(SentBy(p, "SwapExecuted")) \in Nat
      BY <3>1, FS_CardinalityType DEF TypeOK, PeerReputation
    <3>4. CASE Execute(p)
      <4>1. /\ IsFiniteSet(SentBy(p, "SwapExecuted")')
            /\ Cardinality(SentBy(p, "SwapExecuted")')
                 <= Cardinality(SentBy(p, "SwapExecuted")) + 1
        BY <3>1, <3>4, ExecuteCounts, GainsOneBound
      <4>2. Cardinality(SentBy(p, "SwapExecuted")') \in Nat
        BY <4>1, FS_CardinalityType
      <4> QED
        BY <3>1, <3>2, <3>3, <3>4, <4>1, <4>2, ExecuteCounts
    <3>5. CASE ~Execute(p)
      <4>1. SentBy(p, "SwapExecuted")' \subseteq SentBy(p, "SwapExecuted")
        BY <3>5, SentChange
      <4>2. /\ IsFiniteSet(SentBy(p, "SwapExecuted")')
            /\ Cardinality(SentBy(p, "SwapExecuted")')
                 <= Cardinality(SentBy(p, "SwapExecuted"))
        BY <3>1, <4>1, FS_Subset
      <4>3. Cardinality(SentBy(p, "SwapExecuted")') \in Nat
        BY <4>2, FS_CardinalityType
      <4>4. rep'[p][p].swaps = rep[p][p].swaps
        <5>1. ~HearsSwap(p, p) /\ ~HearsIntent(p, p)
          BY DeliveredType DEF HearsSwap, HearsIntent
        <5> QED
          BY <3>5, <5>1, CountChange DEF CountStep, SameCounts
      <4>5. nonce'[p] \in {nonce[p], nonce[p] + 1}
        BY SentChange
      <4> QED
        BY <3>1, <3>2, <3>3, <4>2, <4>3, <4>4, <4>5
    <3> QED
      BY <3>4, <3>5
  <2>2. ASSUME NEW a \in Agents, NEW p \in Agents, a # p
        PROVE  /\ HeardOf(a, p, "SwapIntent")' \subseteq SentBy(p, "SwapIntent")'
               /\ HeardOf(a, p, "SwapExecuted")' \subseteq SentBy(p, "SwapExecuted")'
               /\ rep'[a][p].intents <= Cardinality(HeardOf(a, p, "SwapIntent")')
               /\ rep'[a][p].swaps <= Cardinality(HeardOf(a, p, "SwapExecuted")')
    <3>1. /\ IsFiniteSet(SentBy(p, "SwapIntent")) /\ IsFiniteSet(SentBy(p, "SwapExecuted"))
          /\ HeardOf(a, p, "SwapIntent") \subseteq SentBy(p, "SwapIntent")
          /\ HeardOf(a, p, "SwapExecuted") \subseteq SentBy(p, "SwapExecuted")
          /\ rep[a][p].intents <= Cardinality(HeardOf(a, p, "SwapIntent"))
          /\ rep[a][p].swaps <= Cardinality(HeardOf(a, p, "SwapExecuted"))
      BY <2>2 DEF CountsBacked
    <3>2. ASSUME NEW k, HeardOf(a, p, k) \subseteq SentBy(p, k), IsFiniteSet(SentBy(p, k)')
          PROVE  /\ HeardOf(a, p, k)' \subseteq SentBy(p, k)'
                 /\ Cardinality(HeardOf(a, p, k)) <= Cardinality(HeardOf(a, p, k)')
                 /\ Cardinality(HeardOf(a, p, k)) \in Nat
                 /\ Cardinality(HeardOf(a, p, k)') \in Nat
      <4>1. HeardOf(a, p, k)' \subseteq SentBy(p, k)'
        BY <3>2, Growth, HandledWasSent DEF HeardOf, SentBy
      <4>2. IsFiniteSet(HeardOf(a, p, k)')
        BY <3>2, <4>1, FS_Subset
      <4>3. HeardOf(a, p, k) \subseteq HeardOf(a, p, k)'
        BY Growth DEF HeardOf
      <4>4. /\ IsFiniteSet(HeardOf(a, p, k))
            /\ Cardinality(HeardOf(a, p, k)) <= Cardinality(HeardOf(a, p, k)')
        BY <4>2, <4>3, FS_Subset
      <4> QED
        BY <4>1, <4>2, <4>4, FS_CardinalityType
    <3>3. IsFiniteSet(SentBy(p, "SwapIntent")') /\ IsFiniteSet(SentBy(p, "SwapExecuted")')
      BY <2>1
    <3>4. rep[a][p].swaps \in Nat /\ rep[a][p].intents \in Nat
      BY DEF TypeOK, PeerReputation
    <3>5. CASE SameCounts(a, p)
      BY <3>1, <3>2, <3>3, <3>4, <3>5 DEF SameCounts
    <3>6. CASE HearsSwap(a, p)
      <4>1. PICK m \in Deliverable(a, "SwapExecuted") :
              /\ m.from = p /\ Takes(a, m)
              /\ rep'[a][p].swaps = rep[a][p].swaps + 1
              /\ rep'[a][p].intents = rep[a][p].intents
        BY <3>6 DEF HearsSwap
      <4>2. Cardinality(HeardOf(a, p, "SwapExecuted")')
              = Cardinality(HeardOf(a, p, "SwapExecuted")) + 1
        BY <3>1, <4>1, HeardGrows DEF Deliverable
      <4> QED
        BY <3>1, <3>2, <3>3, <3>4, <4>1, <4>2
    <3>7. CASE HearsIntent(a, p)
      <4>1. PICK m \in Deliverable(a, "SwapIntent") :
              /\ m.from = p /\ Takes(a, m)
              /\ rep'[a][p].swaps = rep[a][p].swaps
              /\ rep'[a][p].intents = rep[a][p].intents + 1
        BY <3>7 DEF HearsIntent
      <4>2. Cardinality(HeardOf(a, p, "SwapIntent")')
              = Cardinality(HeardOf(a, p, "SwapIntent")) + 1
        BY <3>1, <4>1, HeardGrows DEF Deliverable
      <4> QED
        BY <3>1, <3>2, <3>3, <3>4, <4>1, <4>2
    <3> QED
      BY <2>2, <3>5, <3>6, <3>7, CountChange DEF CountStep
  <2> QED
    BY <2>1, <2>2 DEF CountsBacked
<1> QED
  BY <1>1, <1>2, CountsBackedImplies, TypeCorrect, PTL DEF Spec

-----------------------------------------------------------------------------
(* Only a proposal that was accepted can be counted twice: an initiator of *)
(* whom the agent handled no acceptance of a proposal past its time is     *)
(* penalised once per proposal (cleanup_expired_with_initiators).          *)
OncePenalisedUnlessAccepted ==
  \A a, p \in Agents :
    (\A m \in rcvd[a] : m.kind = "SwapAcceptance" => m.id \notin PastExpiry(a, p))
      => rep[a][p].expired <= Cardinality({i \in Ids : Knows(a, i) /\ Initiator(i) = p})

THEOREM SecondPenaltyNeedsAcceptance ==
  ASSUME ~SameSecond
  PROVE  Spec => []OncePenalisedUnlessAccepted
<1>1. TypeOK /\ PenaltiesAccounted => OncePenalisedUnlessAccepted
  <2> SUFFICES ASSUME TypeOK, PenaltiesAccounted, NEW a \in Agents, NEW p \in Agents,
                      \A m \in rcvd[a] : m.kind = "SwapAcceptance" =>
                        m.id \notin PastExpiry(a, p)
               PROVE  rep[a][p].expired
                        <= Cardinality({i \in Ids : Knows(a, i) /\ Initiator(i) = p})
    BY DEF OncePenalisedUnlessAccepted
  <2> DEFINE known == {i \in Ids : Knows(a, i) /\ Initiator(i) = p}
  <2>1. {m \in rcvd[a] : m.kind = "SwapAcceptance" /\ m.id \in PastExpiry(a, p)} = {}
    OBVIOUS
  <2>2. rep[a][p].expired <= Cardinality(PastExpiry(a, p)) + 0
    BY <2>1, FS_EmptySet DEF PenaltiesAccounted
  <2>3. IsFiniteSet(known)
    BY IdsFinite, FS_Subset
  <2>4. PastExpiry(a, p) \subseteq known
    BY DEF PastExpiry
  <2>5. /\ IsFiniteSet(PastExpiry(a, p))
        /\ Cardinality(PastExpiry(a, p)) <= Cardinality(known)
    BY <2>3, <2>4, FS_Subset
  <2>6. Cardinality(PastExpiry(a, p)) \in Nat /\ Cardinality(known) \in Nat
    BY <2>3, <2>5, FS_CardinalityType
  <2>7. rep[a][p].expired \in Nat
    BY DEF TypeOK, PeerReputation
  <2> QED
    BY <2>2, <2>5, <2>6, <2>7
<1> QED
  BY <1>1, TypeCorrect, PenaltiesAreAccounted, PTL
===============================================================================
