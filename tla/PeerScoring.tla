----------------------------- MODULE PeerScoring ------------------------------
(***************************************************************************)
(* What one agent makes of its peers over days: the ReputationStore with   *)
(* its decay and its cleanup of stale peers, the PeerRegistry of verified  *)
(* identities, and the application scores (P5) it gives to gossipsub.      *)
(* Time counts half-lives of 24 hours; a refresh runs every 30 seconds,    *)
(* so at least once in every half-life.  What peers send is up to them.    *)
(***************************************************************************)
EXTENDS Integers, FiniteSets, Reputation

CONSTANTS
  Peers,         \* every peer, this agent included
  Self,
  MaxTime,       \* bounds: half-lives,
  MaxSwaps, MaxIntents, MaxInvalid, MaxExpired,  \* and events per peer
  NoRecord, NoScore

STALE_PEER_THRESHOLD == 7

VARIABLES
  now,       \* the current half-life, from 1
  rep,       \* rep[p]: the record of p, if there is one
  registry,  \* peers whose identity attestation was verified
  p5,        \* p5[p]: the application score gossipsub has for p
  swept      \* has a refresh run in this half-life?

vars == <<now, rep, registry, p5, swept>>

ASSUME ScoringAssumption ==
  /\ Self \in Peers
  /\ NoRecord \notin PeerReputation
  /\ NoScore \notin Int
  /\ MaxTime \in Nat \ {0}

-----------------------------------------------------------------------------
Known(p) == rep[p] # NoRecord
Record(p) == IF Known(p) THEN rep[p] ELSE NewReputation   \* or_insert_with(new)

(* The score of a record, and 0.0 without one.                             *)
ScoreOf(r) == IF r = NoRecord THEN 0 ELSE CompositeScore(r, now)
Score(p)   == ScoreOf(rep[p])

Set(p, r)      == rep' = [rep EXCEPT ![p] = r]
SetScore(p, r) == p5' = [p5 EXCEPT ![p] = ScoreOf(r)]

Init ==
  /\ now = 1
  /\ rep = [p \in Peers |-> IF p = Self THEN SetVerified(NewReputation, 1) ELSE NoRecord]
  /\ registry = {Self}
  /\ p5 = [p \in Peers |-> NoScore]
  /\ swept = FALSE

(* The agent's own intent and swap: recorded, not scored for gossip.       *)
OwnIntent ==
  /\ Record(Self).intents < MaxIntents
  /\ Set(Self, RecordIntent(Record(Self), now))
  /\ UNCHANGED <<now, registry, p5, swept>>

OwnSwap ==
  /\ Record(Self).swaps < MaxSwaps
  /\ Set(Self, RecordSwap(Record(Self), now))
  /\ UNCHANGED <<now, registry, p5, swept>>

RecvSwapIntent(p) ==
  LET r == RecordIntent(Record(p), now)
  IN  /\ Record(p).intents < MaxIntents
      /\ Set(p, r)
      /\ SetScore(p, r)
      /\ UNCHANGED <<now, registry, swept>>

RecvSwapExecuted(p) ==
  LET r == RecordSwap(Record(p), now)
  IN  /\ Record(p).swaps < MaxSwaps
      /\ Set(p, r)
      /\ SetScore(p, r)
      /\ UNCHANGED <<now, registry, swept>>

(* A peer whose binding is replaced stays registered.                      *)
Register(p) == registry' = registry \cup {p}

(* A valid attestation registers the identity; P5 waits for the refresh.   *)
RecvIdentityAttestation(p) ==
  /\ Register(p)
  /\ Set(p, SetVerified(Record(p), now))
  /\ UNCHANGED <<now, p5, swept>>

(* Malformed content is held against the peer that passed it on.           *)
RecvMalformed(p) ==
  LET r == [Record(p) EXCEPT !.invalid = @ + 1]
  IN  /\ Record(p).invalid < MaxInvalid
      /\ Set(p, r)
      /\ SetScore(p, r)
      /\ UNCHANGED <<now, registry, swept>>

IsStale(r) == r.lastActive > 0 /\ now - r.lastActive > STALE_PEER_THRESHOLD

Penalised(E) ==
  [p \in Peers |-> IF p \in E THEN RecordExpired(Record(p), 1) ELSE rep[p]]

CleanedOfUnverified(reps) ==
  [p \in Peers |-> IF reps[p] # NoRecord /\ IsStale(reps[p]) /\ ~reps[p].verified
                   THEN NoRecord ELSE reps[p]]

Cleaned(reps) ==
  [p \in Peers |-> IF reps[p] # NoRecord /\ IsStale(reps[p]) THEN NoRecord ELSE reps[p]]

Rescored(reps) ==
  [p \in Peers |-> IF reps[p] # NoRecord THEN ScoreOf(reps[p]) ELSE p5[p]]

RefreshScoresFirst(E) ==
  /\ \A p \in E : Record(p).expired < MaxExpired
  /\ p5' = Rescored(rep)
  /\ rep' = Cleaned(Penalised(E))
  /\ swept' = TRUE
  /\ UNCHANGED <<now, registry>>

(* The refresh penalises the authors of whatever expired, sets P5 for all  *)
(* that have a record, and then drops the stale ones.                      *)
Refresh(E) ==
  /\ \A p \in E : Record(p).expired < MaxExpired
  /\ p5' = Rescored(Penalised(E))
  /\ rep' = Cleaned(Penalised(E))
  /\ swept' = TRUE
  /\ UNCHANGED <<now, registry>>

Tick ==
  /\ swept
  /\ now < MaxTime
  /\ now' = now + 1
  /\ swept' = FALSE
  /\ UNCHANGED <<rep, registry, p5>>

Next ==
  \/ OwnIntent
  \/ OwnSwap
  \/ \E p \in Peers \ {Self} :
       \/ RecvSwapIntent(p)
       \/ RecvSwapExecuted(p)
       \/ RecvIdentityAttestation(p)
       \/ RecvMalformed(p)
  \/ \E E \in SUBSET Peers : Refresh(E)
  \/ Tick

Spec == Init /\ [][Next]_vars

-----------------------------------------------------------------------------
(* Properties.                                                             *)

Scores == 0 .. 10000

(* Every variable stays in its type.                                       *)
TypeOK ==
  /\ now \in 1 .. MaxTime
  /\ rep \in [Peers -> PeerReputation \cup {NoRecord}]
  /\ registry \subseteq Peers
  /\ p5 \in [Peers -> Scores \cup {NoScore}]
  /\ swept \in BOOLEAN

(* Once a refresh has run in a half-life, gossipsub never ranks a peer     *)
(* above its composite score, penalties included.  The exception is a peer *)
(* whose record was dropped as stale, its P5 left as it was, and that did  *)
(* nothing since but attest its identity.                                  *)
Acted(p) == rep[p].swaps + rep[p].intents + rep[p].invalid > 0

NotOverranked ==
  swept => \A p \in Peers \ {Self} :
    Known(p) /\ Acted(p) => p5[p] # NoScore /\ p5[p] <= Score(p)

(* After a refresh no record is older than the stale threshold, and no     *)
(* record says more than the registry: verified means attested.            *)
StoreIsFresh ==
  \A p \in Peers : Known(p) =>
    /\ (swept => ~IsStale(rep[p]))
    /\ (rep[p].verified => p \in registry)

(* "Penalties are capped at 0.5 to prevent permanent blacklisting"         *)
(* (documentation/cycle-3-demo-guide.md): whatever it is penalised for, a  *)
(* verified peer that swapped as often as it announced stays above Unknown *)
(* for two half-lives after its last activity.                             *)
Reliable ==
  {p \in Peers :
     /\ Known(p) /\ rep[p].verified
     /\ rep[p].swaps > 0 /\ rep[p].swaps >= rep[p].intents
     /\ now - rep[p].lastActive <= 1}

NotBlacklisted == \A p \in Reliable : TrustLevel(Score(p)) # "Unknown"

(* Announcing a swap that was made never lowers a peer's score.            *)
SwapNeverHurts ==
  [][\A p \in Peers : RecvSwapExecuted(p) => Score(p)' >= Score(p)]_vars

(* The record's field is documented as "Whether peer has a verified        *)
(* identity in PeerRegistry" (agent/src/reputation.rs).                    *)
VerifiedMatchesRegistry ==
  \A p \in Peers : Known(p) => (rep[p].verified <=> p \in registry)
===============================================================================
