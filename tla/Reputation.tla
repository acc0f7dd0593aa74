------------------------------ MODULE Reputation ------------------------------
(***************************************************************************)
(* The per-peer reputation record of agent/src/reputation.rs and the pure  *)
(* functions on it.  The code computes with f64 in [0.0, 1.0]; here 1.0 is *)
(* the integer 10000, so that every weight, penalty and trust threshold of *)
(* the source is exact.  Ratios are rounded down to 1/10000, and recency   *)
(* is rounded to whole half-lives.                                         *)
(***************************************************************************)
EXTENDS Integers, Sequences

LOCAL LesserOf(x, y) == IF x <= y THEN x ELSE y
LOCAL GreaterOf(x, y) == IF x >= y THEN x ELSE y

WEIGHT_SWAP_COUNT     == 4000
WEIGHT_IDENTITY       == 2000
WEIGHT_FOLLOW_THROUGH == 2500
MAX_SWAP_COUNT        == 50
MAX_PENALTY           == 5000
PENALTY_INVALID_MESSAGE   == 500
PENALTY_UNFOLLOWED_INTENT == 300
PENALTY_EXPIRED_PROPOSAL  == 200

(* WEIGHT_RECENCY (0.15) halved once per elapsed half-life of 24 hours, up *)
(* to the seven days after which a peer is stale.                          *)
RecencyTable == <<1500, 750, 375, 187, 93, 46, 23, 11>>

PeerReputation ==
  [swaps : Nat, intents : Nat, verified : BOOLEAN, lastActive : Nat,
   invalid : Nat, unfollowed : Nat, expired : Nat]

NewReputation ==
  [swaps |-> 0, intents |-> 0, verified |-> FALSE, lastActive |-> 0,
   invalid |-> 0, unfollowed |-> 0, expired |-> 0]

PenaltyUncapped(r) ==
  r.invalid * PENALTY_INVALID_MESSAGE
    + r.unfollowed * PENALTY_UNFOLLOWED_INTENT
    + r.expired * PENALTY_EXPIRED_PROPOSAL

PenaltyScore(r) ==
  LesserOf(r.invalid * PENALTY_INVALID_MESSAGE
             + r.unfollowed * PENALTY_UNFOLLOWED_INTENT
             + r.expired * PENALTY_EXPIRED_PROPOSAL,
           MAX_PENALTY)

FollowThroughOfIdle(r) ==
  IF r.intents = 0
  THEN IF r.swaps = 0 THEN WEIGHT_FOLLOW_THROUGH ELSE 0
  ELSE (WEIGHT_FOLLOW_THROUGH * LesserOf(r.swaps, r.intents)) \div r.intents

(* min(swaps / intents, 1); full credit for swaps that had no intent and   *)
(* none for a peer that did nothing.                                       *)
FollowThrough(r) ==
  IF r.intents = 0
  THEN IF r.swaps = 0 THEN 0 ELSE WEIGHT_FOLLOW_THROUGH
  ELSE (WEIGHT_FOLLOW_THROUGH * LesserOf(r.swaps, r.intents)) \div r.intents

(* Timestamps count half-lives; lastActive = 0 means never active, and a   *)
(* last activity in the future counts as now (saturating_sub).             *)
RecencyScore(r, now) ==
  LET elapsed == GreaterOf(now - r.lastActive, 0)
  IN  IF r.lastActive = 0 \/ elapsed >= Len(RecencyTable)
      THEN 0
      ELSE RecencyTable[elapsed + 1]

BaseScore(r, now) ==
  (WEIGHT_SWAP_COUNT \div MAX_SWAP_COUNT) * LesserOf(r.swaps, MAX_SWAP_COUNT)
    + (IF r.verified THEN WEIGHT_IDENTITY ELSE 0)
    + FollowThrough(r)
    + RecencyScore(r, now)

CompositeScore(r, now) == GreaterOf(BaseScore(r, now) - PenaltyScore(r), 0)

TrustLevel(score) ==
  CASE score <= 0    -> "Unknown"
    [] score \in 1..3000    -> "Low"
    [] score \in 3001..6000 -> "Medium"
    [] score \in 6001..8500 -> "High"
    [] OTHER                -> "Trusted"

(* The store's updates of one record; a peer without a record has          *)
(* NewReputation, which scores 0.0 exactly as a missing one does.          *)
RecordSwap(r, now)   == [r EXCEPT !.swaps = @ + 1, !.lastActive = now]
RecordIntent(r, now) == [r EXCEPT !.intents = @ + 1, !.lastActive = now]
SetVerified(r, now)  == [r EXCEPT !.verified = TRUE, !.lastActive = now]
RecordExpiredAsCredit(r, n) == [r EXCEPT !.expired = @ - n]
RecordExpired(r, n)  == [r EXCEPT !.expired = @ + n]
===============================================================================
