--------------------------- MODULE PeerScoringProofs ---------------------------
(***************************************************************************)
(* The composite score for every record, and what PeerScoring promises     *)
(* about the scores of its peers, for any peers and bounds.                *)
(***************************************************************************)
EXTENDS PeerScoring, TLAPS

-----------------------------------------------------------------------------
(* The score.                                                              *)

(* A quotient by d grows with its dividend.                                *)
LEMMA QuotientMonotone ==
  ASSUME NEW x \in Nat, NEW y \in Nat, NEW d \in Nat, d > 0, x <= y
  PROVE  x \div d \in Nat /\ x \div d <= y \div d
<1> DEFINE q == x \div d
           s == y \div d
<1>1. q \in Nat /\ d * q <= x
  OBVIOUS
<1>2. s \in Nat /\ y < d * s + d
  OBVIOUS
<1> HIDE DEF q, s
<1>3. SUFFICES ASSUME q >= s + 1 PROVE FALSE
  BY <1>1, <1>2 DEF q, s
<1>4. d * q >= d * (s + 1)
  BY <1>1, <1>2, <1>3
<1>5. d * (s + 1) = d * s + d /\ d * s \in Nat /\ d * q \in Nat
  BY <1>1, <1>2
<1> QED
  BY <1>1, <1>2, <1>4, <1>5

(* What is c times d has c as its quotient by d.                           *)
LEMMA QuotientExact ==
  ASSUME NEW c \in Nat, NEW d \in Nat, d > 0
  PROVE  (c * d) \div d = c
<1> DEFINE q == (c * d) \div d
<1>1. q \in Nat /\ d * q <= c * d /\ c * d < d * q + d
  OBVIOUS
<1> HIDE DEF q
<1>2. ~(q >= c + 1)
  <2>1. SUFFICES ASSUME q >= c + 1 PROVE FALSE
    OBVIOUS
  <2>2. d * q >= d * (c + 1) /\ d * (c + 1) = c * d + d
    BY <1>1, <2>1
  <2> QED
    BY <1>1, <2>2
<1>3. ~(c >= q + 1)
  <2>1. SUFFICES ASSUME c >= q + 1 PROVE FALSE
    OBVIOUS
  <2>2. d * c >= d * (q + 1) /\ d * (q + 1) = d * q + d /\ d * c = c * d
    BY <1>1, <2>1
  <2> QED
    BY <1>1, <2>2
<1> QED
  BY <1>1, <1>2, <1>3 DEF q

(* follow_through is at most its weight, all of it for a peer that swapped *)
(* at least as often as it announced, and never less for one more swap.    *)
LEMMA FollowThroughBounds ==
  ASSUME NEW r \in PeerReputation
  PROVE  /\ FollowThrough(r) \in Nat /\ FollowThrough(r) <= 2500
         /\ r.swaps > 0 /\ r.swaps >= r.intents => FollowThrough(r) = 2500
<1>0. r.swaps \in Nat /\ r.intents \in Nat
  BY DEF PeerReputation
<1>1. CASE r.intents = 0
  BY <1>0, <1>1 DEF FollowThrough, WEIGHT_FOLLOW_THROUGH
<1>2. CASE r.intents > 0 /\ r.swaps >= r.intents
  <2>1. FollowThrough(r) = (2500 * r.intents) \div r.intents
    BY <1>0, <1>2 DEF FollowThrough, WEIGHT_FOLLOW_THROUGH
  <2>2. (2500 * r.intents) \div r.intents = 2500
    BY <1>0, <1>2, QuotientExact
  <2> QED
    BY <2>1, <2>2
<1>3. CASE r.intents > 0 /\ r.swaps < r.intents
  <2>1. FollowThrough(r) = (2500 * r.swaps) \div r.intents
    BY <1>0, <1>3 DEF FollowThrough, WEIGHT_FOLLOW_THROUGH
  <2>2. 2500 * r.swaps \in Nat /\ 2500 * r.intents \in Nat
        /\ 2500 * r.swaps <= 2500 * r.intents
    BY <1>0, <1>3
  <2>3. /\ (2500 * r.swaps) \div r.intents \in Nat
        /\ (2500 * r.swaps) \div r.intents <= (2500 * r.intents) \div r.intents
    BY <1>0, <1>3, <2>2, QuotientMonotone
  <2>4. (2500 * r.intents) \div r.intents = 2500
    BY <1>0, <1>3, QuotientExact
  <2> DEFINE q == (2500 * r.swaps) \div r.intents
  <2>5. q \in Nat /\ q <= 2500 /\ FollowThrough(r) = q
    BY <2>1, <2>3, <2>4
  <2> HIDE DEF q
  <2> QED
    BY <1>0, <1>3, <2>5
<1> QED
  BY <1>0, <1>1, <1>2, <1>3

LEMMA FollowThroughGrows ==
  ASSUME NEW r \in PeerReputation, NEW s \in PeerReputation,
         s.intents = r.intents, s.swaps = r.swaps + 1
  PROVE  FollowThrough(r) <= FollowThrough(s)
<1>0. r.swaps \in Nat /\ r.intents \in Nat
  BY DEF PeerReputation
<1>1. FollowThrough(r) \in Nat /\ FollowThrough(r) <= 2500
  BY FollowThroughBounds
<1>2. CASE s.swaps >= s.intents
  BY <1>0, <1>1, <1>2, FollowThroughBounds
<1>3. CASE s.swaps < s.intents
  <2>1. /\ FollowThrough(r) = (2500 * r.swaps) \div r.intents
        /\ FollowThrough(s) = (2500 * s.swaps) \div r.intents
    BY <1>0, <1>3 DEF FollowThrough, WEIGHT_FOLLOW_THROUGH
  <2>2. /\ 2500 * r.swaps \in Nat /\ 2500 * s.swaps \in Nat
        /\ 2500 * r.swaps <= 2500 * s.swaps
    BY <1>0
  <2>3. (2500 * r.swaps) \div r.intents <= (2500 * s.swaps) \div r.intents
    BY <1>0, <1>3, <2>2, QuotientMonotone
  <2> QED
    BY <2>1, <2>3
<1> QED
  BY <1>0, <1>2, <1>3 DEF PeerReputation

(* Recency is worth at most its weight, which a peer has that is active    *)
(* now, and half of it a half-life later.                                  *)
LEMMA RecencyBounds ==
  ASSUME NEW r \in PeerReputation, NEW t \in Nat
  PROVE  /\ RecencyScore(r, t) \in Nat /\ RecencyScore(r, t) <= 1500
         /\ r.lastActive > 0 /\ t - r.lastActive <= 1 => RecencyScore(r, t) >= 750
         /\ r.lastActive > 0 /\ r.lastActive = t => RecencyScore(r, t) = 1500
<1>0. r.lastActive \in Nat
  BY DEF PeerReputation
<1>1. /\ Len(RecencyTable) = 8
      /\ \A i \in 1 .. 8 : RecencyTable[i] \in Nat /\ RecencyTable[i] <= 1500
  BY DEF RecencyTable
<1>2. RecencyTable[1] = 1500 /\ RecencyTable[2] = 750
  BY DEF RecencyTable
<1>3. CASE r.lastActive = 0
  BY <1>3 DEF RecencyScore
<1>4. CASE r.lastActive > 0 /\ t <= r.lastActive
  BY <1>0, <1>1, <1>2, <1>4 DEF RecencyScore
<1>5. CASE r.lastActive > 0 /\ t > r.lastActive
  BY <1>0, <1>1, <1>2, <1>5 DEF RecencyScore
<1> QED
  BY <1>0, <1>3, <1>4, <1>5

(* The penalty is capped at half of the scale.                             *)
LEMMA PenaltyBounds ==
  ASSUME NEW r \in PeerReputation
  PROVE  PenaltyScore(r) \in Nat /\ PenaltyScore(r) <= 5000
<1> DEFINE sum == r.invalid * 500 + r.unfollowed * 300 + r.expired * 200
<1>1. sum \in Nat
  BY DEF PeerReputation
<1>2. PenaltyScore(r) = IF sum <= 5000 THEN sum ELSE 5000
  BY DEF PenaltyScore, PENALTY_INVALID_MESSAGE, PENALTY_UNFOLLOWED_INTENT,
         PENALTY_EXPIRED_PROPOSAL, MAX_PENALTY
<1> HIDE DEF sum
<1> QED
  BY <1>1, <1>2

(* base is the sum of what its four parts are worth.                       *)
LEMMA BaseScoreIs ==
  ASSUME NEW r \in PeerReputation, NEW t \in Nat
  PROVE  /\ BaseScore(r, t) = 80 * (IF r.swaps <= 50 THEN r.swaps ELSE 50)
                                + (IF r.verified THEN 2000 ELSE 0)
                                + FollowThrough(r) + RecencyScore(r, t)
         /\ BaseScore(r, t) \in Nat /\ BaseScore(r, t) <= 10000
<1>1. WEIGHT_SWAP_COUNT \div MAX_SWAP_COUNT = 80
  BY DEF WEIGHT_SWAP_COUNT, MAX_SWAP_COUNT
<1>2. FollowThrough(r) \in Nat /\ FollowThrough(r) <= 2500
  BY FollowThroughBounds
<1>5. RecencyScore(r, t) \in Nat /\ RecencyScore(r, t) <= 1500
  BY RecencyBounds
<1>3. r.swaps \in Nat /\ r.verified \in BOOLEAN
  BY DEF PeerReputation
<1>4. BaseScore(r, t) = 80 * (IF r.swaps <= 50 THEN r.swaps ELSE 50)
                          + (IF r.verified THEN 2000 ELSE 0)
                          + FollowThrough(r) + RecencyScore(r, t)
  BY <1>1, <1>3 DEF BaseScore, MAX_SWAP_COUNT, WEIGHT_IDENTITY
<1>6. /\ (IF r.swaps <= 50 THEN r.swaps ELSE 50) \in Nat
      /\ (IF r.swaps <= 50 THEN r.swaps ELSE 50) <= 50
  BY <1>3
<1>7. (IF r.verified THEN 2000 ELSE 0) \in Nat /\ (IF r.verified THEN 2000 ELSE 0) <= 2000
  BY <1>3
<1>8. BaseScore(r, t) \in Nat /\ BaseScore(r, t) <= 10000
  BY <1>2, <1>4, <1>5, <1>6, <1>7
<1> QED
  BY <1>4, <1>8

(* composite_score stays within the scale, whatever the record.            *)
THEOREM ScoreInRange ==
  ASSUME NEW r \in PeerReputation, NEW t \in Nat
  PROVE  CompositeScore(r, t) \in Scores
<1> DEFINE top == 10000
<1>1. BaseScore(r, t) \in Nat /\ BaseScore(r, t) <= 10000
  BY BaseScoreIs
<1>2. PenaltyScore(r) \in Nat /\ PenaltyScore(r) <= 5000
  BY PenaltyBounds
<1>3. CompositeScore(r, t) =
        IF BaseScore(r, t) - PenaltyScore(r) >= 0
        THEN BaseScore(r, t) - PenaltyScore(r) ELSE 0
  BY DEF CompositeScore
<1>4. top \in Nat /\ CompositeScore(r, t) \in Nat /\ CompositeScore(r, t) <= top
  BY <1>1, <1>2, <1>3
<1> HIDE DEF top
<1>5. CompositeScore(r, t) \in 0 .. top
  BY <1>4
<1> QED
  BY <1>5 DEF top, Scores

LEMMA ScoresAreNumbers == \A k \in Scores : k \in Nat
<1> DEFINE top == 10000
<1>1. top \in Nat
  OBVIOUS
<1> HIDE DEF top
<1>2. \A k \in 0 .. top : k \in Nat
  BY <1>1
<1> QED
  BY <1>2 DEF top, Scores

(* To verify a peer that is active now never lowers its score.             *)
LEMMA VerifyingRaises ==
  ASSUME NEW r \in PeerReputation, NEW t \in Nat, t > 0
  PROVE  CompositeScore(r, t) <= CompositeScore(SetVerified(r, t), t)
<1> DEFINE s == SetVerified(r, t)
<1>1. /\ s \in PeerReputation
      /\ s.swaps = r.swaps /\ s.intents = r.intents /\ s.verified
      /\ s.lastActive = t
      /\ s.invalid = r.invalid /\ s.unfollowed = r.unfollowed /\ s.expired = r.expired
  BY DEF PeerReputation, SetVerified
<1> HIDE DEF s
<1>2. FollowThrough(s) = FollowThrough(r) /\ PenaltyScore(s) = PenaltyScore(r)
  BY <1>1 DEF FollowThrough, PenaltyScore
<1>3. RecencyScore(s, t) = 1500
  BY <1>1, RecencyBounds
<1>4. RecencyScore(r, t) \in Nat /\ RecencyScore(r, t) <= 1500
  BY RecencyBounds
<1>5. FollowThrough(r) \in Nat /\ FollowThrough(r) <= 2500
  BY FollowThroughBounds
<1>6. PenaltyScore(r) \in Nat /\ PenaltyScore(r) <= 5000
  BY PenaltyBounds
<1>7. BaseScore(r, t) <= BaseScore(s, t)
      /\ BaseScore(r, t) \in Int /\ BaseScore(s, t) \in Int
  <2>1. (IF r.verified THEN 2000 ELSE 0) \in Nat /\ (IF r.verified THEN 2000 ELSE 0) <= 2000
    BY DEF PeerReputation
  <2>2. (IF s.verified THEN 2000 ELSE 0) = 2000
    BY <1>1
  <2>3. (IF r.swaps <= 50 THEN r.swaps ELSE 50) \in Int
    BY DEF PeerReputation
  <2>4. BaseScore(r, t) = 80 * (IF r.swaps <= 50 THEN r.swaps ELSE 50)
                            + (IF r.verified THEN 2000 ELSE 0)
                            + FollowThrough(r) + RecencyScore(r, t)
    BY BaseScoreIs
  <2>5. BaseScore(s, t) = 80 * (IF r.swaps <= 50 THEN r.swaps ELSE 50)
                            + (IF s.verified THEN 2000 ELSE 0)
                            + FollowThrough(r) + 1500
    BY <1>1, <1>2, <1>3, BaseScoreIs
  <2> QED
    BY <1>4, <1>5, <2>1, <2>2, <2>3, <2>4, <2>5
<1>8. CompositeScore(r, t) <= CompositeScore(s, t)
  BY <1>2, <1>6, <1>7 DEF CompositeScore
<1> QED
  BY <1>8 DEF s

(* Nor does one more swap.                                                 *)
LEMMA SwapRaises ==
  ASSUME NEW r \in PeerReputation, NEW t \in Nat, t > 0
  PROVE  CompositeScore(r, t) <= CompositeScore(RecordSwap(r, t), t)
<1> DEFINE s    == RecordSwap(r, t)
           more == r.swaps + 1
<1>0. more \in Nat
  BY DEF PeerReputation
<1> HIDE DEF more
<1>a. s = [r EXCEPT !.swaps = more, !.lastActive = t]
  BY DEF RecordSwap, more
<1>b. s \in PeerReputation /\ s.swaps = more
  BY <1>0, <1>a DEF PeerReputation
<1>1. /\ s \in PeerReputation
      /\ s.swaps = r.swaps + 1 /\ s.intents = r.intents /\ s.verified = r.verified
      /\ s.lastActive = t
      /\ s.invalid = r.invalid /\ s.unfollowed = r.unfollowed /\ s.expired = r.expired
  BY <1>a, <1>b DEF PeerReputation, more
<1> HIDE DEF s
<1>2. PenaltyScore(s) = PenaltyScore(r)
  BY <1>1 DEF PenaltyScore
<1>3. RecencyScore(s, t) = 1500
  BY <1>1, RecencyBounds
<1>4. RecencyScore(r, t) \in Nat /\ RecencyScore(r, t) <= 1500
  BY RecencyBounds
<1>5. /\ FollowThrough(r) \in Nat /\ FollowThrough(r) <= 2500
      /\ FollowThrough(s) \in Nat /\ FollowThrough(s) <= 2500
  BY <1>1, FollowThroughBounds
<1>6. FollowThrough(r) <= FollowThrough(s)
  BY <1>1, FollowThroughGrows
<1>7. PenaltyScore(r) \in Nat /\ PenaltyScore(r) <= 5000
  BY PenaltyBounds
<1>8. BaseScore(r, t) <= BaseScore(s, t)
      /\ BaseScore(r, t) \in Int /\ BaseScore(s, t) \in Int
  <2>1. (IF r.verified THEN 2000 ELSE 0) \in Nat /\ (IF r.verified THEN 2000 ELSE 0) <= 2000
    BY DEF PeerReputation
  <2>2. /\ (IF r.swaps <= 50 THEN r.swaps ELSE 50) \in Int
        /\ (IF s.swaps <= 50 THEN s.swaps ELSE 50) \in Int
        /\ (IF r.swaps <= 50 THEN r.swaps ELSE 50)
             <= (IF s.swaps <= 50 THEN s.swaps ELSE 50)
    BY <1>1 DEF PeerReputation
  <2>3. BaseScore(r, t) = 80 * (IF r.swaps <= 50 THEN r.swaps ELSE 50)
                            + (IF r.verified THEN 2000 ELSE 0)
                            + FollowThrough(r) + RecencyScore(r, t)
    BY BaseScoreIs
  <2>4. BaseScore(s, t) = 80 * (IF s.swaps <= 50 THEN s.swaps ELSE 50)
                            + (IF r.verified THEN 2000 ELSE 0)
                            + FollowThrough(s) + 1500
    BY <1>1, <1>3, BaseScoreIs
  <2> QED
    BY <1>4, <1>5, <1>6, <2>1, <2>2, <2>3, <2>4
<1>9. CompositeScore(r, t) <= CompositeScore(s, t)
  BY <1>2, <1>7, <1>8 DEF CompositeScore
<1> QED
  BY <1>9 DEF s

(* The rounding and the cap leave a verified peer that keeps its word a    *)
(* score above zero for two half-lives, whatever it is penalised for.      *)
THEOREM CapLeavesTrust ==
  ASSUME NEW r \in PeerReputation, NEW t \in Nat,
         r.verified, r.swaps > 0, r.swaps >= r.intents,
         r.lastActive > 0, t - r.lastActive <= 1
  PROVE  CompositeScore(r, t) >= 330 /\ TrustLevel(CompositeScore(r, t)) # "Unknown"
<1>1. FollowThrough(r) = 2500
  BY FollowThroughBounds
<1>2. RecencyScore(r, t) >= 750 /\ RecencyScore(r, t) \in Nat /\ RecencyScore(r, t) <= 1500
  BY RecencyBounds
<1>3. PenaltyScore(r) \in Nat /\ PenaltyScore(r) <= 5000
  BY PenaltyBounds
<1>4. /\ (IF r.swaps <= 50 THEN r.swaps ELSE 50) \in Nat
      /\ (IF r.swaps <= 50 THEN r.swaps ELSE 50) >= 1
      /\ (IF r.verified THEN 2000 ELSE 0) = 2000
  BY DEF PeerReputation
<1>5. BaseScore(r, t) = 80 * (IF r.swaps <= 50 THEN r.swaps ELSE 50)
                          + (IF r.verified THEN 2000 ELSE 0)
                          + FollowThrough(r) + RecencyScore(r, t)
  BY BaseScoreIs
<1>6. BaseScore(r, t) >= 5330 /\ BaseScore(r, t) \in Int
  BY <1>1, <1>2, <1>4, <1>5
<1>7. CompositeScore(r, t) \in Int /\ CompositeScore(r, t) >= 330
  BY <1>3, <1>6 DEF CompositeScore
<1>8. \A k \in Int : k >= 330 => TrustLevel(k) # "Unknown"
  <2> SUFFICES ASSUME NEW k \in Int, k >= 330 PROVE TrustLevel(k) # "Unknown"
    OBVIOUS
  <2> DEFINE low    == k \in 1 .. 3000
             medium == k \in 3001 .. 6000
             high   == k \in 6001 .. 8500
  <2>1. TrustLevel(k) = CASE k <= 0 -> "Unknown" [] low -> "Low" [] medium -> "Medium"
                          [] high -> "High" [] OTHER -> "Trusted"
    BY DEF TrustLevel
  <2> HIDE DEF low, medium, high
  <2> QED
    BY <2>1
<1> QED
  BY <1>7, <1>8

(* What is left of recency after so many half-lives, by RecencyTable.      *)
LEMMA RecencyDecays ==
  ASSUME NEW r \in PeerReputation, NEW t \in Nat, NEW u \in Nat, t <= u
  PROVE  RecencyScore(r, u) <= RecencyScore(r, t)
<1> DEFINE Left(k) == IF k >= 8 THEN 0 ELSE RecencyTable[k + 1]
           Past(n) == IF n - r.lastActive >= 0 THEN n - r.lastActive ELSE 0
<1>1. Len(RecencyTable) = 8
  BY DEF RecencyTable
<1>2. \A n \in Nat : RecencyScore(r, n) = IF r.lastActive = 0 THEN 0 ELSE Left(Past(n))
  BY <1>1 DEF RecencyScore
<1>3. \A n \in Nat : Past(n) \in Nat
  BY DEF PeerReputation
<1>4. Past(t) <= Past(u)
  BY DEF PeerReputation
<1>5. \A j, k \in Nat : j <= k => Left(k) <= Left(j)
  BY DEF RecencyTable
<1> HIDE DEF Left, Past
<1> QED
  BY <1>2, <1>3, <1>4, <1>5

(* Only what a peer does raises its score: time and penalties, in whatever *)
(* amounts, never do (composite_score).                                    *)
THEOREM OnlyActivityRaises ==
  ASSUME NEW r \in PeerReputation, NEW s \in PeerReputation,
         NEW t \in Nat, NEW u \in Nat, t <= u,
         s.swaps = r.swaps, s.intents = r.intents, s.verified = r.verified,
         s.lastActive = r.lastActive,
         s.invalid >= r.invalid, s.unfollowed >= r.unfollowed, s.expired >= r.expired
  PROVE  CompositeScore(s, u) <= CompositeScore(r, t)
<1> DEFINE Sum(x) == x.invalid * 500 + x.unfollowed * 300 + x.expired * 200
<1>1. Sum(r) \in Nat /\ Sum(s) \in Nat /\ Sum(r) <= Sum(s)
  BY DEF PeerReputation
<1>2. \A x \in {r, s} : PenaltyScore(x) = IF Sum(x) <= 5000 THEN Sum(x) ELSE 5000
  BY DEF PenaltyScore, PENALTY_INVALID_MESSAGE, PENALTY_UNFOLLOWED_INTENT,
         PENALTY_EXPIRED_PROPOSAL, MAX_PENALTY
<1> HIDE DEF Sum
<1>3. PenaltyScore(r) <= PenaltyScore(s)
  BY <1>1, <1>2
<1>4. FollowThrough(s) = FollowThrough(r)
  BY DEF FollowThrough
<1>5. RecencyScore(s, u) <= RecencyScore(r, t)
  <2>1. RecencyScore(s, u) = RecencyScore(r, u)
    BY DEF RecencyScore
  <2> QED
    BY <2>1, RecencyDecays
<1>6. /\ RecencyScore(s, u) \in Nat /\ RecencyScore(r, t) \in Nat
      /\ FollowThrough(r) \in Nat
  BY RecencyBounds, FollowThroughBounds
<1>7. BaseScore(s, u) <= BaseScore(r, t)
  <2> DEFINE rest == 80 * (IF r.swaps <= 50 THEN r.swaps ELSE 50)
                       + (IF r.verified THEN 2000 ELSE 0)
  <2>1. /\ BaseScore(s, u) = rest + FollowThrough(s) + RecencyScore(s, u)
        /\ BaseScore(r, t) = rest + FollowThrough(r) + RecencyScore(r, t)
    BY BaseScoreIs
  <2>2. rest \in Int
    BY DEF PeerReputation
  <2> HIDE DEF rest
  <2> QED
    BY <1>4, <1>5, <1>6, <2>1, <2>2
<1>8. /\ BaseScore(s, u) \in Int /\ BaseScore(r, t) \in Int
      /\ PenaltyScore(s) \in Int /\ PenaltyScore(r) \in Int
  BY BaseScoreIs, PenaltyBounds
<1> QED
  BY <1>3, <1>7, <1>8 DEF CompositeScore

-----------------------------------------------------------------------------
(* Types.                                                                  *)

(* What malformed content does to the record of who passed it on.          *)
Blamed(r) == [r EXCEPT !.invalid = @ + 1]

(* Each update of a record yields a record again.                          *)
LEMMA RecordUpdates ==
  ASSUME NEW r \in PeerReputation, NEW t \in Nat
  PROVE  /\ RecordSwap(r, t) \in PeerReputation
         /\ RecordSwap(r, t).lastActive = t /\ RecordSwap(r, t).verified = r.verified
         /\ RecordIntent(r, t) \in PeerReputation
         /\ RecordIntent(r, t).lastActive = t /\ RecordIntent(r, t).verified = r.verified
         /\ SetVerified(r, t) \in PeerReputation
         /\ SetVerified(r, t).lastActive = t /\ SetVerified(r, t).verified
         /\ Blamed(r) \in PeerReputation
         /\ Blamed(r).lastActive = r.lastActive
         /\ Blamed(r).verified = r.verified
         /\ RecordExpired(r, 1) \in PeerReputation
         /\ RecordExpired(r, 1).lastActive = r.lastActive
         /\ RecordExpired(r, 1).verified = r.verified
<1> DEFINE swaps   == r.swaps + 1
           intents == r.intents + 1
<1>0. swaps \in Nat /\ intents \in Nat
  BY DEF PeerReputation
<1> HIDE DEF swaps, intents
<1>1. /\ RecordSwap(r, t) = [r EXCEPT !.swaps = swaps, !.lastActive = t]
      /\ RecordIntent(r, t) = [r EXCEPT !.intents = intents, !.lastActive = t]
  BY DEF RecordSwap, RecordIntent, swaps, intents
<1>2. /\ RecordSwap(r, t) \in PeerReputation
      /\ RecordSwap(r, t).lastActive = t /\ RecordSwap(r, t).verified = r.verified
  BY <1>0, <1>1 DEF PeerReputation
<1>3. /\ RecordIntent(r, t) \in PeerReputation
      /\ RecordIntent(r, t).lastActive = t /\ RecordIntent(r, t).verified = r.verified
  BY <1>0, <1>1 DEF PeerReputation
<1>4. /\ SetVerified(r, t) \in PeerReputation
      /\ SetVerified(r, t).lastActive = t /\ SetVerified(r, t).verified
  BY DEF PeerReputation, SetVerified
<1>5. /\ Blamed(r) \in PeerReputation
      /\ Blamed(r).lastActive = r.lastActive
      /\ Blamed(r).verified = r.verified
  BY DEF PeerReputation, Blamed
<1>6. /\ RecordExpired(r, 1) \in PeerReputation
      /\ RecordExpired(r, 1).lastActive = r.lastActive
      /\ RecordExpired(r, 1).verified = r.verified
  BY DEF PeerReputation, RecordExpired
<1> QED
  BY <1>2, <1>3, <1>4, <1>5, <1>6

LEMMA NewReputationType ==
  /\ NewReputation \in PeerReputation
  /\ NewReputation.lastActive = 0 /\ ~NewReputation.verified
BY DEF NewReputation, PeerReputation

(* What or_insert_with(new) finds is a record.                             *)
LEMMA RecordType ==
  ASSUME TypeOK, NEW p \in Peers
  PROVE  /\ Record(p) \in PeerReputation
         /\ Known(p) => Record(p) = rep[p]
         /\ ~Known(p) => Record(p) = NewReputation
BY NewReputationType DEF TypeOK, Record, Known

(* What a step may do to the record of one peer, and what the refresh does *)
(* to all of them.                                                         *)
Updates(r, t) ==
  {RecordSwap(r, t), RecordIntent(r, t), SetVerified(r, t), Blamed(r)}

(* Every event but the refresh and the passing of time updates one record, *)
(* and either gives gossipsub its new score, or leaves its scores alone; a *)
(* peer's record is verified only together with its registration.          *)
OneUpdate(p) ==
  /\ \E r \in Updates(Record(p), now) :
       /\ rep' = [rep EXCEPT ![p] = r]
       /\ \/ p5' = [p5 EXCEPT ![p] = CompositeScore(r, now)] /\ registry' = registry
          \/ p5' = p5 /\ p = Self /\ registry' = registry
          \/ p5' = p5 /\ r = SetVerified(Record(p), now) /\ registry' = registry \cup {p}
       /\ p \notin registry' => r.verified = Record(p).verified
  /\ UNCHANGED <<now, swept>>

LEMMA StepCases ==
  ASSUME TypeOK, [Next]_vars
  PROVE  \/ \E p \in Peers : OneUpdate(p)
         \/ \E E \in SUBSET Peers : Refresh(E)
         \/ Tick
         \/ UNCHANGED vars
<1> USE ScoringAssumption
<1>0. \A p \in Peers : Record(p) \in PeerReputation /\ now \in Nat
  BY RecordType DEF TypeOK
<1>a. \A p \in Peers : \A r \in Updates(Record(p), now) : ScoreOf(r) = CompositeScore(r, now)
  <2> SUFFICES ASSUME NEW p \in Peers, NEW r \in Updates(Record(p), now)
               PROVE  ScoreOf(r) = CompositeScore(r, now)
    OBVIOUS
  <2>1. Record(p) \in PeerReputation /\ now \in Nat
    BY <1>0
  <2>2. r \in PeerReputation
    BY <2>1, RecordUpdates DEF Updates
  <2> QED
    BY <2>2 DEF ScoreOf
<1>1. ASSUME OwnIntent PROVE OneUpdate(Self)
  BY <1>0, <1>1, RecordUpdates DEF OwnIntent, OneUpdate, Updates, Set
<1>2. ASSUME OwnSwap PROVE OneUpdate(Self)
  BY <1>0, <1>2, RecordUpdates DEF OwnSwap, OneUpdate, Updates, Set
<1>3. ASSUME NEW p \in Peers, RecvSwapIntent(p) PROVE OneUpdate(p)
  BY <1>0, <1>a, <1>3, RecordUpdates
     DEF RecvSwapIntent, OneUpdate, Updates, Set, SetScore
<1>4. ASSUME NEW p \in Peers, RecvSwapExecuted(p) PROVE OneUpdate(p)
  BY <1>0, <1>a, <1>4, RecordUpdates
     DEF RecvSwapExecuted, OneUpdate, Updates, Set, SetScore
<1>5. ASSUME NEW p \in Peers, RecvIdentityAttestation(p) PROVE OneUpdate(p)
  BY <1>0, <1>5, RecordUpdates
     DEF RecvIdentityAttestation, Register, OneUpdate, Updates, Set
<1>6. ASSUME NEW p \in Peers, RecvMalformed(p) PROVE OneUpdate(p)
  BY <1>0, <1>a, <1>6, RecordUpdates
     DEF RecvMalformed, OneUpdate, Updates, Blamed, Set, SetScore
<1> QED
  BY <1>1, <1>2, <1>3, <1>4, <1>5, <1>6 DEF Next
(* An update keeps the types.                                              *)
LEMMA UpdateTypes ==
  ASSUME NEW r \in PeerReputation, NEW t \in Nat, NEW s \in Updates(r, t)
  PROVE  /\ s \in PeerReputation
         /\ s.lastActive \in {t, r.lastActive}
         /\ r.verified => s.verified
         /\ s.verified => r.verified \/ s.lastActive = t
BY RecordUpdates DEF Updates

(* The refresh sets scores from the penalised records, and keeps of them   *)
(* those that are not stale.                                               *)
LEMMA RefreshEffect ==
  ASSUME TypeOK, NEW E \in SUBSET Peers, Refresh(E)
  PROVE  /\ rep' \in [Peers -> PeerReputation \cup {NoRecord}]
         /\ p5' \in [Peers -> Scores \cup {NoScore}]
         /\ \A p \in Peers : rep'[p] # NoRecord =>
              /\ rep'[p] = Penalised(E)[p] /\ ~IsStale(rep'[p])
              /\ p5'[p] = CompositeScore(rep'[p], now)
              /\ Known(p) => /\ rep'[p].verified = rep[p].verified
                             /\ rep'[p].lastActive = rep[p].lastActive
              /\ ~Known(p) => ~rep'[p].verified
<1> DEFINE pen == Penalised(E)
<1>0. now \in Nat /\ NoRecord \notin PeerReputation
  BY ScoringAssumption DEF TypeOK
<1>1. ASSUME NEW p \in Peers, pen[p] # NoRecord
      PROVE  /\ pen[p] \in PeerReputation
             /\ Known(p) => /\ pen[p].verified = rep[p].verified
                            /\ pen[p].lastActive = rep[p].lastActive
             /\ ~Known(p) => ~pen[p].verified
  <2>1. Record(p) \in PeerReputation /\ RecordExpired(Record(p), 1) \in PeerReputation
        /\ RecordExpired(Record(p), 1).lastActive = Record(p).lastActive
        /\ RecordExpired(Record(p), 1).verified = Record(p).verified
    BY <1>0, RecordType, RecordUpdates
  <2>2. pen[p] = IF p \in E THEN RecordExpired(Record(p), 1) ELSE rep[p]
    BY DEF Penalised
  <2> QED
    BY <1>1, <2>1, <2>2, RecordType, NewReputationType DEF Known, TypeOK
<1>2. /\ rep' = Cleaned(pen) /\ p5' = Rescored(pen)
  BY DEF Refresh
<1>3. ASSUME NEW p \in Peers
      PROVE  /\ rep'[p] = IF pen[p] # NoRecord /\ IsStale(pen[p]) THEN NoRecord ELSE pen[p]
             /\ p5'[p] = IF pen[p] # NoRecord THEN ScoreOf(pen[p]) ELSE p5[p]
  BY <1>2 DEF Cleaned, Rescored
<1> HIDE DEF pen
<1>4. \A p \in Peers : pen[p] # NoRecord =>
        /\ ScoreOf(pen[p]) = CompositeScore(pen[p], now)
        /\ ScoreOf(pen[p]) \in Scores
  BY <1>0, <1>1, ScoreInRange DEF ScoreOf
<1>5. rep' \in [Peers -> PeerReputation \cup {NoRecord}]
  BY <1>1, <1>2 DEF Cleaned
<1>6. p5' \in [Peers -> Scores \cup {NoScore}]
  BY <1>2, <1>4, Zenon DEF Rescored, TypeOK
<1> QED
  BY <1>1, <1>3, <1>4, <1>5, <1>6 DEF pen

(* Types and bounds: the score gossipsub gets is always within the scale.  *)
THEOREM TypeCorrect == Spec => []TypeOK
<1>1. Init => TypeOK
  <2>1. ASSUME Init PROVE rep \in [Peers -> PeerReputation \cup {NoRecord}]
    <3>1. SetVerified(NewReputation, 1) \in PeerReputation
      BY NewReputationType, RecordUpdates
    <3> QED
      BY <2>1, <3>1 DEF Init
  <2>2. ASSUME Init PROVE p5 \in [Peers -> Scores \cup {NoScore}]
    BY <2>2, Zenon DEF Init
  <2>3. ASSUME Init PROVE now \in 1 .. MaxTime /\ registry \subseteq Peers
    BY <2>3, ScoringAssumption DEF Init
  <2>4. ASSUME Init PROVE swept \in BOOLEAN
    BY <2>4 DEF Init
  <2> QED
    BY <2>1, <2>2, <2>3, <2>4 DEF TypeOK
<1>2. TypeOK /\ [Next]_vars => TypeOK'
  <2> SUFFICES ASSUME TypeOK, [Next]_vars PROVE TypeOK'
    OBVIOUS
  <2>1. ASSUME NEW p \in Peers, OneUpdate(p) PROVE TypeOK'
    <3>0. now \in Nat /\ Record(p) \in PeerReputation
      BY RecordType DEF TypeOK
    <3>1. PICK r \in Updates(Record(p), now) :
            /\ rep' = [rep EXCEPT ![p] = r]
            /\ \/ p5' = [p5 EXCEPT ![p] = CompositeScore(r, now)]
               \/ p5' = p5
            /\ registry' \subseteq registry \cup {p}
      BY <2>1 DEF OneUpdate
    <3>2. r \in PeerReputation
      BY <3>0, UpdateTypes
    <3>3. CompositeScore(r, now) \in Scores
      BY <3>0, <3>2, ScoreInRange
    <3>4. p5' \in [Peers -> Scores \cup {NoScore}]
      BY <3>1, <3>3, Zenon DEF TypeOK
    <3>5. rep' \in [Peers -> PeerReputation \cup {NoRecord}]
      BY <3>1, <3>2 DEF TypeOK
    <3>6. registry' \subseteq Peers /\ now' = now /\ swept' = swept
      BY <2>1, <3>1 DEF OneUpdate, TypeOK
    <3> QED
      BY <3>4, <3>5, <3>6 DEF TypeOK
  <2>2. ASSUME NEW E \in SUBSET Peers, Refresh(E) PROVE TypeOK'
    <3>1. now' = now /\ registry' = registry /\ swept' = TRUE
      BY <2>2 DEF Refresh
    <3> QED
      BY <2>2, <3>1, RefreshEffect DEF TypeOK
  <2>3. ASSUME Tick PROVE TypeOK'
    <3>1. now' \in 1 .. MaxTime
      BY <2>3, ScoringAssumption DEF Tick, TypeOK
    <3> QED
      BY <2>3, <3>1 DEF Tick, TypeOK
  <2>4. ASSUME UNCHANGED vars PROVE TypeOK'
    BY <2>4 DEF vars, TypeOK
  <2> QED
    BY <2>1, <2>2, <2>3, <2>4, StepCases
<1> QED
  BY <1>1, <1>2, PTL DEF Spec

-----------------------------------------------------------------------------
(* The store.                                                              *)

(* The inductive invariant: a verified record was active once, which keeps *)
(* its recency from being that of a peer never seen.                       *)
VerifiedIsActive ==
  \A p \in Peers : Known(p) /\ rep[p].verified => rep[p].lastActive > 0

LEMMA StoreHolds == Spec => [](StoreIsFresh /\ VerifiedIsActive)
<1> DEFINE IInv == StoreIsFresh /\ VerifiedIsActive
<1>1. Init => IInv
  <2> SUFFICES ASSUME Init, NEW p \in Peers, Known(p)
               PROVE  /\ ~swept /\ (rep[p].verified => p \in registry)
                      /\ rep[p].lastActive > 0
    BY DEF StoreIsFresh, VerifiedIsActive
  <2>1. p = Self /\ rep[p] = SetVerified(NewReputation, 1)
    BY ScoringAssumption DEF Init, Known
  <2>2. SetVerified(NewReputation, 1).lastActive = 1
    BY NewReputationType, RecordUpdates
  <2> QED
    BY <2>1, <2>2 DEF Init
<1>2. TypeOK /\ IInv /\ [Next]_vars => IInv'
  <2> SUFFICES ASSUME TypeOK, IInv, [Next]_vars, NEW p \in Peers, rep'[p] # NoRecord
               PROVE  /\ swept' => ~IsStale(rep[p])'
                      /\ rep'[p].verified => p \in registry' /\ rep'[p].lastActive > 0
    BY DEF StoreIsFresh, VerifiedIsActive, Known
  <2>0. now \in Nat /\ now > 0 /\ Record(p) \in PeerReputation
    BY RecordType, ScoringAssumption DEF TypeOK
  <2>1. ASSUME NEW q \in Peers, OneUpdate(q)
        PROVE  /\ swept' => ~IsStale(rep[p])'
               /\ rep'[p].verified => p \in registry' /\ rep'[p].lastActive > 0
    <3>1. PICK r \in Updates(Record(q), now) :
            /\ rep' = [rep EXCEPT ![q] = r]
            /\ registry \subseteq registry'
            /\ q \notin registry' => r.verified = Record(q).verified
            /\ now' = now /\ swept' = swept
      BY <2>1 DEF OneUpdate
    <3>2. CASE p # q
      <4>1. rep'[p] = rep[p] /\ Known(p)
        BY <3>1, <3>2 DEF TypeOK, Known
      <4> QED
        BY <3>1, <4>1 DEF StoreIsFresh, VerifiedIsActive, IsStale
    <3>3. CASE p = q
      <4>1. rep'[p] = r /\ r \in PeerReputation
            /\ r.lastActive \in {now, Record(p).lastActive}
            /\ (r.verified => Record(p).verified \/ r.lastActive = now)
        BY <2>0, <3>1, <3>3, UpdateTypes DEF TypeOK
      <4>2. CASE Known(p)
        <5>1. Record(p) = rep[p]
          BY <4>2, RecordType
        <5>2. /\ swept => ~IsStale(rep[p])
              /\ rep[p].verified => p \in registry /\ rep[p].lastActive > 0
          BY <4>2 DEF StoreIsFresh, VerifiedIsActive
        <5>3. rep[p].lastActive \in Nat
          BY <2>0, <5>1 DEF PeerReputation
        <5>4. swept' => ~IsStale(rep[p])'
          BY <2>0, <3>1, <4>1, <5>1, <5>2, <5>3 DEF IsStale, STALE_PEER_THRESHOLD
        <5>5. r.verified => p \in registry' /\ r.lastActive > 0
          BY <2>0, <3>1, <3>3, <4>1, <5>1, <5>2
        <5> QED
          BY <4>1, <5>4, <5>5
      <4>3. CASE ~Known(p)
        <5>1. Record(p).lastActive = 0 /\ ~Record(p).verified
          BY <4>3, RecordType, NewReputationType
        <5>2. swept' => ~IsStale(rep[p])'
          BY <2>0, <3>1, <4>1, <5>1 DEF IsStale, STALE_PEER_THRESHOLD
        <5>3. r.verified => p \in registry' /\ r.lastActive > 0
          BY <2>0, <3>1, <3>3, <4>1, <5>1
        <5> QED
          BY <4>1, <5>2, <5>3
      <4> QED
        BY <4>2, <4>3
    <3> QED
      BY <3>2, <3>3
  <2>2. ASSUME NEW E \in SUBSET Peers, Refresh(E)
        PROVE  /\ swept' => ~IsStale(rep[p])'
               /\ rep'[p].verified => p \in registry' /\ rep'[p].lastActive > 0
    <3>1. now' = now /\ registry' = registry
      BY <2>2 DEF Refresh
    <3>2. /\ ~IsStale(rep'[p])
          /\ Known(p) => /\ rep'[p].verified = rep[p].verified
                         /\ rep'[p].lastActive = rep[p].lastActive
          /\ ~Known(p) => ~rep'[p].verified
      BY <2>2, RefreshEffect
    <3>3. ~IsStale(rep[p])'
      BY <3>1, <3>2 DEF IsStale
    <3> QED
      BY <3>1, <3>2, <3>3 DEF StoreIsFresh, VerifiedIsActive
  <2>3. ASSUME Tick
        PROVE  /\ swept' => ~IsStale(rep[p])'
               /\ rep'[p].verified => p \in registry' /\ rep'[p].lastActive > 0
    BY <2>3 DEF Tick, StoreIsFresh, VerifiedIsActive, Known
  <2>4. ASSUME UNCHANGED vars
        PROVE  /\ swept' => ~IsStale(rep[p])'
               /\ rep'[p].verified => p \in registry' /\ rep'[p].lastActive > 0
    BY <2>4 DEF vars, StoreIsFresh, VerifiedIsActive, Known, IsStale
  <2> QED
    BY <2>1, <2>2, <2>3, <2>4, StepCases
<1> QED
  BY <1>1, <1>2, TypeCorrect, PTL DEF Spec
(* After the refresh of a half-life, no record is older than the threshold *)
(* of cleanup_stale_peers, and what the store calls verified was attested  *)
(* to the registry, whatever was forgotten and came back in between.       *)
THEOREM StoreStaysFresh == Spec => []StoreIsFresh
BY StoreHolds, PTL

(* The capped penalty leaves every verified peer that swaps as often as it *)
(* announces above Unknown for two half-lives after it was last active,    *)
(* for any number of malformed messages and expired proposals.             *)
THEOREM NeverBlacklisted == Spec => []NotBlacklisted
<1>1. TypeOK /\ VerifiedIsActive => NotBlacklisted
  <2> SUFFICES ASSUME TypeOK, VerifiedIsActive, NEW p \in Reliable
               PROVE  TrustLevel(Score(p)) # "Unknown"
    BY DEF NotBlacklisted
  <2>1. /\ p \in Peers /\ Known(p) /\ rep[p].verified /\ rep[p].swaps > 0
        /\ rep[p].swaps >= rep[p].intents /\ now - rep[p].lastActive <= 1
    BY DEF Reliable
  <2>2. rep[p] \in PeerReputation /\ now \in Nat /\ rep[p].lastActive > 0
    BY <2>1, ScoringAssumption DEF TypeOK, Known, VerifiedIsActive
  <2>3. Score(p) = CompositeScore(rep[p], now)
    BY <2>1 DEF Score, ScoreOf, Known
  <2> QED
    BY <2>1, <2>2, <2>3, CapLeavesTrust
<1> QED
  BY <1>1, StoreHolds, TypeCorrect, PTL

-----------------------------------------------------------------------------
(* P5.                                                                     *)

(* Gossipsub never ranks a peer above what the refresh made of it: nothing *)
(* but an attestation changes a record without its P5, and that one only   *)
(* raises the score.                                                       *)
THEOREM NeverOverranked == Spec => []NotOverranked
<1>1. Init => NotOverranked
  BY DEF Init, NotOverranked
<1>2. TypeOK /\ NotOverranked /\ [Next]_vars => NotOverranked'
  <2> DEFINE Ranked(p) ==
        swept /\ Known(p) /\ Acted(p) => p5[p] # NoScore /\ p5[p] <= Score(p)
  <2> SUFFICES ASSUME TypeOK, NotOverranked, [Next]_vars, NEW p \in Peers \ {Self}
               PROVE  Ranked(p)'
    BY DEF NotOverranked
  <2>0. /\ now \in Nat /\ now > 0 /\ Record(p) \in PeerReputation
        /\ NoRecord \notin PeerReputation /\ NoScore \notin Int
    BY RecordType, ScoringAssumption DEF TypeOK
  <2>a. Ranked(p)
    BY DEF NotOverranked
  <2>1. ASSUME NEW q \in Peers, OneUpdate(q) PROVE Ranked(p)'
    <3>1. PICK r \in Updates(Record(q), now) :
            /\ rep' = [rep EXCEPT ![q] = r]
            /\ \/ p5' = [p5 EXCEPT ![q] = CompositeScore(r, now)]
               \/ p5' = p5 /\ q = Self
               \/ p5' = p5 /\ r = SetVerified(Record(q), now)
            /\ now' = now /\ swept' = swept
      BY <2>1 DEF OneUpdate
    <3>2. CASE p # q
      <4>1. rep'[p] = rep[p] /\ p5'[p] = p5[p]
        BY <3>1, <3>2 DEF TypeOK
      <4> QED
        BY <2>a, <3>1, <4>1 DEF Known, Acted, Score, ScoreOf
    <3>3. CASE p = q
      <4>1. r \in PeerReputation /\ rep'[p] = r
        BY <2>0, <3>1, <3>3, UpdateTypes DEF TypeOK
      <4>2. Score(p)' = CompositeScore(r, now)
        BY <2>0, <3>1, <4>1 DEF Score, ScoreOf
      <4>3. CompositeScore(r, now) \in Nat
        BY <2>0, <4>1, ScoreInRange, ScoresAreNumbers
      <4>4. CASE p5' = [p5 EXCEPT ![q] = CompositeScore(r, now)]
        <5>1. p5'[p] = CompositeScore(r, now)
          BY <3>3, <4>4 DEF TypeOK
        <5> QED
          BY <2>0, <4>2, <4>3, <5>1
      <4>5. CASE p5' = p5 /\ r = SetVerified(Record(q), now)
        <5>1. SUFFICES ASSUME swept, r.swaps + r.intents + r.invalid > 0
                       PROVE  p5[p] # NoScore /\ p5[p] <= Score(p)'
          BY <3>1, <4>1, <4>5 DEF Known, Acted
        <5>2. /\ r.swaps = Record(p).swaps /\ r.intents = Record(p).intents
              /\ r.invalid = Record(p).invalid
          BY <2>0, <3>3, <4>5 DEF SetVerified, PeerReputation
        <5>3. Known(p) /\ Record(p) = rep[p]
          BY <5>1, <5>2, RecordType DEF NewReputation
        <5>4. p5[p] # NoScore /\ p5[p] <= Score(p)
          BY <2>a, <5>1, <5>2, <5>3 DEF Acted
        <5>5. Score(p) = CompositeScore(rep[p], now)
          BY <5>3 DEF Score, ScoreOf, Known
        <5>6. CompositeScore(rep[p], now) <= CompositeScore(r, now)
          BY <2>0, <3>3, <4>5, <5>3, VerifyingRaises
        <5>7. p5[p] \in Int /\ CompositeScore(rep[p], now) \in Int
          BY <2>0, <4>3, <5>3, <5>4, ScoreInRange, ScoresAreNumbers DEF TypeOK
        <5> QED
          BY <4>2, <4>3, <5>4, <5>5, <5>6, <5>7
      <4> QED
        BY <3>1, <3>3, <4>4, <4>5
    <3> QED
      BY <3>2, <3>3
  <2>2. ASSUME NEW E \in SUBSET Peers, Refresh(E) PROVE Ranked(p)'
    <3>1. SUFFICES ASSUME rep'[p] # NoRecord
                   PROVE  p5'[p] # NoScore /\ p5'[p] <= Score(p)'
      BY DEF Known
    <3>2. p5'[p] = CompositeScore(rep'[p], now) /\ rep'[p] \in PeerReputation
      BY <2>2, <3>1, RefreshEffect
    <3>3. Score(p)' = CompositeScore(rep'[p], now)
      BY <2>2, <3>1 DEF Score, ScoreOf, Refresh
    <3>4. CompositeScore(rep'[p], now) \in Nat
      BY <2>0, <3>2, ScoreInRange, ScoresAreNumbers
    <3> QED
      BY <2>0, <3>2, <3>3, <3>4
  <2>3. ASSUME Tick PROVE Ranked(p)'
    BY <2>3 DEF Tick
  <2>4. ASSUME UNCHANGED vars PROVE Ranked(p)'
    BY <2>a, <2>4 DEF vars, Known, Acted, Score, ScoreOf
  <2> QED
    BY <2>1, <2>2, <2>3, <2>4, StepCases
<1> QED
  BY <1>1, <1>2, TypeCorrect, PTL DEF Spec

(* A peer's announcement of a swap never lowers its score: what it adds to *)
(* swaps and follow-through is never lost to rounding, and its activity    *)
(* is never dated back.                                                    *)
THEOREM SwapsNeverHurt == Spec => SwapNeverHurts
<1>1. TypeOK /\ [Next]_vars =>
        [\A p \in Peers : RecvSwapExecuted(p) => Score(p)' >= Score(p)]_vars
  <2> SUFFICES ASSUME TypeOK, NEW p \in Peers, RecvSwapExecuted(p)
               PROVE  Score(p)' >= Score(p)
    OBVIOUS
  <2> DEFINE r == RecordSwap(Record(p), now)
  <2>0. /\ now \in Nat /\ now > 0 /\ Record(p) \in PeerReputation
        /\ NoRecord \notin PeerReputation
    BY RecordType, ScoringAssumption DEF TypeOK
  <2>1. r \in PeerReputation
    BY <2>0, RecordUpdates
  <2>2. rep'[p] = r /\ now' = now
    BY DEF RecvSwapExecuted, Set, TypeOK
  <2> HIDE DEF r
  <2>3. Score(p)' = CompositeScore(r, now)
    BY <2>0, <2>1, <2>2 DEF Score, ScoreOf
  <2>4. /\ CompositeScore(r, now) \in Nat
        /\ CompositeScore(Record(p), now) \in Nat
    BY <2>0, <2>1, ScoreInRange, ScoresAreNumbers
  <2>5. CompositeScore(Record(p), now) <= CompositeScore(r, now)
    BY <2>0, SwapRaises DEF r
  <2>6. Score(p) = IF Known(p) THEN CompositeScore(Record(p), now) ELSE 0
    BY RecordType DEF Score, ScoreOf, Known
  <2> QED
    BY <2>3, <2>4, <2>5, <2>6
<1> QED
  BY <1>1, TypeCorrect, PTL DEF Spec, SwapNeverHurts
===============================================================================
