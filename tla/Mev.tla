---------------------------------- MODULE Mev ----------------------------------
(***************************************************************************)
(* The slippage floor and the sandwich test of agent/src/mev.rs, on an     *)
(* amount in wei.  The pool trades about 1:1, so a swap is expected to     *)
(* return what it takes.  A basis point is 1/10000.                        *)
(***************************************************************************)
EXTENDS Integers

LOCAL LesserOf(x, y) == IF x <= y THEN x ELSE y

DEFAULT_MAX_SLIPPAGE_BPS == 50
SANDWICH_THRESHOLD_BPS   == 200

AmountOutMinPerMille(amountIn, bps) == (amountIn * (1000 - bps)) \div 1000

(* The least output the router may give before it reverts.  A tolerance of *)
(* 100% or more is read as 99.99%.                                         *)
ComputeAmountOutMin(amountIn, bps) ==
  (amountIn * (10000 - LesserOf(bps, 9999))) \div 10000

(* What is missing of the expected output, in basis points.                *)
RealizedSlippageBps(expected, actual) ==
  IF expected = 0 \/ actual >= expected
  THEN 0
  ELSE ((expected - actual) * 10000) \div expected

IsSandwich(expected, actual) ==
  RealizedSlippageBps(expected, actual) > SANDWICH_THRESHOLD_BPS

(* PeerMevStats: what a peer's alerts add up to.                           *)
PeerMevStats    == [alerts : Nat, sandwiches : Nat, slippage : Nat]
NoPeerMevStats  == [alerts |-> 0, sandwiches |-> 0, slippage |-> 0]

RecordPeerAlert(s, slippage, sandwich) ==
  [alerts     |-> s.alerts + 1,
   sandwiches |-> s.sandwiches + IF sandwich THEN 1 ELSE 0,
   slippage   |-> s.slippage + slippage]

AvgSlippageBps(s) == IF s.alerts = 0 THEN 0 ELSE s.slippage \div s.alerts
===============================================================================
