------------------------------- MODULE MevProofs -------------------------------
(***************************************************************************)
(* What the slippage floor of mev.rs means for its sandwich test, for      *)
(* every amount and tolerance: an output that the router lets through is   *)
(* never short by more than the tolerance.                                 *)
(***************************************************************************)
EXTENDS Mev, TLAPS

(* A quotient times its divisor is at most the dividend, and short of it   *)
(* by less than the divisor.                                               *)
LEMMA DivisionBounds ==
  ASSUME NEW y \in Nat, NEW d \in Nat, d > 0
  PROVE  /\ y \div d \in Nat
         /\ d * (y \div d) <= y
         /\ y < d * (y \div d) + d
  OBVIOUS

(* What is less than d * (b + 1) has at most b as its quotient by d.       *)
LEMMA QuotientAtMost ==
  ASSUME NEW y \in Nat, NEW d \in Nat, d > 0, NEW b \in Nat, y < d * (b + 1)
  PROVE  y \div d <= b
<1> DEFINE q == y \div d
<1>1. q \in Nat /\ d * q <= y
  BY DivisionBounds
<1>2. SUFFICES ASSUME q >= b + 1 PROVE FALSE
  BY <1>1
<1>3. d * q >= d * (b + 1)
  BY <1>1, <1>2
<1>4. QED
  BY <1>1, <1>3

(* The floor is no further below the amount than the tolerance says, up to *)
(* the rounding of the division.                                           *)
LEMMA FloorIsClose ==
  ASSUME NEW amountIn \in Nat, NEW bps \in Nat, bps <= 9999
  PROVE  /\ ComputeAmountOutMin(amountIn, bps) \in Nat
         /\ 10000 * (amountIn - ComputeAmountOutMin(amountIn, bps))
              <= amountIn * bps + 9999
<1> DEFINE kept == amountIn * (10000 - bps)
           low  == kept \div 10000
<1>1. kept \in Nat /\ kept = 10000 * amountIn - amountIn * bps
  OBVIOUS
<1>2. low \in Nat /\ kept < 10000 * low + 10000
  BY <1>1, DivisionBounds
<1>3. ComputeAmountOutMin(amountIn, bps) = low
  BY DEF ComputeAmountOutMin
<1>4. amountIn * bps \in Nat
  OBVIOUS
<1> HIDE DEF kept, low
<1>5. 10000 * (amountIn - low) <= amountIn * bps + 9999
  BY <1>1, <1>2, <1>4
<1>6. QED
  BY <1>2, <1>3, <1>5

(* A swap of 10000 wei or more that gives at least its floor has a realised*)
(* slippage of at most its tolerance: the rounding of the floor and of the *)
(* slippage never adds a basis point (compute_amount_out_min against       *)
(* compute_realized_slippage_bps).                                         *)
THEOREM ToleranceBoundsSlippage ==
  ASSUME NEW amountIn \in Nat, amountIn >= 10000, NEW bps \in Nat,
         NEW out \in Nat, out >= ComputeAmountOutMin(amountIn, bps)
  PROVE  RealizedSlippageBps(amountIn, out) <= bps
<1> DEFINE short == (amountIn - out) * 10000
<1>1. CASE out >= amountIn
  BY <1>1 DEF RealizedSlippageBps
<1>2. CASE out < amountIn
  <2>1. RealizedSlippageBps(amountIn, out) = short \div amountIn
    BY <1>2 DEF RealizedSlippageBps
  <2>2. short \in Nat
    BY <1>2
  <2>3. short < amountIn * (bps + 1)
    <3>1. CASE bps <= 9999
      <4>1. short <= amountIn * bps + 9999
        BY <3>1, FloorIsClose
      <4>2. amountIn * (bps + 1) = amountIn * bps + amountIn /\ amountIn * bps \in Nat
        OBVIOUS
      <4> HIDE DEF short
      <4>3. QED
        BY <2>2, <4>1, <4>2
    <3>2. CASE bps > 9999
      <4>1. short <= amountIn * 10000
        OBVIOUS
      <4>2. amountIn * (bps + 1) >= amountIn * 10001
        BY <3>2
      <4>3. amountIn * 10001 = amountIn * 10000 + amountIn /\ amountIn * 10000 \in Nat
        OBVIOUS
      <4>4. amountIn * (bps + 1) \in Nat
        OBVIOUS
      <4> HIDE DEF short
      <4>5. QED
        BY <2>2, <4>1, <4>2, <4>3, <4>4
    <3>3. QED
      BY <3>1, <3>2
  <2> HIDE DEF short
  <2>4. QED
    BY <2>1, <2>2, <2>3, QuotientAtMost
<1>3. QED
  BY <1>1, <1>2

(* A swap that succeeds with a tolerance of up to the sandwich threshold,  *)
(* the default included, is never taken for a sandwich: is_sandwich can    *)
(* flag only swaps that reverted, or that allowed more.                    *)
THEOREM NoAlertWithinThreshold ==
  ASSUME NEW amountIn \in Nat, amountIn >= 10000, NEW bps \in Nat,
         bps <= SANDWICH_THRESHOLD_BPS,
         NEW out \in Nat, out >= ComputeAmountOutMin(amountIn, bps)
  PROVE  /\ DEFAULT_MAX_SLIPPAGE_BPS <= SANDWICH_THRESHOLD_BPS
         /\ ~IsSandwich(amountIn, out)
<1>1. RealizedSlippageBps(amountIn, out) <= bps
  BY ToleranceBoundsSlippage
<1>2. RealizedSlippageBps(amountIn, out) \in Int
  <2>1. CASE out >= amountIn
    BY <2>1 DEF RealizedSlippageBps
  <2>2. CASE out < amountIn
    BY <2>2, DivisionBounds DEF RealizedSlippageBps
  <2>3. QED
    BY <2>1, <2>2
<1>3. QED
  BY <1>1, <1>2 DEF IsSandwich, SANDWICH_THRESHOLD_BPS, DEFAULT_MAX_SLIPPAGE_BPS
===============================================================================
