------------------------------- MODULE Fees -------------------------------
(* The price of a pass and the platform fee, payments/fees.ts,              *)
(* payments/fees-additive.ts and payments/pricing.ts: pure functions over   *)
(* whole rupees and basis points. A registration charges Additive; the      *)
(* split kept for a fee included in the price is Subtractive. Amounts stay  *)
(* far below 2^53 / 10000, so the products are exact integers.              *)
EXTENDS Integers, TLAPS

\* A pass without an early-bird price: the code's null.
NoPrice == -1

\* BPS_DENOMINATOR
Whole == 10000

\* assertBps
Bps == 0..Whole

\* value * bps / 10000, rounded half up.
ApplyBps(value, bps) == (value * bps + Whole \div 2) \div Whole

\* What a delegate is charged on top of the listed price.
Additive(passAmount, feeBps, taxBps) ==
  LET fee == ApplyBps(passAmount, feeBps)
      tax == ApplyBps(fee, taxBps)
  IN [passAmount |-> passAmount, platformFee |-> fee, platformFeeTax |-> tax,
      totalCharge |-> passAmount + fee + tax]

\* What is left to the organizer of a price that includes the fee. The code
\* throws when it is negative.
Subtractive(amount, feeBps, taxBps) ==
  LET fee == ApplyBps(amount, feeBps)
  IN amount - fee - ApplyBps(fee, taxBps)

\* effectivePassPrice
PassPrice(price, earlyBirdPrice, inTime) ==
  IF earlyBirdPrice # NoPrice /\ inTime /\ earlyBirdPrice < price
    THEN earlyBirdPrice
    ELSE price

-----------------------------------------------------------------------------
(* Division by 10000, stated once: the provers see it only through these. *)

LEMMA Half == Whole \in Nat /\ Whole \div 2 = 5000 /\ 5000 \in Nat
BY DEF Whole

LEMMA Quotient ==
  ASSUME NEW n \in Nat
  PROVE  /\ n \div Whole \in Nat
         /\ Whole * (n \div Whole) <= n
         /\ n < Whole * (n \div Whole) + Whole
BY DEF Whole

LEMMA Products ==
  ASSUME NEW a \in Nat, NEW b \in Nat
  PROVE  a * b \in Nat
OBVIOUS

\* applyBps is the whole number nearest to the exact percentage, and the larger
\* one when two are equally near: what "rounded half-up" says in fees.ts.
THEOREM RoundsHalfUp ==
  ASSUME NEW value \in Nat, NEW bps \in Bps
  PROVE  /\ ApplyBps(value, bps) \in Nat
         /\ Whole * ApplyBps(value, bps) - value * bps <= 5000
         /\ value * bps - Whole * ApplyBps(value, bps) < 5000
<1> DEFINE n == value * bps + 5000
<1>1. value * bps \in Nat
  BY Products DEF Bps, Whole
<1>2. n \in Nat
  BY <1>1
<1>3. ApplyBps(value, bps) = n \div Whole
  BY Half DEF ApplyBps
<1> HIDE DEF n
<1>4. /\ n \div Whole \in Nat
      /\ 10000 * (n \div Whole) <= n
      /\ n < 10000 * (n \div Whole) + 10000
  BY <1>2, Quotient DEF Whole
<1> QED
  BY <1>1, <1>3, <1>4 DEF n, Whole

\* A fee is never more than what it is a fee on, at any legal rate.
THEOREM FeeWithinAmount ==
  ASSUME NEW value \in Nat, NEW bps \in Bps
  PROVE  ApplyBps(value, bps) <= value
<1>1. value * bps <= value * 10000
  BY DEF Bps, Whole
<1>2. value * bps \in Nat
  BY Products DEF Bps, Whole
<1> QED BY <1>1, <1>2, RoundsHalfUp DEF Whole

\* A dearer base never bears a smaller fee: rounding is monotone.
THEOREM FeeMonotone ==
  ASSUME NEW low \in Nat, NEW high \in Nat, NEW bps \in Bps, low <= high
  PROVE  ApplyBps(low, bps) <= ApplyBps(high, bps)
<1>1. low * bps \in Nat /\ high * bps \in Nat
  BY Products DEF Bps, Whole
<1>2. low * bps <= high * bps
  BY DEF Bps, Whole
<1> QED BY <1>1, <1>2, RoundsHalfUp DEF Whole

\* The delegate's charge is the price, the fee and its tax, the organizer is
\* owed the price, and a delegate never pays less in total for a dearer pass.
THEOREM ChargeFollowsPrice ==
  ASSUME NEW low \in Nat, NEW high \in Nat, NEW feeBps \in Bps, NEW taxBps \in Bps,
         low <= high
  PROVE  /\ Additive(low, feeBps, taxBps).totalCharge
              <= Additive(high, feeBps, taxBps).totalCharge
         /\ Additive(high, feeBps, taxBps).totalCharge \in high..(3 * high)
<1> DEFINE feeL == ApplyBps(low, feeBps)
           feeH == ApplyBps(high, feeBps)
<1>1. /\ feeL \in Nat /\ feeH \in Nat
      /\ feeL <= feeH /\ feeH <= high
  BY RoundsHalfUp, FeeWithinAmount, FeeMonotone
<1> HIDE DEF feeL, feeH
<1>2. /\ ApplyBps(feeL, taxBps) \in Nat /\ ApplyBps(feeH, taxBps) \in Nat
      /\ ApplyBps(feeL, taxBps) <= ApplyBps(feeH, taxBps)
      /\ ApplyBps(feeH, taxBps) <= feeH
  BY <1>1, RoundsHalfUp, FeeWithinAmount, FeeMonotone
<1>3. /\ Additive(low, feeBps, taxBps).totalCharge = low + feeL + ApplyBps(feeL, taxBps)
      /\ Additive(high, feeBps, taxBps).totalCharge = high + feeH + ApplyBps(feeH, taxBps)
  BY DEF Additive, feeL, feeH
<1> QED BY <1>1, <1>2, <1>3

\* With a fee below one half, the subtractive split never throws, whatever the
\* tax: two roundings cannot eat up the organizer's share of a small amount.
THEOREM NetNeverNegative ==
  ASSUME NEW amount \in Nat, NEW feeBps \in Bps, NEW taxBps \in Bps, feeBps < 5000
  PROVE  Subtractive(amount, feeBps, taxBps) \in 0..amount
<1> DEFINE fee == ApplyBps(amount, feeBps)
<1>1. /\ fee \in Nat
      /\ Whole * fee - amount * feeBps <= 5000
  BY RoundsHalfUp
<1>2. Subtractive(amount, feeBps, taxBps) = amount - fee - ApplyBps(fee, taxBps)
  BY DEF Subtractive
<1>3. amount * feeBps <= amount * 4999
  BY DEF Bps, Whole
<1>4. amount * feeBps \in Nat
  BY Products DEF Bps, Whole
<1> HIDE DEF fee
<1>5. 2 * fee <= amount
  BY <1>1, <1>3, <1>4 DEF Whole
<1>6. ApplyBps(fee, taxBps) \in Nat /\ ApplyBps(fee, taxBps) <= fee
  BY <1>1, RoundsHalfUp, FeeWithinAmount
<1> QED BY <1>1, <1>2, <1>5, <1>6

\* An early-bird price is never charged above the listed price.
LEMMA EarlyBirdNeverDearer ==
  ASSUME NEW price \in Nat, NEW earlyBirdPrice \in Nat \cup {NoPrice}, NEW inTime \in BOOLEAN
  PROVE  PassPrice(price, earlyBirdPrice, inTime) \in 0..price
BY DEF PassPrice, NoPrice
=============================================================================
