-------------------------- MODULE FeeQuotesProofs --------------------------
(***************************************************************************)
(* The fee split of settle_auction at every bid, rate and width of u64.    *)
(***************************************************************************)
EXTENDS FeeQuotes, TLAPS

\* Division by a positive number rounds down.
LEMMA DivisionRoundsDown ==
    ASSUME NEW n \in Nat
    PROVE  /\ n \div Bps \in Nat
           /\ (n \div Bps) * Bps <= n
           /\ n < (n \div Bps + 1) * Bps
  BY FeesAssumption, SMT

\* The product of a bid and a rate is a natural number.
LEMMA ProductIsNat == \A m, n \in Nat : m * n \in Nat
  BY SMT

\* Multiplication by a number is monotone, and strictly so by a positive number.
LEMMA ProductMonotone ==
    ASSUME NEW m \in Nat, NEW n \in Nat, NEW k \in Nat
    PROVE  /\ m <= n => m * k <= n * k
           /\ k # 0 /\ m * k <= n * k => m <= n
  BY SMT

\* A fee is a natural number, whatever the rate.
LEMMA FeeIsNat ==
    ASSUME NEW w \in Nat, NEW rate \in Nat
    PROVE  FeeOf(w, rate) \in Nat
  <1> DEFINE p == w * rate
  <1>1. p \in Nat
    BY ProductIsNat
  <1>2. p \div Bps \in Nat
    BY <1>1, DivisionRoundsDown
  <1> QED
    BY <1>2, FeesAssumption, SMT DEF FeeOf

\* At a rate of at most one whole the quotient is no more than the bid, so the cast to
\* u64 keeps it, and the fee is the exact quotient rounded down.
LEMMA FeeExact ==
    ASSUME NEW w \in 0 .. Word - 1, NEW rate \in Nat, rate <= Bps
    PROVE  /\ FeeOf(w, rate) = (w * rate) \div Bps
           /\ FeeOf(w, rate) <= w
           /\ FeeOf(w, rate) * Bps <= w * rate
           /\ w * rate < (FeeOf(w, rate) + 1) * Bps
  <1> DEFINE p == w * rate
             q == p \div Bps
  <1>1. w \in Nat /\ Bps \in Nat \ {0} /\ Word \in Nat \ {0}
    BY FeesAssumption, SMT
  <1>2. p \in Nat
    BY <1>1, ProductIsNat
  <1>3. q \in Nat /\ q * Bps <= p /\ p < (q + 1) * Bps
    BY <1>2, DivisionRoundsDown
  <1>4. p <= w * Bps
    <2>1. rate * w <= Bps * w
      BY <1>1, ProductMonotone
    <2> QED
      BY <2>1, <1>1, SMT
  <1>5. q <= w
    <2>1. q * Bps <= w * Bps
      <3> HIDE DEF q, p
      <3>1. q * Bps \in Nat /\ w * Bps \in Nat
        BY <1>1, <1>3, ProductIsNat
      <3> QED
        BY <3>1, <1>2, <1>3, <1>4, SMT
    <2> HIDE DEF q
    <2> QED
      BY <2>1, <1>1, <1>3, ProductMonotone
  <1>6. q % Word = q
    <2> HIDE DEF q
    <2> QED
      BY <1>1, <1>3, <1>5, SMT
  <1>7. FeeOf(w, rate) = q
    BY <1>6 DEF FeeOf
  <1> QED
    BY <1>3, <1>5, <1>7

\* Two rates that are at most one whole together take at most the whole bid.
LEMMA TwoFeesFit ==
    ASSUME NEW w \in 0 .. Word - 1, NEW r1 \in Nat, NEW r2 \in Nat, r1 + r2 <= Bps
    PROVE  /\ FeeOf(w, r1) + FeeOf(w, r2) <= w
           /\ (FeeOf(w, r1) + FeeOf(w, r2)) * Bps <= w * (r1 + r2)
  <1> DEFINE f1 == FeeOf(w, r1)
             f2 == FeeOf(w, r2)
  <1>1. w \in Nat /\ Bps \in Nat \ {0} /\ Word \in Nat \ {0}
    BY FeesAssumption, SMT
  <1>2. f1 \in Nat /\ f2 \in Nat
    BY <1>1, FeeIsNat
  <1>3. f1 * Bps <= w * r1 /\ f2 * Bps <= w * r2
    <2>1. r1 <= Bps /\ r2 <= Bps
      BY <1>1, SMT
    <2> QED
      BY <2>1, FeeExact
  <1> HIDE DEF f1, f2
  <1>4. (f1 + f2) * Bps <= w * (r1 + r2)
    BY <1>1, <1>2, <1>3, SMT
  <1>5. w * (r1 + r2) <= w * Bps
    <2>1. (r1 + r2) * w <= Bps * w
      BY <1>1, ProductMonotone
    <2> QED
      BY <2>1, <1>1, SMT
  <1>6. (f1 + f2) * Bps <= w * Bps
    <2>1. (f1 + f2) * Bps \in Nat /\ w * (r1 + r2) \in Nat /\ w * Bps \in Nat
      BY <1>1, <1>2, ProductIsNat
    <2> QED
      BY <2>1, <1>4, <1>5, SMT
  <1>7. f1 + f2 <= w
    <2>1. f1 + f2 \in Nat
      BY <1>2, SMT
    <2> QED
      BY <2>1, <1>1, <1>6, ProductMonotone
  <1> QED
    BY <1>4, <1>7 DEF f1, f2

----------------------------------------------------------------------------

QuoteTypeOK ==
    /\ winning \in 0 .. Word - 1
    /\ platformBps \in Nat
    /\ authBps \in Nat

LEMMA QuoteTyping == Spec => []QuoteTypeOK
  <1>1. Init => QuoteTypeOK
    BY FeesAssumption, SMT DEF Init, QuoteTypeOK
  <1>2. QuoteTypeOK /\ [Quote]_feeVars => QuoteTypeOK'
    BY MaxRateAssumption, SMT DEF Quote, QuoteTypeOK, feeVars
  <1> QED
    BY <1>1, <1>2, PTL DEF Spec

\* The type invariant of the quotes puts a settlement within reach of the fee lemmas.
LEMMA QuotedSplit ==
    ASSUME QuoteTypeOK, platformBps + authBps <= Bps
    PROVE  LET f1 == FeeOf(winning, platformBps)
               f2 == FeeOf(winning, authBps)
           IN  /\ winning \in Nat /\ f1 \in Nat /\ f2 \in Nat
               /\ f1 + f2 <= winning
               /\ (f1 + f2) * Bps <= winning * (platformBps + authBps)
  <1>1. winning \in Nat
    BY FeesAssumption, SMT DEF QuoteTypeOK
  <1>2. FeeOf(winning, platformBps) \in Nat /\ FeeOf(winning, authBps) \in Nat
    BY <1>1, FeeIsNat DEF QuoteTypeOK
  <1>3. /\ FeeOf(winning, platformBps) + FeeOf(winning, authBps) <= winning
        /\ (FeeOf(winning, platformBps) + FeeOf(winning, authBps)) * Bps
              <= winning * (platformBps + authBps)
    BY TwoFeesFit DEF QuoteTypeOK
  <1> QED
    BY <1>1, <1>2, <1>3

\* At every bid a u64 can hold and every width of u64, a rate of at most one whole is
\* charged exactly and rounded down: the cast of the quotient to u64 loses nothing.
THEOREM FeesRoundDown == Spec => []FeeIsFloor
  <1>1. QuoteTypeOK => FeeIsFloor
    BY FeeExact DEF QuoteTypeOK, FeeIsFloor, IsFloor
  <1> QED
    BY <1>1, QuoteTyping, PTL

\* Two rates of at most one whole together never make settle_auction abort by underflow.
THEOREM SplitsFit == Spec => []SplitFits
  <1>1. QuoteTypeOK => SplitFits
    BY QuotedSplit, SMT DEF SplitFits, Splits
  <1> QED
    BY <1>1, QuoteTyping, PTL

\* Two rates of at most one whole together pay out the whole bid, and leave the rounding
\* of both fees to the seller.
THEOREM RoundingGoesToSeller == Spec => []SellerKeepsRounding
  <1>1. QuoteTypeOK => SellerKeepsRounding
    <2> DEFINE f1 == FeeOf(winning, platformBps)
               f2 == FeeOf(winning, authBps)
               seller == SellerAmount(winning, f1, f2)
    <2> SUFFICES ASSUME QuoteTypeOK, platformBps + authBps <= Bps
                 PROVE  /\ seller + f1 + f2 = winning
                        /\ seller * Bps >= winning * (Bps - platformBps - authBps)
      BY DEF SellerKeepsRounding
    <2>1. /\ winning \in Nat /\ f1 \in Nat /\ f2 \in Nat
          /\ (f1 + f2) * Bps <= winning * (platformBps + authBps)
      BY QuotedSplit
    <2>2. seller = winning - f1 - f2
      BY DEF SellerAmount
    <2>3. Bps \in Nat /\ platformBps \in Nat /\ authBps \in Nat
      BY FeesAssumption DEF QuoteTypeOK
    <2> HIDE DEF f1, f2, seller
    <2>4. seller + f1 + f2 = winning
      BY <2>1, <2>2, SMT
    <2>5. seller * Bps = winning * Bps - (f1 + f2) * Bps
      BY <2>1, <2>2, <2>3, SMT
    <2>6. winning * (Bps - platformBps - authBps)
            = winning * Bps - winning * (platformBps + authBps)
      BY <2>1, <2>3, SMT
    <2>7. /\ winning * Bps \in Int
          /\ (f1 + f2) * Bps \in Int
          /\ winning * (platformBps + authBps) \in Int
      BY <2>1, <2>3, SMT
    <2> QED
      BY <2>1, <2>4, <2>5, <2>6, <2>7, SMT
  <1> QED
    BY <1>1, QuoteTyping, PTL

=============================================================================
