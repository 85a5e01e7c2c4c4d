-------------------------------- MODULE Fees --------------------------------
(***************************************************************************)
(* How settle_auction divides the winning bid                              *)
(* (programs/bidx/src/instructions/settle.rs:165-190).                     *)
(*                                                                         *)
(* Rates are in parts of Bps (10_000 in the program).  A fee is computed   *)
(* in u128, where the product of a u64 and a u16 cannot overflow, and cast *)
(* back to u64: `as u64` keeps the value modulo Word = 2^64.  The program  *)
(* is built with overflow-checks = true (Cargo.toml), so a subtraction     *)
(* that goes below zero aborts the instruction instead of wrapping.        *)
(***************************************************************************)
EXTENDS Integers

CONSTANTS
    Bps,    \* the denominator of a rate: 10_000
    Word    \* the number of values of a u64: 2^64, scaled down for TLC

ASSUME FeesAssumption ==
    /\ Bps \in Nat \ {0}
    /\ Word \in Nat \ {0}

\* A plausible slip: the fee is rounded up.
FeeOfRoundedUp(winning, bps) == ((winning * bps + Bps - 1) \div Bps) % Word

\* platform_fee and auth_fee: rate bps of the winning bid, rounded down and cast.
FeeOf(winning, bps) == ((winning * bps) \div Bps) % Word

\* A plausible slip: overflow-checks is not set, and nothing stops an underflow.
SplitsUnchecked(winning, platformFee, authFee) == TRUE

\* The two checked subtractions of seller_amount do not underflow.
Splits(winning, platformFee, authFee) ==
    /\ platformFee <= winning
    /\ authFee <= winning - platformFee

\* A plausible slip: the authenticator's fee is not taken from the seller.
SellerAmountBeforeAuthFee(winning, platformFee, authFee) == winning - platformFee

\* What the seller is paid.
SellerAmount(winning, platformFee, authFee) == winning - platformFee - authFee

=============================================================================
