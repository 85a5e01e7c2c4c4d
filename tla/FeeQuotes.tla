----------------------------- MODULE FeeQuotes -----------------------------
(***************************************************************************)
(* The fees of one settlement, at any winning bid and pair of rates up to  *)
(* a bound.  Rates above one whole are included: no instruction refuses    *)
(* them (initialize.rs:64-75, update_platform_config.rs:33-41).            *)
(***************************************************************************)
EXTENDS Fees

CONSTANTS MaxRate   \* bound: the highest rate, which passes Bps

ASSUME MaxRateAssumption == MaxRate \in Nat

VARIABLES winning, platformBps, authBps

feeVars == <<winning, platformBps, authBps>>

Init == winning = 0 /\ platformBps = 0 /\ authBps = 0

\* A settlement with these inputs: a bid is a u64.
Quote ==
    /\ feeVars = <<0, 0, 0>>
    /\ winning' \in 0 .. Word - 1
    /\ platformBps' \in 0 .. MaxRate
    /\ authBps' \in 0 .. MaxRate

Spec == Init /\ [][Quote]_feeVars

IsFloor(fee, bps) == fee * Bps <= winning * bps /\ winning * bps < (fee + 1) * Bps

\* A rate of at most one whole is charged exactly, rounded down (settle.rs:169-173).
FeeIsFloor == platformBps <= Bps => IsFloor(FeeOf(winning, platformBps), platformBps)

\* Two rates of at most one whole together never make a settlement fail by underflow
\* (settle.rs:176, 189), however both are rounded.
SplitFits ==
    platformBps + authBps <= Bps =>
        Splits(winning, FeeOf(winning, platformBps), FeeOf(winning, authBps))

\* The whole bid is paid out, and what the two divisions round away stays with the
\* seller, who gets no less than the share the rates leave.
SellerKeepsRounding ==
    LET fee == FeeOf(winning, platformBps)
        authFee == FeeOf(winning, authBps)
        seller == SellerAmount(winning, fee, authFee)
    IN  platformBps + authBps <= Bps =>
            /\ seller + fee + authFee = winning
            /\ seller * Bps >= winning * (Bps - platformBps - authBps)

=============================================================================
