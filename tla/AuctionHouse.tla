---------------------------- MODULE AuctionHouse ----------------------------
(***************************************************************************)
(* The auction instructions on platforms that are already initialised and  *)
(* that no admin changes: where the progress of auctions is stated.  The   *)
(* actions are those of Auction and Authentication, all of them.           *)
(***************************************************************************)
EXTENDS BidXExchange

CONSTANTS
    HouseRates,         \* [platform |-> bps, auth |-> bps] of every platform
    HouseAuthenticators \* the registered authenticators of every platform

ASSUME HouseAssumption ==
    /\ HouseRates \in [platform : Nat, auth : Nat]
    /\ HouseAuthenticators \in Seq(Keys)

HouseInit ==
    /\ platforms = Admins
    /\ config = [admin \in Admins |->
                    [platformFeeBps |-> HouseRates.platform, authFeeBps |-> HouseRates.auth,
                     minDuration |-> 1, maxDuration |-> 2, isPaused |-> FALSE]]
    /\ registry = [admin \in Admins |->
                    [authenticators |-> HouseAuthenticators, nextIndex |-> 0]]
    /\ treasuryUsdc = [admin \in Admins |-> 0]
    /\ treasurySol = 0
    /\ AuctionInit

HouseNext == AuctionNext \/ AuthenticationNext

HouseSpec == HouseInit /\ [][HouseNext]_vars

(***************************************************************************)
(* The program schedules nothing: every step is a transaction somebody     *)
(* sends.  The validators move the clock.  end_auction is open to anyone,  *)
(* so that it is called when one party wants it.  The winner of an auction *)
(* that can be settled settles it, with whatever accounts, and the bidder  *)
(* of a lost bid keeps sending withdraw_bid as long as it would succeed.   *)
(***************************************************************************)
Fairness ==
    /\ WF_vars(Tick)
    /\ \A a \in AuctionIds :
        /\ WF_vars(EndAuction(a))
        /\ \A u \in Bidders :
            /\ WF_vars(WithdrawBid(a, u))
            /\ WF_vars(\E admin \in Admins, passed \in Passed :
                        SettleAuction(a, u, admin, passed))

FairSpec == HouseSpec /\ Fairness

----------------------------------------------------------------------------
(* Liveness                                                                *)

\* Every auction that takes bids stops taking them: no instruction moves its end date
\* or its status back, and anyone may call end_auction.
ActiveAuctionsEnd ==
    \A a \in AuctionIds : status[a] = "Active" ~> status[a] \in {"Ended", "Settled"}

ReserveMissed(a) == status[a] = "Ended" /\ highestBid[a] < terms[a].reservedPrice

Lost(b) == b \in bids /\ b[2] # highestBidder[b[1]]

\* Of an auction that misses its reserve, every lost bid is eventually back with its
\* bidder: nothing can settle the auction, so nothing stops withdraw_bid.
LosersOfMissedReserveRefunded ==
    \A b \in BidIds : ReserveMissed(b[1]) /\ Lost(b) ~> b \notin bids

\* An auction that ends at its reserve or above, with its item in the vault and a mint
\* the treasuries hold, is eventually settled: no bid, withdrawal or other settlement
\* takes away what settle_auction needs.
MetReserveSettles ==
    \A a \in AuctionIds :
        /\ status[a] = "Ended"
        /\ highestBid[a] >= terms[a].reservedPrice
        /\ terms[a].acceptedToken \in {Usdc, Wsol}
        /\ ItemInVault(a, terms[a].nftMint)
        ~> status[a] = "Settled"

----------------------------------------------------------------------------
(* What the repository says and the code does not do                       *)

\* README.md:465: the bids that did not win are available for withdrawal, so that a
\* bidder who keeps asking gets the tokens back.
LosingBidsRefunded ==
    \A b \in BidIds : status[b[1]] = "Ended" /\ Lost(b) ~> b \notin bids

\* README.md:460, of the settlement of a successful auction: the seller gets paid from
\* the locked escrow.
SettlementPaysSeller ==
    [][\A a \in AuctionIds : Settles(a) /\ ~IsPhysical(a) => PaysSeller(a)]_vars

=============================================================================
