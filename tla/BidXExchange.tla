---------------------------- MODULE BidXExchange ----------------------------
(***************************************************************************)
(* The program implements Exchange: a stake is the balance of a bid's      *)
(* vault, and the fields highest_bid and highest_bidder of the auction are *)
(* nowhere in the mapping but in who has bought.                           *)
(***************************************************************************)
EXTENDS BidXProperties

\* The phase of an auction with that status; the program gives it no other status.
PhaseOf(s) ==
    CASE s = "Absent"  -> "unlisted"
      [] s = "Active"  -> "open"
      [] s = "Ended"   -> "closed"
      [] s = "Settled" -> "sold"
      [] OTHER         -> "held"

phaseBar == [a \in AuctionIds |-> PhaseOf(status[a])]

reserveBar ==
    [a \in AuctionIds |-> IF terms[a] = NoTerms THEN 0 ELSE terms[a].reservedPrice]

stakeBar == [a \in AuctionIds |-> [u \in Users |-> escrow[<<a, u>>]]]

buyerBar == [a \in AuctionIds |-> IF status[a] = "Settled" THEN highestBidder[a] ELSE NoKey]

Promise == INSTANCE Exchange WITH
    Ids <- AuctionIds,
    People <- Users,
    Nobody <- NoKey,
    phase <- phaseBar,
    reserve <- reserveBar,
    stake <- stakeBar,
    buyer <- buyerBar

\* Every bid takes the lead, the sale goes to the stake that leads and takes all of it,
\* refunds go to stakes that do not lead: what place_bid, settle_auction and withdraw_bid
\* do with highest_bid and highest_bidder is what the stakes themselves would say.
ImplementsExchange == Promise!Spec

=============================================================================
