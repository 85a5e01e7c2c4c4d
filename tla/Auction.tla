------------------------------ MODULE Auction -------------------------------
(***************************************************************************)
(* The auction house: sellers list items, bidders escrow their bids, the   *)
(* auction ends, its winner settles it and the other bidders withdraw.     *)
(*                                                                         *)
(* An auction is a program-derived account seeded by its seller and a      *)
(* nonce, the value of the seller's auction_count when it was created; a   *)
(* bid is one seeded by its bidder and its auction, and the vault of a bid *)
(* is the associated token account of the bid and the accepted token.      *)
(***************************************************************************)
EXTENDS Platform, Fees

CONSTANTS
    Sellers,        \* the users who list items
    Bidders,        \* the users who bid; a seller may be one of them
    Items,          \* NFT mints of supply 1
    Funds,          \* [Tokens -> [Users -> Nat]]: what the wallets hold at first
    FirstHolder,    \* [Items -> Users]: who holds each item at first
    NoTerms,        \* the terms of an auction that does not exist
    MaxAuctions,    \* bound: auctions per seller
    MaxTime,        \* bound: the last time the clock shows
    Listings,       \* bound: the arguments sellers pass to create_auction
    BidAmounts      \* bound: the amounts bidders pass to place_bid

AssetTypes == {"DigitalNFT", "PhysicalRWA"}

AuctionStatuses ==
    {"Pending", "Paused", "Active", "Ended", "Settled", "Cancelled", "Failed"}

AuthStatuses == {"NotRequired", "Pending", "Verified", "Rejected"}

Terms == [nftMint : Items, assetType : AssetTypes, acceptedToken : Tokens,
          startingBid : Nat, reservedPrice : Nat, startDate : Int, endDate : Int]

ASSUME AuctionAssumption ==
    /\ Sellers \subseteq Users
    /\ Bidders \subseteq Users
    /\ Funds \in [Tokens -> [Users -> Nat]]
    /\ FirstHolder \in [Items -> Users]
    /\ NoTerms \notin Terms
    /\ MaxAuctions \in Nat
    /\ MaxTime \in Nat
    /\ Listings \subseteq Terms
    /\ BidAmounts \subseteq Nat

AuctionIds == Sellers \X (0 .. MaxAuctions - 1)

\* A program-derived address is nobody's key.
ASSUME AddressAssumption == Users \cap AuctionIds = {}

Seller(a) == a[1]

BidIds == AuctionIds \X Users

VARIABLES
    now,            \* Clock::get()?.unix_timestamp
    auctionCount,   \* SellerState.auction_count, the nonce of the next auction
    itemAt,         \* who holds each item: a user, or the vault of an auction
    status,         \* Auction.auction_status, "Absent" before the account exists
    authStatus,     \* Auction.auth_status
    terms,          \* the fields of Auction that create_auction sets for good
    highestBid,     \* Auction.highest_bid
    highestBidder,  \* Auction.highest_bidder
    bids,           \* the bid accounts that exist
    amount,         \* Bid.amount, 0 where there is no account
    vaults,         \* the bids whose escrow vault exists
    escrow,         \* the balance of the vault of a bid, 0 where there is none
    authentication  \* the authentication account of each auction

auctionVars == <<now, auctionCount, itemAt, status, authStatus, terms, highestBid,
                 highestBidder, bids, amount, vaults, escrow, authentication>>

(* The authentication account is created with every auction and filled in  *)
(* for a physical one only; a digital auction's stays zeroed, so that its  *)
(* `auction` field names no auction.                                       *)
Authentications == [filled : BOOLEAN, authStatus : AuthStatuses, authenticator : Keys,
                    reportHash : Seq(Nat), feeAmount : Nat, feePaid : BOOLEAN]

ZeroAuthentication == [filled |-> FALSE, authStatus |-> "NotRequired",
                       authenticator |-> NoKey, reportHash |-> <<>>,
                       feeAmount |-> 0, feePaid |-> FALSE]

AuctionTypeOK ==
    /\ now \in Nat
    /\ auctionCount \in [Sellers -> Nat]
    /\ itemAt \in [Items -> Users \cup AuctionIds]
    /\ status \in [AuctionIds -> AuctionStatuses \cup {"Absent"}]
    /\ authStatus \in [AuctionIds -> AuthStatuses]
    /\ terms \in [AuctionIds -> Terms \cup {NoTerms}]
    /\ highestBid \in [AuctionIds -> Nat]
    /\ highestBidder \in [AuctionIds -> Keys]
    /\ bids \subseteq BidIds
    /\ amount \in [BidIds -> Nat]
    /\ vaults \subseteq BidIds
    /\ escrow \in [BidIds -> Nat]
    /\ authentication \in [AuctionIds -> Authentications]

AuctionInit ==
    /\ now = 0
    /\ auctionCount = [s \in Sellers |-> 0]
    /\ itemAt = FirstHolder
    /\ status = [a \in AuctionIds |-> "Absent"]
    /\ authStatus = [a \in AuctionIds |-> "NotRequired"]
    /\ terms = [a \in AuctionIds |-> NoTerms]
    /\ highestBid = [a \in AuctionIds |-> 0]
    /\ highestBidder = [a \in AuctionIds |-> NoKey]
    /\ bids = {}
    /\ amount = [b \in BidIds |-> 0]
    /\ vaults = {}
    /\ escrow = [b \in BidIds |-> 0]
    /\ authentication = [a \in AuctionIds |-> ZeroAuthentication]
    /\ wallet = Funds

----------------------------------------------------------------------------
(* The environment: the clock, and the token transfer that puts an item    *)
(* into the vault of an auction, which no instruction of the program does. *)

Tick ==
    /\ now < MaxTime
    /\ now' = now + 1
    /\ UNCHANGED <<platformVars, auctionCount, itemAt, status, authStatus, terms,
                   highestBid, highestBidder, bids, amount, vaults, escrow, authentication>>

\* The client derives the vault from the nonce it read, so the item may arrive before
\* the auction is created; a nonce beyond the count is never read.
DepositItem(s, item, nonce) ==
    /\ nonce <= auctionCount[s] /\ nonce < MaxAuctions
    /\ itemAt[item] = s
    /\ itemAt' = [itemAt EXCEPT ![item] = <<s, nonce>>]
    /\ UNCHANGED <<platformVars, now, auctionCount, status, authStatus, terms,
                   highestBid, highestBidder, bids, amount, vaults, escrow, authentication>>

----------------------------------------------------------------------------
(* create_auction                                                          *)

ValidListing(listing) ==
    /\ listing.startDate > now
    /\ listing.endDate > listing.startDate
    /\ listing.reservedPrice > listing.startingBid

\* A plausible slip: physical items are on sale before they are authenticated.
FirstStatusActive(assetType) == "Active"

FirstStatus(assetType) == IF assetType = "DigitalNFT" THEN "Active" ELSE "Pending"

FirstAuthStatus(assetType) == IF assetType = "DigitalNFT" THEN "NotRequired" ELSE "Pending"

\* A plausible slip: the count is not advanced, and the next auction takes the same seeds.
NextAuctionCountKept(s) == auctionCount

NextAuctionCount(s) == [auctionCount EXCEPT ![s] = @ + 1]

\* `init`: the accounts of the auction and of its authentication are new.
CreateAuction(s, admin, listing) ==
    LET a == <<s, auctionCount[s]>>
        physical == listing.assetType = "PhysicalRWA"
    IN  /\ auctionCount[s] < MaxAuctions
        /\ status[a] = "Absent"
        /\ admin \in platforms
        /\ ValidListing(listing)
        /\ physical => CanAssign(registry[admin])
        /\ auctionCount' = NextAuctionCount(s)
        /\ registry' = IF physical THEN [registry EXCEPT ![admin] = Rotated(@)] ELSE registry
        /\ authentication' = [authentication EXCEPT ![a] =
                IF physical
                THEN [filled |-> TRUE, authStatus |-> "Pending",
                      authenticator |-> Assignee(registry[admin]),
                      reportHash |-> <<>>, feeAmount |-> 0, feePaid |-> FALSE]
                ELSE ZeroAuthentication]
        /\ status' = [status EXCEPT ![a] = FirstStatus(listing.assetType)]
        /\ authStatus' = [authStatus EXCEPT ![a] = FirstAuthStatus(listing.assetType)]
        /\ terms' = [terms EXCEPT ![a] = listing]
        /\ highestBid' = [highestBid EXCEPT ![a] = 0]
        /\ highestBidder' = [highestBidder EXCEPT ![a] = NoKey]
        /\ UNCHANGED <<platforms, config, treasuryUsdc, treasurySol, wallet,
                       now, itemAt, bids, amount, vaults, escrow>>

----------------------------------------------------------------------------
(* place_bid                                                               *)

\* Bid.amount after bidding x more: a bid account is created by its first bid.
NewTotal(b, x) == IF b \in bids THEN amount[b] + x ELSE x

\* A plausible slip: a tie with the leader is accepted.
OutbidsOrTies(a, total) == total >= highestBid[a]

Outbids(a, total) == total > highestBid[a]

\* A plausible slip: bids are taken whatever the state of the auction.
TakesBidsAlways(a) == status[a] # "Absent"

TakesBids(a) == status[a] = "Active"

\* A plausible slip: the vault receives the new total, not the increase.
EscrowedTotal(b, x) == [escrow EXCEPT ![b] = @ + NewTotal(b, x)]

Escrowed(b, x) == [escrow EXCEPT ![b] = @ + x]

PlaceBid(a, u, x) ==
    LET b == <<a, u>>
        t == terms[a].acceptedToken
    IN  /\ TakesBids(a)
        /\ Outbids(a, NewTotal(b, x))
        /\ x <= wallet[t][u]
        /\ bids' = bids \cup {b}
        /\ amount' = [amount EXCEPT ![b] = NewTotal(b, x)]
        /\ vaults' = vaults \cup {b}
        /\ wallet' = [wallet EXCEPT ![t][u] = @ - x]
        /\ escrow' = Escrowed(b, x)
        /\ highestBid' = [highestBid EXCEPT ![a] = NewTotal(b, x)]
        /\ highestBidder' = [highestBidder EXCEPT ![a] = u]
        /\ UNCHANGED <<platforms, config, registry, treasuryUsdc, treasurySol,
                       now, auctionCount, itemAt, status, authStatus, terms, authentication>>

----------------------------------------------------------------------------
(* end_auction: anyone may call it; on an ended auction it does nothing.   *)

\* A plausible slip: an auction may be ended while bidding is on.
MayEndEarly(a) == status[a] = "Active"

\* A plausible slip: the end date is met at that very second only.
MayEndOnTheDate(a) == status[a] = "Active" /\ now = terms[a].endDate

MayEnd(a) == status[a] = "Active" /\ now >= terms[a].endDate

EndAuction(a) ==
    /\ MayEnd(a)
    /\ status' = [status EXCEPT ![a] = "Ended"]
    /\ UNCHANGED <<platformVars, now, auctionCount, itemAt, authStatus, terms,
                   highestBid, highestBidder, bids, amount, vaults, escrow, authentication>>

----------------------------------------------------------------------------
(* settle_auction: the highest bidder signs and says which accounts take   *)
(* part.  The config is any platform's, read at this moment.  Of the mint  *)
(* and of the seller_token_account the program checks neither that they    *)
(* are the auction's own nor whose they are: only that the item is in a    *)
(* vault of this auction and that the account is one for the payment mint. *)
(* The payment mint is the one this bid was made in: place_bid ties it to  *)
(* accepted_token, and nothing else puts tokens into a vault.              *)

Passed == [item : Items,            \* nft_mint
           recipient : Users,       \* the owner of seller_token_account
           payee : Keys,            \* of authenticator_token_account, NoKey for none
           presented : BOOLEAN]     \* is the authentication account passed?

\* A plausible slip: the reserve is not looked at.
MaySettleAtAnyPrice(a, w) ==
    /\ status[a] = "Ended"
    /\ w = highestBidder[a]

\* A plausible slip: a bid of exactly the reserve is not enough.
MaySettleAboveReserve(a, w) ==
    /\ status[a] = "Ended"
    /\ w = highestBidder[a]
    /\ highestBid[a] > terms[a].reservedPrice

\* A plausible slip: settlement does not wait for the end of bidding.
MaySettleEarly(a, w) ==
    /\ status[a] \in {"Active", "Ended"}
    /\ w = highestBidder[a]
    /\ highestBid[a] >= terms[a].reservedPrice

MaySettle(a, w) ==
    /\ status[a] = "Ended"
    /\ w = highestBidder[a]
    /\ highestBid[a] >= terms[a].reservedPrice

IsPhysical(a) == terms[a].assetType = "PhysicalRWA"

PlatformFee(a, admin) == FeeOf(highestBid[a], config[admin].platformFeeBps)

\* The authenticator's fee, which the seller of a digital item does not owe.
AuthFee(a, admin) ==
    IF IsPhysical(a) THEN FeeOf(highestBid[a], config[admin].authFeeBps) ELSE 0

\* A plausible slip: the vault is not tied to the auction that settles.
ItemInAnyVault(a, item) == itemAt[item] \in AuctionIds

\* The item goes out of the auction's own vault.
ItemInVault(a, item) == itemAt[item] = a

SettleAuction(a, w, admin, passed) ==
    LET b == <<a, w>>
        t == terms[a].acceptedToken
        fee == PlatformFee(a, admin)
        authFee == AuthFee(a, admin)
        toSeller == SellerAmount(highestBid[a], fee, authFee)
        toPayee == IF passed.payee = NoKey THEN 0 ELSE authFee
        rest == escrow[b] - (toSeller + fee + toPayee)
        Paid(u) == (IF u = passed.recipient THEN toSeller ELSE 0)
                   + (IF u = passed.payee THEN toPayee ELSE 0)
                   + (IF u = w THEN rest ELSE 0)
    IN  /\ MaySettle(a, w)
        /\ admin \in platforms
        /\ passed.presented => authentication[a].filled
        /\ b \in bids /\ b \in vaults
        /\ t \in {Usdc, Wsol}   \* a transfer to the treasury is between accounts of one mint
        /\ Splits(highestBid[a], fee, authFee)
        /\ rest >= 0
        /\ Closes(t, rest)
        /\ ItemInVault(a, passed.item)
        /\ wallet' = [wallet EXCEPT ![t] = [u \in Users |-> @[u] + Paid(u)]]
        /\ treasuryUsdc' = IF t = Usdc THEN [treasuryUsdc EXCEPT ![admin] = @ + fee]
                                       ELSE treasuryUsdc
        /\ treasurySol' = IF t = Wsol THEN treasurySol + fee ELSE treasurySol
        /\ authentication' = IF IsPhysical(a) /\ passed.presented
                             THEN [authentication EXCEPT ![a].feeAmount = authFee,
                                                         ![a].feePaid = TRUE]
                             ELSE authentication
        /\ itemAt' = [itemAt EXCEPT ![passed.item] = w]
        /\ escrow' = [escrow EXCEPT ![b] = 0]
        /\ vaults' = vaults \ {b}
        /\ status' = [status EXCEPT ![a] = "Settled"]
        /\ UNCHANGED <<platforms, config, registry, now, auctionCount, authStatus,
                       terms, highestBid, highestBidder, bids, amount>>

----------------------------------------------------------------------------
(* withdraw_bid                                                            *)

\* A plausible slip: the leader may take the winning bid back.
MayWithdrawAny(a, u) == status[a] = "Ended"

\* A plausible slip: losing bids wait for the settlement.
MayWithdrawAfterSettlement(a, u) == status[a] = "Settled" /\ u # highestBidder[a]

MayWithdraw(a, u) == status[a] = "Ended" /\ u # highestBidder[a]

\* close = bidder: the account of the bid is closed with its vault.  The mint is, as in
\* settle_auction, not compared with accepted_token: it is the one of the only vault the
\* bid has.
WithdrawBid(a, u) ==
    LET b == <<a, u>>
        t == terms[a].acceptedToken
    IN  /\ MayWithdraw(a, u)
        /\ b \in bids /\ b \in vaults
        /\ amount[b] <= escrow[b]
        /\ Closes(t, escrow[b] - amount[b])
        /\ wallet' = Credit(t, u, escrow[b])
        /\ escrow' = [escrow EXCEPT ![b] = 0]
        /\ vaults' = vaults \ {b}
        /\ bids' = bids \ {b}
        /\ amount' = [amount EXCEPT ![b] = 0]
        /\ UNCHANGED <<platforms, config, registry, treasuryUsdc, treasurySol, now,
                       auctionCount, itemAt, status, authStatus, terms, highestBid,
                       highestBidder, authentication>>

----------------------------------------------------------------------------
AuctionNext ==
    \/ Tick
    \/ \E s \in Sellers :
        \/ \E item \in Items, nonce \in 0 .. MaxAuctions - 1 : DepositItem(s, item, nonce)
        \/ \E admin \in Admins, listing \in Listings : CreateAuction(s, admin, listing)
    \/ \E a \in AuctionIds :
        \/ \E u \in Bidders, x \in BidAmounts : PlaceBid(a, u, x)
        \/ EndAuction(a)
        \/ \E w \in Bidders, admin \in Admins, passed \in Passed :
            SettleAuction(a, w, admin, passed)
        \/ \E u \in Bidders : WithdrawBid(a, u)

=============================================================================
