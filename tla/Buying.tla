------------------------------- MODULE Buying -------------------------------
(***************************************************************************)
(* The commands `bid`, `settle` and `withdraw`, and those that only look:  *)
(* `view`, `list` and `status`.                                            *)
(***************************************************************************)
EXTENDS Selling

CONSTANT Asks   \* bound: the amounts bidders ask `bid` for

ASSUME BuyingAssumption == Asks \subseteq Nat

HasAccount(u, mint) == <<u, mint>> \in accounts

\* Every command about an auction is told its address and fetches it first.
ReadsAuction(c, kind) == Reads(c, kind, "fetching") /\ AuctionFound(job[c].auction)

TokenOf(c) == terms[job[c].auction].acceptedToken

----------------------------------------------------------------------------
(* bid                                                                     *)

StartBid(c, u, a, x) ==
    /\ LoadsWallet(c, u)
    /\ Begins(c, [kind |-> "bid", user |-> u, auction |-> a, amount |-> x], "fetching")

\* The balance is the one the account had when it was looked up; a bidder who has less
\* mints the whole amount, or tries to.
BidsOrFunds(c) ==
    Quietly(c, IF wallet[TokenOf(c)][job[c].user] < job[c].amount THEN "funding" ELSE "bidding")

BidReadsAuction(c) ==
    /\ ReadsAuction(c, "bid")
    /\ IF HasAccount(job[c].user, TokenOf(c)) THEN BidsOrFunds(c) ELSE Quietly(c, "opening")

LandBidderAccount(c) ==
    /\ Lands(c, "bid", "opening")
    /\ accounts' = accounts \cup {<<job[c].user, TokenOf(c)>>}
    /\ UNCHANGED vars

HearBidderAccount(c) == Hears(c, "bid", "opening") /\ BidsOrFunds(c)

\* A plausible slip: anybody may mint the payment token.
AnyoneMints(u, t) == TRUE

MayMint(u, t) == MintAuthority[t] = u

\* mintTo, with the bidder as the mint's authority.
LandFunding(c) ==
    /\ Lands(c, "bid", "funding")
    /\ MayMint(job[c].user, TokenOf(c))
    /\ wallet' = Credit(TokenOf(c), job[c].user, job[c].amount)
    /\ UNCHANGED <<platforms, config, registry, treasuryUsdc, treasurySol, auctionVars, accounts>>

HearFunding(c) == Hears(c, "bid", "funding") /\ Quietly(c, "bidding")

\* A plausible slip: the amount is taken for the new total and the old one added to it.
SentOnTop(c) ==
    job[c].amount + amount[<<job[c].auction, job[c].user>>]

\* place_bid is sent the amount asked for, which the program adds to an earlier bid.
Sent(c) == job[c].amount

LandBid(c) ==
    /\ Lands(c, "bid", "bidding")
    /\ PlaceBid(job[c].auction, job[c].user, Sent(c))
    /\ UNCHANGED accounts

HearBid(c) == Hears(c, "bid", "bidding") /\ Quietly(c, "reported")

----------------------------------------------------------------------------
(* settle                                                                  *)

StartSettle(c, w, a) ==
    /\ LoadsWallet(c, w)
    /\ Begins(c, [kind |-> "settle", user |-> w, auction |-> a], "fetching")

SettleReadsAuction(c) == ReadsAuction(c, "settle") /\ Quietly(c, "probing")

\* getAccountInfo answers null for an account that does not exist; only when the request
\* itself throws is the winner's account created.
SettleProbes(c) ==
    /\ Reads(c, "settle", "probing")
    /\ \E stage \in {"configuring", "opening"} : Quietly(c, stage)

LandWinnerAccount(c) ==
    LET account == <<job[c].user, terms[job[c].auction].nftMint>>
    IN  /\ Lands(c, "settle", "opening")
        /\ account \notin accounts
        /\ accounts' = accounts \cup {account}
        /\ UNCHANGED vars

HearWinnerAccount(c) == Hears(c, "settle", "opening") /\ Quietly(c, "configuring")

SettleReadsConfig(c) ==
    Reads(c, "settle", "configuring") /\ ConfigFound /\ Quietly(c, "settling")

\* A plausible slip: the auction is found by the seeds that are sent, not by its address.
TargetBySeeds(c) == <<Seller(job[c].auction), 0>>

\* The auction account that `settle` and `withdraw` pass is the one they were told.
Target(c) == job[c].auction

\* They send nonce 0, whatever the nonce of that auction is, and the program compares.
NamesNonceZero(a) == a[2] = 0

\* The config has a treasury for the accepted token where the command looks for it: the
\* associated account of the config, which initialize makes for USDC.
HasTreasury(t) == t = Usdc

\* A plausible slip: the payment goes to the account of the user who runs the command.
PassesOwn(a) == [item |-> terms[a].nftMint, recipient |-> highestBidder[a],
                 payee |-> NoKey, presented |-> FALSE]

\* The accounts are derived from the auction that was read; no authenticator's account
\* and no authentication are among them.
Passes(a) == [item |-> terms[a].nftMint, recipient |-> Seller(a),
              payee |-> NoKey, presented |-> FALSE]

LandSettle(c) ==
    LET a == Target(c)
        w == job[c].user
    IN  /\ Lands(c, "settle", "settling")
        /\ NamesNonceZero(a)
        /\ HasAccount(w, terms[a].nftMint)
        /\ HasAccount(Seller(a), terms[a].acceptedToken)
        /\ HasTreasury(terms[a].acceptedToken)
        /\ SettleAuction(a, w, seedAdmin, Passes(a))
        /\ UNCHANGED accounts

HearSettle(c) == Hears(c, "settle", "settling") /\ Quietly(c, "reported")

----------------------------------------------------------------------------
(* withdraw                                                                *)

StartWithdraw(c, u, a) ==
    /\ LoadsWallet(c, u)
    /\ Begins(c, [kind |-> "withdraw", user |-> u, auction |-> a], "fetching")

WithdrawReadsAuction(c) == ReadsAuction(c, "withdraw") /\ Quietly(c, "withdrawing")

LandWithdraw(c) ==
    /\ Lands(c, "withdraw", "withdrawing")
    /\ NamesNonceZero(Target(c))
    /\ HasAccount(job[c].user, TokenOf(c))
    /\ WithdrawBid(Target(c), job[c].user)
    /\ UNCHANGED accounts

HearWithdraw(c) == Hears(c, "withdraw", "withdrawing") /\ Quietly(c, "reported")

----------------------------------------------------------------------------
(* view, list, status                                                      *)

StartView(c, a) == Begins(c, [kind |-> "view", auction |-> a], "fetching")

\* A failed read of the authentication account is taken for an account that is not there.
ViewReadsAuction(c) == ReadsAuction(c, "view") /\ Quietly(c, "reading")

ViewReadsAuthentication(c) == Reads(c, "view", "reading") /\ Quietly(c, "reported")

StartList(c) == Begins(c, [kind |-> "list"], "reading")

ListReadsAuctions(c) == Reads(c, "list", "reading") /\ Quietly(c, "reported")

StartStatus(c) == Begins(c, [kind |-> "status"], "configuring")

StatusReadsConfig(c) ==
    Reads(c, "status", "configuring") /\ ConfigFound /\ Quietly(c, "reading")

StatusReadsRegistry(c) ==
    Reads(c, "status", "reading") /\ ConfigFound /\ Quietly(c, "reported")

ViewingNext(c) ==
    \/ \E a \in AuctionIds : StartView(c, a)
    \/ ViewReadsAuction(c)
    \/ ViewReadsAuthentication(c)
    \/ StartList(c)
    \/ ListReadsAuctions(c)
    \/ StartStatus(c)
    \/ StatusReadsConfig(c)
    \/ StatusReadsRegistry(c)

BuyingNext(c) ==
    \/ \E u \in Users, a \in AuctionIds :
        \/ \E x \in Asks : StartBid(c, u, a, x)
        \/ StartSettle(c, u, a)
        \/ StartWithdraw(c, u, a)
    \/ BidReadsAuction(c)
    \/ HearBidderAccount(c)
    \/ HearFunding(c)
    \/ HearBid(c)
    \/ SettleReadsAuction(c)
    \/ SettleProbes(c)
    \/ HearWinnerAccount(c)
    \/ SettleReadsConfig(c)
    \/ HearSettle(c)
    \/ WithdrawReadsAuction(c)
    \/ HearWithdraw(c)

BuyingLands(c) ==
    \/ LandBidderAccount(c) \/ LandFunding(c) \/ LandBid(c)
    \/ LandWinnerAccount(c) \/ LandSettle(c)
    \/ LandWithdraw(c)

=============================================================================
