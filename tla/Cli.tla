-------------------------------- MODULE Cli ---------------------------------
(***************************************************************************)
(* The client and the program together: commands of several terminals, the *)
(* transactions they leave behind, and other clients of the same program.  *)
(***************************************************************************)
EXTENDS Buying, BidXProperties

CONSTANTS
    Founded,        \* bound: the admins whose platform is set up at first
    Opened          \* bound: the token accounts that exist at first

ASSUME CliAssumption ==
    /\ Founded \subseteq Admins
    /\ Opened \subseteq Users \X Mints
    /\ \A listing \in Listings : listing.acceptedToken \in {Usdc, Wsol}

CliTypeOK == TypeOK /\ ClientTypeOK

FoundedConfig ==
    [platformFeeBps |-> InitSetup.rate, authFeeBps |-> InitSetup.authRate,
     minDuration |-> InitSetup.min, maxDuration |-> InitSetup.max, isPaused |-> FALSE]

CliInit ==
    /\ platforms = Founded
    /\ config = [admin \in Admins |-> IF admin \in Founded THEN FoundedConfig ELSE ZeroConfig]
    /\ registry = [admin \in Admins |->
            IF admin \in Founded
            THEN [authenticators |-> InitSetup.keys, nextIndex |-> 0]
            ELSE EmptyRegistry]
    /\ treasuryUsdc = [admin \in Admins |-> 0]
    /\ treasurySol = 0
    /\ AuctionInit
    /\ ClientInit
    /\ accounts = Opened

\* What a command does at its terminal.
Step(c) == SellingNext(c) \/ BuyingNext(c) \/ ViewingNext(c)

\* What becomes of the transactions.
Ledger(c) == SellingLands(c) \/ BuyingLands(c) \/ Drop(c)

\* Other clients: the clock, listings for the mints of the treasuries, bids, and anybody's
\* call of end_auction, which no command makes.
Others ==
    /\ UNCHANGED clientVars
    /\ \/ Tick
       \/ \E s \in Sellers, listing \in Listings :
            \/ DepositItem(s, listing.nftMint, auctionCount[s])
            \/ \E admin \in Admins : CreateAuction(s, admin, listing)
       \/ \E a \in AuctionIds :
            \/ EndAuction(a)
            \/ \E u \in Bidders, x \in BidAmounts : PlaceBid(a, u, x)

CliNext ==
    \/ \E c \in Commands : Step(c) \/ Fail(c) \/ Ledger(c)
    \/ Others

cliVars == <<vars, clientVars>>

CliSpec == CliInit /\ [][CliNext]_cliVars

----------------------------------------------------------------------------
(* Safety                                                                  *)

Reported(c, kind) == IsJob(c, kind) /\ pc[c] = "reported"

\* A `create` that reports success has listed the very item it minted, for the payment
\* token it made, under the address it prints: also when another terminal of the same
\* seller took the nonce it had read, or when the read of the nonce had failed.
CreateReportIsTrue ==
    \A c \in Commands : Reported(c, "create") =>
        LET a == AuctionOf(c)
        IN  status[a] # "Absent" /\ terms[a] = ListingOf(c)

\* However the commands of several terminals interleave, fail, or land late, an auction
\* that lists an item minted by `create` has that item in its own vault until it is
\* settled: the deposit never goes missing under a listing, only a listing under a deposit.
ListedItemIsInItsVault ==
    \A c \in Commands, a \in AuctionIds :
        IsJob(c, "create") /\ terms[a] # NoTerms /\ terms[a].nftMint = job[c].item =>
            /\ a = AuctionOf(c)
            /\ status[a] # "Settled" => itemAt[job[c].item] = a

AskedOf(b, outcomes) ==
    {c \in Commands : /\ IsJob(c, "bid")
                      /\ job[c].auction = b[1] /\ job[c].user = b[2]
                      /\ pc[c] \in outcomes}

Sum(cs) == SumOver([c \in cs |-> job[c].amount], cs)

\* While an auction takes bids, what a bidder has in escrow there is at least what `bid`
\* has reported as placed and at most what `bid` was asked for: a bid whose command timed
\* out may have landed or land later, once, and bidding again adds to it.
EscrowWithinAsked ==
    \A b \in BidIds : status[b[1]] = "Active" /\ b[2] \notin Bidders =>
        /\ Sum(AskedOf(b, {"reported"})) <= escrow[b]
        /\ escrow[b] <= Sum(AskedOf(b, ReadStages \cup TxStages \cup Outcomes))

\* A `settle` or `withdraw` that reports success has been done, and stays done.
CloseReportIsTrue ==
    \A c \in Commands :
        /\ Reported(c, "settle") =>
                /\ status[job[c].auction] = "Settled"
                /\ highestBidder[job[c].auction] = job[c].user
        /\ Reported(c, "withdraw") => <<job[c].auction, job[c].user>> \notin bids

\* On an auction that `create` has listed nobody but its seller ever bids: the payment
\* token is a mint of the seller's own, and `bid` can mint it for nobody else.
OnlySellerHasTheToken ==
    \A c \in Commands, b \in bids :
        IsJob(c, "create") /\ terms[b[1]].acceptedToken = job[c].mint => b[2] = Seller(b[1])

\* What settle_auction leaves to its caller `settle` gets right: with the accounts that it
\* derives from the auction it has read, the seller is paid and the listed item is the
\* one that is handed over, also when the vault holds another item, another auction
\* names the same one, or the seller is the highest bidder.
SettlesAsListed ==
    [][\A a \in AuctionIds : Settles(a) =>
        GivesListedItem(a) /\ (~IsPhysical(a) => PaysSeller(a))]_cliVars

----------------------------------------------------------------------------
(* What the repository says and the code does not do                       *)

\* README.md:324: `yarn cli status` shows the configuration of the platform, so that it
\* finds the config once an `init` has reported that the platform is initialised.
PlatformIsFound ==
    \A c, d \in Commands :
        Reported(d, "init") /\ Reads(c, "status", "configuring") => ConfigFound

=============================================================================
