------------------------------ MODULE Selling -------------------------------
(***************************************************************************)
(* The commands `init` and `create`.                                       *)
(***************************************************************************)
EXTENDS Client

CONSTANTS
    InitSetup,      \* the arguments setupPlatform passes to initialize
    StartDelay,     \* seconds between creating an auction and its start
    MintAuthority,  \* [Tokens -> Keys]: who may mint each payment token
    Wishes,         \* bound: what sellers ask `create` for
    AskedKeys       \* bound: the authenticators `init` is given

\* The answers to the prompts of `create`; NoValue is text that does not parse, or, for
\* the duration, an option that was not given.
WishForms == [assetType : AssetTypes, startingBid : Nat \cup {NoValue},
              reservedPrice : Nat \cup {NoValue}, duration : Int \cup {NoValue}]

ASSUME SellingAssumption ==
    /\ Wishes \subseteq WishForms
    /\ AskedKeys \subseteq Seq(Keys)
    /\ StartDelay \in Nat
    /\ MintAuthority \in [Tokens -> Keys]
    /\ InitSetup \in [rate : Nat, authRate : Nat, min : Int, max : Int, keys : Seq(Keys)]
    /\ NoValue \notin Items \cup Tokens

\* A mint that `create` makes is a new keypair: not the mint of a treasury, and nobody has
\* any of it at first.
ASSUME FreshMintAssumption ==
    /\ Usdc \notin OtherMints /\ Wsol \notin OtherMints
    /\ \A t \in OtherMints, u \in Users : Funds[t][u] = 0

IsJob(c, kind) == Begun(c) /\ job[c].kind = kind

----------------------------------------------------------------------------
(* init: sets a platform up for an admin key made for the occasion, which  *)
(* nothing keeps: the commands that follow do not know it.                 *)

FreshAdmin(admin) ==
    admin \notin platforms /\ \A d \in Commands : IsJob(d, "init") => job[d].admin # admin

StartInit(c, admin, keys) ==
    /\ FreshAdmin(admin)
    /\ Begins(c, [kind |-> "init", admin |-> admin, keys |-> keys], "airdropping")

\* The airdrop and the two mints of setupPlatform leave nothing that is looked at.
LandAirdrop(c) == Lands(c, "init", "airdropping") /\ UNCHANGED <<vars, accounts>>

HearAirdrop(c) == Hears(c, "init", "airdropping") /\ Quietly(c, "initialising")

LandInitialize(c) ==
    /\ Lands(c, "init", "initialising")
    /\ Initialize(job[c].admin, [InitSetup EXCEPT !.keys = job[c].keys])
    /\ UNCHANGED <<auctionVars, accounts>>

HearInitialize(c) == Hears(c, "init", "initialising") /\ Quietly(c, "reported")

----------------------------------------------------------------------------
(* create: mints an item, moves it into the vault of the auction that is to*)
(* be, and lists that auction.                                             *)

StartCreate(c, s, wish) ==
    /\ LoadsWallet(c, s)
    /\ Begins(c, [kind |-> "create", user |-> s, wish |-> wish, item |-> NoValue,
                  nonce |-> NoValue, mint |-> NoValue, start |-> NoValue], "configuring")

\* A mint is a new keypair; an item nobody has minted yet is, for the model, with the
\* one user who may mint it.
FreshItem(s, item) ==
    /\ FirstHolder[item] = s
    /\ \A d \in Commands : IsJob(d, "create") => job[d].item # item
    /\ \A listing \in Listings : listing.nftMint # item

CreateReadsConfig(c, item) ==
    /\ Reads(c, "create", "configuring")
    /\ ConfigFound
    /\ FreshItem(job[c].user, item)
    /\ job' = [job EXCEPT ![c].item = item]
    /\ GoesTo(c, "minting")
    /\ UNCHANGED <<vars, seedAdmin, accounts>>

\* createMint, the seller's account and mintTo.
LandItem(c) ==
    /\ Lands(c, "create", "minting")
    /\ accounts' = accounts \cup {<<job[c].user, job[c].item>>}
    /\ UNCHANGED vars

HearItem(c) == Hears(c, "create", "minting") /\ Quietly(c, "counting")

\* The nonce is auction_count as read, or 0 when the read throws for whatever reason:
\* its catch block is empty.
CreateReadsCount(c) ==
    /\ Reads(c, "create", "counting")
    /\ \E nonce \in {auctionCount[job[c].user], 0} : job' = [job EXCEPT ![c].nonce = nonce]
    /\ GoesTo(c, "depositing")
    /\ UNCHANGED <<vars, seedAdmin, accounts>>

\* The addresses that depend on the nonce: the auction, and the owner of the item vault.
AuctionOf(c) == <<job[c].user, job[c].nonce>>

LandDeposit(c) ==
    /\ Lands(c, "create", "depositing")
    /\ DepositItem(job[c].user, job[c].item, job[c].nonce)
    /\ UNCHANGED accounts

ParsesAmount(x) == x # NoValue

\* The amounts and the duration are parsed only now.
Parses(wish) ==
    ParsesAmount(wish.startingBid) /\ ParsesAmount(wish.reservedPrice)
    /\ wish.duration # NoValue

FreshMoney(s, t) ==
    MintAuthority[t] = s /\ \A d \in Commands : IsJob(d, "create") => job[d].mint # t

\* A plausible slip: the failure of the deposit is swallowed like that of the count.
HearsOrShrugs(c) == Reads(c, "create", "depositing")

HearsDeposit(c) == Hears(c, "create", "depositing")

\* The payment token is a mint of the seller's own.
HearDeposit(c, t) ==
    /\ HearsDeposit(c)
    /\ Parses(job[c].wish)
    /\ FreshMoney(job[c].user, t)
    /\ job' = [job EXCEPT ![c].mint = t, ![c].start = now]
    /\ GoesTo(c, "paying")
    /\ UNCHANGED <<vars, seedAdmin, accounts>>

LandMoney(c) == Lands(c, "create", "paying") /\ UNCHANGED <<vars, accounts>>

HearMoney(c) == Hears(c, "create", "paying") /\ Quietly(c, "listing")

\* The client's clock is taken to agree with the ledger's.
ListingOf(c) ==
    LET wish == job[c].wish
    IN  [nftMint |-> job[c].item, assetType |-> wish.assetType,
         acceptedToken |-> job[c].mint, startingBid |-> wish.startingBid,
         reservedPrice |-> wish.reservedPrice, startDate |-> job[c].start + StartDelay,
         endDate |-> job[c].start + wish.duration]

\* A plausible slip: the auction is left to the seeds, which take the count of the moment.
AnyAuction(c) == TRUE

\* create_auction is given the auction by address: it must be that of the next nonce.
NamesNextAuction(c) == AuctionOf(c) = <<job[c].user, auctionCount[job[c].user]>>

LandListing(c) ==
    /\ Lands(c, "create", "listing")
    /\ NamesNextAuction(c)
    /\ CreateAuction(job[c].user, seedAdmin, ListingOf(c))
    /\ UNCHANGED accounts

\* The command prints the address it derived, the mints and the terms.
HearListing(c) == Hears(c, "create", "listing") /\ Quietly(c, "reported")

SellingNext(c) ==
    \/ \E admin \in Admins, keys \in AskedKeys : StartInit(c, admin, keys)
    \/ HearAirdrop(c)
    \/ HearInitialize(c)
    \/ \E s \in Sellers, wish \in Wishes : StartCreate(c, s, wish)
    \/ \E item \in Items : CreateReadsConfig(c, item)
    \/ HearItem(c)
    \/ CreateReadsCount(c)
    \/ \E t \in OtherMints : HearDeposit(c, t)
    \/ HearMoney(c)
    \/ HearListing(c)

SellingLands(c) ==
    \/ LandAirdrop(c) \/ LandInitialize(c)
    \/ LandItem(c) \/ LandDeposit(c) \/ LandMoney(c) \/ LandListing(c)

=============================================================================
