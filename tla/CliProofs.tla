------------------------------ MODULE CliProofs ------------------------------
(***************************************************************************)
(* What the commands of the client report, for any number of terminals,    *)
(* commands, users and auctions, however the commands interleave and       *)
(* whatever becomes of their transactions.                                 *)
(***************************************************************************)
EXTENDS Cli, TokenProofs

----------------------------------------------------------------------------
(* The steps of one command                                                *)

CreateJobs == [kind : {"create"}, user : Sellers, wish : Wishes,
               item : Items \cup {NoValue}, nonce : Nat \cup {NoValue},
               mint : OtherMints \cup {NoValue}, start : Nat \cup {NoValue}]

Jobs == CreateJobs
        \cup [kind : {"init"}, admin : Admins, keys : AskedKeys]
        \cup [kind : {"bid"}, user : Users, auction : AuctionIds, amount : Asks]
        \cup [kind : {"settle", "withdraw"}, user : Users, auction : AuctionIds]
        \cup [kind : {"view"}, auction : AuctionIds]
        \cup [kind : {"list", "status"}]

\* What is sent when a stage is entered.
SentAt(stage) == IF stage \in TxStages THEN stage ELSE "none"

Enters(c, stage) == pc'[c] = stage /\ tx'[c] = SentAt(stage)

Same(c) == pc'[c] = pc[c] /\ job'[c] = job[c] /\ tx'[c] = tx[c]

Alone(c) ==
    /\ pc' = [pc EXCEPT ![c] = pc'[c]]
    /\ tx' = [tx EXCEPT ![c] = tx'[c]]
    /\ DOMAIN job' = DOMAIN job /\ \A d \in Commands \ {c} : job'[d] = job[d]

\* The first await of each command.
FirstStage(kind) ==
    CASE kind = "init"               -> "airdropping"
      [] kind \in {"create", "status"} -> "configuring"
      [] kind = "list"               -> "reading"
      [] OTHER                       -> "fetching"

Starts(c) ==
    /\ pc[c] = "idle"
    /\ job'[c] \in Jobs
    /\ job'[c].kind = "create" =>
            job'[c].item = NoValue /\ job'[c].nonce = NoValue /\ job'[c].mint = NoValue
    /\ Enters(c, FirstStage(job'[c].kind))
    /\ Alone(c)
    /\ UNCHANGED <<vars, seedAdmin, accounts>>

\* The steps from one await to the next that change nothing else.
StageSteps ==
    {<<"init", "airdropping", "initialising">>, <<"init", "initialising", "reported">>,
     <<"create", "minting", "counting">>, <<"create", "paying", "listing">>,
     <<"create", "listing", "reported">>,
     <<"bid", "fetching", "opening">>, <<"bid", "fetching", "funding">>,
     <<"bid", "fetching", "bidding">>, <<"bid", "opening", "funding">>,
     <<"bid", "opening", "bidding">>, <<"bid", "funding", "bidding">>,
     <<"bid", "bidding", "reported">>,
     <<"settle", "fetching", "probing">>, <<"settle", "probing", "opening">>,
     <<"settle", "probing", "configuring">>, <<"settle", "opening", "configuring">>,
     <<"settle", "configuring", "settling">>, <<"settle", "settling", "reported">>,
     <<"withdraw", "fetching", "withdrawing">>, <<"withdraw", "withdrawing", "reported">>,
     <<"view", "fetching", "reading">>, <<"view", "reading", "reported">>,
     <<"list", "reading", "reported">>,
     <<"status", "configuring", "reading">>, <<"status", "reading", "reported">>}

MovesOn(c) ==
    /\ <<job[c].kind, pc[c], pc'[c]>> \in StageSteps
    /\ pc[c] \in TxStages => tx[c] = "landed"
    /\ pc[c] = "fetching" => AuctionFound(job[c].auction)
    /\ Enters(c, pc'[c])
    /\ Alone(c)
    /\ UNCHANGED <<vars, seedAdmin, accounts, job>>

\* What create learns on its way.
Learns(c) ==
    \/ \E item \in Items : CreateReadsConfig(c, item)
    \/ CreateReadsCount(c)
    \/ \E t \in OtherMints : HearDeposit(c, t)

LEMMA QuietlyMovesOn ==
    ASSUME ClientTypeOK, NEW c \in Commands, NEW kind, NEW from, NEW to,
           Reads(c, kind, from), Quietly(c, to), <<kind, from, to>> \in StageSteps,
           from \in TxStages => tx[c] = "landed",
           from = "fetching" => AuctionFound(job[c].auction)
    PROVE  MovesOn(c)
  BY DEF Reads, Quietly, GoesTo, MovesOn, Enters, SentAt, Alone, Same, ClientTypeOK

LEMMA BeginsStarts ==
    ASSUME ClientTypeOK, NEW c \in Commands, NEW newJob \in Jobs,
           newJob.kind = "create" =>
                newJob.item = NoValue /\ newJob.nonce = NoValue /\ newJob.mint = NoValue,
           Begins(c, newJob, FirstStage(newJob.kind))
    PROVE  Starts(c)
  BY DEF Begins, IsNext, Begun, GoesTo, Starts, Enters, SentAt, Alone, Same, ClientTypeOK

LEMMA SellingSteps ==
    ASSUME ClientTypeOK, NEW c \in Commands, SellingNext(c)
    PROVE  Starts(c) \/ MovesOn(c) \/ Learns(c)
  <1>1. ASSUME NEW admin \in Admins, NEW keys \in AskedKeys, StartInit(c, admin, keys)
        PROVE  Starts(c)
    <2> DEFINE j == [kind |-> "init", admin |-> admin, keys |-> keys]
    <2>1. j \in Jobs /\ j.kind = "init" /\ FirstStage("init") = "airdropping"
      BY DEF Jobs, FirstStage
    <2>2. Begins(c, j, "airdropping")
      BY <1>1 DEF StartInit
    <2> HIDE DEF j
    <2> QED
      BY <2>1, <2>2, BeginsStarts
  <1>2. ASSUME NEW s \in Sellers, NEW wish \in Wishes, StartCreate(c, s, wish)
        PROVE  Starts(c)
    <2> DEFINE j == [kind |-> "create", user |-> s, wish |-> wish, item |-> NoValue,
                     nonce |-> NoValue, mint |-> NoValue, start |-> NoValue]
    <2>1. /\ j \in CreateJobs /\ j.kind = "create" /\ FirstStage("create") = "configuring"
          /\ j.item = NoValue /\ j.nonce = NoValue /\ j.mint = NoValue
      BY DEF CreateJobs, FirstStage
    <2>2. Begins(c, j, "configuring")
      BY <1>2 DEF StartCreate
    <2> HIDE DEF j
    <2> QED
      BY <2>1, <2>2, BeginsStarts DEF Jobs
  <1>3. ASSUME HearAirdrop(c) PROVE MovesOn(c)
    BY <1>3, QuietlyMovesOn DEF HearAirdrop, Hears, Reads, StageSteps
  <1>4. ASSUME HearInitialize(c) PROVE MovesOn(c)
    BY <1>4, QuietlyMovesOn DEF HearInitialize, Hears, Reads, StageSteps
  <1>5. ASSUME HearItem(c) PROVE MovesOn(c)
    BY <1>5, QuietlyMovesOn DEF HearItem, Hears, Reads, StageSteps
  <1>6. ASSUME HearMoney(c) PROVE MovesOn(c)
    BY <1>6, QuietlyMovesOn DEF HearMoney, Hears, Reads, StageSteps
  <1>7. ASSUME HearListing(c) PROVE MovesOn(c)
    BY <1>7, QuietlyMovesOn DEF HearListing, Hears, Reads, StageSteps
  <1> QED
    BY <1>1, <1>2, <1>3, <1>4, <1>5, <1>6, <1>7, Zenon DEF SellingNext, Learns

LEMMA BuyingSteps ==
    ASSUME ClientTypeOK, NEW c \in Commands, BuyingNext(c)
    PROVE  Starts(c) \/ MovesOn(c)
  <1>1. ASSUME NEW u \in Users, NEW a \in AuctionIds, NEW x \in Asks, StartBid(c, u, a, x)
        PROVE  Starts(c)
    <2> DEFINE j == [kind |-> "bid", user |-> u, auction |-> a, amount |-> x]
    <2>1. j \in Jobs /\ j.kind = "bid" /\ FirstStage("bid") = "fetching"
      BY DEF Jobs, FirstStage
    <2>2. Begins(c, j, "fetching")
      BY <1>1 DEF StartBid
    <2> HIDE DEF j
    <2> QED
      BY <2>1, <2>2, BeginsStarts
  <1>2. ASSUME NEW u \in Users, NEW a \in AuctionIds, NEW kind \in {"settle", "withdraw"},
               Begins(c, [kind |-> kind, user |-> u, auction |-> a], "fetching")
        PROVE  Starts(c)
    <2> DEFINE j == [kind |-> kind, user |-> u, auction |-> a]
    <2>1. j \in Jobs /\ j.kind = kind /\ kind # "create" /\ FirstStage(kind) = "fetching"
      BY DEF Jobs, FirstStage
    <2>2. Begins(c, j, "fetching")
      BY <1>2
    <2> HIDE DEF j
    <2> QED
      BY <2>1, <2>2, BeginsStarts
  <1>3. ASSUME BidReadsAuction(c) PROVE MovesOn(c)
    <2>1. /\ Reads(c, "bid", "fetching") /\ AuctionFound(job[c].auction)
          /\ \/ Quietly(c, "opening") \/ Quietly(c, "funding") \/ Quietly(c, "bidding")
      BY <1>3 DEF BidReadsAuction, ReadsAuction, BidsOrFunds
    <2> QED
      BY <2>1, QuietlyMovesOn DEF StageSteps, TxStages
  <1>4. ASSUME HearBidderAccount(c) PROVE MovesOn(c)
    <2>1. /\ Reads(c, "bid", "opening") /\ tx[c] = "landed"
          /\ Quietly(c, "funding") \/ Quietly(c, "bidding")
      BY <1>4 DEF HearBidderAccount, Hears, Reads, BidsOrFunds
    <2> QED
      BY <2>1, QuietlyMovesOn DEF StageSteps
  <1>5. ASSUME HearFunding(c) PROVE MovesOn(c)
    BY <1>5, QuietlyMovesOn DEF HearFunding, Hears, Reads, StageSteps
  <1>6. ASSUME HearBid(c) PROVE MovesOn(c)
    BY <1>6, QuietlyMovesOn DEF HearBid, Hears, Reads, StageSteps
  <1>7. ASSUME SettleReadsAuction(c) PROVE MovesOn(c)
    BY <1>7, QuietlyMovesOn DEF SettleReadsAuction, ReadsAuction, StageSteps, TxStages
  <1>8. ASSUME SettleProbes(c) PROVE MovesOn(c)
    <2>1. /\ Reads(c, "settle", "probing")
          /\ Quietly(c, "configuring") \/ Quietly(c, "opening")
      BY <1>8 DEF SettleProbes
    <2> QED
      BY <2>1, QuietlyMovesOn DEF StageSteps, TxStages
  <1>9. ASSUME HearWinnerAccount(c) PROVE MovesOn(c)
    BY <1>9, QuietlyMovesOn DEF HearWinnerAccount, Hears, Reads, StageSteps
  <1>10. ASSUME SettleReadsConfig(c) PROVE MovesOn(c)
    BY <1>10, QuietlyMovesOn DEF SettleReadsConfig, StageSteps, TxStages
  <1>11. ASSUME HearSettle(c) PROVE MovesOn(c)
    BY <1>11, QuietlyMovesOn DEF HearSettle, Hears, Reads, StageSteps
  <1>12. ASSUME WithdrawReadsAuction(c) PROVE MovesOn(c)
    BY <1>12, QuietlyMovesOn DEF WithdrawReadsAuction, ReadsAuction, StageSteps, TxStages
  <1>13. ASSUME HearWithdraw(c) PROVE MovesOn(c)
    BY <1>13, QuietlyMovesOn DEF HearWithdraw, Hears, Reads, StageSteps
  <1>14. ASSUME NEW u \in Users, NEW a \in AuctionIds,
                StartSettle(c, u, a) \/ StartWithdraw(c, u, a)
         PROVE  Starts(c)
    BY <1>2, <1>14 DEF StartSettle, StartWithdraw
  <1> QED
    BY <1>1, <1>3, <1>4, <1>5, <1>6, <1>7, <1>8, <1>9, <1>10, <1>11, <1>12, <1>13, <1>14,
       Zenon DEF BuyingNext

LEMMA ViewingSteps ==
    ASSUME ClientTypeOK, NEW c \in Commands, ViewingNext(c)
    PROVE  Starts(c) \/ MovesOn(c)
  <1>1. ASSUME NEW a \in AuctionIds, StartView(c, a) PROVE Starts(c)
    <2> DEFINE j == [kind |-> "view", auction |-> a]
    <2>1. j \in Jobs /\ j.kind = "view" /\ FirstStage("view") = "fetching"
      BY DEF Jobs, FirstStage
    <2>2. Begins(c, j, "fetching")
      BY <1>1 DEF StartView
    <2> HIDE DEF j
    <2> QED
      BY <2>1, <2>2, BeginsStarts
  <1>2. ASSUME NEW kind \in {"list", "status"}, Begins(c, [kind |-> kind], FirstStage(kind))
        PROVE  Starts(c)
    <2> DEFINE j == [kind |-> kind]
    <2>1. j \in Jobs /\ j.kind = kind /\ kind # "create"
      BY DEF Jobs
    <2>2. Begins(c, j, FirstStage(kind))
      BY <1>2
    <2> HIDE DEF j
    <2> QED
      BY <2>1, <2>2, BeginsStarts
  <1>3. ASSUME StartList(c) \/ StartStatus(c) PROVE Starts(c)
    <2>1. FirstStage("list") = "reading" /\ FirstStage("status") = "configuring"
      BY DEF FirstStage
    <2> QED
      BY <1>2, <1>3, <2>1 DEF StartList, StartStatus
  <1>4. ASSUME ViewReadsAuction(c) PROVE MovesOn(c)
    BY <1>4, QuietlyMovesOn DEF ViewReadsAuction, ReadsAuction, StageSteps, TxStages
  <1>5. ASSUME ViewReadsAuthentication(c) PROVE MovesOn(c)
    BY <1>5, QuietlyMovesOn DEF ViewReadsAuthentication, StageSteps, TxStages
  <1>6. ASSUME ListReadsAuctions(c) PROVE MovesOn(c)
    BY <1>6, QuietlyMovesOn DEF ListReadsAuctions, StageSteps, TxStages
  <1>7. ASSUME StatusReadsConfig(c) PROVE MovesOn(c)
    BY <1>7, QuietlyMovesOn DEF StatusReadsConfig, StageSteps, TxStages
  <1>8. ASSUME StatusReadsRegistry(c) PROVE MovesOn(c)
    BY <1>8, QuietlyMovesOn DEF StatusReadsRegistry, StageSteps, TxStages
  <1> QED
    BY <1>1, <1>3, <1>4, <1>5, <1>6, <1>7, <1>8, Zenon DEF ViewingNext

\* A command's step is its own.
LEMMA ElsewhereSame ==
    ASSUME ClientTypeOK, NEW c \in Commands, NEW d \in Commands, c # d,
           \/ Starts(d) \/ MovesOn(d) \/ Learns(d) \/ Fail(d) \/ Drop(d)
           \/ \E kind, stage : Lands(d, kind, stage)
    PROVE  Same(c)
  <1>1. ASSUME NEW stage, GoesTo(d, stage) PROVE pc'[c] = pc[c] /\ tx'[c] = tx[c]
    BY <1>1 DEF GoesTo, ClientTypeOK
  <1>2. ASSUME Starts(d) \/ MovesOn(d) PROVE Same(c)
    BY <1>2 DEF Starts, MovesOn, Alone, Same, ClientTypeOK
  <1>3. ASSUME Learns(d) PROVE Same(c)
    BY <1>1, <1>3 DEF Learns, CreateReadsConfig, CreateReadsCount, HearDeposit, Same, ClientTypeOK
  <1>4. ASSUME Fail(d) PROVE Same(c)
    BY <1>4 DEF Fail, Same, ClientTypeOK
  <1>5. ASSUME Drop(d) PROVE Same(c)
    BY <1>5 DEF Drop, Same, ClientTypeOK
  <1>6. ASSUME NEW kind, NEW stage, Lands(d, kind, stage) PROVE Same(c)
    BY <1>6 DEF Lands, Same, ClientTypeOK
  <1> QED
    BY <1>2, <1>3, <1>4, <1>5, <1>6

LEMMA Landings ==
    ASSUME NEW d, SellingLands(d) \/ BuyingLands(d)
    PROVE  \E kind, stage : Lands(d, kind, stage)
  BY DEF SellingLands, LandAirdrop, LandInitialize, LandItem, LandDeposit, LandMoney,
         LandListing, BuyingLands, LandBidderAccount, LandFunding, LandBid,
         LandWinnerAccount, LandSettle, LandWithdraw

\* What a step of the system is to one command.
LEMMA CommandSteps ==
    ASSUME ClientTypeOK, [CliNext]_cliVars, NEW c \in Commands
    PROVE  \/ Same(c)
           \/ Starts(c) \/ MovesOn(c) \/ Learns(c) \/ Fail(c) \/ Drop(c)
           \/ SellingLands(c) \/ BuyingLands(c)
  <1>1. ASSUME Others \/ UNCHANGED cliVars PROVE Same(c)
    BY <1>1 DEF Others, cliVars, clientVars, Same
  <1>2. ASSUME NEW d \in Commands, Step(d) PROVE Starts(d) \/ MovesOn(d) \/ Learns(d)
    BY <1>2, SellingSteps, BuyingSteps, ViewingSteps DEF Step
  <1>3. ASSUME NEW d \in Commands, Step(d) \/ Fail(d) \/ Ledger(d)
        PROVE  \/ Starts(d) \/ MovesOn(d) \/ Learns(d) \/ Fail(d) \/ Drop(d)
               \/ SellingLands(d) \/ BuyingLands(d)
    BY <1>2, <1>3 DEF Ledger
  <1>4. ASSUME NEW d \in Commands, Step(d) \/ Fail(d) \/ Ledger(d), c # d PROVE Same(c)
    BY <1>3, <1>4, ElsewhereSame, Landings
  <1> QED
    BY <1>1, <1>3, <1>4 DEF CliNext

\* What a step of the system is to the program.
LEMMA LedgerSteps ==
    ASSUME ClientTypeOK, [CliNext]_cliVars
    PROVE  \/ UNCHANGED vars
           \/ Others
           \/ \E d \in Commands :
                \/ LandInitialize(d) \/ LandDeposit(d) \/ LandListing(d)
                \/ LandFunding(d) \/ LandBid(d) \/ LandSettle(d) \/ LandWithdraw(d)
  <1>1. ASSUME NEW d \in Commands, Step(d) PROVE UNCHANGED vars
    <2>1. Starts(d) \/ MovesOn(d) \/ Learns(d)
      BY <1>1, SellingSteps, BuyingSteps, ViewingSteps DEF Step
    <2> QED
      BY <2>1 DEF Starts, MovesOn, Learns, CreateReadsConfig, CreateReadsCount, HearDeposit
  <1>2. ASSUME NEW d \in Commands, Fail(d) \/ Drop(d) PROVE UNCHANGED vars
    BY <1>2 DEF Fail, Drop
  <1>3. ASSUME NEW d \in Commands,
               \/ LandAirdrop(d) \/ LandItem(d) \/ LandMoney(d)
               \/ LandBidderAccount(d) \/ LandWinnerAccount(d)
        PROVE  UNCHANGED vars
    BY <1>3 DEF LandAirdrop, LandItem, LandMoney, LandBidderAccount, LandWinnerAccount
  <1>4. ASSUME UNCHANGED cliVars PROVE UNCHANGED vars
    BY <1>4 DEF cliVars
  <1> QED
    BY <1>1, <1>2, <1>3, <1>4, Zenon DEF CliNext, Ledger, SellingLands, BuyingLands

----------------------------------------------------------------------------
(* What each command knows at each of its stages                           *)

\* The stages a command is at: where it is, and where a transaction of its may come from.
At(c, stages) == pc[c] \in stages \/ tx[c] \in stages

HasMoney(c) ==
    /\ job[c].item \in Items
    /\ job[c].nonce \in Nat
    /\ job[c].mint \in OtherMints
    /\ MintAuthority[job[c].mint] = job[c].user
    /\ job[c].start \in Nat
    /\ Parses(job[c].wish)

\* `create` learns the item, the nonce and the payment token in this order, and nothing
\* it has learned changes.
CreateKnows(c) ==
    /\ At(c, {"minting", "counting", "depositing", "paying", "listing", "reported"})
            => job[c].item \in Items
    /\ At(c, {"depositing", "paying", "listing", "reported"}) => job[c].nonce \in Nat
    /\ At(c, {"paying", "listing", "reported"}) => job[c].mint # NoValue
    /\ job[c].mint # NoValue => HasMoney(c)
    /\ pc[c] \in {"configuring", "minting", "counting", "depositing"} => job[c].mint = NoValue

\* A transaction that travels is that of the stage, or was left behind by a failure.
Sends(c) ==
    /\ tx[c] \in TxStages => pc[c] \in {tx[c], "failed"}
    /\ tx[c] = "landed" => pc[c] \in TxStages

\* Every command about an auction has fetched it before it does anything else.
Seen(c) ==
    job[c].kind \in {"bid", "settle", "withdraw"}
    /\ (pc[c] \notin {"fetching", "failed"} \/ tx[c] \in TxStages)
        => status[job[c].auction] # "Absent"

Knows(c) ==
    /\ Sends(c)
    /\ Begun(c) => /\ job[c] \in Jobs
                   /\ job[c].kind = "create" => CreateKnows(c)
                   /\ Seen(c)

CliTyped == Typed /\ ClientTypeOK /\ \A c \in Commands : Knows(c)

LEMMA JobKinds ==
    ASSUME NEW c, job[c] \in Jobs
    PROVE  /\ job[c].kind = "create" => job[c] \in CreateJobs
           /\ job[c].kind = "init" => job[c].admin \in Admins /\ job[c].keys \in AskedKeys
           /\ job[c].kind = "bid" => job[c].amount \in Asks
           /\ job[c].kind \in {"bid", "settle", "withdraw"} =>
                job[c].user \in Users /\ job[c].auction \in AuctionIds
  BY DEF Jobs, CreateJobs

\* A transaction that lands belongs to a command that has begun.
LEMMA LandsOf ==
    ASSUME NEW c, Sends(c), NEW kind, NEW stage \in TxStages, Lands(c, kind, stage)
    PROVE  /\ Begun(c) /\ tx[c] = stage /\ job[c].kind = kind
           /\ pc[c] \in {stage, "failed"}
  BY DEF Sends, Lands, Begun, TxStages

\* The listing that `create` sends is one the program can be given.
LEMMA ListingTyped ==
    ASSUME CliTyped, NEW d \in Commands, LandListing(d)
    PROVE  /\ Begun(d) /\ job[d].kind = "create" /\ tx[d] = "listing"
           /\ pc[d] \in {"listing", "failed"}
           /\ job[d].user \in Sellers /\ job[d].item \in Items
           /\ job[d].nonce \in Nat /\ job[d].mint \in OtherMints
           /\ MintAuthority[job[d].mint] = job[d].user
           /\ ListingOf(d) \in Terms
  <1>1. /\ Begun(d) /\ job[d].kind = "create" /\ tx[d] = "listing"
        /\ pc[d] \in {"listing", "failed"}
    BY LandsOf DEF LandListing, TxStages, CliTyped, Knows
  <1>2. HasMoney(d) /\ job[d].user \in Sellers /\ job[d].wish \in WishForms
    BY <1>1, JobKinds, SellingAssumption DEF CliTyped, Knows, CreateKnows, At, CreateJobs
  <1>3. /\ job[d].wish.assetType \in AssetTypes
        /\ job[d].wish.startingBid \in Nat /\ job[d].wish.reservedPrice \in Nat
        /\ job[d].wish.duration \in Int
    BY <1>2 DEF HasMoney, Parses, ParsesAmount, WishForms
  <1>4. job[d].mint \in Tokens
    BY <1>2 DEF HasMoney, Tokens
  <1>5. job[d].start + StartDelay \in Int /\ job[d].start + job[d].wish.duration \in Int
    <2> DEFINE start == job[d].start
               duration == job[d].wish.duration
    <2>1. start \in Nat /\ duration \in Int /\ StartDelay \in Nat
      BY <1>2, <1>3, SellingAssumption DEF HasMoney
    <2> HIDE DEF start, duration
    <2>2. start + StartDelay \in Int /\ start + duration \in Int
      BY <2>1, SMT
    <2> QED
      BY <2>2 DEF start, duration
  <1>6. ListingOf(d) \in Terms
    BY <1>2, <1>3, <1>4, <1>5 DEF HasMoney, ListingOf, Terms
  <1> QED
    BY <1>1, <1>2, <1>6 DEF HasMoney

InitSetups == [rate : Nat, authRate : Nat, min : Int, max : Int, keys : Seq(Keys)]

\* mintTo, as `bid` calls it.
MintsTo(t, u, x) ==
    /\ MayMint(u, t)
    /\ wallet' = Credit(t, u, x)
    /\ UNCHANGED <<platforms, config, registry, treasuryUsdc, treasurySol, auctionVars>>

\* Only its own seller lists an auction for a token that is not a treasury's.
MayName(s, listing) ==
    listing.acceptedToken \in OtherMints => MintAuthority[listing.acceptedToken] = s

\* The instructions the commands and the other clients call, with what they pass.
LEMMA ProgramSteps ==
    ASSUME CliTyped, [CliNext]_cliVars
    PROVE  \/ UNCHANGED vars
           \/ Tick
           \/ \E admin \in Admins, setup \in InitSetups :
                Initialize(admin, setup) /\ UNCHANGED auctionVars
           \/ \E t \in Tokens, u \in Users, x \in Nat : MintsTo(t, u, x)
           \/ \E s \in Sellers, item \in Items, nonce \in 0 .. MaxAuctions - 1 :
                DepositItem(s, item, nonce)
           \/ \E s \in Sellers, admin \in Admins, listing \in Terms :
                MayName(s, listing) /\ CreateAuction(s, admin, listing)
           \/ \E a \in AuctionIds, u \in Users, x \in Nat : PlaceBid(a, u, x)
           \/ \E a \in AuctionIds : EndAuction(a)
           \/ \E a \in AuctionIds, w \in Users, admin \in Admins :
                Passes(a) \in Passed /\ SettleAuction(a, w, admin, Passes(a))
           \/ \E a \in AuctionIds, u \in Users : WithdrawBid(a, u)
  <1>1. ASSUME Others
        PROVE  \/ Tick
               \/ \E s \in Sellers, item \in Items, nonce \in 0 .. MaxAuctions - 1 :
                    DepositItem(s, item, nonce)
               \/ \E s \in Sellers, admin \in Admins, listing \in Terms :
                    MayName(s, listing) /\ CreateAuction(s, admin, listing)
               \/ \E a \in AuctionIds, u \in Users, x \in Nat : PlaceBid(a, u, x)
               \/ \E a \in AuctionIds : EndAuction(a)
    <2>1. /\ \A u \in Bidders : u \in Users
          /\ \A x \in BidAmounts : x \in Nat
          /\ \A listing \in Listings : listing \in Terms /\ \A s \in Sellers : MayName(s, listing)
      BY AuctionAssumption, CliAssumption, FreshMintAssumption DEF MayName
    <2>2. ASSUME NEW s \in Sellers, NEW listing \in Listings,
                 DepositItem(s, listing.nftMint, auctionCount[s])
          PROVE  listing.nftMint \in Items /\ auctionCount[s] \in 0 .. MaxAuctions - 1
      <3>1. listing.nftMint \in Items
        BY <2>1 DEF Terms
      <3>2. auctionCount[s] \in Nat /\ auctionCount[s] < MaxAuctions
        BY <2>2 DEF DepositItem, CliTyped, Typed, TypeOK, AuctionTypeOK
      <3> QED
        BY <3>1, <3>2, AuctionAssumption, SMT
    <2> QED
      BY <1>1, <2>1, <2>2, Zenon DEF Others
  <1>2. ASSUME NEW d \in Commands, LandInitialize(d)
        PROVE  \E admin \in Admins, setup \in InitSetups :
                Initialize(admin, setup) /\ UNCHANGED auctionVars
    <2> DEFINE setup == [InitSetup EXCEPT !.keys = job[d].keys]
    <2>1. job[d].admin \in Admins /\ job[d].keys \in Seq(Keys)
      BY <1>2, LandsOf, JobKinds, SellingAssumption DEF LandInitialize, TxStages, CliTyped, Knows
    <2>2. setup \in InitSetups
      BY <2>1, SellingAssumption, Zenon DEF InitSetups
    <2>3. Initialize(job[d].admin, setup) /\ UNCHANGED auctionVars
      BY <1>2, Zenon DEF LandInitialize
    <2> HIDE DEF setup
    <2> QED
      BY <2>1, <2>2, <2>3
  <1>3. ASSUME NEW d \in Commands, LandDeposit(d)
        PROVE  \E s \in Sellers, item \in Items, nonce \in 0 .. MaxAuctions - 1 :
                DepositItem(s, item, nonce)
    <2>1. Begun(d) /\ job[d].kind = "create" /\ tx[d] = "depositing"
      BY <1>3, LandsOf DEF LandDeposit, TxStages, CliTyped, Knows
    <2>2. job[d].user \in Sellers /\ job[d].item \in Items /\ job[d].nonce \in Nat
      BY <2>1, JobKinds DEF CliTyped, Knows, CreateKnows, At, CreateJobs
    <2>3. DepositItem(job[d].user, job[d].item, job[d].nonce)
      BY <1>3 DEF LandDeposit
    <2>4. job[d].nonce \in 0 .. MaxAuctions - 1
      <3>1. job[d].nonce < MaxAuctions
        BY <2>3 DEF DepositItem
      <3> QED
        BY <3>1, <2>2, AuctionAssumption, SMT
    <2> QED
      BY <2>2, <2>3, <2>4
  <1>4. ASSUME NEW d \in Commands, LandListing(d)
        PROVE  \E s \in Sellers, admin \in Admins, listing \in Terms :
                MayName(s, listing) /\ CreateAuction(s, admin, listing)
    <2>1. /\ job[d].user \in Sellers /\ ListingOf(d) \in Terms
          /\ MayName(job[d].user, ListingOf(d))
      BY <1>4, ListingTyped DEF MayName, ListingOf
    <2>2. CreateAuction(job[d].user, seedAdmin, ListingOf(d))
      BY <1>4 DEF LandListing
    <2>3. seedAdmin \in Admins
      BY <2>2 DEF CreateAuction, CliTyped, Typed, TypeOK, PlatformTypeOK
    <2> QED
      BY <2>1, <2>2, <2>3
  <1>5. ASSUME NEW d \in Commands, LandFunding(d)
        PROVE  \E t \in Tokens, u \in Users, x \in Nat : MintsTo(t, u, x)
    <2>1. Begun(d) /\ job[d].kind = "bid" /\ tx[d] = "funding"
      BY <1>5, LandsOf DEF LandFunding, TxStages, CliTyped, Knows
    <2>2. job[d].user \in Users /\ job[d].auction \in AuctionIds /\ job[d].amount \in Nat
      BY <2>1, JobKinds, BuyingAssumption DEF CliTyped, Knows
    <2>3. status[job[d].auction] # "Absent"
      BY <2>1 DEF CliTyped, Knows, Seen, TxStages
    <2>4. TokenOf(d) \in Tokens
      BY <2>2, <2>3, TermsOfAuction DEF TokenOf, CliTyped
    <2>5. MintsTo(TokenOf(d), job[d].user, job[d].amount)
      BY <1>5 DEF LandFunding, MintsTo
    <2> QED
      BY <2>2, <2>4, <2>5
  <1>6. ASSUME NEW d \in Commands, LandBid(d)
        PROVE  \E a \in AuctionIds, u \in Users, x \in Nat : PlaceBid(a, u, x)
    <2>1. Begun(d) /\ job[d].kind = "bid"
      BY <1>6, LandsOf DEF LandBid, TxStages, CliTyped, Knows
    <2>2. job[d].user \in Users /\ job[d].auction \in AuctionIds /\ job[d].amount \in Nat
      BY <2>1, JobKinds, BuyingAssumption DEF CliTyped, Knows
    <2> QED
      BY <1>6, <2>2 DEF LandBid, Sent
  <1>7. ASSUME NEW d \in Commands, LandSettle(d)
        PROVE  \E a \in AuctionIds, w \in Users, admin \in Admins :
                Passes(a) \in Passed /\ SettleAuction(a, w, admin, Passes(a))
    <2>1. Begun(d) /\ job[d].kind = "settle"
      BY <1>7, LandsOf DEF LandSettle, TxStages, CliTyped, Knows
    <2>2. job[d].user \in Users /\ job[d].auction \in AuctionIds
      BY <2>1, JobKinds DEF CliTyped, Knows
    <2>3. SettleAuction(job[d].auction, job[d].user, seedAdmin, Passes(job[d].auction))
      BY <1>7 DEF LandSettle, Target
    <2>4. seedAdmin \in Admins /\ status[job[d].auction] # "Absent"
      BY <2>3 DEF SettleAuction, MaySettle, CliTyped, Typed, TypeOK, PlatformTypeOK
    <2>5. Passes(job[d].auction) \in Passed
      <3>1. terms[job[d].auction].nftMint \in Items /\ Seller(job[d].auction) \in Users
        BY <2>2, <2>4, TermsOfAuction, AuctionAssumption DEF CliTyped, Seller, AuctionIds
      <3>2. NoKey \in Keys /\ FALSE \in BOOLEAN
        BY DEF Keys
      <3> QED
        BY <3>1, <3>2, Zenon DEF Passes, Passed
    <2> QED
      BY <2>2, <2>3, <2>4, <2>5
  <1>8. ASSUME NEW d \in Commands, LandWithdraw(d)
        PROVE  \E a \in AuctionIds, u \in Users : WithdrawBid(a, u)
    <2>1. Begun(d) /\ job[d].kind = "withdraw"
      BY <1>8, LandsOf DEF LandWithdraw, TxStages, CliTyped, Knows
    <2>2. job[d].user \in Users /\ job[d].auction \in AuctionIds
      BY <2>1, JobKinds DEF CliTyped, Knows
    <2> QED
      BY <1>8, <2>2 DEF LandWithdraw, Target
  <1>9. ClientTypeOK
    BY DEF CliTyped
  <1> QED
    BY <1>1, <1>2, <1>3, <1>4, <1>5, <1>6, <1>7, <1>8, <1>9, LedgerSteps, Zenon

\* The types are kept, whichever instruction runs.
LEMMA ClientTyping ==
    ASSUME CliTyped, [CliNext]_cliVars
    PROVE  Typed'
  <1> USE DEF CliTyped
  <1>1. ASSUME UNCHANGED vars PROVE Typed'
    BY <1>1, NextTyping
  <1>2. ASSUME NEW admin \in Admins, NEW setup \in InitSetups, Initialize(admin, setup),
               UNCHANGED auctionVars
        PROVE  Typed'
    <2>1. PlatformTypeOK'
      BY <1>2, InitializeTyping DEF InitSetups, Typed, TypeOK
    <2> QED
      BY <1>2, <2>1 DEF auctionVars, Typed, TypeOK, TermsOK, AuctionTypeOK
  <1>3. ASSUME NEW t \in Tokens, NEW u \in Users, NEW x \in Nat, MintsTo(t, u, x)
        PROVE  Typed'
    <2>1. wallet' \in [Tokens -> [Users -> Nat]]
      BY <1>3, CreditTypes DEF MintsTo, Typed, TypeOK
    <2> QED
      BY <1>3, <2>1
      DEF MintsTo, auctionVars, Typed, TypeOK, TermsOK, PlatformTypeOK, AuctionTypeOK
  <1> QED
    BY <1>1, <1>2, <1>3, ProgramSteps, TickTyping, DepositItemTyping,
       CreateAuctionTyping, PlaceBidTyping, EndAuctionTyping, SettleAuctionTyping,
       WithdrawBidTyping, Zenon

\* What an auction is about stands for good, and so does its end.
AuctionsStay ==
    \A a \in AuctionIds : status[a] # "Absent" =>
        /\ status'[a] # "Absent" /\ terms'[a] = terms[a]
        /\ status[a] = "Settled" => status'[a] = "Settled"
        /\ status[a] \in {"Ended", "Settled"} =>
            /\ status'[a] \in {"Ended", "Settled"}
            /\ highestBidder'[a] = highestBidder[a]
            /\ \A u \in Users : <<a, u>> \in bids' => <<a, u>> \in bids

LEMMA Staying ==
    ASSUME CliTyped, [CliNext]_cliVars
    PROVE  AuctionsStay
  <1> USE DEF AuctionsStay
  <1>0. Typed
    BY DEF CliTyped
  <1>1. ASSUME \/ UNCHANGED vars \/ Tick
               \/ UNCHANGED auctionVars
               \/ \E s \in Sellers, item \in Items, nonce \in 0 .. MaxAuctions - 1 :
                    DepositItem(s, item, nonce)
        PROVE  AuctionsStay
    BY <1>1 DEF vars, auctionVars, Tick, DepositItem
  <1>2. ASSUME NEW s \in Sellers, NEW admin \in Admins, NEW listing \in Terms,
               CreateAuction(s, admin, listing)
        PROVE  AuctionsStay
    BY <1>0, <1>2 DEF CreateAuction, Typed, TypeOK, AuctionTypeOK
  <1>3. ASSUME NEW a \in AuctionIds, NEW u \in Users, NEW x \in Nat, PlaceBid(a, u, x)
        PROVE  AuctionsStay
    BY <1>0, <1>3 DEF PlaceBid, TakesBids, Typed, TypeOK, AuctionTypeOK
  <1>4. ASSUME NEW a \in AuctionIds, EndAuction(a) PROVE AuctionsStay
    BY <1>0, <1>4 DEF EndAuction, MayEnd, Typed, TypeOK, AuctionTypeOK
  <1>5. ASSUME NEW a \in AuctionIds, NEW w \in Users, NEW admin \in Admins,
               SettleAuction(a, w, admin, Passes(a))
        PROVE  AuctionsStay
    <2>1. /\ status[a] = "Ended" /\ status' = [status EXCEPT ![a] = "Settled"]
          /\ UNCHANGED <<terms, highestBidder, bids>>
      BY <1>5 DEF SettleAuction, MaySettle
    <2> QED
      BY <1>0, <2>1 DEF Typed, TypeOK, AuctionTypeOK
  <1>6. ASSUME NEW a \in AuctionIds, NEW u \in Users, WithdrawBid(a, u) PROVE AuctionsStay
    BY <1>6 DEF WithdrawBid
  <1> QED
    BY <1>1, <1>2, <1>3, <1>4, <1>5, <1>6, ProgramSteps, Zenon DEF MintsTo

\* The accounts that a command opens are token accounts.
LEMMA OpenedAccounts ==
    ASSUME CliTyped, [CliNext]_cliVars
    PROVE  accounts' \subseteq Users \X Mints /\ seedAdmin' = seedAdmin
  <1>1. accounts \subseteq Users \X Mints
    BY DEF CliTyped, ClientTypeOK
  <1>2. ASSUME NEW d \in Commands, LandItem(d)
        PROVE  accounts' \subseteq Users \X Mints
    <2>1. Begun(d) /\ job[d].kind = "create" /\ tx[d] = "minting"
      BY <1>2, LandsOf DEF LandItem, TxStages, CliTyped, Knows
    <2>2. job[d].user \in Users /\ job[d].item \in Mints
      BY <2>1, JobKinds, AuctionAssumption
      DEF CliTyped, Knows, CreateKnows, At, CreateJobs, Mints
    <2>3. accounts' = accounts \cup {<<job[d].user, job[d].item>>}
      BY <1>2 DEF LandItem
    <2> QED
      BY <1>1, <2>2, <2>3
  <1>3. ASSUME NEW d \in Commands, LandBidderAccount(d) \/ LandWinnerAccount(d)
        PROVE  accounts' \subseteq Users \X Mints
    <2>1. Begun(d) /\ job[d].kind \in {"bid", "settle"} /\ tx[d] = "opening"
      BY <1>3, LandsOf DEF LandBidderAccount, LandWinnerAccount, TxStages, CliTyped, Knows
    <2>2. job[d].user \in Users /\ job[d].auction \in AuctionIds
      BY <2>1, JobKinds DEF CliTyped, Knows
    <2>3. status[job[d].auction] # "Absent"
      BY <2>1 DEF CliTyped, Knows, Seen, TxStages
    <2>4. TokenOf(d) \in Mints /\ terms[job[d].auction].nftMint \in Mints
      BY <2>2, <2>3, TermsOfAuction DEF TokenOf, CliTyped, Mints
    <2>5. accounts' \in {accounts \cup {<<job[d].user, TokenOf(d)>>},
                         accounts \cup {<<job[d].user, terms[job[d].auction].nftMint>>}}
      BY <1>3 DEF LandBidderAccount, LandWinnerAccount
    <2> QED
      BY <1>1, <2>2, <2>4, <2>5
  <1>4. ASSUME NEW d \in Commands, Step(d) \/ Fail(d) \/ Drop(d)
        PROVE  UNCHANGED <<accounts, seedAdmin>>
    <2>1. Step(d) => Starts(d) \/ MovesOn(d) \/ Learns(d)
      BY SellingSteps, BuyingSteps, ViewingSteps DEF Step, CliTyped
    <2> QED
      BY <1>4, <2>1 DEF Starts, MovesOn, Learns, CreateReadsConfig, CreateReadsCount,
                        HearDeposit, Fail, Drop
  <1>5. ASSUME NEW d \in Commands,
               \/ LandAirdrop(d) \/ LandInitialize(d) \/ LandDeposit(d) \/ LandMoney(d)
               \/ LandListing(d) \/ LandFunding(d) \/ LandBid(d) \/ LandSettle(d)
               \/ LandWithdraw(d)
        PROVE  UNCHANGED accounts
    BY <1>5 DEF LandAirdrop, LandInitialize, LandDeposit, LandMoney, LandListing, LandFunding,
                LandBid, LandSettle, LandWithdraw
  <1>6. ASSUME NEW d \in Commands, SellingLands(d) \/ BuyingLands(d)
        PROVE  UNCHANGED seedAdmin
    BY <1>6, Landings DEF Lands
  <1>7. ASSUME Others \/ UNCHANGED cliVars PROVE UNCHANGED <<accounts, seedAdmin>>
    BY <1>7 DEF Others, cliVars, clientVars
  <1>8. ASSUME NEW d \in Commands, SellingLands(d) \/ BuyingLands(d)
        PROVE  accounts' \subseteq Users \X Mints
    BY <1>1, <1>2, <1>3, <1>5, <1>8, Zenon DEF SellingLands, BuyingLands
  <1> QED
    BY <1>1, <1>4, <1>6, <1>7, <1>8 DEF CliNext, Ledger

LEMMA ClientTypeStep ==
    ASSUME CliTyped, [CliNext]_cliVars
    PROVE  ClientTypeOK'
  <1> DEFINE Stages == {"idle"} \cup ReadStages \cup TxStages \cup Outcomes
             Travels == {"none", "landed"} \cup TxStages
             ControlOK == /\ pc \in [Commands -> Stages]
                          /\ tx \in [Commands -> Travels]
                          /\ DOMAIN job = Commands
  <1>1. ControlOK /\ ClientTypeOK
    BY DEF CliTyped, ClientTypeOK
  <1>2. ASSUME NEW d \in Commands, NEW stage \in Stages, GoesTo(d, stage), DOMAIN job' = DOMAIN job
        PROVE  ControlOK'
    <2> HIDE DEF Stages
    <2>1. (IF stage \in TxStages THEN stage ELSE "none") \in Travels
      OBVIOUS
    <2> HIDE DEF Travels
    <2> QED
      BY <1>1, <1>2, <2>1 DEF GoesTo
  <1>3. ASSUME NEW d \in Commands, Alone(d), NEW stage \in Stages, Enters(d, stage)
        PROVE  ControlOK'
    <2> HIDE DEF Stages
    <2>1. SentAt(stage) \in Travels
      BY DEF SentAt
    <2> HIDE DEF Travels
    <2> QED
      BY <1>1, <1>3, <2>1 DEF Alone, Enters
  <1>4. ASSUME NEW d \in Commands, Starts(d) PROVE ControlOK'
    <2>1. FirstStage(job'[d].kind) \in Stages
      BY DEF FirstStage, ReadStages, TxStages
    <2> QED
      BY <1>3, <1>4, <2>1 DEF Starts
  <1>5. ASSUME NEW d \in Commands, MovesOn(d) PROVE ControlOK'
    <2>1. pc'[d] \in Stages
      BY <1>5 DEF MovesOn, StageSteps, ReadStages, TxStages, Outcomes
    <2> QED
      BY <1>3, <1>5, <2>1 DEF MovesOn
  <1>6. ASSUME NEW d \in Commands, Learns(d) PROVE ControlOK'
    <2>1. {"minting", "depositing", "paying"} \subseteq Stages
      BY DEF TxStages
    <2>2. \E stage \in {"minting", "depositing", "paying"} :
            GoesTo(d, stage) /\ DOMAIN job' = DOMAIN job
      BY <1>6 DEF Learns, CreateReadsConfig, CreateReadsCount, HearDeposit
    <2> HIDE DEF Stages, ControlOK
    <2> QED
      BY <1>2, <2>1, <2>2
  <1>7. ASSUME NEW d \in Commands, Fail(d) PROVE ControlOK'
    BY <1>1, <1>7 DEF Fail, Outcomes
  <1>8. ASSUME NEW d \in Commands, Drop(d) PROVE ControlOK'
    BY <1>1, <1>8 DEF Drop
  <1>9. ASSUME NEW d \in Commands, SellingLands(d) \/ BuyingLands(d) PROVE ControlOK'
    BY <1>1, <1>9, Landings DEF Lands
  <1>10. ASSUME Others \/ UNCHANGED cliVars PROVE ControlOK'
    BY <1>1, <1>10 DEF Others, cliVars, clientVars
  <1>11. ASSUME NEW d \in Commands, Step(d) PROVE ControlOK'
    BY <1>1, <1>4, <1>5, <1>6, <1>11, SellingSteps, BuyingSteps, ViewingSteps DEF Step
  <1>12. ControlOK'
    <2> HIDE DEF ControlOK
    <2> QED
      BY <1>7, <1>8, <1>9, <1>10, <1>11 DEF CliNext, Ledger
  <1> QED
    BY <1>1, <1>12, OpenedAccounts DEF ClientTypeOK

\* A command keeps knowing what it has learned.
LEMMA KnowsStep ==
    ASSUME CliTyped, [CliNext]_cliVars, NEW c \in Commands
    PROVE  Knows(c)'
  <1>1. Knows(c) /\ ClientTypeOK /\ AuctionsStay
    BY Staying DEF CliTyped
  <1>2. ASSUME Same(c) PROVE Knows(c)'
    <2>1. Seen(c) /\ Begun(c) => Seen(c)'
      BY <1>1, <1>2, JobKinds DEF Seen, Same, AuctionsStay, Knows
    <2> QED
      BY <1>1, <1>2, <2>1 DEF Knows, Same, Sends, Begun, CreateKnows, At, HasMoney
  <1>3. ASSUME Starts(c) PROVE Knows(c)'
    BY <1>3 DEF Starts, Knows, Sends, Begun, Enters, SentAt, FirstStage, TxStages,
                CreateKnows, At, HasMoney, Seen
  <1>4. ASSUME job'[c] = job[c] PROVE HasMoney(c) => HasMoney(c)'
    BY <1>4 DEF HasMoney
  <1>5. ASSUME MovesOn(c) PROVE Knows(c)'
    <2>1. /\ job'[c] = job[c] /\ status' = status /\ Begun(c) /\ Begun(c)'
          /\ pc'[c] \notin {"fetching", "failed"}
      BY <1>5 DEF MovesOn, StageSteps, Begun, vars, auctionVars
    <2>2. Sends(c)'
      BY <1>5 DEF MovesOn, Enters, SentAt, Sends, TxStages
    <2>3. job[c].kind = "create" => CreateKnows(c)'
      <3>1. ASSUME job[c].kind = "create"
            PROVE  \/ pc[c] = "minting" /\ pc'[c] = "counting" /\ tx'[c] = "none"
                   \/ pc[c] = "paying" /\ pc'[c] = "listing" /\ tx'[c] = "listing"
                   \/ pc[c] = "listing" /\ pc'[c] = "reported" /\ tx'[c] = "none"
        BY <1>5, <3>1 DEF MovesOn, StageSteps, Enters, SentAt, TxStages
      <3> QED
        BY <1>1, <1>4, <2>1, <3>1 DEF Knows, CreateKnows, At
    <2>4. Seen(c)'
      <3>1. ASSUME job[c].kind \in {"bid", "settle", "withdraw"}
            PROVE  pc[c] \notin {"idle", "failed"}
                   /\ (pc[c] = "fetching" => status[job[c].auction] # "Absent")
        BY <1>5, <3>1 DEF MovesOn, StageSteps, AuctionFound
      <3> QED
        BY <1>1, <2>1, <3>1 DEF Knows, Seen
    <2> QED
      BY <1>1, <2>1, <2>2, <2>3, <2>4 DEF Knows
  <1>6. ASSUME Learns(c) PROVE Knows(c)'
    <2>1. /\ job[c] \in CreateJobs /\ job[c].kind = "create" /\ CreateKnows(c)
          /\ c \in DOMAIN job /\ tx \in [Commands -> {"none", "landed"} \cup TxStages]
          /\ pc \in [Commands -> {"idle"} \cup ReadStages \cup TxStages \cup Outcomes]
      BY <1>1, <1>6, JobKinds
      DEF Learns, CreateReadsConfig, CreateReadsCount, HearDeposit, HearsDeposit, Hears, Reads,
          Knows, Begun, ClientTypeOK
    <2>2. ASSUME NEW item \in Items, CreateReadsConfig(c, item) PROVE Knows(c)'
      <3>1. job'[c] = [job[c] EXCEPT !.item = item] /\ pc[c] = "configuring"
            /\ pc'[c] = "minting" /\ tx'[c] = "minting"
        BY <2>1, <2>2 DEF CreateReadsConfig, Reads, GoesTo, TxStages
      <3>2. job'[c] \in CreateJobs /\ job'[c].kind = "create" /\ job'[c].item = item
            /\ job'[c].mint = NoValue
        BY <2>1, <3>1 DEF CreateJobs, CreateKnows
      <3> QED
        BY <3>1, <3>2 DEF Knows, Sends, Begun, CreateKnows, At, Seen, TxStages, Jobs
    <2>3. ASSUME CreateReadsCount(c) PROVE Knows(c)'
      <3>1. PICK nonce \in {auctionCount[job[c].user], 0} : job' = [job EXCEPT ![c].nonce = nonce]
        BY <2>3 DEF CreateReadsCount
      <3>2. nonce \in Nat
        BY <2>1 DEF CreateJobs, CliTyped, Typed, TypeOK, AuctionTypeOK
      <3>3. job'[c] = [job[c] EXCEPT !.nonce = nonce] /\ pc[c] = "counting"
            /\ pc'[c] = "depositing" /\ tx'[c] = "depositing"
        BY <2>1, <2>3, <3>1 DEF CreateReadsCount, Reads, GoesTo, TxStages
      <3>4. job'[c] \in CreateJobs /\ job'[c].kind = "create" /\ job'[c].nonce = nonce
            /\ job'[c].mint = NoValue /\ job'[c].item \in Items
        BY <2>1, <3>2, <3>3 DEF CreateJobs, CreateKnows, At
      <3> QED
        BY <3>2, <3>3, <3>4 DEF Knows, Sends, Begun, CreateKnows, At, Seen, TxStages, Jobs
    <2>4. ASSUME NEW t \in OtherMints, HearDeposit(c, t) PROVE Knows(c)'
      <3> DEFINE paid == [job[c] EXCEPT !.mint = t]
      <3>1. /\ job' = [job EXCEPT ![c].mint = t, ![c].start = now] /\ pc[c] = "depositing"
            /\ pc'[c] = "paying" /\ tx'[c] = "paying"
            /\ Parses(job[c].wish) /\ MintAuthority[t] = job[c].user
        BY <2>1, <2>4
        DEF HearDeposit, HearsDeposit, Hears, Reads, GoesTo, TxStages, FreshMoney
      <3>2. now \in Nat
        BY DEF CliTyped, Typed, TypeOK, AuctionTypeOK
      <3>3. paid \in CreateJobs
        BY <2>1, Zenon DEF CreateJobs
      <3>4. job'[c] = [paid EXCEPT !.start = now]
        BY <2>1, <3>1
      <3>5. /\ job'[c] \in CreateJobs /\ job'[c].kind = "create" /\ job'[c].mint = t
            /\ job'[c].start = now /\ job'[c].item = job[c].item
            /\ job'[c].nonce = job[c].nonce /\ job'[c].wish = job[c].wish
            /\ job'[c].user = job[c].user
        BY <2>1, <3>2, <3>3, <3>4 DEF CreateJobs
      <3>6. job[c].item \in Items /\ job[c].nonce \in Nat
        BY <2>1, <3>1 DEF CreateKnows, At
      <3>7. HasMoney(c)'
        BY <3>1, <3>2, <3>5, <3>6 DEF HasMoney
      <3>8. job'[c].mint # NoValue
        BY <3>5, SellingAssumption DEF Tokens
      <3> QED
        BY <3>1, <3>5, <3>6, <3>7, <3>8
        DEF Knows, Sends, Begun, CreateKnows, At, Seen, TxStages, Jobs
    <2> QED
      BY <1>6, <2>2, <2>3, <2>4 DEF Learns
  <1>7. ASSUME Fail(c) PROVE Knows(c)'
    <2>1. /\ job' = job /\ status' = status /\ Begun(c) /\ pc'[c] = "failed"
          /\ tx'[c] = IF tx[c] = "landed" THEN "none" ELSE tx[c]
      BY <1>1, <1>7 DEF Fail, Running, ClientTypeOK, vars, auctionVars
    <2> QED
      BY <1>1, <1>4, <2>1 DEF Knows, Sends, Begun, CreateKnows, At, Seen, TxStages
  <1>8. ASSUME Drop(c) PROVE Knows(c)'
    <2>1. job' = job /\ status' = status /\ pc' = pc /\ tx'[c] = "none"
      BY <1>1, <1>8 DEF Drop, ClientTypeOK, vars, auctionVars
    <2> QED
      BY <1>1, <1>4, <2>1 DEF Knows, Sends, Begun, CreateKnows, At, Seen, TxStages
  <1>9. ASSUME NEW kind, NEW stage, Lands(c, kind, stage) PROVE Knows(c)'
    <2>1. /\ job' = job /\ pc' = pc /\ tx[c] = stage
          /\ tx'[c] = IF pc[c] = stage THEN "landed" ELSE "none"
      BY <1>1, <1>9 DEF Lands, ClientTypeOK
    <2>2. CreateKnows(c) => CreateKnows(c)'
      BY <1>4, <2>1 DEF CreateKnows, At
    <2>3. ASSUME Begun(c), Seen(c) PROVE Seen(c)'
      <3>1. tx'[c] \notin TxStages
        BY <2>1 DEF TxStages
      <3>2. ASSUME job[c].kind \in {"bid", "settle", "withdraw"}
            PROVE  job[c].auction \in AuctionIds
        BY <1>1, <2>3, <3>2, JobKinds DEF Knows
      <3>3. SUFFICES ASSUME job'[c].kind \in {"bid", "settle", "withdraw"},
                            pc'[c] \notin {"fetching", "failed"} \/ tx'[c] \in TxStages'
                     PROVE  status'[job'[c].auction] # "Absent"
        BY DEF Seen
      <3>4. pc[c] \notin {"fetching", "failed"}
        BY <2>1, <3>1, <3>3 DEF TxStages
      <3>5. status[job[c].auction] # "Absent"
        BY <2>1, <2>3, <3>3, <3>4 DEF Seen
      <3> QED
        BY <1>1, <2>1, <3>2, <3>3, <3>5 DEF AuctionsStay
    <2>4. pc[c] = tx[c] => pc[c] \in TxStages
      BY <1>1 DEF ClientTypeOK, ReadStages, TxStages, Outcomes
    <2>5. Sends(c)'
      BY <2>1, <2>4 DEF Sends, TxStages
    <2> QED
      BY <1>1, <2>1, <2>2, <2>3, <2>5 DEF Knows, Begun
  <1> QED
    BY <1>1, <1>2, <1>3, <1>5, <1>6, <1>7, <1>8, <1>9, CommandSteps, Landings

LEMMA CliTypedInit == CliInit => CliTyped
  <1> SUFFICES ASSUME CliInit PROVE CliTyped
    OBVIOUS
  <1> USE DEF CliInit, ClientInit
  <1>1. ZeroConfig \in Configs /\ FoundedConfig \in Configs
    BY SellingAssumption, SMT DEF ZeroConfig, FoundedConfig, Configs
  <1>2. /\ EmptyRegistry \in Registries
        /\ [authenticators |-> InitSetup.keys, nextIndex |-> 0] \in Registries
    BY SellingAssumption, SMT DEF EmptyRegistry, Registries
  <1>3. PlatformTypeOK
    BY <1>1, <1>2, AuctionAssumption, CliAssumption DEF PlatformTypeOK, AuctionInit
  <1>4. Typed
    BY <1>3, AuctionInitTyping DEF Typed, TypeOK
  <1>5. ClientTypeOK
    BY CliAssumption DEF ClientTypeOK
  <1>6. \A c \in Commands : Knows(c)
    BY DEF Knows, Sends, Begun, TxStages
  <1> QED
    BY <1>4, <1>5, <1>6 DEF CliTyped

LEMMA CliTypedStep == CliTyped /\ [CliNext]_cliVars => CliTyped'
  <1> SUFFICES ASSUME CliTyped, [CliNext]_cliVars PROVE CliTyped'
    OBVIOUS
  <1>1. Typed' /\ ClientTypeOK'
    BY ClientTyping, ClientTypeStep
  <1>2. \A c \in Commands : Knows(c)'
    BY KnowsStep
  <1> QED
    BY <1>1, <1>2 DEF CliTyped

LEMMA CliTypedInvariant == CliSpec => []CliTyped
  BY CliTypedInit, CliTypedStep, PTL DEF CliSpec

\* The program under the client keeps its types, and so does the client: what its commands
\* have read, waited for and sent stays within the types, whatever is lost or lands late.
THEOREM ClientTypeCorrect == CliSpec => []CliTypeOK
  <1>1. CliTyped => CliTypeOK
    BY DEF CliTyped, Typed, CliTypeOK
  <1> QED
    BY <1>1, CliTypedInvariant, PTL

----------------------------------------------------------------------------
(* The escrow of the program, under the client                             *)

LEMMA ClientSound ==
    ASSUME CliTyped, EscrowSound, [CliNext]_cliVars
    PROVE  EscrowSound'
  <1>1. Typed
    BY DEF CliTyped
  <1>2. ASSUME UNCHANGED vars PROVE EscrowSound'
    BY <1>2, BidUntouched DEF vars, auctionVars, bidVars
  <1>3. ASSUME Tick PROVE EscrowSound'
    BY <1>3, BidUntouched DEF Tick, bidVars
  <1>4. ASSUME UNCHANGED auctionVars PROVE EscrowSound'
    BY <1>4, BidUntouched DEF auctionVars, bidVars
  <1>5. ASSUME NEW t \in Tokens, NEW u \in Users, NEW x \in Nat, MintsTo(t, u, x)
        PROVE  EscrowSound'
    BY <1>4, <1>5 DEF MintsTo
  <1>6. ASSUME NEW s \in Sellers, NEW item \in Items, NEW nonce \in 0 .. MaxAuctions - 1,
               DepositItem(s, item, nonce)
        PROVE  EscrowSound'
    BY <1>6, BidUntouched DEF DepositItem, bidVars
  <1> QED
    BY <1>1, <1>2, <1>3, <1>4, <1>5, <1>6, ProgramSteps, CreateAuctionSound,
       PlaceBidSound, EndAuctionSound, SettleAuctionSound, WithdrawBidSound, Zenon

\* What the commands of the client do, send twice or leave behind, and the tokens `create`
\* and `bid` mint, keep the escrow as sound as the program by itself does: a vault holds
\* what its bid says, the leader's holds the highest bid, and no two bids are equal.
THEOREM ClientEscrowIsSound ==
    CliSpec => [](EscrowBacksBids /\ LeaderHoldsHighestBid /\ NoTies)
  <1>1. CliInit => EscrowSound
    BY InitSound DEF CliInit
  <1>2. CliTyped /\ EscrowSound /\ [CliNext]_cliVars => EscrowSound'
    BY ClientSound
  <1> QED
    BY <1>1, <1>2, CliTypedInvariant, PTL DEF CliSpec, EscrowSound

\* No step but the settlement itself makes an auction a settled one.
LEMMA ClientSettles ==
    ASSUME CliTyped, [CliNext]_cliVars, NEW a \in AuctionIds, Settles(a)
    PROVE  \E w \in Users, admin \in Admins :
                Passes(a) \in Passed /\ SettleAuction(a, w, admin, Passes(a))
  <1>0. /\ Typed /\ status \in [AuctionIds -> AuctionStatuses \cup {"Absent"}]
        /\ status[a] # "Settled" /\ status'[a] = "Settled"
    BY DEF CliTyped, Typed, TypeOK, AuctionTypeOK, Settles
  <1>1. ~UNCHANGED status
    BY <1>0
  <1>2. ASSUME \/ UNCHANGED vars \/ Tick \/ UNCHANGED auctionVars
               \/ \E s, item, nonce : DepositItem(s, item, nonce)
               \/ \E o, u, x : PlaceBid(o, u, x)
               \/ \E o, u : WithdrawBid(o, u)
        PROVE  FALSE
    BY <1>1, <1>2, Zenon DEF vars, auctionVars, Tick, DepositItem, PlaceBid, WithdrawBid
  <1>3. ASSUME NEW s \in Sellers, NEW admin \in Admins, NEW listing \in Terms,
               CreateAuction(s, admin, listing)
        PROVE  FALSE
    BY <1>0, <1>3 DEF CreateAuction, FirstStatus
  <1>4. ASSUME NEW o \in AuctionIds, EndAuction(o) PROVE FALSE
    BY <1>0, <1>4 DEF EndAuction
  <1>5. ASSUME NEW o \in AuctionIds, NEW w, NEW admin, SettleAuction(o, w, admin, Passes(o))
        PROVE  o = a
    BY <1>0, <1>5 DEF SettleAuction
  <1> QED
    BY <1>2, <1>3, <1>4, <1>5, ProgramSteps, Zenon DEF MintsTo

\* With the accounts that `settle` derives a settlement hands over the item that was
\* listed and pays the seller of a digital one, although the program makes sure of neither:
\* the bid of the leader has the price in its vault, however the commands interleave.
THEOREM SettlementsAreAsListed == CliSpec => SettlesAsListed
  <1>1. ASSUME CliTyped, EscrowSound, [CliNext]_cliVars, NEW a \in AuctionIds, Settles(a)
        PROVE  GivesListedItem(a) /\ (~IsPhysical(a) => PaysSeller(a))
    <2>1. PICK w \in Users, admin \in Admins :
            Passes(a) \in Passed /\ SettleAuction(a, w, admin, Passes(a))
      BY <1>1, ClientSettles
    <2>2. /\ Passes(a).item = terms[a].nftMint /\ Passes(a).recipient = Seller(a)
          /\ Passes(a) \in Passed /\ Passes(a).item \in Items
      BY <2>1 DEF Passes, Passed
    <2>3. /\ status[a] = "Ended" /\ w = highestBidder[a]
          /\ itemAt[Passes(a).item] = a
          /\ itemAt' = [itemAt EXCEPT ![Passes(a).item] = w]
      BY <2>1 DEF SettleAuction, MaySettle, ItemInVault
    <2>4. Typed /\ w # NoKey
      BY <1>1, AuctionAssumption, RegistryAssumption DEF CliTyped
    <2>5. escrow[<<a, w>>] = highestBid[a]
      <3>1. <<a, w>> \in vaults /\ amount[<<a, w>>] = highestBid[a]
        BY <1>1, <2>3, <2>4 DEF EscrowSound, LeaderHoldsHighestBid, Trading
      <3> QED
        BY <1>1, <3>1 DEF EscrowSound, EscrowBacksBids
    <2>6. GivesListedItem(a)
      BY <2>2, <2>3, <2>4 DEF GivesListedItem, Typed, TypeOK, AuctionTypeOK
    <2>7. ~IsPhysical(a) => PaysSeller(a)
      BY <2>1, <2>2, <2>4, <2>5, DigitalPriceIsDivided, Zenon DEF PaysSeller
    <2> QED
      BY <2>6, <2>7
  <1>2. CliTyped /\ EscrowSound /\ [CliNext]_cliVars =>
            [\A a \in AuctionIds : Settles(a) =>
                GivesListedItem(a) /\ (~IsPhysical(a) => PaysSeller(a))]_cliVars
    BY <1>1, Zenon
  <1>3. CliInit => EscrowSound
    BY InitSound DEF CliInit
  <1>4. CliTyped /\ EscrowSound /\ [CliNext]_cliVars => EscrowSound'
    BY ClientSound
  <1> QED
    BY <1>2, <1>3, <1>4, CliTypedInvariant, PTL DEF CliSpec, SettlesAsListed

----------------------------------------------------------------------------
(* What a report of success rests on                                       *)

\* The transaction that does what a command is for.
LastStages == {<<"create", "listing">>, <<"bid", "bidding">>, <<"settle", "settling">>,
               <<"withdraw", "withdrawing">>}

\* It has landed and the command has heard it, or is about to.
Done(c, kind, stage) ==
    IsJob(c, kind) /\ ((pc[c] = stage /\ tx[c] = "landed") \/ pc[c] = "reported")

\* Nothing but the landing of that transaction makes a command one that is done.
LEMMA DoneSteps ==
    ASSUME CliTyped, [CliNext]_cliVars, NEW c \in Commands,
           NEW kind, NEW stage, <<kind, stage>> \in LastStages, Done(c, kind, stage)'
    PROVE  /\ IsJob(c, kind) /\ job'[c] = job[c] /\ job[c] \in Jobs
           /\ \/ Done(c, kind, stage)
              \/ tx[c] = stage /\ pc[c] = stage /\ (SellingLands(c) \/ BuyingLands(c))
  <1>1. Knows(c) /\ ClientTypeOK /\ stage \in TxStages
    BY DEF CliTyped, LastStages, TxStages
  <1>2. ASSUME Same(c)
        PROVE  IsJob(c, kind) /\ job'[c] = job[c] /\ Done(c, kind, stage)
    BY <1>2 DEF Same, Done, IsJob, Begun
  <1>3. ~Starts(c)
    BY <1>1 DEF Starts, Done, Enters, SentAt, FirstStage, TxStages, LastStages
  <1>4. ASSUME MovesOn(c)
        PROVE  IsJob(c, kind) /\ job'[c] = job[c] /\ Done(c, kind, stage)
    <2>1. job'[c] = job[c] /\ pc[c] # "idle"
      BY <1>4 DEF MovesOn, StageSteps
    <2>2. pc'[c] = "reported"
      BY <1>1, <1>4 DEF MovesOn, Enters, SentAt, Done, TxStages
    <2>3. pc[c] = stage /\ tx[c] = "landed"
      BY <1>1, <1>4, <2>1, <2>2 DEF MovesOn, StageSteps, LastStages, Done, IsJob
    <2> QED
      BY <2>1, <2>3 DEF Done, IsJob, Begun
  <1>5. ~Learns(c)
    BY <1>1 DEF Learns, CreateReadsConfig, CreateReadsCount, HearDeposit, GoesTo, ClientTypeOK,
                Done, TxStages
  <1>6. ~Fail(c)
    BY <1>1 DEF Fail, ClientTypeOK, Done, TxStages
  <1>7. ~Drop(c)
    BY <1>1 DEF Drop, ClientTypeOK, Done, Knows, Sends, TxStages
  <1>8. ASSUME SellingLands(c) \/ BuyingLands(c)
        PROVE  /\ IsJob(c, kind) /\ job'[c] = job[c]
               /\ Done(c, kind, stage) \/ (tx[c] = stage /\ pc[c] = stage)
    <2>1. /\ pc' = pc /\ job' = job
          /\ tx'[c] = "landed" => pc[c] = tx[c]
      BY <1>1, <1>8, Landings DEF Lands, ClientTypeOK
    <2>2. pc'[c] = pc[c] /\ job'[c] = job[c]
      BY <2>1
    <2>3. IsJob(c, kind) /\ ((pc[c] = stage /\ tx'[c] = "landed") \/ pc[c] = "reported")
      BY <2>2 DEF Done, IsJob, Begun
    <2> QED
      BY <2>1, <2>2, <2>3 DEF Done
  <1> QED
    BY <1>1, <1>2, <1>3, <1>4, <1>5, <1>6, <1>7, <1>8, CommandSteps DEF Knows, IsJob

\* Which transaction it is that lands.
LEMMA LastLandings ==
    ASSUME NEW c, SellingLands(c) \/ BuyingLands(c)
    PROVE  /\ tx[c] = "listing" => LandListing(c)
           /\ tx[c] = "bidding" => LandBid(c)
           /\ tx[c] = "settling" => LandSettle(c)
           /\ tx[c] = "withdrawing" => LandWithdraw(c)
           /\ tx[c] = "depositing" => LandDeposit(c)
           /\ tx[c] = "funding" => LandFunding(c)
  <1>1. /\ LandAirdrop(c) => tx[c] = "airdropping"
        /\ LandInitialize(c) => tx[c] = "initialising"
        /\ LandItem(c) => tx[c] = "minting"
        /\ LandDeposit(c) => tx[c] = "depositing"
        /\ LandMoney(c) => tx[c] = "paying"
        /\ LandListing(c) => tx[c] = "listing"
    BY DEF LandAirdrop, LandInitialize, LandItem, LandDeposit, LandMoney, LandListing, Lands
  <1>2. /\ LandBidderAccount(c) => tx[c] = "opening"
        /\ LandFunding(c) => tx[c] = "funding"
        /\ LandBid(c) => tx[c] = "bidding"
        /\ LandWinnerAccount(c) => tx[c] = "opening"
        /\ LandSettle(c) => tx[c] = "settling"
        /\ LandWithdraw(c) => tx[c] = "withdrawing"
    BY DEF LandBidderAccount, LandFunding, LandBid, LandWinnerAccount, LandSettle,
           LandWithdraw, Lands
  <1> QED
    BY <1>1, <1>2 DEF SellingLands, BuyingLands

ListingStands(c) ==
    Done(c, "create", "listing") =>
        LET a == AuctionOf(c)
        IN  a \in AuctionIds /\ status[a] # "Absent" /\ terms[a] = ListingOf(c)

LEMMA ListingStandsStep ==
    ASSUME CliTyped, [CliNext]_cliVars, NEW c \in Commands, ListingStands(c)
    PROVE  ListingStands(c)'
  <1> SUFFICES ASSUME Done(c, "create", "listing")'
               PROVE  LET a == AuctionOf(c)'
                      IN  a \in AuctionIds /\ status'[a] # "Absent" /\ terms'[a] = ListingOf(c)'
    BY DEF ListingStands
  <1>1. /\ IsJob(c, "create") /\ job'[c] = job[c]
        /\ \/ Done(c, "create", "listing")
           \/ tx[c] = "listing" /\ pc[c] = "listing" /\ (SellingLands(c) \/ BuyingLands(c))
    BY DoneSteps, <<"create", "listing">> \in LastStages DEF LastStages
  <1>2. AuctionOf(c)' = AuctionOf(c) /\ ListingOf(c)' = ListingOf(c)
    BY <1>1 DEF AuctionOf, ListingOf
  <1>3. CASE Done(c, "create", "listing")
    BY <1>2, <1>3, Staying DEF ListingStands, AuctionsStay
  <1>4. CASE tx[c] = "listing" /\ (SellingLands(c) \/ BuyingLands(c))
    <2>1. LandListing(c)
      BY <1>4, LastLandings
    <2>2. /\ AuctionOf(c) = <<job[c].user, auctionCount[job[c].user]>>
          /\ CreateAuction(job[c].user, seedAdmin, ListingOf(c))
          /\ job[c].user \in Sellers
      BY <2>1, ListingTyped DEF LandListing, NamesNextAuction
    <2>3. AuctionOf(c) \in AuctionIds
      BY <2>2, AuctionAssumption, SMT
      DEF AuctionIds, CreateAuction, CliTyped, Typed, TypeOK, AuctionTypeOK
    <2>4. /\ status' = [status EXCEPT ![AuctionOf(c)] = FirstStatus(ListingOf(c).assetType)]
          /\ terms' = [terms EXCEPT ![AuctionOf(c)] = ListingOf(c)]
          /\ FirstStatus(ListingOf(c).assetType) # "Absent"
      BY <2>2 DEF CreateAuction, FirstStatus
    <2> QED
      BY <1>2, <2>3, <2>4 DEF CliTyped, Typed, TypeOK, AuctionTypeOK
  <1> QED
    BY <1>1, <1>3, <1>4

\* A `create` that reports success has listed the item it minted, for the token it made,
\* at the address it prints, and what it printed stays true.
THEOREM CreateReportsHold == CliSpec => []CreateReportIsTrue
  <1> DEFINE Inv == \A c \in Commands : ListingStands(c)
  <1>1. CliInit => Inv
    BY DEF CliInit, ClientInit, ListingStands, Done, IsJob, Begun
  <1>2. CliTyped /\ Inv /\ [CliNext]_cliVars => Inv'
    BY ListingStandsStep
  <1>3. Inv => CreateReportIsTrue
    BY DEF ListingStands, CreateReportIsTrue, Reported, Done
  <1> HIDE DEF Inv
  <1> QED
    BY <1>1, <1>2, <1>3, CliTypedInvariant, PTL DEF CliSpec

\* A settlement or a withdrawal that was done stays done.
CloseStands(c) ==
    /\ Done(c, "settle", "settling") =>
            /\ status[job[c].auction] = "Settled"
            /\ highestBidder[job[c].auction] = job[c].user
    /\ Done(c, "withdraw", "withdrawing") =>
            /\ status[job[c].auction] \in {"Ended", "Settled"}
            /\ <<job[c].auction, job[c].user>> \notin bids

LEMMA CloseStandsStep ==
    ASSUME CliTyped, [CliNext]_cliVars, NEW c \in Commands, CloseStands(c)
    PROVE  CloseStands(c)'
  <1>1. AuctionsStay
    BY Staying
  <1>2. ASSUME Done(c, "settle", "settling")'
        PROVE  /\ status'[job'[c].auction] = "Settled"
               /\ highestBidder'[job'[c].auction] = job'[c].user
    <2>1. /\ IsJob(c, "settle") /\ job'[c] = job[c] /\ job[c] \in Jobs
          /\ \/ Done(c, "settle", "settling")
             \/ tx[c] = "settling" /\ (SellingLands(c) \/ BuyingLands(c))
      BY <1>2, DoneSteps, <<"settle", "settling">> \in LastStages DEF LastStages
    <2>2. job[c].auction \in AuctionIds /\ job[c].user \in Users
      BY <2>1, JobKinds DEF IsJob
    <2>3. CASE Done(c, "settle", "settling")
      BY <1>1, <2>1, <2>2, <2>3 DEF CloseStands, AuctionsStay
    <2>4. CASE tx[c] = "settling" /\ (SellingLands(c) \/ BuyingLands(c))
      <3>1. SettleAuction(job[c].auction, job[c].user, seedAdmin, Passes(job[c].auction))
        BY <2>4, LastLandings DEF LandSettle, Target
      <3>2. /\ status' = [status EXCEPT ![job[c].auction] = "Settled"]
            /\ highestBidder' = highestBidder /\ highestBidder[job[c].auction] = job[c].user
        BY <3>1 DEF SettleAuction, MaySettle
      <3> QED
        BY <2>1, <2>2, <3>2 DEF CliTyped, Typed, TypeOK, AuctionTypeOK
    <2> QED
      BY <2>1, <2>3, <2>4
  <1>3. ASSUME Done(c, "withdraw", "withdrawing")'
        PROVE  /\ status'[job'[c].auction] \in {"Ended", "Settled"}
               /\ <<job'[c].auction, job'[c].user>> \notin bids'
    <2>1. /\ IsJob(c, "withdraw") /\ job'[c] = job[c] /\ job[c] \in Jobs
          /\ \/ Done(c, "withdraw", "withdrawing")
             \/ tx[c] = "withdrawing" /\ (SellingLands(c) \/ BuyingLands(c))
      BY <1>3, DoneSteps, <<"withdraw", "withdrawing">> \in LastStages DEF LastStages
    <2>2. job[c].auction \in AuctionIds /\ job[c].user \in Users
      BY <2>1, JobKinds DEF IsJob
    <2>3. CASE Done(c, "withdraw", "withdrawing")
      BY <1>1, <2>1, <2>2, <2>3 DEF CloseStands, AuctionsStay
    <2>4. CASE tx[c] = "withdrawing" /\ (SellingLands(c) \/ BuyingLands(c))
      <3>1. WithdrawBid(job[c].auction, job[c].user)
        BY <2>4, LastLandings DEF LandWithdraw, Target
      <3> QED
        BY <2>1, <3>1 DEF WithdrawBid, MayWithdraw
    <2> QED
      BY <2>1, <2>3, <2>4
  <1> QED
    BY <1>2, <1>3 DEF CloseStands

\* A `settle` or `withdraw` that reports success has been done and stays done: the winner
\* is the one it settled for, and the withdrawn bid never comes back.
THEOREM CloseReportsHold == CliSpec => []CloseReportIsTrue
  <1> DEFINE Inv == \A c \in Commands : CloseStands(c)
  <1>1. CliInit => Inv
    BY DEF CliInit, ClientInit, CloseStands, Done, IsJob, Begun
  <1>2. CliTyped /\ Inv /\ [CliNext]_cliVars => Inv'
    BY CloseStandsStep
  <1>3. Inv => CloseReportIsTrue
    BY DEF CloseStands, CloseReportIsTrue, Reported, Done
  <1> HIDE DEF Inv
  <1> QED
    BY <1>1, <1>2, <1>3, CliTypedInvariant, PTL DEF CliSpec

----------------------------------------------------------------------------
(* Who has the payment token of an auction that `create` lists             *)

OwnToken(t, u) == t \in OtherMints => u = MintAuthority[t]

\* Nobody but its authority has, or bids, or lists an auction for, a token that is not a
\* treasury's.
TokensOwned ==
    /\ \A t \in OtherMints, u \in Users : wallet[t][u] # 0 => u = MintAuthority[t]
    /\ \A b \in bids : status[b[1]] # "Absent" /\ OwnToken(terms[b[1]].acceptedToken, b[2])
    /\ \A a \in AuctionIds : status[a] # "Absent" => OwnToken(terms[a].acceptedToken, Seller(a))

LEMMA TokensOwnedStep ==
    ASSUME CliTyped, TokensOwned, [CliNext]_cliVars
    PROVE  TokensOwned'
  <1>1. /\ Typed /\ AuctionsStay /\ bids \subseteq BidIds
        /\ wallet \in [Tokens -> [Users -> Nat]] /\ OtherMints \subseteq Tokens
    BY Staying DEF CliTyped, Typed, TypeOK, PlatformTypeOK, AuctionTypeOK, Tokens
  <1> DEFINE HeldOK == \A t \in OtherMints, u \in Users :
                            wallet'[t][u] # 0 => u = MintAuthority[t]
             BidOK == \A b \in bids' :
                        status'[b[1]] # "Absent" /\ OwnToken(terms'[b[1]].acceptedToken, b[2])
             ListedOK == \A a \in AuctionIds :
                        status'[a] # "Absent" => OwnToken(terms'[a].acceptedToken, Seller(a))
  <1>2. ASSUME \/ UNCHANGED vars \/ Tick
               \/ UNCHANGED <<wallet, auctionVars>>
               \/ \E s \in Sellers, item \in Items, nonce \in 0 .. MaxAuctions - 1 :
                    DepositItem(s, item, nonce)
        PROVE  TokensOwned'
    BY <1>2 DEF vars, auctionVars, platformVars, Tick, DepositItem, TokensOwned, OwnToken, Seller
  <1>3. ASSUME bids' \subseteq bids PROVE BidOK
    BY <1>1, <1>3 DEF TokensOwned, AuctionsStay, BidIds
  <1>4. ASSUME \A a \in AuctionIds : status'[a] # "Absent" => status[a] # "Absent"
        PROVE  ListedOK
    BY <1>1, <1>4 DEF TokensOwned, AuctionsStay
  <1>5. ASSUME NEW t \in Tokens, NEW u \in Users, NEW x \in Nat, MintsTo(t, u, x)
        PROVE  TokensOwned'
    <2>1. BidOK /\ ListedOK
      BY <1>3, <1>4, <1>5 DEF MintsTo, auctionVars
    <2>2. wallet' = [wallet EXCEPT ![t][u] = @ + x] /\ MintAuthority[t] = u
      BY <1>5 DEF MintsTo, Credit, MayMint
    <2>3. HeldOK
      BY <1>1, <2>2 DEF TokensOwned
    <2> QED
      BY <2>1, <2>3 DEF TokensOwned
  <1>6. ASSUME NEW s \in Sellers, NEW admin \in Admins, NEW listing \in Terms,
               MayName(s, listing), CreateAuction(s, admin, listing)
        PROVE  TokensOwned'
    <2> DEFINE a == <<s, auctionCount[s]>>
    <2>1. /\ wallet' = wallet /\ bids' = bids
          /\ terms' = [terms EXCEPT ![a] = listing]
          /\ \A o \in AuctionIds : o # a => status'[o] = status[o]
      BY <1>1, <1>6 DEF CreateAuction, Typed, TypeOK, AuctionTypeOK
    <2>2. ListedOK
      BY <1>1, <1>6, <2>1 DEF TokensOwned, MayName, OwnToken, Seller, Typed, TypeOK, AuctionTypeOK
    <2>3. BidOK /\ HeldOK
      BY <1>3, <2>1 DEF TokensOwned
    <2> QED
      BY <2>2, <2>3 DEF TokensOwned
  <1>7. ASSUME NEW a \in AuctionIds, NEW u \in Users, NEW x \in Nat, PlaceBid(a, u, x)
        PROVE  TokensOwned'
    <2> DEFINE b == <<a, u>>
               t == terms[a].acceptedToken
    <2>1. /\ status[a] # "Absent" /\ t \in Tokens /\ b \in BidIds
      BY <1>1, <1>7, TermsOfAuction DEF PlaceBid, TakesBids, BidIds
    <2>2. OwnToken(t, u)
      <3>1. ASSUME b \notin bids, t \in OtherMints PROVE wallet[t][u] # 0
        <4>1. x > highestBid[a] /\ x <= wallet[t][u] /\ highestBid[a] \in Nat
              /\ wallet[t][u] \in Nat
          BY <1>1, <1>7, <3>1 DEF PlaceBid, Outbids, NewTotal, Typed, TypeOK, AuctionTypeOK
        <4> QED
          BY <4>1, SMT
      <3> QED
        BY <3>1 DEF TokensOwned, OwnToken
    <2>3. /\ wallet' = [wallet EXCEPT ![t][u] = @ - x]
          /\ bids' = bids \cup {b} /\ status' = status /\ terms' = terms
      BY <1>7 DEF PlaceBid
    <2>4. BidOK
      BY <2>1, <2>2, <2>3 DEF TokensOwned
    <2>5. ListedOK
      BY <1>4, <2>3
    <2>6. HeldOK
      <3> HIDE DEF t, b
      <3> QED
        BY <1>1, <2>1, <2>2, <2>3 DEF TokensOwned, OwnToken
    <2> QED
      BY <2>4, <2>5, <2>6 DEF TokensOwned
  <1>8. ASSUME NEW a \in AuctionIds, EndAuction(a) PROVE TokensOwned'
    <2>1. wallet' = wallet /\ bids' = bids /\ status[a] = "Active"
          /\ status' = [status EXCEPT ![a] = "Ended"]
      BY <1>8 DEF EndAuction, MayEnd, platformVars
    <2>2. BidOK /\ ListedOK /\ HeldOK
      BY <1>1, <1>3, <1>4, <2>1 DEF TokensOwned, Typed, TypeOK, AuctionTypeOK
    <2> QED
      BY <2>2 DEF TokensOwned
  <1>9. ASSUME NEW a \in AuctionIds, NEW w \in Users, NEW admin \in Admins,
               SettleAuction(a, w, admin, Passes(a))
        PROVE  TokensOwned'
    <2>1. /\ status[a] = "Ended" /\ status' = [status EXCEPT ![a] = "Settled"]
          /\ bids' = bids
      BY <1>9 DEF SettleAuction, MaySettle
    <2>2. \A t \in OtherMints : wallet'[t] = wallet[t]
      <3>1. PICK paid : wallet' = [wallet EXCEPT ![terms[a].acceptedToken] = paid]
        BY <1>9, Zenon DEF SettleAuction
      <3>2. terms[a].acceptedToken \in {Usdc, Wsol}
        BY <1>9, Zenon DEF SettleAuction
      <3> QED
        BY <1>1, <3>1, <3>2, FreshMintAssumption
    <2>3. BidOK /\ ListedOK /\ HeldOK
      BY <1>1, <1>3, <1>4, <2>1, <2>2 DEF TokensOwned, Typed, TypeOK, AuctionTypeOK
    <2> QED
      BY <2>3 DEF TokensOwned
  <1>10. ASSUME NEW a \in AuctionIds, NEW u \in Users, WithdrawBid(a, u) PROVE TokensOwned'
    <2>1. /\ status' = status /\ bids' \subseteq bids /\ <<a, u>> \in bids
          /\ wallet' = Credit(terms[a].acceptedToken, u, escrow[<<a, u>>])
      BY <1>10 DEF WithdrawBid
    <2>2. OwnToken(terms[a].acceptedToken, u)
      BY <2>1 DEF TokensOwned
    <2>3. HeldOK
      BY <1>1, <2>1, <2>2 DEF TokensOwned, OwnToken, Credit
    <2>4. BidOK /\ ListedOK
      BY <1>3, <1>4, <2>1
    <2> QED
      BY <2>3, <2>4 DEF TokensOwned
  <1> HIDE DEF HeldOK, BidOK, ListedOK
  <1>11. ASSUME NEW admin \in Admins, NEW setup \in InitSetups, Initialize(admin, setup),
                UNCHANGED auctionVars
         PROVE  TokensOwned'
    BY <1>2, <1>11 DEF Initialize
  <1> QED
    BY <1>2, <1>5, <1>6, <1>7, <1>8, <1>9, <1>10, <1>11, ProgramSteps, Zenon

\* On an auction that `create` has listed nobody but its seller ever bids.
THEOREM OnlySellerBids == CliSpec => []OnlySellerHasTheToken
  <1>1. CliInit => TokensOwned
    BY FreshMintAssumption, Zenon DEF CliInit, AuctionInit, TokensOwned
  <1>2. CliTyped /\ TokensOwned /\ [CliNext]_cliVars => TokensOwned'
    BY TokensOwnedStep
  <1>3. CliTyped /\ TokensOwned => OnlySellerHasTheToken
    <2> SUFFICES ASSUME CliTyped, TokensOwned, NEW c \in Commands, NEW b \in bids,
                        IsJob(c, "create"), terms[b[1]].acceptedToken = job[c].mint
                 PROVE  b[2] = Seller(b[1])
      BY DEF OnlySellerHasTheToken
    <2>1. b[1] \in AuctionIds /\ status[b[1]] # "Absent"
      BY DEF TokensOwned, CliTyped, Typed, TypeOK, AuctionTypeOK, BidIds
    <2>2. job[c].mint \in Tokens
      BY <2>1, TermsOfAuction DEF CliTyped
    <2>3. job[c].mint \in OtherMints
      BY <2>2, SellingAssumption DEF IsJob, CliTyped, Knows, CreateKnows, HasMoney
    <2> QED
      BY <2>1, <2>3 DEF TokensOwned, OwnToken
  <1> QED
    BY <1>1, <1>2, <1>3, CliTypedInvariant, PTL DEF CliSpec

----------------------------------------------------------------------------
(* Where the item of a listing is                                          *)

\* The mint of an item that `create` made is nobody else's.
ItemsAreFresh ==
    \A c \in Commands : IsJob(c, "create") /\ job[c].item # NoValue =>
        /\ \A listing \in Listings : listing.nftMint # job[c].item
        /\ \A d \in Commands : IsJob(d, "create") /\ job[d].item = job[c].item => d = c

\* Command d has paid for everything the listing of its item at auction a needs.
Behind(d, a) ==
    /\ IsJob(d, "create") /\ job[d].mint # NoValue
    /\ a = AuctionOf(d) /\ terms[a].nftMint = job[d].item

\* An auction is one of other clients, or one that a `create` has prepared.
ListingsHaveOrigin ==
    \A a \in AuctionIds : status[a] # "Absent" =>
        \/ \E listing \in Listings : terms[a].nftMint = listing.nftMint
        \/ \E d \in Commands : Behind(d, a)

\* The item that `create` has deposited stays until the auction it is for is settled.
Deposited(c) ==
    /\ IsJob(c, "create")
    /\ (pc[c] = "depositing" /\ tx[c] = "landed") \/ job[c].mint # NoValue

Keeps(a, item) ==
    itemAt[item] = a \/ (status[a] = "Settled" /\ terms[a].nftMint = item)

DepositStands(c) ==
    Deposited(c) => AuctionOf(c) \in AuctionIds /\ job[c].item \in Items
                    /\ Keeps(AuctionOf(c), job[c].item)

\* An auction that does not exist has no terms.
AbsentHasNoTerms == \A a \in AuctionIds : status[a] = "Absent" => terms[a] = NoTerms

ItemsKept ==
    ItemsAreFresh /\ ListingsHaveOrigin /\ AbsentHasNoTerms
    /\ \A c \in Commands : DepositStands(c)

\* A `create` that has its payment token has learned everything.
LEMMA CreatesStay ==
    ASSUME CliTyped, [CliNext]_cliVars, NEW c \in Commands, IsJob(c, "create")
    PROVE  /\ IsJob(c, "create")'
           /\ job[c].mint # NoValue => job'[c] = job[c]
           /\ \/ job'[c].item = job[c].item
              \/ \E item \in Items : CreateReadsConfig(c, item) /\ job'[c].item = item
  <1>1. Knows(c) /\ ClientTypeOK /\ job[c] \in Jobs
    BY DEF CliTyped, Knows, IsJob
  <1>2. ASSUME Same(c) \/ MovesOn(c) \/ Fail(c) \/ Drop(c) \/ (\E kind, stage : Lands(c, kind, stage))
        PROVE  job'[c] = job[c] /\ pc'[c] # "idle"
    <2>1. job'[c] = job[c]
      BY <1>2 DEF Same, MovesOn, Fail, Drop, Lands
    <2>2. pc'[c] \in {pc[c], "failed"} \/ MovesOn(c)
      BY <1>1, <1>2 DEF Same, Fail, Drop, Lands, ClientTypeOK
    <2>3. MovesOn(c) => pc'[c] # "idle"
      BY DEF MovesOn, StageSteps
    <2> QED
      BY <2>1, <2>2, <2>3 DEF IsJob, Begun
  <1>3. ~Starts(c)
    BY DEF Starts, IsJob, Begun
  <1>4. ASSUME Learns(c)
        PROVE  /\ pc'[c] # "idle" /\ job'[c].kind = "create"
               /\ job[c].mint = NoValue
               /\ \/ job'[c].item = job[c].item
                  \/ \E item \in Items : CreateReadsConfig(c, item) /\ job'[c].item = item
    <2>1. job[c] \in CreateJobs /\ job[c].kind = "create" /\ CreateKnows(c) /\ c \in DOMAIN job
          /\ c \in DOMAIN pc
      BY <1>1, JobKinds DEF IsJob, Knows, ClientTypeOK
    <2>2. ASSUME NEW item \in Items, CreateReadsConfig(c, item)
          PROVE  /\ pc'[c] # "idle" /\ job'[c].kind = "create" /\ job'[c].item = item
                 /\ job[c].mint = NoValue
      <3>1. job'[c] = [job[c] EXCEPT !.item = item] /\ pc[c] = "configuring" /\ pc'[c] = "minting"
        BY <2>1, <2>2 DEF CreateReadsConfig, Reads, GoesTo
      <3> QED
        BY <2>1, <3>1 DEF CreateJobs, CreateKnows
    <2>3. ASSUME CreateReadsCount(c)
          PROVE  /\ pc'[c] # "idle" /\ job'[c].kind = "create" /\ job'[c].item = job[c].item
                 /\ job[c].mint = NoValue
      <3>1. PICK nonce : job' = [job EXCEPT ![c].nonce = nonce]
        BY <2>3 DEF CreateReadsCount
      <3>2. job'[c] = [job[c] EXCEPT !.nonce = nonce] /\ pc[c] = "counting"
            /\ pc'[c] = "depositing"
        BY <2>1, <2>3, <3>1 DEF CreateReadsCount, Reads, GoesTo
      <3> QED
        BY <2>1, <3>2 DEF CreateJobs, CreateKnows
    <2>4. ASSUME NEW t \in OtherMints, HearDeposit(c, t)
          PROVE  /\ pc'[c] # "idle" /\ job'[c].kind = "create" /\ job'[c].item = job[c].item
                 /\ job[c].mint = NoValue
      <3> DEFINE paid == [job[c] EXCEPT !.mint = t]
      <3>1. /\ job' = [job EXCEPT ![c].mint = t, ![c].start = now] /\ pc[c] = "depositing"
            /\ pc'[c] = "paying"
        BY <2>1, <2>4 DEF HearDeposit, HearsDeposit, Hears, Reads, GoesTo
      <3>2. paid.kind = "create" /\ paid.item = job[c].item
            /\ paid = [f \in DOMAIN job[c] |-> IF f = "mint" THEN t ELSE job[c][f]]
        BY <2>1 DEF CreateJobs
      <3>3. job'[c] = [paid EXCEPT !.start = now]
        BY <2>1, <3>1
      <3>4. job'[c].kind = "create" /\ job'[c].item = job[c].item
        BY <2>1, <3>2, <3>3 DEF CreateJobs
      <3> QED
        BY <2>1, <3>1, <3>4 DEF CreateKnows
    <2> QED
      BY <1>4, <2>2, <2>3, <2>4 DEF Learns
  <1> QED
    BY <1>1, <1>2, <1>3, <1>4, CommandSteps, Landings DEF IsJob, Begun

LEMMA ItemsAreFreshStep ==
    ASSUME CliTyped, ItemsAreFresh, [CliNext]_cliVars
    PROVE  ItemsAreFresh'
  <1>1. ASSUME NEW c \in Commands, IsJob(c, "create")'
        PROVE  \/ job'[c].item = NoValue
               \/ IsJob(c, "create") /\ job'[c].item = job[c].item
               \/ IsJob(c, "create") /\ CreateReadsConfig(c, job'[c].item)
    <2>1. CASE IsJob(c, "create")
      BY <2>1, CreatesStay
    <2>2. CASE ~IsJob(c, "create")
      <3>1. ASSUME job'[c] = job[c], pc[c] = "idle" => pc'[c] = "idle" PROVE FALSE
        BY <1>1, <2>2, <3>1 DEF IsJob, Begun
      <3>2. ASSUME \/ Same(c) \/ MovesOn(c) \/ Fail(c) \/ Drop(c)
                   \/ \E kind, stage : Lands(c, kind, stage)
            PROVE  FALSE
        <4>1. job'[c] = job[c]
          BY <3>2 DEF Same, MovesOn, Fail, Drop, Lands
        <4>2. pc[c] = "idle" => pc'[c] = "idle"
          BY <3>2 DEF Same, MovesOn, StageSteps, Fail, Running, Begun, Drop, Lands
        <4> QED
          BY <3>1, <4>1, <4>2
      <3>3. ~Learns(c)
        BY <2>2 DEF Learns, CreateReadsConfig, CreateReadsCount, HearDeposit, HearsDeposit, Hears,
                    Reads, IsJob, Begun
      <3>4. Starts(c)
        BY <3>2, <3>3, CommandSteps, Landings DEF CliTyped
      <3> QED
        BY <1>1, <3>4 DEF Starts, IsJob
    <2> QED
      BY <2>1, <2>2
  <1>2. ASSUME NEW c \in Commands, NEW item, CreateReadsConfig(c, item)
        PROVE  /\ \A d \in Commands : IsJob(d, "create") => job[d].item # item
               /\ \A listing \in Listings : listing.nftMint # item
               /\ \A d \in Commands : d # c => ~\E other : CreateReadsConfig(d, other)
    <2>1. /\ \A d \in Commands : IsJob(d, "create") => job[d].item # item
          /\ \A listing \in Listings : listing.nftMint # item
      BY <1>2 DEF CreateReadsConfig, FreshItem
    <2>2. pc[c] # pc'[c]
      BY <1>2 DEF CreateReadsConfig, Reads, GoesTo, CliTyped, ClientTypeOK
    <2>3. \A d \in Commands : \A other : d # c /\ CreateReadsConfig(d, other) => pc'[c] = pc[c]
      BY DEF CreateReadsConfig, GoesTo, CliTyped, ClientTypeOK
    <2> QED
      BY <2>1, <2>2, <2>3
  <1> SUFFICES ASSUME NEW c \in Commands, IsJob(c, "create")', job'[c].item # NoValue
               PROVE  /\ \A listing \in Listings : listing.nftMint # job'[c].item
                      /\ \A d \in Commands :
                            IsJob(d, "create")' /\ job'[d].item = job'[c].item => d = c
    BY DEF ItemsAreFresh
  <1>3. \A listing \in Listings : listing.nftMint # job'[c].item
    BY <1>1, <1>2 DEF ItemsAreFresh
  <1>4. ASSUME NEW d \in Commands, IsJob(d, "create")', job'[d].item = job'[c].item
        PROVE  d = c
    BY <1>1, <1>2, <1>4 DEF ItemsAreFresh
  <1> QED
    BY <1>3, <1>4

\* Who lists a new auction.
LEMMA NewAuctions ==
    ASSUME CliTyped, [CliNext]_cliVars, NEW a \in AuctionIds,
           status[a] = "Absent", status'[a] # "Absent"
    PROVE  \/ \E listing \in Listings : terms'[a] = listing
           \/ \E d \in Commands : LandListing(d) /\ a = AuctionOf(d) /\ terms'[a] = ListingOf(d)
  <1>1. Typed /\ ClientTypeOK
    BY DEF CliTyped
  <1>2. ASSUME NEW s \in Sellers, NEW admin, NEW listing, CreateAuction(s, admin, listing)
        PROVE  a = <<s, auctionCount[s]>> /\ terms'[a] = listing
    <2>1. /\ status' = [status EXCEPT ![<<s, auctionCount[s]>>] = FirstStatus(listing.assetType)]
          /\ terms' = [terms EXCEPT ![<<s, auctionCount[s]>>] = listing]
      BY <1>2 DEF CreateAuction
    <2>2. a = <<s, auctionCount[s]>>
      BY <1>1, <2>1 DEF Typed, TypeOK, AuctionTypeOK
    <2> QED
      BY <1>1, <2>1, <2>2 DEF Typed, TypeOK, AuctionTypeOK
  <1>3. ASSUME Others PROVE \E listing \in Listings : terms'[a] = listing
    <2>1. ASSUME NEW o \in AuctionIds, EndAuction(o) PROVE FALSE
      BY <1>1, <2>1 DEF EndAuction, MayEnd, Typed, TypeOK, AuctionTypeOK
    <2>2. ASSUME \/ Tick
                 \/ \E s, item, nonce : DepositItem(s, item, nonce)
                 \/ \E o, u, x : PlaceBid(o, u, x)
          PROVE  FALSE
      BY <2>2 DEF Tick, DepositItem, PlaceBid
    <2> QED
      BY <1>2, <1>3, <2>1, <2>2, Zenon DEF Others
  <1>4. ASSUME NEW d \in Commands, LandListing(d)
        PROVE  a = AuctionOf(d) /\ terms'[a] = ListingOf(d)
    BY <1>2, <1>4, ListingTyped DEF LandListing, NamesNextAuction
  <1>5. ASSUME NEW d \in Commands,
               \/ LandInitialize(d) \/ LandDeposit(d) \/ LandFunding(d) \/ LandBid(d)
               \/ LandWithdraw(d)
        PROVE  FALSE
    <2>1. status' = status
      BY <1>5, Zenon DEF LandInitialize, LandDeposit, LandFunding, LandBid, LandWithdraw, auctionVars,
                  DepositItem, PlaceBid, WithdrawBid
    <2> QED
      BY <2>1
  <1>6. ASSUME NEW d \in Commands, LandSettle(d) PROVE FALSE
    <2>1. PICK o : status[o] = "Ended" /\ status' = [status EXCEPT ![o] = "Settled"]
      BY <1>6 DEF LandSettle, SettleAuction, MaySettle
    <2> QED
      BY <1>1, <2>1 DEF Typed, TypeOK, AuctionTypeOK
  <1>7. ~UNCHANGED vars
    BY DEF vars, auctionVars
  <1> QED
    BY <1>1, <1>3, <1>4, <1>5, <1>6, <1>7, LedgerSteps, Zenon

LEMMA OriginStep ==
    ASSUME CliTyped, ListingsHaveOrigin, [CliNext]_cliVars
    PROVE  ListingsHaveOrigin'
  <1> SUFFICES ASSUME NEW a \in AuctionIds, status'[a] # "Absent"
               PROVE  \/ \E listing \in Listings : terms'[a].nftMint = listing.nftMint
                      \/ \E d \in Commands : Behind(d, a)'
    BY DEF ListingsHaveOrigin
  <1>1. CASE status[a] # "Absent"
    <2>1. terms'[a] = terms[a]
      BY <1>1, Staying DEF AuctionsStay
    <2>2. ASSUME NEW d \in Commands, Behind(d, a) PROVE Behind(d, a)'
      <3>1. IsJob(d, "create")' /\ job'[d] = job[d]
        BY <2>2, CreatesStay DEF Behind
      <3> QED
        BY <2>1, <2>2, <3>1 DEF Behind, AuctionOf
    <2> QED
      BY <1>1, <2>1, <2>2 DEF ListingsHaveOrigin
  <1>2. ASSUME NEW d \in Commands, LandListing(d), a = AuctionOf(d), terms'[a] = ListingOf(d)
        PROVE  Behind(d, a)'
    <2>1. IsJob(d, "create") /\ job[d].mint # NoValue
      BY <1>2, ListingTyped, SellingAssumption DEF IsJob, Tokens
    <2>2. IsJob(d, "create")' /\ job'[d] = job[d]
      BY <2>1, CreatesStay
    <2> QED
      BY <1>2, <2>1, <2>2 DEF Behind, AuctionOf, ListingOf
  <1> QED
    BY <1>1, <1>2, NewAuctions

LEMMA AbsentStep ==
    ASSUME CliTyped, AbsentHasNoTerms, [CliNext]_cliVars
    PROVE  AbsentHasNoTerms'
  <1>1. Typed /\ AuctionsStay
    BY Staying DEF CliTyped
  <1>2. ASSUME UNCHANGED terms PROVE AbsentHasNoTerms'
    BY <1>1, <1>2 DEF AbsentHasNoTerms, AuctionsStay
  <1>3. ASSUME NEW s \in Sellers, NEW admin \in Admins, NEW listing \in Terms,
               CreateAuction(s, admin, listing)
        PROVE  AbsentHasNoTerms'
    <2> DEFINE a == <<s, auctionCount[s]>>
    <2>1. /\ status' = [status EXCEPT ![a] = FirstStatus(listing.assetType)]
          /\ terms' = [terms EXCEPT ![a] = listing]
          /\ FirstStatus(listing.assetType) # "Absent"
      BY <1>3 DEF CreateAuction, FirstStatus
    <2> QED
      BY <1>1, <2>1 DEF AbsentHasNoTerms, Typed, TypeOK, AuctionTypeOK
  <1>4. ASSUME \/ UNCHANGED vars \/ Tick \/ UNCHANGED auctionVars
               \/ \E s, item, nonce : DepositItem(s, item, nonce)
               \/ \E a, u, x : PlaceBid(a, u, x)
        PROVE  UNCHANGED terms
    BY <1>4 DEF vars, auctionVars, Tick, DepositItem, PlaceBid
  <1>5. ASSUME \/ \E a : EndAuction(a)
               \/ \E a, u : WithdrawBid(a, u)
        PROVE  UNCHANGED terms
    BY <1>5 DEF EndAuction, WithdrawBid
  <1>6. ASSUME NEW a, NEW w, NEW admin, SettleAuction(a, w, admin, Passes(a))
        PROVE  UNCHANGED terms
    BY <1>6 DEF SettleAuction
  <1> QED
    BY <1>2, <1>3, <1>4, <1>5, <1>6, ProgramSteps, Zenon DEF MintsTo

\* No instruction takes an item out of the vault of an auction but the settlement of that
\* auction.
LEMMA VaultKeeps ==
    ASSUME CliTyped, [CliNext]_cliVars, NEW a \in AuctionIds, NEW item \in Items,
           Keeps(a, item)
    PROVE  Keeps(a, item)'
  <1>1. Typed /\ AuctionsStay
    BY Staying DEF CliTyped
  <1>2. CASE status[a] = "Settled" /\ terms[a].nftMint = item
    BY <1>1, <1>2 DEF AuctionsStay, Keeps
  <1>3. ASSUME itemAt[item] = a, UNCHANGED itemAt PROVE Keeps(a, item)'
    BY <1>3 DEF Keeps
  <1>4. ASSUME itemAt[item] = a, NEW s \in Sellers, NEW other \in Items, NEW nonce,
               DepositItem(s, other, nonce)
        PROVE  Keeps(a, item)'
    <2>1. s # a
      BY AuctionAssumption, AddressAssumption
    <2> QED
      BY <1>1, <1>4, <2>1 DEF DepositItem, Keeps, Typed, TypeOK, AuctionTypeOK
  <1>5. ASSUME itemAt[item] = a, NEW o \in AuctionIds, NEW w, NEW admin,
               SettleAuction(o, w, admin, Passes(o))
        PROVE  Keeps(a, item)'
    <2>1. /\ itemAt[terms[o].nftMint] = o
          /\ itemAt' = [itemAt EXCEPT ![terms[o].nftMint] = w]
          /\ status' = [status EXCEPT ![o] = "Settled"] /\ terms' = terms
      BY <1>5, Zenon DEF SettleAuction, ItemInVault, Passes
    <2> QED
      BY <1>1, <1>5, <2>1 DEF Keeps, Typed, TypeOK, AuctionTypeOK
  <1>6. ASSUME \/ UNCHANGED vars \/ Tick \/ UNCHANGED auctionVars
               \/ \E s, admin, listing : CreateAuction(s, admin, listing)
               \/ \E o, u, x : PlaceBid(o, u, x)
               \/ \E o : EndAuction(o)
               \/ \E o, u : WithdrawBid(o, u)
        PROVE  UNCHANGED itemAt
    BY <1>6, Zenon DEF vars, auctionVars, Tick, CreateAuction, PlaceBid, EndAuction, WithdrawBid
  <1>7. CASE itemAt[item] = a
    BY <1>3, <1>4, <1>5, <1>6, <1>7, ProgramSteps, Zenon DEF MintsTo
  <1> QED
    BY <1>2, <1>7 DEF Keeps

LEMMA DepositStep ==
    ASSUME CliTyped, [CliNext]_cliVars, NEW c \in Commands, DepositStands(c)
    PROVE  DepositStands(c)'
  <1>1. Knows(c) /\ Typed /\ ClientTypeOK
    BY DEF CliTyped
  <1>2. ASSUME Deposited(c), job'[c] = job[c] PROVE DepositStands(c)'
    BY <1>2, VaultKeeps DEF DepositStands, AuctionOf
  <1>3. ASSUME LandDeposit(c) PROVE DepositStands(c)'
    <2>1. /\ IsJob(c, "create") /\ job[c] \in CreateJobs /\ job[c].item \in Items
          /\ job[c].nonce \in Nat
      BY <1>1, <1>3, LandsOf, JobKinds
      DEF LandDeposit, TxStages, Knows, CreateKnows, At, IsJob
    <2>2. job' = job /\ DepositItem(job[c].user, job[c].item, job[c].nonce)
      BY <1>3 DEF LandDeposit, Lands
    <2>3. AuctionOf(c) \in AuctionIds
      <3>1. job[c].nonce < MaxAuctions
        BY <2>2 DEF DepositItem
      <3>2. job[c].nonce \in 0 .. MaxAuctions - 1
        BY <2>1, <3>1, AuctionAssumption, SMT
      <3> QED
        BY <2>1, <3>2 DEF AuctionOf, AuctionIds, CreateJobs
    <2>4. itemAt'[job[c].item] = AuctionOf(c)
      BY <1>1, <2>1, <2>2 DEF DepositItem, AuctionOf, Typed, TypeOK, AuctionTypeOK
    <2>5. AuctionOf(c)' = AuctionOf(c)
      BY <2>2 DEF AuctionOf
    <2> QED
      BY <2>1, <2>2, <2>3, <2>4, <2>5 DEF DepositStands, Keeps
  <1>4. ASSUME IsJob(c, "create"), job[c].mint # NoValue PROVE DepositStands(c)'
    BY <1>2, <1>4, CreatesStay DEF Deposited
  <1>5. ASSUME Same(c) PROVE DepositStands(c)'
    <2>1. Deposited(c)' => Deposited(c) /\ job'[c] = job[c]
      BY <1>5 DEF Same, Deposited, IsJob, Begun
    <2> QED
      BY <1>2, <2>1 DEF DepositStands
  <1>6. ASSUME Starts(c) PROVE ~Deposited(c)'
    BY <1>6 DEF Starts, Enters, FirstStage, Deposited, IsJob
  <1>7. ASSUME job'[c] = job[c], pc[c] # "idle", pc'[c] # "depositing" \/ tx'[c] # "landed"
        PROVE  DepositStands(c)'
    <2>1. Deposited(c)' => Deposited(c)
      BY <1>7 DEF Deposited, IsJob, Begun
    <2> QED
      BY <1>2, <1>7, <2>1 DEF DepositStands
  <1>8. ASSUME MovesOn(c) \/ Fail(c) \/ Drop(c) PROVE DepositStands(c)'
    <2>1. job'[c] = job[c]
      BY <1>8 DEF MovesOn, Fail, Drop
    <2>2. pc[c] # "idle"
      BY <1>1, <1>8 DEF MovesOn, StageSteps, Fail, Running, Begun, Drop, Knows, Sends, TxStages
    <2>3. pc'[c] # "depositing" \/ tx'[c] # "landed"
      BY <1>1, <1>8 DEF MovesOn, Enters, SentAt, TxStages, Fail, Drop, ClientTypeOK
    <2> QED
      BY <1>7, <2>1, <2>2, <2>3
  <1>9. ASSUME Learns(c) PROVE DepositStands(c)'
    <2>1. job[c] \in CreateJobs /\ IsJob(c, "create") /\ CreateKnows(c) /\ c \in DOMAIN job
          /\ c \in DOMAIN pc /\ c \in DOMAIN tx
      BY <1>1, <1>9, JobKinds
      DEF Learns, CreateReadsConfig, CreateReadsCount, HearDeposit, HearsDeposit, Hears, Reads,
          IsJob, Begun, Knows, ClientTypeOK
    <2>2. ASSUME CreateReadsCount(c) \/ \E item : CreateReadsConfig(c, item)
          PROVE  ~Deposited(c)'
      <3>1. tx'[c] # "landed" /\ job[c].mint = NoValue
            /\ \E x : job' = [job EXCEPT ![c].item = x] \/ job' = [job EXCEPT ![c].nonce = x]
        BY <2>1, <2>2 DEF CreateReadsCount, CreateReadsConfig, Reads, GoesTo, TxStages, CreateKnows
      <3>2. job'[c].mint = NoValue
        BY <2>1, <3>1 DEF CreateJobs
      <3> QED
        BY <3>1, <3>2 DEF Deposited
    <2>3. ASSUME NEW t \in OtherMints, HearDeposit(c, t) PROVE DepositStands(c)'
      <3> DEFINE paid == [job[c] EXCEPT !.mint = t]
      <3>1. /\ job' = [job EXCEPT ![c].mint = t, ![c].start = now]
            /\ UNCHANGED vars /\ Deposited(c)
        BY <2>1, <2>3 DEF HearDeposit, HearsDeposit, Hears, Reads, Deposited
      <3>2. paid.item = job[c].item /\ paid.user = job[c].user /\ paid.nonce = job[c].nonce
            /\ {"item", "user", "nonce"} \subseteq DOMAIN paid
        BY <2>1 DEF CreateJobs
      <3>3. job'[c] = [paid EXCEPT !.start = now]
        BY <2>1, <3>1
      <3>4. job'[c].item = job[c].item /\ AuctionOf(c)' = AuctionOf(c)
        <4> HIDE DEF paid
        <4> QED
          BY <3>2, <3>3 DEF AuctionOf
      <3> QED
        BY <3>1, <3>4 DEF DepositStands, Keeps, vars, auctionVars
    <2> QED
      BY <1>9, <2>2, <2>3 DEF Learns, DepositStands
  <1>10. ASSUME SellingLands(c) \/ BuyingLands(c), ~LandDeposit(c) PROVE DepositStands(c)'
    <2>1. /\ pc' = pc /\ job' = job /\ tx[c] # "depositing"
          /\ tx'[c] = "landed" => pc[c] = tx[c]
      BY <1>1, <1>10, Landings, LastLandings DEF Lands, ClientTypeOK
    <2>2. Deposited(c)' => IsJob(c, "create") /\ job[c].mint # NoValue
      BY <2>1 DEF Deposited, IsJob, Begun
    <2> QED
      BY <1>4, <2>2 DEF DepositStands
  <1> QED
    BY <1>1, <1>3, <1>5, <1>6, <1>8, <1>9, <1>10, CommandSteps DEF DepositStands

\* An auction that lists an item minted by `create` is the one that item was put into the
\* vault of, and has it there until it is settled.
THEOREM ListedItemsAreDeposited == CliSpec => []ListedItemIsInItsVault
  <1>1. CliInit => ItemsKept
    <2> SUFFICES ASSUME CliInit PROVE ItemsKept
      OBVIOUS
    <2>1. \A c \in Commands : ~IsJob(c, "create")
      BY DEF CliInit, ClientInit, IsJob, Begun
    <2>2. \A a \in AuctionIds : status[a] = "Absent" /\ terms[a] = NoTerms
      BY DEF CliInit, AuctionInit
    <2> QED
      BY <2>1, <2>2 DEF ItemsKept, ItemsAreFresh, ListingsHaveOrigin, AbsentHasNoTerms,
                        DepositStands, Deposited
  <1>2. CliTyped /\ ItemsKept /\ [CliNext]_cliVars => ItemsKept'
    BY ItemsAreFreshStep, OriginStep, AbsentStep, DepositStep DEF ItemsKept
  <1>3. CliTyped /\ ItemsKept => ListedItemIsInItsVault
    <2> SUFFICES ASSUME CliTyped, ItemsKept, NEW c \in Commands, NEW a \in AuctionIds,
                        IsJob(c, "create"), terms[a] # NoTerms, terms[a].nftMint = job[c].item
                 PROVE  /\ a = AuctionOf(c)
                        /\ status[a] # "Settled" => itemAt[job[c].item] = a
      BY DEF ListedItemIsInItsVault
    <2>1. status[a] # "Absent"
      BY DEF ItemsKept, AbsentHasNoTerms
    <2>2. job[c].item # NoValue
      BY <2>1, TermsOfAuction, SellingAssumption DEF CliTyped
    <2>3. PICK d \in Commands : Behind(d, a)
      BY <2>1, <2>2 DEF ItemsKept, ListingsHaveOrigin, ItemsAreFresh
    <2>4. d = c
      BY <2>2, <2>3 DEF ItemsKept, ItemsAreFresh, Behind
    <2> QED
      BY <2>3, <2>4 DEF Behind, ItemsKept, DepositStands, Deposited, Keeps
  <1> QED
    BY <1>1, <1>2, <1>3, CliTypedInvariant, PTL DEF CliSpec

----------------------------------------------------------------------------
(* What is in escrow for those who bid with the client only                *)

\* A sum grows with its summands.
LEMMA SumMonotone ==
    ASSUME NEW f, NEW g, NEW S, IsFiniteSet(S),
           \A x \in S : f[x] \in Int /\ g[x] \in Int /\ f[x] <= g[x]
    PROVE  SumOver(f, S) <= SumOver(g, S)
  <1> DEFINE Good == {s \in SUBSET S : SumOver(f, s) <= SumOver(g, s)}
  <1>1. ASSUME NEW s \in SUBSET S, s = {} \/ Rest(s) \in Good PROVE s \in Good
    <2>1. /\ SumOver(f, s) = IF s = {} THEN 0 ELSE f[Any(s)] + SumOver(f, Rest(s))
          /\ SumOver(g, s) = IF s = {} THEN 0 ELSE g[Any(s)] + SumOver(g, Rest(s))
      BY SumStep, FS_Subset
    <2>2. CASE s = {}
      BY <2>1, <2>2
    <2>3. CASE s # {}
      <3>1. Any(s) \in S /\ Rest(s) \subseteq S /\ IsFiniteSet(Rest(s))
        BY <2>3, RestIsSmaller, FS_Subset
      <3>2. SumOver(f, Rest(s)) \in Int /\ SumOver(g, Rest(s)) \in Int
        BY <3>1, SumIsInt
      <3>3. SumOver(f, Rest(s)) <= SumOver(g, Rest(s))
        BY <1>1, <2>3
      <3>4. f[Any(s)] \in Int /\ g[Any(s)] \in Int /\ f[Any(s)] <= g[Any(s)]
        BY <3>1
      <3> HIDE DEF Good
      <3>5. SumOver(f, s) <= SumOver(g, s)
        BY <2>1, <2>3, <3>2, <3>3, <3>4
      <3> QED
        BY <3>5 DEF Good
    <2> QED
      BY <2>2, <2>3
  <1> HIDE DEF Good
  <1>2. S \in Good
    BY <1>1, RestInduction
  <1> QED
    BY <1>2 DEF Good

LEMMA FiniteCommands == IsFiniteSet(Commands)
  <1>1. IsFiniteSet(1 .. MaxCommands)
    BY ClientAssumption, FS_Interval
  <1>2. IsFiniteSet(Terminals \X (1 .. MaxCommands))
    BY <1>1, ClientAssumption, FS_Product
  <1> QED
    BY <1>2, FS_Subset DEF Commands

\* Command c bids for the bid account b.
BidsFor(c, b) == IsJob(c, "bid") /\ job[c].auction = b[1] /\ job[c].user = b[2]

\* Its transaction has landed, as far as it can tell.
Spent(c) == tx[c] # "bidding" /\ pc[c] \in {"bidding", "failed", "reported"}

Placed(b) == [c \in Commands |->
    IF BidsFor(c, b) /\ Done(c, "bid", "bidding") THEN job[c].amount ELSE 0]

Possible(b) == [c \in Commands |-> IF BidsFor(c, b) /\ Spent(c) THEN job[c].amount ELSE 0]

\* What is in escrow is between what has certainly landed and what may have.
EscrowFits(b) ==
    status[b[1]] \notin {"Ended", "Settled"} =>
        /\ SumOver(Placed(b), Commands) <= escrow[b]
        /\ escrow[b] <= SumOver(Possible(b), Commands)

LEMMA AmountOfJob ==
    ASSUME NEW j \in Jobs, j.kind = "bid"
    PROVE  j.amount \in Nat
  BY BuyingAssumption DEF Jobs, CreateJobs

LEMMA BidAmount ==
    ASSUME CliTyped, NEW c \in Commands, NEW b, BidsFor(c, b)
    PROVE  job[c].amount \in Nat
  BY AmountOfJob DEF CliTyped, Knows, BidsFor, IsJob

LEMMA BidSums ==
    ASSUME CliTyped, NEW b
    PROVE  /\ \A c \in Commands : Placed(b)[c] \in Nat /\ Possible(b)[c] \in Nat
           /\ SumOver(Placed(b), Commands) \in Int
           /\ SumOver(Possible(b), Commands) \in Int
  <1>1. \A c \in Commands : Placed(b)[c] \in Nat /\ Possible(b)[c] \in Nat
    BY BidAmount DEF Placed, Possible
  <1>2. \A c \in Commands : Placed(b)[c] \in Int /\ Possible(b)[c] \in Int
    BY <1>1
  <1> QED
    BY <1>1, <1>2, FiniteCommands, SumIsInt

\* Only a landing of `bid` changes the escrow of a bidder other clients do not bid for,
\* until the auction has ended.
LEMMA EscrowStep ==
    ASSUME CliTyped, [CliNext]_cliVars, NEW b \in BidIds, b[2] \notin Bidders,
           status'[b[1]] \notin {"Ended", "Settled"},
           \A d \in Commands : LandBid(d) => ~BidsFor(d, b)
    PROVE  escrow'[b] = escrow[b]
  <1>1. /\ Typed /\ ClientTypeOK /\ b = <<b[1], b[2]>> /\ b[1] \in AuctionIds
        /\ escrow \in [BidIds -> Nat] /\ status \in [AuctionIds -> AuctionStatuses \cup {"Absent"}]
    BY DEF CliTyped, Typed, TypeOK, AuctionTypeOK, BidIds
  <1>2. ASSUME NEW a, NEW u, NEW x, PlaceBid(a, u, x), <<a, u>> # b
        PROVE  escrow'[b] = escrow[b]
    BY <1>1, <1>2 DEF PlaceBid, Escrowed
  <1>3. ASSUME Others PROVE escrow'[b] = escrow[b]
    <2>1. ASSUME \/ Tick
                 \/ \E s, item, nonce : DepositItem(s, item, nonce)
                 \/ \E s, admin, listing : CreateAuction(s, admin, listing)
                 \/ \E a : EndAuction(a)
          PROVE  escrow' = escrow
      BY <2>1 DEF Tick, DepositItem, CreateAuction, EndAuction
    <2>2. ASSUME NEW a, NEW u \in Bidders, NEW x, PlaceBid(a, u, x)
          PROVE  escrow'[b] = escrow[b]
      BY <1>1, <1>2, <2>2
    <2> QED
      BY <1>3, <2>1, <2>2, Zenon DEF Others
  <1>4. ASSUME NEW d \in Commands,
               \/ LandInitialize(d) \/ LandDeposit(d) \/ LandListing(d) \/ LandFunding(d)
        PROVE  escrow'[b] = escrow[b]
    BY <1>4 DEF LandInitialize, LandDeposit, LandListing, LandFunding, auctionVars, DepositItem,
                CreateAuction
  <1>5. ASSUME NEW d \in Commands, LandBid(d) PROVE escrow'[b] = escrow[b]
    <2>1. IsJob(d, "bid") /\ ~BidsFor(d, b)
      BY <1>5, LandsOf DEF LandBid, TxStages, CliTyped, Knows, IsJob
    <2>2. PlaceBid(job[d].auction, job[d].user, job[d].amount)
      BY <1>5 DEF LandBid, Sent
    <2> QED
      BY <1>1, <1>2, <2>1, <2>2 DEF BidsFor
  <1>6. ASSUME NEW d \in Commands, LandSettle(d) PROVE escrow'[b] = escrow[b]
    <2>1. PICK a, w : /\ status[a] = "Ended" /\ status' = [status EXCEPT ![a] = "Settled"]
                      /\ escrow' = [escrow EXCEPT ![<<a, w>>] = 0]
      BY <1>6, Zenon DEF LandSettle, SettleAuction, MaySettle
    <2> QED
      BY <1>1, <2>1
  <1>7. ASSUME NEW d \in Commands, LandWithdraw(d) PROVE escrow'[b] = escrow[b]
    <2>1. PICK a, u : /\ status[a] = "Ended" /\ status' = status
                      /\ escrow' = [escrow EXCEPT ![<<a, u>>] = 0]
      BY <1>7, Zenon DEF LandWithdraw, WithdrawBid, MayWithdraw
    <2> QED
      BY <1>1, <2>1
  <1>8. UNCHANGED vars => escrow' = escrow
    BY DEF vars, auctionVars
  <1> QED
    BY <1>1, <1>3, <1>4, <1>5, <1>6, <1>7, <1>8, LedgerSteps

\* A command that may have bid goes on counting, and one counts as having bid only when
\* its own transaction lands.
LEMMA BidCounts ==
    ASSUME CliTyped, [CliNext]_cliVars, NEW c \in Commands, NEW b
    PROVE  /\ BidsFor(c, b) /\ Spent(c) =>
                BidsFor(c, b)' /\ Spent(c)' /\ job'[c].amount = job[c].amount
           /\ (BidsFor(c, b) /\ Done(c, "bid", "bidding"))' =>
                /\ BidsFor(c, b) /\ job'[c].amount = job[c].amount
                /\ Done(c, "bid", "bidding") \/ LandBid(c)
  <1>1. Knows(c) /\ ClientTypeOK
    BY DEF CliTyped
  <1>2. ASSUME BidsFor(c, b), Spent(c)
        PROVE  job'[c] = job[c] /\ Spent(c)'
    <2>1. ASSUME Same(c) PROVE job'[c] = job[c] /\ Spent(c)'
      BY <1>2, <2>1 DEF Same, Spent
    <2>2. ~Starts(c) /\ ~Learns(c)
      BY <1>2 DEF Starts, Spent, Learns, CreateReadsConfig, CreateReadsCount, HearDeposit,
                  HearsDeposit, Hears, Reads, BidsFor, IsJob
    <2>3. ASSUME MovesOn(c) PROVE job'[c] = job[c] /\ Spent(c)'
      <3>1. pc'[c] = "reported" /\ job'[c] = job[c]
        BY <1>2, <2>3 DEF MovesOn, StageSteps, Spent, BidsFor, IsJob
      <3> QED
        BY <2>3, <3>1 DEF MovesOn, Enters, SentAt, Spent, TxStages
    <2>4. ASSUME Fail(c) \/ Drop(c) PROVE job'[c] = job[c] /\ Spent(c)'
      BY <1>1, <1>2, <2>4 DEF Fail, Drop, ClientTypeOK, Spent
    <2>5. ASSUME NEW kind, NEW stage, Lands(c, kind, stage) PROVE job'[c] = job[c] /\ Spent(c)'
      BY <1>1, <1>2, <2>5 DEF Lands, ClientTypeOK, Spent
    <2> QED
      BY <1>1, <2>1, <2>2, <2>3, <2>4, <2>5, CommandSteps, Landings
  <1>3. ASSUME BidsFor(c, b), Spent(c) PROVE BidsFor(c, b)'
    <2>1. pc'[c] # "idle" /\ job'[c] = job[c]
      BY <1>2, <1>3 DEF Spent
    <2> QED
      BY <1>3, <2>1 DEF BidsFor, IsJob, Begun
  <1>4. ASSUME BidsFor(c, b)', Done(c, "bid", "bidding")'
        PROVE  /\ BidsFor(c, b) /\ job'[c] = job[c]
               /\ Done(c, "bid", "bidding") \/ LandBid(c)
    <2>1. /\ IsJob(c, "bid") /\ job'[c] = job[c]
          /\ \/ Done(c, "bid", "bidding")
             \/ tx[c] = "bidding" /\ (SellingLands(c) \/ BuyingLands(c))
      BY <1>4, DoneSteps, <<"bid", "bidding">> \in LastStages DEF LastStages
    <2>2. BidsFor(c, b)
      BY <1>4, <2>1 DEF BidsFor
    <2> QED
      BY <2>1, <2>2, LastLandings
  <1> QED
    BY <1>2, <1>3, <1>4

LEMMA EscrowFitsStep ==
    ASSUME CliTyped, CliTyped', [CliNext]_cliVars, NEW b \in BidIds, b[2] \notin Bidders,
           EscrowFits(b)
    PROVE  EscrowFits(b)'
  <1> SUFFICES ASSUME status'[b[1]] \notin {"Ended", "Settled"}
               PROVE  /\ SumOver(Placed(b)', Commands) <= escrow'[b]
                      /\ escrow'[b] <= SumOver(Possible(b)', Commands)
    BY DEF EscrowFits
  <1> DEFINE low == Placed(b)
             high == Possible(b)
             lowNext == Placed(b)'
             highNext == Possible(b)'
  <1>1. /\ SumOver(low, Commands) <= escrow[b] /\ escrow[b] <= SumOver(high, Commands)
        /\ escrow[b] \in Nat
    <2>1. b[1] \in AuctionIds /\ Typed
      BY DEF BidIds, CliTyped
    <2>2. status[b[1]] \notin {"Ended", "Settled"}
      BY <2>1, Staying DEF AuctionsStay
    <2> QED
      BY <2>1, <2>2 DEF EscrowFits, Typed, TypeOK, AuctionTypeOK
  <1>2. /\ \A c \in Commands : low[c] \in Nat /\ high[c] \in Nat
        /\ SumOver(low, Commands) \in Int /\ SumOver(high, Commands) \in Int
    BY BidSums
  <1>3. /\ \A c \in Commands : lowNext[c] \in Nat /\ highNext[c] \in Nat
        /\ SumOver(lowNext, Commands) \in Int /\ SumOver(highNext, Commands) \in Int
    <2>1. ASSUME NEW c \in Commands, BidsFor(c, b)' PROVE job'[c].amount \in Nat
      <3>1. job'[c] \in Jobs /\ job'[c].kind = "bid"
        BY <2>1 DEF CliTyped, Knows, BidsFor, IsJob
      <3> QED
        BY <3>1, AmountOfJob
    <2>2. \A c \in Commands : lowNext[c] \in Nat /\ highNext[c] \in Nat
      BY <2>1 DEF Placed, Possible
    <2> HIDE DEF lowNext, highNext
    <2>3. \A c \in Commands : lowNext[c] \in Int /\ highNext[c] \in Int
      BY <2>2
    <2> QED
      BY <2>2, <2>3, FiniteCommands, SumIsInt
  <1>4. CASE \A d \in Commands : LandBid(d) => ~BidsFor(d, b)
    <2>1. escrow'[b] = escrow[b]
      BY <1>4, EscrowStep
    <2>2. ASSUME NEW c \in Commands PROVE lowNext[c] <= low[c] /\ high[c] <= highNext[c]
      <3>1. lowNext[c] \in {0, low[c]}
        BY <1>4, BidCounts DEF Placed
      <3>2. high[c] \in {0, highNext[c]}
        BY BidCounts DEF Possible
      <3> HIDE DEF low, high, lowNext, highNext
      <3> QED
        BY <1>2, <1>3, <3>1, <3>2
    <2> HIDE DEF low, high, lowNext, highNext
    <2>3. \A c \in Commands : low[c] \in Int /\ high[c] \in Int /\ lowNext[c] \in Int
                              /\ highNext[c] \in Int
      BY <1>2, <1>3
    <2>4. SumOver(lowNext, Commands) <= SumOver(low, Commands)
      BY <2>2, <2>3, FiniteCommands, SumMonotone
    <2>5. SumOver(high, Commands) <= SumOver(highNext, Commands)
      BY <2>2, <2>3, FiniteCommands, SumMonotone
    <2>6. /\ SumOver(lowNext, Commands) <= escrow'[b]
          /\ escrow'[b] <= SumOver(highNext, Commands)
      BY <1>1, <1>2, <1>3, <2>1, <2>4, <2>5
    <2> QED
      BY <2>6 DEF lowNext, highNext
  <1>5. ASSUME NEW d \in Commands, LandBid(d), BidsFor(d, b)
        PROVE  /\ SumOver(lowNext, Commands) <= escrow'[b]
               /\ escrow'[b] <= SumOver(highNext, Commands)
    <2> DEFINE k == job[d].amount
               lowPlus == [c \in Commands |-> IF c = d THEN low[c] + k ELSE low[c]]
               highPlus == [c \in Commands |-> IF c = d THEN high[c] + k ELSE high[c]]
    <2>1. k \in Nat
      BY <1>5, BidAmount
    <2>2. /\ tx[d] = "bidding" /\ pc[d] \in {"bidding", "failed"} /\ job' = job /\ pc' = pc
          /\ tx'[d] # "bidding"
      BY <1>5, LandsOf DEF LandBid, Lands, TxStages, CliTyped, Knows, ClientTypeOK
    <2>3. escrow'[b] = escrow[b] + k
      <3>1. PlaceBid(job[d].auction, job[d].user, k) /\ b = <<job[d].auction, job[d].user>>
        BY <1>5 DEF LandBid, Sent, BidsFor, BidIds
      <3> QED
        BY <3>1 DEF PlaceBid, Escrowed, CliTyped, Typed, TypeOK, AuctionTypeOK
    <2>4. ASSUME NEW c \in Commands, c # d
          PROVE  lowNext[c] = low[c] /\ highNext[c] = high[c]
      <3>1. Same(c)
        BY <1>5, <2>4, ElsewhereSame DEF LandBid, CliTyped
      <3>2. /\ BidsFor(c, b)' = BidsFor(c, b) /\ Spent(c)' = Spent(c)
            /\ Done(c, "bid", "bidding")' = Done(c, "bid", "bidding")
        BY <3>1 DEF Same, BidsFor, IsJob, Begun, Spent, Done
      <3> QED
        BY <3>1, <3>2 DEF Placed, Possible, Same
    <2>5. lowNext[d] <= low[d] + k /\ high[d] + k <= highNext[d]
      <3>1. lowNext[d] \in {0, k}
        BY <2>2 DEF Placed
      <3>2. high[d] = 0 /\ highNext[d] = k
        <4>1. ~Spent(d) /\ Spent(d)' /\ BidsFor(d, b)'
          BY <1>5, <2>2 DEF Spent, BidsFor, IsJob, Begun
        <4> QED
          BY <2>2, <4>1 DEF Possible
      <3> HIDE DEF low, high, lowNext, highNext
      <3> QED
        BY <1>2, <2>1, <3>1, <3>2
    <2> HIDE DEF low, high, lowNext, highNext, k
    <2>6. SumOver(lowPlus, Commands) = SumOver(low, Commands) + k
      <3>1. \A c \in Commands : low[c] \in Int
                                /\ lowPlus[c] = IF c = d THEN low[c] + k ELSE low[c]
        BY <1>2
      <3> HIDE DEF lowPlus
      <3>2. IsFiniteSet(Commands) /\ k \in Int
        BY <2>1, FiniteCommands
      <3>3. SumOver(lowPlus, Commands) = SumOver(low, Commands) + (IF d \in Commands THEN k ELSE 0)
        BY <3>1, <3>2, SumChangedAt
      <3> QED
        BY <3>3
    <2>7. SumOver(highPlus, Commands) = SumOver(high, Commands) + k
      <3>1. \A c \in Commands : high[c] \in Int
                                /\ highPlus[c] = IF c = d THEN high[c] + k ELSE high[c]
        BY <1>2
      <3> HIDE DEF highPlus
      <3>2. IsFiniteSet(Commands) /\ k \in Int
        BY <2>1, FiniteCommands
      <3>3. SumOver(highPlus, Commands) = SumOver(high, Commands) + (IF d \in Commands THEN k ELSE 0)
        BY <3>1, <3>2, SumChangedAt
      <3> QED
        BY <3>3
    <2>8. ASSUME NEW c \in Commands
          PROVE  /\ lowNext[c] \in Int /\ lowPlus[c] \in Int /\ lowNext[c] <= lowPlus[c]
                 /\ highNext[c] \in Int /\ highPlus[c] \in Int /\ highPlus[c] <= highNext[c]
      BY <1>2, <1>3, <2>1, <2>4, <2>5
    <2> HIDE DEF lowPlus, highPlus
    <2>9. /\ SumOver(lowNext, Commands) <= SumOver(lowPlus, Commands)
          /\ SumOver(highPlus, Commands) <= SumOver(highNext, Commands)
      BY <2>8, FiniteCommands, SumMonotone
    <2> QED
      BY <1>1, <1>2, <1>3, <2>1, <2>3, <2>6, <2>7, <2>9
  <1> QED
    BY <1>4, <1>5

\* While an auction takes bids, what a bidder has in escrow is at least what `bid` has
\* reported and at most what it was asked for, whichever transactions were lost, landed late,
\* or landed for a command that had given up.
THEOREM EscrowIsWithinAsked == CliSpec => []EscrowWithinAsked
  <1> DEFINE Inv == \A b \in BidIds : b[2] \notin Bidders => EscrowFits(b)
  <1>1. CliInit => Inv
    <2> SUFFICES ASSUME CliInit, NEW b \in BidIds PROVE EscrowFits(b)
      OBVIOUS
    <2> DEFINE low == Placed(b)
               high == Possible(b)
    <2>1. \A c \in Commands : low[c] = IF c = b THEN 0 ELSE 0
      BY DEF CliInit, ClientInit, Placed, BidsFor, IsJob, Begun
    <2>2. \A c \in Commands : high[c] = IF c = b THEN 0 ELSE 0
      BY DEF CliInit, ClientInit, Possible, Spent
    <2> HIDE DEF low, high
    <2>3. IsFiniteSet(Commands) /\ 0 \in Int
      BY FiniteCommands
    <2>4. SumOver(low, Commands) = 0 /\ SumOver(high, Commands) = 0
      BY <2>1, <2>2, <2>3, SumOfPoint
    <2> QED
      BY <2>4 DEF CliInit, AuctionInit, EscrowFits, low, high
  <1>2. CliTyped /\ CliTyped' /\ Inv /\ [CliNext]_cliVars => Inv'
    BY EscrowFitsStep
  <1>3. CliTyped /\ Inv => EscrowWithinAsked
    <2> SUFFICES ASSUME CliTyped, NEW b \in BidIds, EscrowFits(b), status[b[1]] = "Active"
                 PROVE  /\ Sum(AskedOf(b, {"reported"})) <= escrow[b]
                        /\ escrow[b] <= Sum(AskedOf(b, ReadStages \cup TxStages \cup Outcomes))
      BY DEF EscrowWithinAsked
    <2> DEFINE all == ReadStages \cup TxStages \cup Outcomes
               some(cs) == [c \in Commands |-> IF c \in cs THEN job[c].amount ELSE 0]
    <2>1. ASSUME NEW outcomes
          PROVE  /\ Sum(AskedOf(b, outcomes)) = SumOver(some(AskedOf(b, outcomes)), Commands)
                 /\ \A c \in Commands : some(AskedOf(b, outcomes))[c] \in Int
                 /\ SumOver(some(AskedOf(b, outcomes)), Commands) \in Int
      <3> DEFINE cs == AskedOf(b, outcomes)
                 f == [c \in cs |-> job[c].amount]
                 g == some(cs)
      <3>1. cs \in SUBSET Commands /\ \A c \in cs : BidsFor(c, b)
        BY DEF AskedOf, BidsFor
      <3>2. \A c \in cs : f[c] \in Int /\ f[c] = job[c].amount
        BY <3>1, BidAmount
      <3> HIDE DEF cs
      <3>3. \A c \in Commands : g[c] = IF c \in cs THEN f[c] ELSE 0
        BY <3>2
      <3>4. \A c \in Commands : g[c] \in Int
        BY <3>2, <3>3
      <3> HIDE DEF f, g
      <3>5. SumOver(g, Commands) = SumOver(f, cs) /\ SumOver(g, Commands) \in Int
        BY <3>1, <3>2, <3>3, <3>4, FiniteCommands, SumOverPart, SumIsInt
      <3> QED
        BY <3>4, <3>5 DEF Sum, f, g, cs
    <2>2. ASSUME NEW c \in Commands
          PROVE  /\ some(AskedOf(b, {"reported"}))[c] <= Placed(b)[c]
                 /\ Possible(b)[c] <= some(AskedOf(b, all))[c]
      <3>1. /\ c \in AskedOf(b, {"reported"}) => BidsFor(c, b) /\ Done(c, "bid", "bidding")
            /\ BidsFor(c, b) /\ Spent(c) => c \in AskedOf(b, all)
            /\ c \in AskedOf(b, all) => BidsFor(c, b)
        BY DEF AskedOf, BidsFor, Done, Spent, TxStages, Outcomes
      <3> HIDE DEF all
      <3> QED
        BY <3>1, BidAmount DEF Placed, Possible
    <2> DEFINE least == some(AskedOf(b, {"reported"}))
               most == some(AskedOf(b, all))
               low == Placed(b)
               high == Possible(b)
    <2>3. \A c \in Commands : /\ least[c] \in Int /\ low[c] \in Int /\ least[c] <= low[c]
                              /\ high[c] \in Int /\ most[c] \in Int /\ high[c] <= most[c]
      <3>1. \A c \in Commands : low[c] \in Nat /\ high[c] \in Nat
        BY BidSums
      <3>2. \A c \in Commands : least[c] \in Int /\ most[c] \in Int
        BY <2>1
      <3>3. \A c \in Commands : least[c] <= low[c] /\ high[c] <= most[c]
        BY <2>2
      <3> HIDE DEF least, most, low, high
      <3> QED
        BY <3>1, <3>2, <3>3
    <2>4. SumOver(low, Commands) <= escrow[b] /\ escrow[b] <= SumOver(high, Commands)
      BY DEF EscrowFits
    <2>5. /\ SumOver(least, Commands) \in Int /\ SumOver(most, Commands) \in Int
          /\ SumOver(low, Commands) \in Int /\ SumOver(high, Commands) \in Int
          /\ escrow[b] \in Nat
      BY <2>1, BidSums DEF CliTyped, Typed, TypeOK, AuctionTypeOK
    <2>6. /\ Sum(AskedOf(b, {"reported"})) = SumOver(least, Commands)
          /\ Sum(AskedOf(b, all)) = SumOver(most, Commands)
      BY <2>1
    <2> HIDE DEF least, most, low, high
    <2>7. /\ SumOver(least, Commands) <= SumOver(low, Commands)
          /\ SumOver(high, Commands) <= SumOver(most, Commands)
      BY <2>3, FiniteCommands, SumMonotone
    <2> QED
      BY <2>4, <2>5, <2>6, <2>7
  <1> HIDE DEF Inv
  <1> QED
    BY <1>1, <1>2, <1>3, CliTypedInvariant, PTL DEF CliSpec

=============================================================================
