# A verification project for BidX

BidX (`src/programs/bidx`) is a Solana program, written with Anchor, that runs auctions
of digital and of authenticated physical items. Sellers list items, bidders put their
bids into escrow, the auction ends, its winner settles it, the losers withdraw. Admins
run platforms that set fees and register the authenticators of physical items. People use
it from a command line client (`src/cli`), each command of which sends several
transactions.

This directory holds TLA+ modules that model the program and the client, TLC
configurations that check them on small instances, and theorems that TLAPS proves for
every value of the constants. Paths below such as `instructions/settle.rs` are relative to
`src/programs/bidx/src/`, and those such as `cli/utils.ts` to `src/`.

## 1. The system

### Components

| Component | State | Operations | What makes it correct |
|---|---|---|---|
| Platform administration | `PlatformConfig` per admin, USDC treasury per config, one wSOL treasury | `initialize`, `update_platform_config`, `toggle_pause_platform`, `close_platform` | fees and durations stay within what is validated; treasuries lose nothing and pay their admin only |
| Authenticators registry | `AuthenticatorsRegistry` per admin: a list and the cursor `next_index` | `register_authenticators`, `remove_authenticator`, the assignment in `create_auction` | no key twice; every member gets its turn; an assignment is possible while anybody is registered |
| Auctions | `Auction` per seller and nonce, `SellerState.auction_count`, the item vault | `create_auction`, `end_auction` | nonces and accounts stay in step; an auction ends, and only after its end date; status only moves forward |
| Bids | `Bid` and escrow vault per bidder and auction; the cached `highest_bid`, `highest_bidder` | `place_bid`, `withdraw_bid` | a vault holds what its bid says; the cached leader is the real one; a refund goes to its owner, whole |
| Settlement | all of the above, wallets and treasuries | `settle_auction` | one exchange of item and price; fees and rounding add up to the price; with the accounts the client derives, the seller is the one who is paid |
| Authentication | `Authentication` per auction | `upload_auth_report`, `attest_authentication` | a verdict rests on a registered authenticator's report; where it is recorded |
| CLI commands | at each terminal, what the running command has read and the transaction it waits for | `init`, `create`, `bid`, `settle`, `withdraw` | what was read is still true when it is used; what is reported has happened; a command that fails half-way leaves no listing without its item |
| CLI menus and views | which commands a menu runs | the two loops and the subcommands of `cli/index.ts`, `view`, `list`, `status` | a platform that was set up is found |

Instructions interact through shared accounts only. `create_auction` reads and rotates a
registry; `settle_auction` reads the config of the moment, pays a treasury and takes the
item; `place_bid` and `withdraw_bid` share vaults with `settle_auction`; the two
authentication instructions read a registry and the auction.

### What is hard here

- **Interleaving.** An instruction is atomic (a Solana transaction commits or reverts as
  a whole), but their order is anybody's. Withdrawals race settlement, bids race
  `end_auction`, the admin changes or closes the platform while auctions trade,
  authenticators overwrite each other's reports.
- **Accounts.** A caller passes every account an instruction touches; what the constraints
  do not tie to the auction is the caller's choice.
- **Several records of one fact.** The vault balance, `Bid.amount` and the auction's
  `highest_bid` are written by different statements of three handlers. The verdict is
  recorded in two accounts, of which one is written back.
- **Numbers.** Two divisions rounded separately, a cast from u128 to u64, checked
  subtractions, comparison of `Option`s, a cursor modulo a list that changes.
- **Progress.** The program schedules nothing: an auction ends, settles and refunds
  because somebody sends the transaction, if it is still accepted by then.
- **Clients.** A command is a chain of awaits. Between two of them other terminals change
  the ledger; a request may throw while its transaction still travels and lands later; the
  process may be killed; the user runs the command again.
- **Not present.** The program has no callbacks and no crash of its own: the ledger keeps
  every account. The client keeps nothing between commands, so there is nothing to recover.

Every exposure found is listed with its line under `hazards` in `PROJECT.json`.

## 2. Modules

```
Fees ----------- FeeQuotes
  \
Registry - Platform - Auction - Authentication - BidX - BidXProperties - BidXExchange - AuctionHouse
   \                                               |           \              |              \
  RoundRobin                                       |          MCBidX       Exchange      MCAuctionHouse
     \                                             |                      (INSTANCE)
  MCRoundRobin                                     |
                                                 Client - Selling - Buying - Cli - MCCli
```

The proofs, each module extending the one before it and the model it is about:

```
BidXTypeProofs - AuctionProofs - AuthenticationProofs - TokenProofs - CliProofs
                       \
                     ExchangeProofs          FeeQuotesProofs     RoundRobinProofs
```

| Module | Models |
|---|---|
| `Fees` | the fee arithmetic of `settle_auction` as operators |
| `FeeQuotes` | one settlement at any bid and rates up to a bound, to check `Fees` |
| `Registry` | the registry as a value: what registration, removal and assignment do to it |
| `RoundRobin` | one registry by itself, with a history of who waited how long |
| `Platform` | configs, registries, treasuries, wallets; the admin's instructions |
| `Auction` | auctions, bids, vaults and items; the sellers' and bidders' instructions, the clock, the deposit of an item |
| `Authentication` | the authenticators' instructions |
| `BidX` | the whole program |
| `BidXProperties` | its invariants and action properties |
| `Exchange` | what an auction promises, over stakes only: no cached highest bid, no accounts |
| `BidXExchange` | the mapping under which the program implements `Exchange` |
| `AuctionHouse` | the auction and authentication instructions on fixed platforms, with fairness; liveness |
| `Client` | terminals, menus, and the life of one command: reads, transactions that travel by themselves, giving up |
| `Selling` | `init` and `create` |
| `Buying` | `bid`, `settle`, `withdraw`, `view`, `list`, `status` |
| `Cli` | client and program together, with other clients of the program; what the commands promise |
| `MC...` | constants for TLC |
| `...Proofs` | theorems |

### State and code

| Variable | Code |
|---|---|
| `platforms`, `config`, `registry` | which admins' config and registry accounts exist, and what they hold |
| `treasuryUsdc[admin]`, `treasurySol` | balances of `treasury_usdc` (a token account of each config) and `treasury_sol` (whose authority is the wSOL mint, hence one account for all, `initialize.rs:38-44`) |
| `wallet[t][u]` | associated token account of user `u` for mint `t` |
| `now` | `Clock::get()?.unix_timestamp` |
| `auctionCount`, `status`, `authStatus`, `terms`, `highestBid`, `highestBidder` | `SellerState.auction_count` and the fields of `Auction`; `terms` are those `create_auction` sets for good |
| `itemAt` | which token account holds an item of supply 1: a user's, or the vault of an auction |
| `bids`, `amount`, `vaults`, `escrow` | `Bid` accounts, `Bid.amount`, the vaults that exist and their balances |
| `authentication` | the `Authentication` accounts; `filled` is false for the zeroed account of a digital auction |
| `pc[c]`, `job[c]` | the await command `c` is at; its arguments and what it has read so far |
| `tx[c]` | the transaction it sent: travelling, landed and not yet heard of, or none |
| `accounts` | which associated token accounts exist: the clients open them, the program requires them |
| `seedAdmin` | the admin that the address of the config is derived with, `NoKey` for none |

An auction is identified by its seller and nonce and a bid by its auction and bidder, as
their seeds do. Each entry point of `lib.rs` is one action with all that its handler
does; its guard collects the account constraints, the `require!`s, the failures of token
transfers and the aborts (index out of range, underflow). An instruction that fails
reverts, so a failure is a disabled action. `end_auction` on an ended auction returns
without a change, which is a stutter.

A command of the client is a process. Each of its awaits is a stage: a read is one step;
a transaction is sent when its stage is entered, lands (`Land...`, which does the
instruction of the program in the same step) or is dropped, and the command goes on when it
hears of it (`Hear...`). Every await may throw, whether or not the transaction has landed or
will: `Fail` is the `catch` block, and also a process that is killed. A terminal runs one
command at a time; several terminals may hold the keypair of one user.

Some points where the code is not what one expects, and the model follows the code:

- `attest_authentication` assigns the status of the auction, but its `auction` account
  is not `mut`: Anchor does not write it back. The action leaves `status` and
  `authStatus` alone, so a physical auction never becomes active.
- `upload_auth_report` and `attest_authentication` declare `#[instruction(nonce: u64)]`
  although their argument is a string and a bool. The nonce is decoded from the bytes
  of that argument (`NamesNonce`).
- `update_platform_config` compares the two `Option` durations as passed
  (`OptionGreater`), the other values after defaulting.
- `remove_authenticator` does not move the cursor, `create_auction` indexes with it
  before reducing it.
- `settle_auction` takes no authenticator's account for granted: without one, the fee of
  a physical item stays in the vault, which then closes only if it is native.
- The rates of a settlement are those of the config passed at that moment, and any
  existing config is accepted.
- Of the seller's token account `settle_auction` checks the mint only (`settle.rs:71-76`),
  and of the item that its vault is the auction's (`:92-101`). Whom the seller's share goes
  to and which item of the vault leaves are therefore inputs of the action (`Passed`), as
  are the authenticator's accounts. `Passes` in `Buying` is what the command `settle` passes.
- The commands derive the address of the config and the registry without the admin who
  seeds them (`cli/commands/create.ts:118-121`, `settle.ts:123-126`, `cli/index.ts:64-71`):
  no config is ever there. `seedAdmin = NoKey` is that address, and the run
  `config_not_found` shows what follows. The runs `selling` and `closing` take another
  member of `SeedAdmins`, which is as if the commands had been told the admin: otherwise
  `create`, `settle` and `status` stop at their first read and nothing beyond it could be
  examined.
- `settle` and `withdraw` send nonce 0 (`settle.ts:140`, `withdraw.ts:91`), so that the
  program refuses them for every auction of a seller but the first (`NamesNonceZero`).
- `settle` creates the winner's account for the item only when `getAccountInfo` throws; for
  an account that does not exist it answers null (`SettleProbes`).
- `create` moves the item into the vault before it parses the amounts and the duration
  (`HearDeposit`), and makes a payment token of its own. `settle` finds no treasury for such
  a token (`HasTreasury`): what `create` lists can be bid on by its seller and settled by
  nobody.
- The default menu shows "Place Bid" and has no branch for it; there are no subcommands
  `bid` and `status` (`README.md:297`, `README.md:321-324`).

### Abstractions and assumptions

- Token amounts move by instructions only, plus the seller's deposit of an item, which
  the clients do with the token program (`cli/commands/create.ts:206-232`). Wallets start
  with `Funds`.
- The arguments of `settle_auction` that its constraints leave open are arbitrary users'
  accounts (`Passed`): the recipient of the seller's share, the item in the vault, the
  authenticator's account, which may be absent, the authentication, which may be absent too,
  and the config. `token_mint` of `settle_auction` and `withdraw_bid` is the accepted token,
  although neither says so: the vault they take is the bid's, `place_bid` has filled it in
  the accepted token only, and that nobody opens and fills other token accounts in the name
  of a bid is an assumption. So is that the recipient is a user's account rather than a
  vault or a treasury.
- The mints are of one token program, without fees on transfers; a config keeps its USDC
  mint. SOL and wSOL are one asset: what is left in a wSOL vault when it closes is
  credited as wSOL.
- Additions of u64 amounts are bounded by the supply of the mint and do not overflow. A
  fee does leave the range of u64, and is reduced modulo `Word`.
- A fresh keypair of the client (a mint, the admin `init` makes) is a member of a finite
  set that no command has taken; `FirstHolder` and `MintAuthority` say who may mint it. The
  mints `setupPlatform` makes for a new platform are not told from those of the others,
  which no command looks at.
- Transactions between which nothing can be told apart are one stage: creating a mint, the
  seller's account and minting the item; the airdrop and the two mints of `setupPlatform`.
  Opening a bidder's token account is idempotent (`getOrCreateAssociatedTokenAccount`).
- The client's clock agrees with the ledger's; the twenty seconds before an auction starts
  are `StartDelay`. Amounts that do not parse, and a duration that was not given, are
  `NoValue`. Answers the prompts refuse are not given.
- Help, "coming soon", a declined confirmation and leaving the menu change nothing.
- Left out, because no guard depends on them: timestamps of bids and reports, metadata
  hashes, bumps, rent, `is_active` (always true), `is_winner` (always false), events.

## 3. Runs

Every property of a passing run has a mutant in `PROJECT.json`: a plausible slip in the
modelled code under which TLC finds the property violated.

| Run | Question | Instance |
|---|---|---|
| `fees` | is the split exact, does it ever underflow, who keeps the rounding | `Bps` 10, `Word` 16, all bids, rates to 20 |
| `round_robin` | does anybody wait longer than a round while the list grows | 4 keys, registered singly, in pairs and with repetitions |
| `house` | escrow, leadership, settlement and withdrawals in every order; does the program implement `Exchange` | 2 auctions of one seller in USDC and wSOL, 3 bidders of 3 tokens each, one of them the seller |
| `house_live` | do auctions end, settle, and refund | one item offered by two auctions, 2 bidders, fairness |
| `platform` | are tokens conserved and treasuries safe while the admin changes anything | one auction, in USDC or wSOL; two platforms with rates of 40 and 200 percent, one admin sells and the other bids; all options of an update, close and initialise again |
| `authentication` | on what does a verdict rest, does any of them open an auction | a physical and a digital listing, two platforms with a registry each, two nonces, registrations with repetitions, three reports, trailing bytes |
| `selling` | are the items, listings and reports of several `create` commands consistent, who can bid on what they list | one seller, two terminals (menu and subcommand), a `create` each and then a `bid`; digital, physical, too short and unparsed wishes |
| `closing` | is what `bid`, `settle` and `withdraw` report true, what can a bidder lose by sending again, does `settle` pass the right accounts | one bidder with two commands, another bidder and the listings of others on two auctions of one item, another platform set up by `init` |

The bounds are small and enough for the cases that matter: three bidders make a leader,
a loser and one who is overtaken twice; three tokens allow increases, ties to be refused
and bids on both sides of a reserve; two auctions of one seller make nonces, vaults and
items distinguishable; the clock runs past the last end date; a rate of two wholes makes
a settlement underflow; two nonces separate the one a report can name from the one it
cannot. Two `create` commands at two terminals cover one that is run again after the first
was given up, since nothing of a command is kept at its terminal; two `bid` commands of one
bidder cover a bid that is sent again. `selling` is symmetric in the items and in the
payment tokens that `create` mints, and `house` in the two bidders who sell nothing: nothing
tells them apart, and neither run checks liveness. `Kinds` says which commands are run first and which second, `Budget` how many.
`Word` is small in `fees` so that the cast drops bits, and above every product in
the other runs.

A run with `CHECK_DEADLOCK FALSE` has a final state: the clock is at its bound, every
auction is over, and the platforms are fixed (`house*`), the commands of the budgets have been run (`selling`, `closing`), or the one
quote is made (`fees`). Elsewhere somebody can always act and deadlock is checked.

### Fairness

`FairSpec` is used for liveness only. The validators move the clock. `end_auction` is
open to everyone, so that one interested party is enough. A winner who can settle does,
and a bidder keeps sending `withdraw_bid` while it would succeed. All are weak fairness of
an action: nobody is
assumed to be faster than anybody else, and nobody is assumed to bid, list or deposit.
`MetReserveSettles` therefore says that nothing the others do takes away from the winner
what settlement needs, and `LosersOfMissedReserveRefunded` that the refund of a missed
auction stays available until it is taken.

The client has no fairness: the reads of its commands have no timeout of their own, the
prompts wait for a person, and nothing it promises is of the kind that must happen.

### Where the repository and the code disagree

Each of these runs checks one sentence of the repository and TLC finds it violated; the
sentence is quoted in `PROJECT.json`.

| Run | What happens |
|---|---|
| `losing_bids` | after the winner has settled, losing bids can no longer be withdrawn |
| `seller_unpaid` | a settlement pays the seller's share to another account that the winner passes |
| `cursor_out_of_range` | after a removal no physical item can be listed |
| `config_not_found` | no platform exists at first; `init` sets one up and reports it, and `status` then looks at an address where there is no config |

More sentences differ from the code at a single guard or assignment, where reading the two
is enough and no run is needed; the model follows the code:

- a verdict does not change the status of the auction (`README.md:164`), whose account is
  not `mut` (`attest_authentication.rs:19`): `PhysicalStaysPending` is checked by the run
  `authentication` and proved of the whole program;
- for the first auction of a seller, nonce 0, every report that is not empty is refused,
  because its length is what the nonce is decoded from (`README.md:482`,
  `upload_auth_report.rs:9`);
- a fee cannot be updated unless both durations, or the maximum alone, are passed with it
  (`README.md:467-471`, `update_platform_config.rs:48`);
- `create --duration` is optional, and the example of the help leaves it out
  (`cli/dashboard.ts:260-264`): the item is then moved into the vault and no auction is
  listed; likewise for a duration of at most 20 seconds, which the prompt accepts
  (`cli/commands/create.ts:92-101`, `:244-249`);
- a bid is accepted after the end date until `end_auction` is called
  (`errors/bid_error.rs:8`, `place_bid.rs:60`);
- the first bid may be at or below the starting bid (`tests/place_bid.ts:40`,
  `place_bid.rs:82`);
- the item of an auction that missed its reserve stays in the vault (`README.md:456`,
  `settle.rs:135`);
- another authenticator replaces the assigned one (`errors/authentication_error.rs:14`,
  `upload_auth_report.rs:47`);
- a rate above one whole is charged modulo 2^64 (`README.md:105`, `settle.rs:173`), and
  fees above 10 percent are accepted (`errors/config_error.rs:7`);
- the maximum duration may end up below the minimum when one of them is updated
  (`update_platform_config.rs:48`);
- bids are accepted while the platform is paused (`README.md:478`; nothing reads the
  flag), and the durations of a platform do not bind its auctions (`README.md:392-393`).

`PhysicalStaysPending` says of the program as it is that no physical auction is ever opened,
and so that none is bid on, ended or settled. What depends on the verdict in a settlement,
the fee of the authenticator, is modelled (`AuthFee`, `payee`) and not reached by the
runs of the program; `fees` checks its arithmetic.

## 4. Proofs

The theorems are about `Spec` of `BidX`, `FeeQuotes` and `RoundRobin` (`GrowingSpec`),
about `HouseSpec` and about `CliSpec`, with every constant arbitrary within the named
assumptions (`RegistryAssumption`, `PlatformAssumption`,
`FeesAssumption`, `AuctionAssumption`, `AddressAssumption`, `AuthenticationAssumption`,
`MaxRateAssumption`, `RoundRobinAssumption`, `HouseAssumption`, and of the client `ClientAssumption`,
`SellingAssumption`, `FreshMintAssumption`, `BuyingAssumption`, `CliAssumption`), which say
that the constants have their types, that there are finitely many users and terminals,
that the two mints differ, that `NoKey`, `NoValue` and `NoTerms` are not ordinary values,
that no user's key is the address of an auction, that the modelled nonces and report
lengths fit in a byte, that the mint `create` makes is new (no treasury's, and nobody has
any of it), and that other clients list for USDC and wSOL. One theorem,
`RegistriesStayWellFormed`, has a hypothesis beyond these, which is stated with it.

**The fee split** (`FeeQuotesProofs`). `FeesRoundDown`, `SplitsFit` and
`RoundingGoesToSeller`: at every bid a u64 of any width can hold and at all rates, the
three properties of `fees` hold. The argument is a chain of lemmas on floor division: a
fee lies between its exact value less one and its exact value; so a rate of at most one
whole never takes more than the bid and the cast changes nothing; and two floors of rates
that are together at most one whole never exceed the bid, which is why neither subtraction
underflows.

**The round robin** (`RoundRobinProofs`). `TurnsComeRound` bounds the wait of a registered
authenticator by the length of the list, which grows meanwhile. What is inductive is a sum
(`LessThanARound`): at every place of the list, what its key has waited and the number of
assignments before that place is next (`ToGo`) are together less than a round. An
assignment moves one from the second to the first; a registration adds as much to the
round as it puts before anybody's turn. The list given to `initialize`, which is not
looked at, may hold a key twice: the sum is stated per place. `GrowingRegistryAssigns`
says that without removals the cursor always points at a key; with them, the run
`cursor_out_of_range` shows that it does not.

**Types** (`BidXTypeProofs`). `TypeCorrect` is proved by `Typed == TypeOK /\ TermsOK`.
`TypeOK` alone is not inductive: `place_bid` and `settle_auction` read the accepted token
of an auction, and a guard on its status says nothing about its terms unless every
auction that is not absent has terms (`TermsOK`). There is one lemma per instruction.
That balances stay natural numbers is where the guards of the transfers and `Splits` are
needed.

**Escrow** (`AuctionProofs`). `EscrowIsSound`, `LeaderIsSound` and `BidsNeverTie` are the
three parts of the inductive invariant `EscrowSound`, and none is inductive by itself. A
withdrawal leaves the leader's vault alone because `withdraw_bid` refuses
`highest_bidder`, which protects the right vault only if that field names the largest bid
(`LeaderHoldsHighestBid`). A new bid exceeds `highest_bid`, hence all bids, hence ties
none (`NoTies`), again only if the field is the maximum. Settlement empties exactly the
vault of the leader only if the vault holds what the account says (`EscrowBacksBids`),
and the bid account that then remains is the one exception of that invariant.

**The life of an auction** (`AuctionProofs`).

| Theorem | Rests on |
|---|---|
| `StatusMovesForward` | `Typed` |
| `NoncesStayDense` | itself, inductive over `Typed` |
| `BiddingStaysOpen` | `StatusStep`, and that neither the clock nor the terms of an existing auction go back (`ClockStep`) |
| `VaultsPayOwnerOrPrice` | `Typed` and `EscrowSound` |
| `ItemsLeaveToWinner` | `AddressAssumption`: a deposit takes an item from a user, never from a vault |
| `PriceRises` | `NobodyLeadsUnopened`: an auction that does not exist has no bid, so that creating it changes no price |

**The exchange** (`ExchangeProofs`). `Implements` is the refinement of `Exchange` under
the mapping of `BidXExchange`. Its invariant is `Ready`: types, `EscrowSound`, and
`LeadersHaveBid`, that whoever leads has bid something. `EscrowSound` is where the work is:
`Exchange` compares stakes, the program compares with the cached `highest_bid`, and the two
agree because the leader's vault holds that amount and every other one holds less.
`LeadersHaveBid` makes a leader's stake exceed that of somebody who has none. Each
instruction is then shown to be a named step of `Exchange`, or a stutter.

The runs of the house start with platforms that exist and never change. Its steps are steps
of the program and only its initial states differ, so that the same lemmas give
`HouseEscrowIsSound` and `HouseImplements`. What else `house` checks is proved of the whole
program.

**Registries and verdicts** (`AuthenticationProofs`).

| Theorem | Rests on |
|---|---|
| `RegistriesStayWellFormed` | lemmas about `Registered` and `SwapRemoved`; hypothesis: the lists of `Setups` are well formed, since `initialize` stores what it is given (the property says so too) |
| `PhysicalNeverOpens` | itself, over types: a physical auction starts as pending (`OpeningStep`), the instructions that change a status ask for an active or an ended one, and those on its authentication write back their own account only (`AuthStatusCases`) |
| `VerdictsRestOnReports` | `ReportsKept`: an upload names its auction by the length of its report, so that an auction of nonce 0 never gets one and a report is never replaced by an empty one |
| `ReporterGivesVerdict` | types, and what one step does to one authentication (`AuthenticationStep`) |

**Tokens** (`TokenProofs`). `TokensAreConserved` is proved for any finite set of users and
any number of auctions. The sum of the community modules is defined by recursion on the
size of a set, and the theorems that introduce such functions take operators as
parameters, which the provers cannot instantiate. So the module proves first what it
needs of sums from their definition, by minimal counterexamples (`SumIsIter`,
`IterUnique`, `IterExists`), up to `SumStep`, which takes one element out. From it follow
that sums are integers, that they are additive (`SumOfSums`), and what a change at one
place does to them (`SumChangedAt`). The inductive invariant is then `Balanced`, that the
sum of wallets, treasuries and vaults (`Held`) is what it was at first; `Held` counts the
vaults of a mint over all bids at once, and `TotalIsHeld` says that this is `TotalOf`
because a vault that is closed is empty (`EscrowBacksBids`). There is one lemma per
instruction that moves money. In a settlement recipient, payee and winner may be the same
user, hence `SharesAddUp`: what each user gets is a sum of three parts, whoever they are.

`TreasuriesDrainToAdmins` needs types only. `SettlementsSwap` needs `EscrowSound` to know
that the vault of the winner holds the price, and adds up the share of whoever was passed
for the seller and the fee (`DigitalPriceIsDivided`). That this is the seller is not true of
the program, as `seller_unpaid` shows, and is proved of the client: `SettlementsAreAsListed`.

**The client** (`CliProofs`). The theorems are about `CliSpec`: any number of terminals,
commands, users and auctions, with other clients of the program among them.

The lemmas `SellingSteps`, `BuyingSteps` and `ViewingSteps` first reduce some forty steps of
commands to a few forms: a command starts, moves on to its next await, learns something,
gives up, or its transaction lands or is dropped (`CommandSteps`, `LedgerSteps`). What any
of them does to the program is an instruction, a deposit, a mint to its authority, a new
account, or nothing (`ProgramSteps`), so that the typing lemmas of the program apply to the
program under the client. Every proof below then has a case for each of these forms and not
for each command.

| Theorem | Inductive invariant |
|---|---|
| `ClientTypeCorrect` | `CliTyped`: types, and what each command knows at each of its stages (`Knows`). A transaction may still travel after its command has failed, so `Knows` speaks of the stage a command is at *or* has a transaction from (`At`). Without it a late `create_auction` might name no item. |
| `SettlementsAreAsListed` | types and the three invariants of escrow, under the client: no step but a settlement with the accounts of `Passes` makes an auction a settled one (`ClientSettles`) |
| `CreateReportsHold` | `ListingStands`: the listing is there as soon as the transaction has landed, before the command hears of it (`Done`), and terms of an existing auction never change (`Staying`) |
| `CloseReportsHold` | `CloseStands`: settled with that winner; for a withdrawal also that the auction is over, since otherwise the bidder could bid again |
| `OnlySellerBids` | `TokensOwned`, of three parts that need each other: nobody but its mint authority holds a token that `create` made; none of it is bid by anybody else; and only the seller lists for it. A refund or a settlement moves such tokens to a bidder or a seller who is that authority already. |
| `ListedItemsAreDeposited` | `ItemsKept`: the mint of an item is nobody else's (`ItemsAreFresh`); an auction is another client's or that of a `create` that has paid for it (`ListingsHaveOrigin`), which it does after the deposit; and a deposit stays until the auction *it was made for* settles (`DepositStands`) |
| `EscrowIsWithinAsked` | `EscrowFits`: the sum of what has certainly landed (`Placed`) is at most the escrow, and this at most the sum of what may have (`Possible`). A travelling bid is in neither sum; when it lands it enters one or both by its amount, also for a command that has failed; when it is dropped only the upper sum may grow. |

`ClientEscrowIsSound` says that the three invariants of escrow hold under the client as
well: the lemmas of `AuctionProofs` about the instructions ask for arguments of the right
types only, and what the client adds, mints and accounts, touches no bid.

`EscrowWithinAsked` compares sums over the commands of one bid that have one outcome.
`EscrowFits` sums over all commands and counts the others as zero, so that a step changes
one summand (`SumChangedAt` and `SumMonotone`); the theorem then compares the two.

The proof of `ClientTypeCorrect` found a flaw of the model: the deposit of an item had no
bound on the nonce, so that an item could be put where no modelled auction is. The guard of
`DepositItem` now names the bound.

The inductive invariants of `CliProofs` are proved and not checked by a run, because they
are defined over unbounded sets of jobs; what they imply is checked by `selling` and
`closing`.

Every invariant and every safety property of the runs that must pass is a theorem, of the
specification of that run or of the program whose instructions it runs.

Out of the prover's reach, and checked by TLC only: liveness under fairness, which are the
properties of `house_live`.

## 5. Not modelled

- Whether a command comes back to its menu: a read of the client has no timeout, and each
  menu asks for the Enter key before it goes on.
- What the client prints, the prompts' validation, and the paths of keypair files beyond
  whether they are found.
- `confirmTransaction`, `airdrop`, `checkBalance`, `sleep` and `getDefaultWallet` of
  `cli/utils.ts`: no command calls them. (`confirmTransaction` looks at the confirmation
  before it looks at the error, so that it would return for a transaction that failed.)
- The choice of cluster and provider in `getProgram`.
- Events, error texts, migrations, runbooks, deployment: no state depends on them.
- Tests, which were read for the accounts clients pass and for what is expected.

## 6. Plan

1. *Done*: `Fees`, `Registry`, `Platform`, `Auction`, `Authentication`, `BidX`, their
   runs, type correctness, and the theorems on fees, escrow, leadership and the life of
   an auction.
2. *Done*: `Exchange` and its refinement; `Client`, `Selling`, `Buying` and `Cli`, the
   commands of the client as processes over `BidX`.
3. *Done*: the refinement of `Exchange`; registries and verdicts; conservation of tokens,
   treasuries and settlement as one exchange; the round robin.
4. *Done*: the client: its types, that the reports of `create`, `settle` and `withdraw` are
   true, that a listed item is in its vault, that only the seller has the token `create`
   makes, and the bounds of what a bidder has in escrow.
5. One next-state relation of which those of the program, the house and the client are
   parts (every instruction with any arguments of its types, and mints to an authority), so
   that the life of an auction, tokens and settlement are proved once for all three: so far
   only types, escrow and the exchange are stated of more than the program.
