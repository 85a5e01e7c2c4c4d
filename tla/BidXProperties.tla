--------------------------- MODULE BidXProperties ---------------------------
(***************************************************************************)
(* What the program keeps true, whoever calls which instruction when.      *)
(***************************************************************************)
EXTENDS BidX

Sets == INSTANCE FiniteSetsExt

BidsOf(a) == {b \in bids : b[1] = a}

Trading(a) == status[a] \in {"Active", "Ended"}

----------------------------------------------------------------------------
(* Invariants                                                              *)

\* The vault of a bid holds exactly what the bid account says the bidder has bid; a
\* vault that is closed holds nothing, and the only bid account that outlives its
\* vault is the winner's, after settlement.  Bids are only ever on an auction that has
\* opened.  (place_bid, settle_auction and withdraw_bid each move the tokens and the
\* bookkeeping separately.)
EscrowBacksBids ==
    /\ \A b \in bids : status[b[1]] \in {"Active", "Ended", "Settled"}
    /\ \A b \in vaults : b \in bids /\ escrow[b] = amount[b]
    /\ \A b \in BidIds \ vaults : escrow[b] = 0
    /\ \A b \in bids \ vaults : status[b[1]] = "Settled" /\ b[2] = highestBidder[b[1]]

\* While an auction trades, the auction's highest_bid is what its highest_bidder has
\* in escrow and every other bid is lower; so the account withdraw_bid refuses and
\* settle_auction draws on is the one that can pay the price.
LeaderHoldsHighestBid ==
    \A a \in AuctionIds : Trading(a) =>
        IF highestBidder[a] = NoKey
        THEN highestBid[a] = 0 /\ BidsOf(a) = {}
        ELSE /\ <<a, highestBidder[a]>> \in vaults
             /\ amount[<<a, highestBidder[a]>>] = highestBid[a]
             /\ \A b \in BidsOf(a) :
                    b[2] # highestBidder[a] => amount[b] < highestBid[a]

\* No two open bids of an auction are ever for the same amount, however often they are
\* increased and whichever of them are withdrawn: the order of the bids is strict.
NoTies ==
    \A b, c \in bids : b[1] = c[1] /\ b # c => amount[b] # amount[c]

\* An auction exists exactly for the nonces below its seller's count, so the seeds the
\* next create_auction derives are always free.
NoncesAreDense ==
    \A a \in AuctionIds : status[a] # "Absent" <=> a[2] < auctionCount[Seller(a)]

\* Bidding is closed by end_auction only once the end date has come.
ClosedOnlyAfterEndDate ==
    \A a \in AuctionIds : status[a] \in {"Ended", "Settled"} => now >= terms[a].endDate

\* Whatever verdicts are given on a physical item, its auction neither opens nor learns of
\* them: attest_authentication, the one instruction that would tell it, does not write its
\* auction account back (attest_authentication.rs:19), and no other one moves an auction
\* that is not active.
PhysicalStaysPending ==
    \A a \in AuctionIds : status[a] # "Absent" /\ IsPhysical(a) =>
        status[a] = "Pending" /\ authStatus[a] = "Pending"

\* A verdict rests on a report: attest_authentication comes after upload_auth_report,
\* and no later upload takes the report away from under the verdict.
VerdictRestsOnReport ==
    \A a \in AuctionIds :
        authentication[a].authStatus \in {"Verified", "Rejected"} =>
            authentication[a].reportHash # <<>>

\* A registry that was set up without them holds no key twice, no default key and not
\* its admin's, through registrations and the reordering of swap_remove.
RegistryWellFormed ==
    \A admin \in Admins :
        LET list == registry[admin].authenticators
        IN  \A i \in DOMAIN list :
                /\ list[i] \notin {NoKey, admin}
                /\ \A j \in DOMAIN list : i # j => list[i] # list[j]

\* The sum of the balances f[x] of the x in S.
SumOver(f, S) == Sets!MapThenSumSet(LAMBDA x : f[x], S)

\* What mint t's treasuries hold together.
TreasuryOf(t) == (IF t = Usdc THEN SumOver(treasuryUsdc, Admins) ELSE 0)
                 + (IF t = Wsol THEN treasurySol ELSE 0)

\* All of mint t: in wallets, in treasuries and in the vaults of bids.
TotalOf(t) == SumOver(wallet[t], Users) + TreasuryOf(t)
              + SumOver(escrow, {b \in vaults : terms[b[1]].acceptedToken = t})

\* Tokens are neither made nor lost by any instruction: bids, increases, fee splits with
\* their rounding, refunds and the closing of a platform add up.
TokensConserved == \A t \in Tokens : TotalOf(t) = SumOver(Funds[t], Users)

----------------------------------------------------------------------------
(* Action properties                                                       *)

Settles(a) == status[a] # "Settled" /\ status'[a] = "Settled"

\* What the treasuries of the payment mint of auction a gain in this step.
TreasuryGain(a) ==
    TreasuryOf(terms[a].acceptedToken)' - TreasuryOf(terms[a].acceptedToken)

\* User u gains by this step what is left of the price when the treasury has its fee.
PaysPriceTo(a, u) ==
    LET t == terms[a].acceptedToken
    IN  wallet'[t][u] - wallet[t][u] = highestBid[a] - TreasuryGain(a)

\* What a settlement is for, and what it is up to the caller's accounts to achieve: the
\* seller is paid, and the item of the terms is the one that is handed over.
PaysSeller(a) == PaysPriceTo(a, Seller(a))

GivesListedItem(a) ==
    /\ itemAt[terms[a].nftMint] = a
    /\ itemAt'[terms[a].nftMint] = highestBidder[a]

Swaps(a) ==
    LET b == <<a, highestBidder[a]>>
    IN  /\ status[a] = "Ended"
        /\ highestBid[a] >= terms[a].reservedPrice
        /\ \E item \in Items :
                itemAt[item] = a /\ itemAt' = [itemAt EXCEPT ![item] = highestBidder[a]]
        /\ escrow[b] = highestBid[a] /\ escrow' = [escrow EXCEPT ![b] = 0]
        /\ ~IsPhysical(a) => \E u \in Users : PaysPriceTo(a, u)

\* Settlement is one exchange: an auction that had ended at its reserve or above gives
\* one item out of its vault to the highest bidder, empties that bidder's vault and no
\* other, and the whole price of a digital item goes to one user and the treasury.
\* Which user that is, and which item of the vault, is up to the bidder who signs.
SettlementIsAtomicSwap == [][\A a \in AuctionIds : Settles(a) => Swaps(a)]_vars

\* A vault is drawn on in two ways only: whole, into the wallet of the losing bidder who
\* owns it, or by the settlement its owner wins.
VaultPaysOwnerOrPrice ==
    [][\A b \in vaults : escrow'[b] < escrow[b] =>
        LET t == terms[b[1]].acceptedToken
        IN  /\ escrow'[b] = 0
            /\ IF b[2] = highestBidder[b[1]]
               THEN Settles(b[1])
               ELSE wallet'[t][b[2]] = wallet[t][b[2]] + escrow[b]
      ]_vars

\* An item that is in the vault of an auction leaves it to that auction's winner only.
ItemLeavesToWinner ==
    [][\A item \in Items : itemAt[item] \in AuctionIds /\ itemAt'[item] # itemAt[item] =>
        /\ Settles(itemAt[item])
        /\ itemAt'[item] = highestBidder[itemAt[item]]
      ]_vars

\* The price of an auction only rises, only while it is active, and once it has ended
\* the price and the winner stand for good.
PriceOnlyRises ==
    [][\A a \in AuctionIds :
        /\ highestBid'[a] >= highestBid[a]
        /\ <<highestBid'[a], highestBidder'[a]>> # <<highestBid[a], highestBidder[a]>> =>
                status[a] = "Active" /\ highestBid'[a] > highestBid[a]
      ]_vars

\* The transitions of auction_status the instructions make.
StatusSteps == {<<"Absent", "Active">>, <<"Absent", "Pending">>,
                <<"Active", "Ended">>, <<"Ended", "Settled">>}

\* An auction moves along those transitions only: it is never reopened, and never
\* settled without having ended.
StatusOnlyForward ==
    [][\A a \in AuctionIds :
        status'[a] # status[a] => <<status[a], status'[a]>> \in StatusSteps]_vars

\* A verdict is given by the authenticator whose report it is, who is registered with
\* some platform at that moment.
VerdictByRegisteredReporter ==
    [][\A a \in AuctionIds :
        authentication'[a].authStatus # authentication[a].authStatus
        /\ authentication'[a].authStatus \in {"Verified", "Rejected"} =>
            /\ authentication[a].reportHash # <<>>
            /\ \E admin \in platforms :
                Contains(registry[admin], authentication[a].authenticator)
      ]_vars

\* The treasury of a platform is drawn on by closing the platform only, whole, and into
\* its admin's wallet; initialising the platform again leaves it as it is.  The wSOL
\* treasury, which all platforms share, is drawn on by none of them.
TreasuryDrainsToAdmin ==
    [][/\ treasurySol' >= treasurySol
       /\ \A admin \in Admins : treasuryUsdc'[admin] < treasuryUsdc[admin] =>
            /\ admin \in platforms \ platforms'
            /\ treasuryUsdc'[admin] = 0
            /\ wallet'[Usdc][admin] = wallet[Usdc][admin] + treasuryUsdc[admin]
      ]_vars

=============================================================================
