------------------------------- MODULE MCCli --------------------------------
(* Instances of Cli for TLC.                                               *)
EXTENDS Cli, TLC

CONSTANTS
    ann, bob, cat,      \* users: ann sells, bob and cat bid
    root,               \* runs a platform
    left, right,        \* terminals
    ring, vase, lamp,   \* items
    usdc, wsol,         \* the mints of the treasuries
    gold, silver, tin   \* payment tokens that `create` mints

MCFunds == [t \in Tokens |-> [u \in Users |-> IF u \in {bob, cat} /\ t = usdc THEN 3 ELSE 0]]

MCFirstHolder == [item \in Items |-> ann]

MCMintAuthority == [t \in Tokens |-> IF t \in OtherMints THEN ann ELSE root]

MCMode == [t \in Terminals |-> IF t = left THEN "dashboard" ELSE "direct"]

MCDefaultMode == [t \in Terminals |-> "default"]

\* Sellers create, and bid on what has been created.
MCSelling == <<{"create"}, {"bid"}>>

\* A bidder bids or looks around first, and then bids again or closes.
MCClosing == <<{"bid", "view", "init", "list", "status"}, {"bid", "settle", "withdraw"}>>

MCLooking == <<{"init"}, {"status"}>>

MCEveryWallet == [t \in Terminals |-> {ann, bob}]

MCBobsWallet == [t \in Terminals |-> {bob}]

MCTwoAndOne == [t \in Terminals |-> IF t = left THEN 2 ELSE 1]

MCTwo == [t \in Terminals |-> 2]

Setup(rate, authRate, keys) ==
    [rate |-> rate, authRate |-> authRate, min |-> 1, max |-> 2, keys |-> keys]

MCInitSetup == Setup(4, 2, <<bob>>)

MCNoKeys == {<<>>}

Wish(type, duration) ==
    [assetType |-> type, startingBid |-> 0, reservedPrice |-> 1, duration |-> duration]

\* One that can be listed, and one whose duration was not given.
MCWishes == {Wish("DigitalNFT", 2), Wish("DigitalNFT", NoValue)}

\* A physical item too, and one whose end is not after its start.
MCAllWishes == MCWishes \cup {Wish("PhysicalRWA", 2), Wish("DigitalNFT", 1)}

\* The items and the payment tokens that `create` makes are alike.
MCFreshMints == Permutations(Items) \cup Permutations(OtherMints)

\* One digital item for USDC, listed by other clients.
MCListing ==
    {[nftMint |-> ring, assetType |-> "DigitalNFT", acceptedToken |-> usdc,
      startingBid |-> 0, reservedPrice |-> 1, startDate |-> 1, endDate |-> 2]}

\* The seller's account for USDC; the winner's for the item is yet to be opened.
MCOpened == {<<ann, usdc>>}

=============================================================================
