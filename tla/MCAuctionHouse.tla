--------------------------- MODULE MCAuctionHouse ---------------------------
(* Instances of AuctionHouse for TLC.                                      *)
EXTENDS AuctionHouse, TLC

CONSTANTS
    ann, bob, cat,  \* users: ann sells, and may bid like bob and cat
    ring, vase,     \* items
    usdc, wsol      \* mints

MCFunds == [t \in Tokens |-> [u \in Users |-> IF u \in Bidders THEN 3 ELSE 0]]

MCFirstHolder == [item \in Items |-> ann]

MCHouseRates == [platform |-> 4, auth |-> 2]

MCHouseAuthenticators == <<bob, cat>>

Listing(item, type, token, starting, reserve, start, end) ==
    [nftMint |-> item, assetType |-> type, acceptedToken |-> token,
     startingBid |-> starting, reservedPrice |-> reserve,
     startDate |-> start, endDate |-> end]

\* One digital item for USDC: its reserve is met by some bids and missed by others.
MCOneListing == {Listing(ring, "DigitalNFT", usdc, 1, 3, 1, 2)}

\* Two items, one for USDC and one for wSOL.
MCTwoDigital ==
    {Listing(ring, "DigitalNFT", usdc, 0, 3, 1, 2),
     Listing(vase, "DigitalNFT", wsol, 0, 2, 2, 3)}

\* One item offered twice; two bids can stay below the second reserve.
MCSameItem ==
    {Listing(ring, "DigitalNFT", usdc, 0, 1, 1, 2),
     Listing(ring, "DigitalNFT", usdc, 0, 3, 2, 3)}

\* A platform without authenticators: bob and cat differ by their names only.
MCNoAuthenticators == <<>>

MCAlikeBidders == Permutations({bob, cat})

=============================================================================
