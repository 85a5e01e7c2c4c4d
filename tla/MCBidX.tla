------------------------------- MODULE MCBidX -------------------------------
(* Instances of BidX for TLC.                                              *)
EXTENDS BidXProperties

CONSTANTS
    ann, bob, cat, dan, \* users
    ring,               \* an item
    usdc, wsol          \* mints

MCFunds == [t \in Tokens |-> [u \in Users |-> IF u \in Bidders THEN 3 ELSE 0]]

MCFirstHolder == [item \in Items |-> ann]

Listing(type, token, starting, reserve, start, end) ==
    [nftMint |-> ring, assetType |-> type, acceptedToken |-> token,
     startingBid |-> starting, reservedPrice |-> reserve,
     startDate |-> start, endDate |-> end]

MCDigital == {Listing("DigitalNFT", usdc, 0, 2, 1, 2),
              Listing("DigitalNFT", wsol, 0, 1, 1, 2)}

MCBothKinds == {Listing("DigitalNFT", usdc, 0, 2, 1, 2),
                Listing("PhysicalRWA", usdc, 0, 2, 1, 2)}

Setup(rate, authRate, min, max, keys) ==
    [rate |-> rate, authRate |-> authRate, min |-> min, max |-> max, keys |-> keys]

\* A platform that charges 40 percent; no authenticators yet.
MCSetups == {Setup(4, 1, 1, 2, <<>>)}

\* A platform that starts with one authenticator.
MCSetupsWithKey == {Setup(1, 1, 1, 2, <<cat>>)}

MCNoKeys == {<<>>}

\* Keys to register, with repetitions, the admin's own and the default key.
MCKeyLists == {<<cat>>, <<dan>>, <<dan, dan>>, <<cat, dan>>, <<ann>>, <<NoKey>>}

\* The report of one zero byte, the empty one, and one of four bytes.
MCReports == {<<>>, <<0>>, <<7, 0, 0, 0>>}

\* Nothing, or enough zero bytes to make up a nonce.
MCTrailings == {<<>>, <<0, 0, 0, 0, 0, 0, 0>>}

=============================================================================
