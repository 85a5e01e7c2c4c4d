--------------------------- MODULE AuctionProofs ----------------------------
(***************************************************************************)
(* Auctions, for any number of users, auctions, bids and platforms.  First *)
(* their money: the vaults hold what the bids say, the leader's is the     *)
(* highest, and no two are equal.  Then their lives: nonce, status, price, *)
(* item, and what may be taken out of a vault.                             *)
(***************************************************************************)
EXTENDS BidXTypeProofs

\* The three invariants are inductive together.  EscrowBacksBids says that on an active
\* auction the bids are the vaults, so that an increase is added to a vault holding the
\* old amount; LeaderHoldsHighestBid says that what outbids the leader outbids all.
EscrowSound == EscrowBacksBids /\ LeaderHoldsHighestBid /\ NoTies

\* The state EscrowSound speaks of.
bidVars == <<status, highestBid, highestBidder, bids, amount, vaults, escrow>>

LEMMA BidUntouched ==
    ASSUME EscrowSound, UNCHANGED bidVars
    PROVE  EscrowSound'
  BY Zenon
  DEF bidVars, EscrowSound, EscrowBacksBids, LeaderHoldsHighestBid, NoTies, BidsOf, Trading

\* A bid account is a pair of its auction and its bidder.
LEMMA BidIdPair ==
    ASSUME NEW b \in BidIds
    PROVE  b = <<b[1], b[2]>> /\ b[1] \in AuctionIds /\ b[2] \in Users
  BY DEF BidIds

LEMMA CreateAuctionSound ==
    ASSUME Typed, EscrowSound, NEW s \in Sellers, NEW admin \in Admins,
           NEW listing \in Terms, CreateAuction(s, admin, listing)
    PROVE  EscrowSound'
  <1> DEFINE a == <<s, auctionCount[s]>>
             first == FirstStatus(listing.assetType)
  <1>1. a \in AuctionIds
    BY SMT, AuctionAssumption
    DEF AuctionIds, CreateAuction, Typed, TypeOK, AuctionTypeOK
  <1>2. \A b \in bids : b[1] # a
    BY DEF CreateAuction, EscrowSound, EscrowBacksBids
  <1>3. /\ status' = [status EXCEPT ![a] = first]
        /\ highestBid' = [highestBid EXCEPT ![a] = 0]
        /\ highestBidder' = [highestBidder EXCEPT ![a] = NoKey]
        /\ UNCHANGED <<bids, amount, vaults, escrow>>
    BY DEF CreateAuction
  <1>4. \A c \in AuctionIds : c # a =>
            status'[c] = status[c] /\ highestBid'[c] = highestBid[c]
            /\ highestBidder'[c] = highestBidder[c]
    BY <1>3 DEF Typed, TypeOK, AuctionTypeOK
  <1>5. highestBid'[a] = 0 /\ highestBidder'[a] = NoKey
    BY <1>1, <1>3 DEF Typed, TypeOK, AuctionTypeOK
  <1>6. bids \subseteq BidIds
    BY DEF Typed, TypeOK, AuctionTypeOK
  <1> HIDE DEF a, first
  <1>7. EscrowBacksBids'
    BY <1>2, <1>3, <1>4, <1>6, BidIdPair DEF EscrowSound, EscrowBacksBids
  <1>8. LeaderHoldsHighestBid'
    BY <1>2, <1>3, <1>4, <1>5 DEF EscrowSound, LeaderHoldsHighestBid, BidsOf, Trading
  <1>9. NoTies'
    BY <1>3 DEF EscrowSound, NoTies
  <1> QED
    BY <1>7, <1>8, <1>9 DEF EscrowSound

\* On an active auction every bid has its vault.
LEMMA OpenBidsHaveVaults ==
    ASSUME EscrowSound, NEW b \in bids, status[b[1]] \in {"Active", "Ended"}
    PROVE  b \in vaults /\ escrow[b] = amount[b]
  BY DEF EscrowSound, EscrowBacksBids

\* An accepted bid is above every other bid on its auction.
LEMMA AcceptedBidIsHighest ==
    ASSUME Typed, EscrowSound, NEW a \in AuctionIds, NEW total \in Nat,
           Trading(a), total > highestBid[a], NEW c \in bids, c[1] = a
    PROVE  amount[c] \in Nat /\ amount[c] < total
  <1>1. c \in BidIds
    BY DEF Typed, TypeOK, AuctionTypeOK
  <1>2. amount[c] \in Nat /\ highestBid[a] \in Nat
    BY <1>1 DEF Typed, TypeOK, AuctionTypeOK
  <1>3. c \in BidsOf(a)
    BY DEF BidsOf
  <1>4. amount[c] <= highestBid[a]
    <2>1. highestBidder[a] # NoKey
      BY <1>3 DEF EscrowSound, LeaderHoldsHighestBid
    <2>2. CASE c[2] = highestBidder[a]
      <3>1. c = <<a, highestBidder[a]>>
        BY <1>1, <2>2, BidIdPair
      <3>2. amount[<<a, highestBidder[a]>>] = highestBid[a]
        BY <2>1 DEF EscrowSound, LeaderHoldsHighestBid
      <3> QED
        BY <1>2, <3>1, <3>2, SMT
    <2>3. CASE c[2] # highestBidder[a]
      <3>1. amount[c] < highestBid[a]
        BY <1>3, <2>1, <2>3 DEF EscrowSound, LeaderHoldsHighestBid
      <3> QED
        BY <1>2, <3>1, SMT
    <2> QED
      BY <2>2, <2>3
  <1> QED
    BY <1>2, <1>4, SMT

LEMMA PlaceBidSound ==
    ASSUME Typed, EscrowSound, NEW a \in AuctionIds, NEW u \in Users,
           NEW x \in Nat, PlaceBid(a, u, x)
    PROVE  EscrowSound'
  <1> DEFINE b == <<a, u>>
             total == NewTotal(b, x)
  <1>1. b \in BidIds /\ u \in Users /\ u # NoKey /\ x \in Nat
    BY AuctionAssumption, RegistryAssumption DEF BidIds
  <1>2. /\ status[a] = "Active"
        /\ total > highestBid[a]
        /\ bids' = bids \cup {b}
        /\ vaults' = vaults \cup {b}
        /\ amount' = [amount EXCEPT ![b] = total]
        /\ escrow' = [escrow EXCEPT ![b] = @ + x]
        /\ highestBid' = [highestBid EXCEPT ![a] = total]
        /\ highestBidder' = [highestBidder EXCEPT ![a] = u]
        /\ UNCHANGED status
    BY DEF PlaceBid, TakesBids, Outbids, Escrowed
  <1>3. total \in Nat
    BY <1>1, SMT DEF NewTotal, Typed, TypeOK, AuctionTypeOK
  <1>4. bids \subseteq BidIds /\ vaults \subseteq BidIds
    BY DEF Typed, TypeOK, AuctionTypeOK
  <1>5. /\ \A c \in BidIds : c # b => amount'[c] = amount[c] /\ escrow'[c] = escrow[c]
        /\ \A c \in AuctionIds : c # a => highestBid'[c] = highestBid[c]
                                          /\ highestBidder'[c] = highestBidder[c]
    BY <1>2 DEF Typed, TypeOK, AuctionTypeOK
  <1>6. amount'[b] = total /\ highestBid'[a] = total /\ highestBidder'[a] = u
    BY <1>1, <1>2 DEF Typed, TypeOK, AuctionTypeOK
  <1>7. escrow'[b] = total
    <2>1. escrow'[b] = escrow[b] + x
      BY <1>1, <1>2 DEF Typed, TypeOK, AuctionTypeOK
    <2>2. CASE b \in bids
      <3>1. escrow[b] = amount[b]
        BY <1>2, <2>2, OpenBidsHaveVaults
      <3> QED
        BY <2>1, <2>2, <3>1 DEF NewTotal
    <2>3. CASE b \notin bids
      <3>1. escrow[b] = 0
        BY <1>1, <2>3 DEF EscrowSound, EscrowBacksBids
      <3> QED
        BY <1>1, <2>1, <2>3, <3>1, SMT DEF NewTotal
    <2> QED
      BY <2>2, <2>3
  <1>8. \A c \in bids : c[1] = a => amount[c] \in Nat /\ amount[c] < total
    BY <1>2, <1>3, AcceptedBidIsHighest DEF Trading
  <1> HIDE DEF total
  <1>9. EscrowBacksBids'
    <2>1. \A c \in bids' : status'[c[1]] \in {"Active", "Ended", "Settled"}
      BY <1>2 DEF EscrowSound, EscrowBacksBids
    <2>2. \A c \in vaults' : c \in bids' /\ escrow'[c] = amount'[c]
      BY <1>2, <1>4, <1>5, <1>6, <1>7 DEF EscrowSound, EscrowBacksBids
    <2>3. \A c \in BidIds \ vaults' : escrow'[c] = 0
      BY <1>2, <1>5 DEF EscrowSound, EscrowBacksBids
    <2>4. \A c \in bids' \ vaults' : status'[c[1]] = "Settled" /\ c[2] = highestBidder'[c[1]]
      <3> SUFFICES ASSUME NEW c \in bids \ vaults, c # b
                   PROVE  status[c[1]] = "Settled" /\ c[2] = highestBidder'[c[1]]
        BY <1>2
      <3>1. status[c[1]] = "Settled" /\ c[2] = highestBidder[c[1]]
        BY DEF EscrowSound, EscrowBacksBids
      <3>2. c[1] # a /\ c[1] \in AuctionIds
        BY <1>2, <1>4, <3>1, BidIdPair
      <3> QED
        BY <1>5, <3>1, <3>2
    <2> QED
      BY <2>1, <2>2, <2>3, <2>4 DEF EscrowBacksBids
  <1>10. LeaderHoldsHighestBid'
    <2> SUFFICES ASSUME NEW d \in AuctionIds, Trading(d)'
                 PROVE  IF highestBidder'[d] = NoKey
                        THEN highestBid'[d] = 0 /\ BidsOf(d)' = {}
                        ELSE /\ <<d, highestBidder'[d]>> \in vaults'
                             /\ amount'[<<d, highestBidder'[d]>>] = highestBid'[d]
                             /\ \A c \in BidsOf(d)' :
                                    c[2] # highestBidder'[d] => amount'[c] < highestBid'[d]
      BY DEF LeaderHoldsHighestBid
    <2>1. CASE d = a
      <3>1. b \in vaults' /\ amount'[b] = highestBid'[a]
        BY <1>2, <1>6
      <3>2. \A c \in BidsOf(a)' : c[2] # u => amount'[c] < total
        BY <1>2, <1>4, <1>5, <1>8 DEF BidsOf
      <3> QED
        BY <1>1, <1>6, <2>1, <3>1, <3>2
    <2>2. CASE d # a
      <3>1. Trading(d) /\ BidsOf(d)' = BidsOf(d)
        BY <1>2, <2>2 DEF Trading, BidsOf
      <3>2. highestBid'[d] = highestBid[d] /\ highestBidder'[d] = highestBidder[d]
        BY <1>5, <2>2
      <3>3. CASE highestBidder[d] = NoKey
        BY <3>1, <3>2, <3>3 DEF EscrowSound, LeaderHoldsHighestBid
      <3>4. CASE highestBidder[d] # NoKey
        <4>1. /\ <<d, highestBidder[d]>> \in vaults
              /\ amount[<<d, highestBidder[d]>>] = highestBid[d]
              /\ \A c \in BidsOf(d) : c[2] # highestBidder[d] => amount[c] < highestBid[d]
          BY <3>1, <3>4 DEF EscrowSound, LeaderHoldsHighestBid
        <4>2. amount'[<<d, highestBidder[d]>>] = amount[<<d, highestBidder[d]>>]
          BY <1>4, <1>5, <2>2, <4>1
        <4>3. \A c \in BidsOf(d) : amount'[c] = amount[c]
          BY <1>4, <1>5, <2>2 DEF BidsOf
        <4> QED
          BY <1>2, <3>1, <3>2, <3>4, <4>1, <4>2, <4>3
      <3> QED
        BY <3>3, <3>4
    <2> QED
      BY <2>1, <2>2
  <1>11. NoTies'
    <2> SUFFICES ASSUME NEW c \in bids', NEW d \in bids', c[1] = d[1], c # d
                 PROVE  amount'[c] # amount'[d]
      BY DEF NoTies
    <2>1. CASE c # b /\ d # b
      BY <1>2, <1>4, <1>5, <2>1 DEF EscrowSound, NoTies
    <2>2. CASE c = b
      <3>1. amount[d] \in Nat /\ amount[d] < total /\ amount'[d] = amount[d]
        BY <1>2, <1>4, <1>5, <1>8, <2>2
      <3> QED
        BY <1>3, <1>6, <2>2, <3>1, SMT
    <2>3. CASE d = b
      <3>1. amount[c] \in Nat /\ amount[c] < total /\ amount'[c] = amount[c]
        BY <1>2, <1>4, <1>5, <1>8, <2>3
      <3> QED
        BY <1>3, <1>6, <2>3, <3>1, SMT
    <2> QED
      BY <2>1, <2>2, <2>3
  <1> QED
    BY <1>9, <1>10, <1>11 DEF EscrowSound

LEMMA EndAuctionSound ==
    ASSUME Typed, EscrowSound, NEW a \in AuctionIds, EndAuction(a)
    PROVE  EscrowSound'
  <1>1. /\ status[a] = "Active"
        /\ status' = [status EXCEPT ![a] = "Ended"]
        /\ UNCHANGED <<highestBid, highestBidder, bids, amount, vaults, escrow>>
    BY DEF EndAuction, MayEnd
  <1>2. status'[a] = "Ended" /\ \A c \in AuctionIds : c # a => status'[c] = status[c]
    BY <1>1 DEF Typed, TypeOK, AuctionTypeOK
  <1>3. \A b \in bids : b[1] \in AuctionIds
    BY DEF Typed, TypeOK, AuctionTypeOK, BidIds
  <1>4. EscrowBacksBids'
    BY <1>1, <1>2, <1>3 DEF EscrowSound, EscrowBacksBids
  <1>5. LeaderHoldsHighestBid'
    BY <1>1, <1>2 DEF EscrowSound, LeaderHoldsHighestBid, BidsOf, Trading
  <1>6. NoTies'
    BY <1>1 DEF EscrowSound, NoTies
  <1> QED
    BY <1>4, <1>5, <1>6 DEF EscrowSound

LEMMA SettleAuctionSound ==
    ASSUME Typed, EscrowSound, NEW a \in AuctionIds, NEW w \in Users, NEW admin \in Admins,
           NEW passed \in Passed,
           SettleAuction(a, w, admin, passed)
    PROVE  EscrowSound'
  <1> DEFINE b == <<a, w>>
  <1>1. /\ status[a] = "Ended"
        /\ w = highestBidder[a]
        /\ escrow' = [escrow EXCEPT ![b] = 0]
        /\ vaults' = vaults \ {b}
        /\ status' = [status EXCEPT ![a] = "Settled"]
        /\ UNCHANGED <<highestBid, highestBidder, bids, amount>>
    BY DEF SettleAuction, MaySettle
  <1>2. b \in BidIds
    BY AuctionAssumption DEF BidIds
  <1>3. bids \subseteq BidIds /\ vaults \subseteq BidIds
    BY DEF Typed, TypeOK, AuctionTypeOK
  <1>4. /\ status'[a] = "Settled"
        /\ \A c \in AuctionIds : c # a => status'[c] = status[c]
        /\ escrow'[b] = 0
        /\ \A c \in BidIds : c # b => escrow'[c] = escrow[c]
    BY <1>1, <1>2 DEF Typed, TypeOK, AuctionTypeOK
  <1>5. EscrowBacksBids'
    <2>1. \A c \in bids' : status'[c[1]] \in {"Active", "Ended", "Settled"}
      BY <1>1, <1>3, <1>4, BidIdPair DEF EscrowSound, EscrowBacksBids
    <2>2. \A c \in vaults' : c \in bids' /\ escrow'[c] = amount'[c]
      BY <1>1, <1>3, <1>4 DEF EscrowSound, EscrowBacksBids
    <2>3. \A c \in BidIds \ vaults' : escrow'[c] = 0
      BY <1>1, <1>4 DEF EscrowSound, EscrowBacksBids
    <2>4. \A c \in bids' \ vaults' : status'[c[1]] = "Settled" /\ c[2] = highestBidder'[c[1]]
      <3> SUFFICES ASSUME NEW c \in bids, c \notin vaults \ {b}
                   PROVE  status'[c[1]] = "Settled" /\ c[2] = highestBidder[c[1]]
        BY <1>1
      <3>1. CASE c = b
        BY <1>1, <1>4, <3>1
      <3>2. CASE c # b
        <4>1. status[c[1]] = "Settled" /\ c[2] = highestBidder[c[1]]
          BY <3>2 DEF EscrowSound, EscrowBacksBids
        <4> QED
          BY <1>1, <1>3, <1>4, <4>1, BidIdPair
      <3> QED
        BY <3>1, <3>2
    <2> QED
      BY <2>1, <2>2, <2>3, <2>4 DEF EscrowBacksBids
  <1>6. LeaderHoldsHighestBid'
    <2> SUFFICES ASSUME NEW d \in AuctionIds, Trading(d)'
                 PROVE  IF highestBidder'[d] = NoKey
                        THEN highestBid'[d] = 0 /\ BidsOf(d)' = {}
                        ELSE /\ <<d, highestBidder'[d]>> \in vaults'
                             /\ amount'[<<d, highestBidder'[d]>>] = highestBid'[d]
                             /\ \A c \in BidsOf(d)' :
                                    c[2] # highestBidder'[d] => amount'[c] < highestBid'[d]
      BY DEF LeaderHoldsHighestBid
    <2>1. d # a /\ Trading(d) /\ BidsOf(d)' = BidsOf(d)
      BY <1>1, <1>4 DEF Trading, BidsOf
    <2>2. <<d, highestBidder[d]>> # b
      BY <2>1
    <2> QED
      BY <1>1, <2>1, <2>2 DEF EscrowSound, LeaderHoldsHighestBid
  <1>7. NoTies'
    BY <1>1 DEF EscrowSound, NoTies
  <1> QED
    BY <1>5, <1>6, <1>7 DEF EscrowSound

LEMMA WithdrawBidSound ==
    ASSUME Typed, EscrowSound, NEW a \in AuctionIds, NEW u \in Users, WithdrawBid(a, u)
    PROVE  EscrowSound'
  <1> DEFINE b == <<a, u>>
  <1>1. /\ u # highestBidder[a]
        /\ b \in bids
        /\ escrow' = [escrow EXCEPT ![b] = 0]
        /\ amount' = [amount EXCEPT ![b] = 0]
        /\ vaults' = vaults \ {b}
        /\ bids' = bids \ {b}
        /\ UNCHANGED <<status, highestBid, highestBidder>>
    BY DEF WithdrawBid, MayWithdraw
  <1>2. bids \subseteq BidIds /\ vaults \subseteq BidIds
    BY DEF Typed, TypeOK, AuctionTypeOK
  <1>3. /\ escrow'[b] = 0
        /\ \A c \in BidIds : c # b => escrow'[c] = escrow[c] /\ amount'[c] = amount[c]
    BY <1>1, <1>2 DEF Typed, TypeOK, AuctionTypeOK
  <1>4. EscrowBacksBids'
    BY <1>1, <1>2, <1>3 DEF EscrowSound, EscrowBacksBids
  <1>5. LeaderHoldsHighestBid'
    <2> SUFFICES ASSUME NEW d \in AuctionIds, Trading(d)'
                 PROVE  IF highestBidder'[d] = NoKey
                        THEN highestBid'[d] = 0 /\ BidsOf(d)' = {}
                        ELSE /\ <<d, highestBidder'[d]>> \in vaults'
                             /\ amount'[<<d, highestBidder'[d]>>] = highestBid'[d]
                             /\ \A c \in BidsOf(d)' :
                                    c[2] # highestBidder'[d] => amount'[c] < highestBid'[d]
      BY DEF LeaderHoldsHighestBid
    <2>1. Trading(d) /\ BidsOf(d)' \subseteq BidsOf(d) /\ b \notin bids'
      BY <1>1 DEF Trading, BidsOf
    <2>2. <<d, highestBidder[d]>> # b
      BY <1>1
    <2>3. CASE highestBidder[d] = NoKey
      BY <1>1, <2>1, <2>3 DEF EscrowSound, LeaderHoldsHighestBid
    <2>4. CASE highestBidder[d] # NoKey
      <3>1. /\ <<d, highestBidder[d]>> \in vaults
            /\ amount[<<d, highestBidder[d]>>] = highestBid[d]
            /\ \A c \in BidsOf(d) : c[2] # highestBidder[d] => amount[c] < highestBid[d]
        BY <2>1, <2>4 DEF EscrowSound, LeaderHoldsHighestBid
      <3>2. <<d, highestBidder[d]>> \in vaults'
            /\ amount'[<<d, highestBidder[d]>>] = highestBid[d]
        BY <1>1, <1>2, <1>3, <2>2, <3>1
      <3>3. \A c \in BidsOf(d)' : amount'[c] = amount[c]
        BY <1>1, <1>2, <1>3 DEF BidsOf
      <3> QED
        BY <1>1, <2>1, <2>4, <3>1, <3>2, <3>3
    <2> QED
      BY <2>3, <2>4
  <1>6. NoTies'
    BY <1>1, <1>2, <1>3 DEF EscrowSound, NoTies
  <1> QED
    BY <1>4, <1>5, <1>6 DEF EscrowSound

----------------------------------------------------------------------------
LEMMA InitSound == AuctionInit => EscrowSound
  <1> SUFFICES ASSUME AuctionInit PROVE EscrowSound
    OBVIOUS
  <1> USE DEF AuctionInit
  <1>1. EscrowBacksBids
    BY DEF EscrowBacksBids
  <1>2. LeaderHoldsHighestBid
    BY DEF LeaderHoldsHighestBid, Trading
  <1>3. NoTies
    BY DEF NoTies
  <1> QED
    BY <1>1, <1>2, <1>3 DEF EscrowSound

LEMMA NextSound == Typed /\ EscrowSound /\ [Next]_vars => EscrowSound'
  <1> SUFFICES ASSUME Typed, EscrowSound, [Next]_vars PROVE EscrowSound'
    OBVIOUS
  <1>1. ASSUME UNCHANGED auctionVars PROVE EscrowSound'
    BY <1>1, BidUntouched DEF auctionVars, bidVars
  <1>2. ASSUME Tick PROVE EscrowSound'
    BY <1>2, BidUntouched DEF Tick, bidVars
  <1>3. ASSUME NEW s \in Sellers, NEW item \in Items, NEW nonce \in 0 .. MaxAuctions - 1,
               DepositItem(s, item, nonce)
        PROVE  EscrowSound'
    BY <1>3, BidUntouched DEF DepositItem, bidVars
  <1>4. ASSUME AuctionNext PROVE EscrowSound'
    <2>1. /\ \A u \in Bidders : u \in Users
          /\ \A x \in BidAmounts : x \in Nat
          /\ \A listing \in Listings : listing \in Terms
      BY AuctionAssumption
    <2> QED
      BY <1>2, <1>3, <1>4, <2>1, CreateAuctionSound, PlaceBidSound, EndAuctionSound,
         SettleAuctionSound, WithdrawBidSound, Zenon
      DEF AuctionNext
  <1>5. ASSUME AuthenticationNext PROVE EscrowSound'
    BY <1>5, BidUntouched
    DEF AuthenticationNext, UploadAuthReport, AttestAuthentication, bidVars
  <1> QED
    BY <1>1, <1>4, <1>5 DEF Next, vars

LEMMA SoundInvariant == Spec => [](Typed /\ EscrowSound)
  <1>1. Init => EscrowSound
    BY InitSound DEF Init
  <1> QED
    BY <1>1, TypingInvariant, NextSound, PTL DEF Spec

\* Whoever bids, increases, ends, settles and withdraws in whatever order, the vault of a
\* bid holds what the bid account says, so a refund can always be paid in full.
THEOREM EscrowIsSound == Spec => []EscrowBacksBids
  BY SoundInvariant, PTL DEF EscrowSound

\* The vault settle_auction draws the price from is the leader's, holds the price, and is
\* the one vault withdraw_bid refuses.
THEOREM LeaderIsSound == Spec => []LeaderHoldsHighestBid
  BY SoundInvariant, PTL DEF EscrowSound

\* Bids on one auction are never equal, so an auction with a bid has one highest bidder.
THEOREM BidsNeverTie == Spec => []NoTies
  BY SoundInvariant, PTL DEF EscrowSound

----------------------------------------------------------------------------
(* The life of an auction                                                  *)

\* The instructions that change what the rest of this module is about are six of the
\* auction's; all the other steps leave it alone.
LEMMA StepCases ==
    ASSUME [Next]_vars
    PROVE  \/ UNCHANGED auctionVars
           \/ Tick
           \/ \E s \in Sellers, item \in Items, nonce \in 0 .. MaxAuctions - 1 :
                DepositItem(s, item, nonce)
           \/ \E s \in Sellers, admin \in Admins, listing \in Listings :
                CreateAuction(s, admin, listing)
           \/ \E a \in AuctionIds, u \in Bidders, x \in BidAmounts : PlaceBid(a, u, x)
           \/ \E a \in AuctionIds : EndAuction(a)
           \/ \E a \in AuctionIds, w \in Bidders, admin \in Admins, passed \in Passed :
                    SettleAuction(a, w, admin, passed)
           \/ \E a \in AuctionIds, u \in Bidders : WithdrawBid(a, u)
           \/ UNCHANGED <<platformVars, now, auctionCount, itemAt, status, authStatus,
                          terms, highestBid, highestBidder, bids, amount, vaults, escrow>>
  <1>1. CASE UNCHANGED vars
    BY <1>1 DEF vars
  <1>2. CASE PlatformNext /\ UNCHANGED auctionVars
    BY <1>2
  <1>3. CASE AuctionNext
    BY <1>3, Zenon DEF AuctionNext
  <1>4. CASE AuthenticationNext
    <2>1. ASSUME NEW a \in AuctionIds, NEW u \in Users, NEW admin \in Admins,
                 NEW report \in Reports, NEW trailing \in Trailings,
                 UploadAuthReport(a, u, admin, report, trailing)
          PROVE  UNCHANGED <<platformVars, now, auctionCount, itemAt, status, authStatus,
                             terms, highestBid, highestBidder, bids, amount, vaults, escrow>>
      BY <2>1 DEF UploadAuthReport
    <2>2. ASSUME NEW a \in AuctionIds, NEW u \in Users, NEW admin \in Admins,
                 NEW approved \in BOOLEAN, NEW trailing \in Trailings,
                 AttestAuthentication(a, u, admin, approved, trailing)
          PROVE  UNCHANGED <<platformVars, now, auctionCount, itemAt, status, authStatus,
                             terms, highestBid, highestBidder, bids, amount, vaults, escrow>>
      BY <2>2 DEF AttestAuthentication
    <2> QED
      BY <1>4, <2>1, <2>2, Zenon DEF AuthenticationNext
  <1> QED
    BY <1>1, <1>2, <1>3, <1>4 DEF Next

----------------------------------------------------------------------------
(* Status                                                                  *)

\* Three instructions write the status of an auction.
LEMMA StatusCases ==
    ASSUME [Next]_vars
    PROVE  \/ UNCHANGED status
           \/ \E s \in Sellers, admin \in Admins, listing \in Listings :
                CreateAuction(s, admin, listing)
           \/ \E a \in AuctionIds : EndAuction(a)
           \/ \E a \in AuctionIds, w \in Bidders, admin \in Admins, passed \in Passed :
                    SettleAuction(a, w, admin, passed)
  BY StepCases, Zenon DEF auctionVars, Tick, DepositItem, PlaceBid, WithdrawBid

\* An auction ends by end_auction only.
LEMMA EndingStep ==
    ASSUME Typed, [Next]_vars, NEW c \in AuctionIds,
           status[c] = "Active", status'[c] = "Ended"
    PROVE  \E a \in AuctionIds : EndAuction(a)
  <1>1. ASSUME NEW s \in Sellers, NEW admin \in Admins, NEW listing \in Listings,
               CreateAuction(s, admin, listing)
        PROVE  FALSE
    <2> DEFINE a == <<s, auctionCount[s]>>
    <2>1. /\ status' = [status EXCEPT ![a] = FirstStatus(listing.assetType)]
          /\ status[a] = "Absent"
      BY <1>1 DEF CreateAuction
    <2> HIDE DEF a
    <2> QED
      BY <2>1 DEF Typed, TypeOK, AuctionTypeOK
  <1>2. ASSUME NEW a \in AuctionIds, NEW w \in Bidders, NEW admin \in Admins,
               NEW passed \in Passed,
               SettleAuction(a, w, admin, passed)
        PROVE  FALSE
    <2>1. status' = [status EXCEPT ![a] = "Settled"] /\ status[a] = "Ended"
      BY <1>2 DEF SettleAuction, MaySettle
    <2> QED
      BY <2>1 DEF Typed, TypeOK, AuctionTypeOK
  <1> QED
    BY <1>1, <1>2, StatusCases

LEMMA StatusStep ==
    ASSUME Typed, [Next]_vars, NEW c \in AuctionIds, status'[c] # status[c]
    PROVE  <<status[c], status'[c]>> \in StatusSteps
  <1> USE DEF StatusSteps
  <1>1. ASSUME NEW s \in Sellers, NEW admin \in Admins, NEW listing \in Listings,
               CreateAuction(s, admin, listing)
        PROVE  <<status[c], status'[c]>> \in StatusSteps
    <2> DEFINE a == <<s, auctionCount[s]>>
    <2>1. status' = [status EXCEPT ![a] = FirstStatus(listing.assetType)]
          /\ status[a] = "Absent"
      BY <1>1 DEF CreateAuction
    <2>2. FirstStatus(listing.assetType) \in {"Active", "Pending"}
      BY DEF FirstStatus
    <2> HIDE DEF a
    <2>3. c = a /\ status'[c] = FirstStatus(listing.assetType)
      BY <2>1 DEF Typed, TypeOK, AuctionTypeOK
    <2> QED
      BY <2>1, <2>2, <2>3
  <1>2. ASSUME NEW a \in AuctionIds, EndAuction(a)
        PROVE  <<status[c], status'[c]>> \in StatusSteps
    <2>1. c = a /\ status[a] = "Active" /\ status'[a] = "Ended"
      BY <1>2 DEF EndAuction, MayEnd, Typed, TypeOK, AuctionTypeOK
    <2> QED
      BY <2>1
  <1>3. ASSUME NEW a \in AuctionIds, NEW w \in Bidders, NEW admin \in Admins,
               NEW passed \in Passed,
               SettleAuction(a, w, admin, passed)
        PROVE  <<status[c], status'[c]>> \in StatusSteps
    <2>1. status' = [status EXCEPT ![a] = "Settled"] /\ status[a] = "Ended"
      BY <1>3 DEF SettleAuction, MaySettle
    <2>2. c = a /\ status'[c] = "Settled"
      BY <2>1 DEF Typed, TypeOK, AuctionTypeOK
    <2> QED
      BY <2>1, <2>2
  <1>4. CASE status' = status
    BY <1>4
  <1>5. \/ UNCHANGED status
        \/ \E s \in Sellers, admin \in Admins, listing \in Listings :
              CreateAuction(s, admin, listing)
        \/ \E a \in AuctionIds : EndAuction(a)
        \/ \E a \in AuctionIds, w \in Bidders, admin \in Admins, passed \in Passed :
                 SettleAuction(a, w, admin, passed)
    BY StatusCases
  <1> QED
    BY <1>1, <1>2, <1>3, <1>4, <1>5

\* An auction is never reopened and never settled without having ended, whatever is
\* called on it however often.
THEOREM StatusMovesForward == Spec => StatusOnlyForward
  <1>1. Typed /\ [Next]_vars =>
            [\A a \in AuctionIds :
                status'[a] # status[a] => <<status[a], status'[a]>> \in StatusSteps]_vars
    BY StatusStep
  <1> QED
    BY <1>1, TypingInvariant, PTL DEF Spec, StatusOnlyForward

----------------------------------------------------------------------------
(* Nonces                                                                  *)

LEMMA CreateAuctionDense ==
    ASSUME Typed, NoncesAreDense, NEW s \in Sellers, NEW admin \in Admins,
           NEW listing \in Listings, CreateAuction(s, admin, listing)
    PROVE  NoncesAreDense'
  <1> DEFINE a == <<s, auctionCount[s]>>
             first == FirstStatus(listing.assetType)
  <1>1. a \in AuctionIds
    BY SMT, AuctionAssumption
    DEF AuctionIds, CreateAuction, Typed, TypeOK, AuctionTypeOK
  <1>2. /\ status' = [status EXCEPT ![a] = first]
        /\ auctionCount' = [auctionCount EXCEPT ![s] = @ + 1]
    BY DEF CreateAuction, NextAuctionCount
  <1>3. first # "Absent"
    BY DEF FirstStatus
  <1>4. auctionCount[s] \in Nat /\ auctionCount'[s] = auctionCount[s] + 1
    BY <1>2 DEF Typed, TypeOK, AuctionTypeOK
  <1> HIDE DEF first
  <1> SUFFICES ASSUME NEW c \in AuctionIds
               PROVE  status'[c] # "Absent" <=> c[2] < auctionCount'[c[1]]
    BY DEF NoncesAreDense, Seller
  <1>5. c = <<c[1], c[2]>> /\ c[1] \in Sellers /\ c[2] \in Nat
    BY SMT, AuctionAssumption DEF AuctionIds
  <1>6. status[c] # "Absent" <=> c[2] < auctionCount[c[1]]
    BY DEF NoncesAreDense, Seller
  <1>7. CASE c = a
    <2>1. status'[c] # "Absent"
      BY <1>1, <1>2, <1>3, <1>7 DEF Typed, TypeOK, AuctionTypeOK
    <2>2. c[1] = s /\ c[2] = auctionCount[s]
      BY <1>7
    <2> HIDE DEF a
    <2> QED
      BY <1>4, <2>1, <2>2, SMT
  <1>8. CASE c # a /\ c[1] = s
    <2>1. status'[c] = status[c]
      BY <1>2, <1>8 DEF Typed, TypeOK, AuctionTypeOK
    <2>2. c[2] # auctionCount[s]
      BY <1>5, <1>8
    <2> HIDE DEF a
    <2>3. c[2] < auctionCount[s] <=> c[2] < auctionCount[s] + 1
      BY <1>4, <1>5, <2>2, SMT
    <2> QED
      BY <1>4, <1>6, <1>8, <2>1, <2>3
  <1>9. CASE c[1] # s
    <2>1. status'[c] = status[c]
      BY <1>2, <1>9 DEF Typed, TypeOK, AuctionTypeOK
    <2>2. auctionCount'[c[1]] = auctionCount[c[1]]
      BY <1>2, <1>5, <1>9 DEF Typed, TypeOK, AuctionTypeOK
    <2> QED
      BY <1>6, <2>1, <2>2
  <1> QED
    BY <1>7, <1>8, <1>9

LEMMA NextDense == Typed /\ NoncesAreDense /\ [Next]_vars => NoncesAreDense'
  <1> SUFFICES ASSUME Typed, NoncesAreDense, [Next]_vars PROVE NoncesAreDense'
    OBVIOUS
  <1>1. CASE \E s \in Sellers, admin \in Admins, listing \in Listings :
                CreateAuction(s, admin, listing)
    BY <1>1, CreateAuctionDense
  <1>2. CASE /\ UNCHANGED auctionCount
             /\ \A c \in AuctionIds : status'[c] # "Absent" <=> status[c] # "Absent"
    BY <1>2 DEF NoncesAreDense
  <1>3. CASE UNCHANGED <<auctionCount, status>>
    BY <1>3 DEF NoncesAreDense
  <1>4. ASSUME NEW a \in AuctionIds, EndAuction(a)
        PROVE  NoncesAreDense'
    <2>1. /\ UNCHANGED auctionCount
          /\ status' = [status EXCEPT ![a] = "Ended"]
          /\ status[a] # "Absent"
      BY <1>4 DEF EndAuction, MayEnd
    <2> QED
      BY <1>2, <2>1 DEF Typed, TypeOK, AuctionTypeOK
  <1>5. ASSUME NEW a \in AuctionIds, NEW w \in Bidders, NEW admin \in Admins,
               NEW passed \in Passed,
               SettleAuction(a, w, admin, passed)
        PROVE  NoncesAreDense'
    <2>1. /\ UNCHANGED auctionCount
          /\ status' = [status EXCEPT ![a] = "Settled"]
          /\ status[a] # "Absent"
      BY <1>5 DEF SettleAuction, MaySettle
    <2> QED
      BY <1>2, <2>1 DEF Typed, TypeOK, AuctionTypeOK
  <1>6. UNCHANGED <<auctionCount, status>>
        \/ (\E s \in Sellers, admin \in Admins, listing \in Listings :
                CreateAuction(s, admin, listing))
        \/ (\E a \in AuctionIds : EndAuction(a))
        \/ (\E a \in AuctionIds, w \in Bidders, admin \in Admins, passed \in Passed :
                  SettleAuction(a, w, admin, passed))
    BY StepCases, Zenon DEF auctionVars, Tick, DepositItem, PlaceBid, WithdrawBid
  <1> QED
    BY <1>1, <1>3, <1>4, <1>5, <1>6

\* The count of a seller and the auctions that exist never get out of step, so the seeds
\* of the next listing are free.
THEOREM NoncesStayDense == Spec => []NoncesAreDense
  <1>1. Init => NoncesAreDense
    <2> SUFFICES ASSUME Init, NEW a \in AuctionIds
                 PROVE  status[a] = "Absent" /\ ~(a[2] < auctionCount[a[1]])
      BY DEF NoncesAreDense, Seller
    <2>1. status[a] = "Absent" /\ auctionCount = [s \in Sellers |-> 0]
      BY DEF Init, AuctionInit
    <2>2. a[1] \in Sellers /\ a[2] \in Nat
      BY SMT, AuctionAssumption DEF AuctionIds
    <2>3. auctionCount[a[1]] = 0
      BY <2>1, <2>2
    <2> QED
      BY <2>1, <2>2, <2>3, SMT
  <1> QED
    BY <1>1, NextDense, TypingInvariant, PTL DEF Spec

----------------------------------------------------------------------------
(* Vaults                                                                  *)

LEMMA VaultStep ==
    ASSUME Typed, EscrowSound, [Next]_vars, NEW b \in vaults, escrow'[b] < escrow[b]
    PROVE  LET t == terms[b[1]].acceptedToken
           IN  /\ escrow'[b] = 0
               /\ IF b[2] = highestBidder[b[1]]
                  THEN Settles(b[1])
                  ELSE wallet'[t][b[2]] = wallet[t][b[2]] + escrow[b]
  <1> DEFINE Goal == LET t == terms[b[1]].acceptedToken
                     IN  /\ escrow'[b] = 0
                         /\ IF b[2] = highestBidder[b[1]]
                            THEN Settles(b[1])
                            ELSE wallet'[t][b[2]] = wallet[t][b[2]] + escrow[b]
  <1>1. b \in BidIds /\ b = <<b[1], b[2]>> /\ escrow[b] \in Nat
    BY BidIdPair DEF Typed, TypeOK, AuctionTypeOK
  <1>2. escrow' # escrow
    BY <1>1, SMT
  <1>3. ASSUME NEW a \in AuctionIds, NEW u \in Bidders, NEW x \in BidAmounts,
               PlaceBid(a, u, x)
        PROVE  Goal
    <2>1. escrow' = [escrow EXCEPT ![<<a, u>>] = @ + x] /\ x \in Nat
      BY <1>3, AuctionAssumption DEF PlaceBid, Escrowed
    <2>2. escrow'[b] = escrow[b] \/ escrow'[b] = escrow[b] + x
      BY <1>1, <2>1 DEF Typed, TypeOK, AuctionTypeOK
    <2>3. ~(escrow'[b] < escrow[b])
      BY <1>1, <2>1, <2>2, SMT
    <2> QED
      BY <2>3
  <1>4. ASSUME NEW a \in AuctionIds, NEW w \in Bidders, NEW admin \in Admins,
               NEW passed \in Passed,
               SettleAuction(a, w, admin, passed)
        PROVE  Goal
    <2>1. /\ status[a] = "Ended" /\ w = highestBidder[a]
          /\ escrow' = [escrow EXCEPT ![<<a, w>>] = 0]
          /\ status' = [status EXCEPT ![a] = "Settled"]
      BY <1>4 DEF SettleAuction, MaySettle
    <2>2. status'[a] = "Settled"
      BY <2>1 DEF Typed, TypeOK, AuctionTypeOK
    <2>3. b = <<a, w>>
      <3>1. b # <<a, w>> => escrow'[b] = escrow[b]
        BY <1>1, <2>1 DEF Typed, TypeOK, AuctionTypeOK
      <3> QED
        BY <1>1, <3>1, SMT
    <2>4. escrow'[b] = 0
      BY <1>1, <2>1, <2>3 DEF Typed, TypeOK, AuctionTypeOK
    <2>5. b[1] = a /\ b[2] = w
      BY <2>3
    <2> QED
      BY <2>1, <2>2, <2>4, <2>5 DEF Settles
  <1>5. ASSUME NEW a \in AuctionIds, NEW u \in Bidders, WithdrawBid(a, u)
        PROVE  Goal
    <2> DEFINE t == terms[a].acceptedToken
    <2>1. /\ u # highestBidder[a]
          /\ status[a] # "Absent"
          /\ escrow' = [escrow EXCEPT ![<<a, u>>] = 0]
          /\ wallet' = Credit(t, u, escrow[<<a, u>>])
      BY <1>5 DEF WithdrawBid, MayWithdraw
    <2>2. b = <<a, u>>
      <3>1. b # <<a, u>> => escrow'[b] = escrow[b]
        BY <1>1, <2>1 DEF Typed, TypeOK, AuctionTypeOK
      <3> QED
        BY <1>1, <3>1, SMT
    <2>3. b[1] = a /\ b[2] = u /\ escrow'[b] = 0
      BY <1>1, <2>1, <2>2 DEF Typed, TypeOK, AuctionTypeOK
    <2>4. wallet'[t][u] = wallet[t][u] + escrow[b]
      <3>1. t \in Tokens /\ u \in Users
        BY <2>1, TermsOfAuction, AuctionAssumption
      <3>2. wallet' = [wallet EXCEPT ![t][u] = @ + escrow[b]]
        BY <2>1, <2>2 DEF Credit
      <3> HIDE DEF t
      <3> QED
        BY <3>1, <3>2 DEF Typed, TypeOK, PlatformTypeOK
    <2> QED
      BY <2>1, <2>3, <2>4
  <1>6. \/ UNCHANGED escrow
        \/ \E a \in AuctionIds, u \in Bidders, x \in BidAmounts : PlaceBid(a, u, x)
        \/ \E a \in AuctionIds, w \in Bidders, admin \in Admins, passed \in Passed :
                 SettleAuction(a, w, admin, passed)
        \/ \E a \in AuctionIds, u \in Bidders : WithdrawBid(a, u)
    BY StepCases, Zenon DEF auctionVars, Tick, DepositItem, CreateAuction, EndAuction
  <1> HIDE DEF Goal
  <1>7. Goal
    BY <1>2, <1>3, <1>4, <1>5, <1>6
  <1> QED
    BY <1>7 DEF Goal

\* Tokens leave the vault of a bid whole, to the bidder who lost or by the settlement the
\* bidder won; no order of increases, withdrawals and settlements takes them elsewhere.
THEOREM VaultsPayOwnerOrPrice == Spec => VaultPaysOwnerOrPrice
  <1>1. Typed /\ EscrowSound /\ [Next]_vars =>
            [\A b \in vaults : escrow'[b] < escrow[b] =>
                LET t == terms[b[1]].acceptedToken
                IN  /\ escrow'[b] = 0
                    /\ IF b[2] = highestBidder[b[1]]
                       THEN Settles(b[1])
                       ELSE wallet'[t][b[2]] = wallet[t][b[2]] + escrow[b]]_vars
    BY VaultStep
  <1> QED
    BY <1>1, SoundInvariant, PTL DEF Spec, VaultPaysOwnerOrPrice

----------------------------------------------------------------------------
(* Items                                                                   *)

LEMMA ItemStep ==
    ASSUME Typed, [Next]_vars, NEW item \in Items, itemAt[item] \in AuctionIds,
           itemAt'[item] # itemAt[item]
    PROVE  Settles(itemAt[item]) /\ itemAt'[item] = highestBidder[itemAt[item]]
  <1>1. ASSUME NEW s \in Sellers, NEW i \in Items, NEW nonce \in 0 .. MaxAuctions - 1,
               DepositItem(s, i, nonce)
        PROVE  FALSE
    <2>1. itemAt[i] = s /\ itemAt' = [itemAt EXCEPT ![i] = <<s, nonce>>]
      BY <1>1 DEF DepositItem
    <2>2. s \notin AuctionIds
      BY AuctionAssumption, AddressAssumption
    <2>3. item # i
      BY <2>1, <2>2
    <2> QED
      BY <2>1, <2>3 DEF Typed, TypeOK, AuctionTypeOK
  <1>2. ASSUME NEW a \in AuctionIds, NEW w \in Bidders, NEW admin \in Admins,
               NEW passed \in Passed,
               SettleAuction(a, w, admin, passed)
        PROVE  Settles(itemAt[item]) /\ itemAt'[item] = highestBidder[itemAt[item]]
    <2>1. /\ status[a] = "Ended" /\ w = highestBidder[a]
          /\ itemAt[passed.item] = a
          /\ itemAt' = [itemAt EXCEPT ![passed.item] = w]
          /\ status' = [status EXCEPT ![a] = "Settled"]
      BY <1>2 DEF SettleAuction, MaySettle, ItemInVault
    <2>2. item = passed.item
      BY <2>1 DEF Typed, TypeOK, AuctionTypeOK
    <2>3. itemAt[item] = a /\ itemAt'[item] = w /\ status'[a] = "Settled"
      BY <2>1, <2>2 DEF Typed, TypeOK, AuctionTypeOK
    <2> QED
      BY <2>1, <2>3 DEF Settles
  <1>3. \/ UNCHANGED itemAt
        \/ \E s \in Sellers, i \in Items, nonce \in 0 .. MaxAuctions - 1 :
              DepositItem(s, i, nonce)
        \/ \E a \in AuctionIds, w \in Bidders, admin \in Admins, passed \in Passed :
                 SettleAuction(a, w, admin, passed)
    BY StepCases, Zenon
    DEF auctionVars, Tick, CreateAuction, PlaceBid, EndAuction, WithdrawBid
  <1> QED
    BY <1>1, <1>2, <1>3

\* An item in the vault of an auction leaves it by the settlement of that auction and to
\* its highest bidder, also when other auctions name the same item.
THEOREM ItemsLeaveToWinner == Spec => ItemLeavesToWinner
  <1>1. Typed /\ [Next]_vars =>
            [\A item \in Items :
                itemAt[item] \in AuctionIds /\ itemAt'[item] # itemAt[item] =>
                    /\ Settles(itemAt[item])
                    /\ itemAt'[item] = highestBidder[itemAt[item]]]_vars
    BY ItemStep
  <1> QED
    BY <1>1, TypingInvariant, PTL DEF Spec, ItemLeavesToWinner

----------------------------------------------------------------------------
(* Price                                                                   *)

\* Before an auction opens nobody leads it: create_auction sets the price of an auction
\* to what it was.  (What PriceOnlyRises needs of the states.)
NobodyLeadsUnopened ==
    \A a \in AuctionIds :
        status[a] = "Absent" => highestBid[a] = 0 /\ highestBidder[a] = NoKey

\* Two instructions write the price; settling, the longest of the others, leaves it alone.
LEMMA PriceCases ==
    ASSUME [Next]_vars
    PROVE  \/ UNCHANGED <<highestBid, highestBidder>>
           \/ \E s \in Sellers, admin \in Admins, listing \in Listings :
                CreateAuction(s, admin, listing)
           \/ \E a \in AuctionIds, u \in Bidders, x \in BidAmounts : PlaceBid(a, u, x)
  <1>1. ASSUME NEW a \in AuctionIds, NEW w \in Bidders, NEW admin \in Admins,
               NEW passed \in Passed,
               SettleAuction(a, w, admin, passed)
        PROVE  UNCHANGED <<highestBid, highestBidder>>
    BY <1>1 DEF SettleAuction
  <1>2. ASSUME NEW a \in AuctionIds, NEW u \in Bidders, WithdrawBid(a, u)
        PROVE  UNCHANGED <<highestBid, highestBidder>>
    BY <1>2 DEF WithdrawBid
  <1>3. ASSUME NEW a \in AuctionIds, EndAuction(a)
        PROVE  UNCHANGED <<highestBid, highestBidder>>
    BY <1>3 DEF EndAuction
  <1>4. ASSUME NEW s \in Sellers, NEW item \in Items, NEW nonce \in 0 .. MaxAuctions - 1,
               DepositItem(s, item, nonce)
        PROVE  UNCHANGED <<highestBid, highestBidder>>
    BY <1>4 DEF DepositItem
  <1>5. CASE Tick
    BY <1>5 DEF Tick
  <1>6. CASE UNCHANGED auctionVars
    BY <1>6 DEF auctionVars
  <1> QED
    BY StepCases, <1>1, <1>2, <1>3, <1>4, <1>5, <1>6, Zenon

LEMMA NextUnopened == Typed /\ NobodyLeadsUnopened /\ [Next]_vars => NobodyLeadsUnopened'
  <1> SUFFICES ASSUME Typed, NobodyLeadsUnopened, [Next]_vars, NEW c \in AuctionIds,
                      status'[c] = "Absent"
               PROVE  highestBid'[c] = 0 /\ highestBidder'[c] = NoKey
    BY DEF NobodyLeadsUnopened
  <1>1. status[c] = "Absent"
    BY StatusStep DEF StatusSteps
  <1>2. highestBid[c] = 0 /\ highestBidder[c] = NoKey
    BY <1>1 DEF NobodyLeadsUnopened
  <1>3. ASSUME NEW s \in Sellers, NEW admin \in Admins, NEW listing \in Listings,
               CreateAuction(s, admin, listing)
        PROVE  highestBid'[c] = 0 /\ highestBidder'[c] = NoKey
    <2>1. /\ highestBid' = [highestBid EXCEPT ![<<s, auctionCount[s]>>] = 0]
          /\ highestBidder' = [highestBidder EXCEPT ![<<s, auctionCount[s]>>] = NoKey]
      BY <1>3 DEF CreateAuction
    <2> QED
      BY <1>2, <2>1 DEF Typed, TypeOK, AuctionTypeOK
  <1>4. ASSUME NEW a \in AuctionIds, NEW u \in Bidders, NEW x \in BidAmounts,
               PlaceBid(a, u, x)
        PROVE  highestBid'[c] = 0 /\ highestBidder'[c] = NoKey
    <2>1. /\ status[a] = "Active"
          /\ highestBid' = [highestBid EXCEPT ![a] = NewTotal(<<a, u>>, x)]
          /\ highestBidder' = [highestBidder EXCEPT ![a] = u]
      BY <1>4 DEF PlaceBid, TakesBids
    <2>2. c # a
      BY <1>1, <2>1
    <2> QED
      BY <1>2, <2>1, <2>2 DEF Typed, TypeOK, AuctionTypeOK
  <1>5. \/ UNCHANGED <<highestBid, highestBidder>>
        \/ \E s \in Sellers, admin \in Admins, listing \in Listings :
              CreateAuction(s, admin, listing)
        \/ \E a \in AuctionIds, u \in Bidders, x \in BidAmounts : PlaceBid(a, u, x)
    BY PriceCases
  <1> QED
    BY <1>2, <1>3, <1>4, <1>5

LEMMA PriceStep ==
    ASSUME Typed, NobodyLeadsUnopened, [Next]_vars, NEW c \in AuctionIds
    PROVE  /\ highestBid'[c] >= highestBid[c]
           /\ <<highestBid'[c], highestBidder'[c]>> # <<highestBid[c], highestBidder[c]>> =>
                    status[c] = "Active" /\ highestBid'[c] > highestBid[c]
  <1> DEFINE Stands == highestBid'[c] = highestBid[c] /\ highestBidder'[c] = highestBidder[c]
             Rises == status[c] = "Active" /\ highestBid'[c] > highestBid[c]
                      /\ highestBid'[c] \in Nat
  <1>1. highestBid[c] \in Nat
    BY DEF Typed, TypeOK, AuctionTypeOK
  <1>2. ASSUME NEW s \in Sellers, NEW admin \in Admins, NEW listing \in Listings,
               CreateAuction(s, admin, listing)
        PROVE  Stands
    <2> DEFINE a == <<s, auctionCount[s]>>
    <2>1. /\ status[a] = "Absent"
          /\ highestBid' = [highestBid EXCEPT ![a] = 0]
          /\ highestBidder' = [highestBidder EXCEPT ![a] = NoKey]
      BY <1>2 DEF CreateAuction
    <2>2. c = a => highestBid[c] = 0 /\ highestBidder[c] = NoKey
      BY <2>1 DEF NobodyLeadsUnopened
    <2> HIDE DEF a
    <2> QED
      BY <2>1, <2>2 DEF Typed, TypeOK, AuctionTypeOK
  <1>3. ASSUME NEW a \in AuctionIds, NEW u \in Bidders, NEW x \in BidAmounts,
               PlaceBid(a, u, x)
        PROVE  Stands \/ Rises
    <2> DEFINE total == NewTotal(<<a, u>>, x)
    <2>1. /\ status[a] = "Active" /\ total > highestBid[a]
          /\ highestBid' = [highestBid EXCEPT ![a] = total]
          /\ highestBidder' = [highestBidder EXCEPT ![a] = u]
      BY <1>3 DEF PlaceBid, TakesBids, Outbids
    <2>2. highestBid' \in [AuctionIds -> Nat]
      BY <1>3, PlaceBidTyping, AuctionAssumption DEF Typed, TypeOK, AuctionTypeOK
    <2> HIDE DEF total
    <2>3. CASE c = a
      BY <2>1, <2>2, <2>3 DEF Typed, TypeOK, AuctionTypeOK
    <2>4. CASE c # a
      BY <2>1, <2>4 DEF Typed, TypeOK, AuctionTypeOK
    <2> QED
      BY <2>3, <2>4
  <1>4. \/ UNCHANGED <<highestBid, highestBidder>>
        \/ \E s \in Sellers, admin \in Admins, listing \in Listings :
              CreateAuction(s, admin, listing)
        \/ \E a \in AuctionIds, u \in Bidders, x \in BidAmounts : PlaceBid(a, u, x)
    BY PriceCases
  <1>5. Stands \/ Rises
    <2>1. CASE UNCHANGED <<highestBid, highestBidder>>
      BY <2>1
    <2> HIDE DEF Stands, Rises
    <2> QED
      BY <1>2, <1>3, <1>4, <2>1
  <1> QED
    BY <1>1, <1>5, SMT

\* The price rises while the auction is active and never otherwise; what an auction ended
\* at, and who won it, is what is settled.
THEOREM PriceRises == Spec => PriceOnlyRises
  <1>1. Init => NobodyLeadsUnopened
    BY DEF Init, AuctionInit, NobodyLeadsUnopened
  <1>2. Spec => []NobodyLeadsUnopened
    BY <1>1, NextUnopened, TypingInvariant, PTL DEF Spec
  <1>3. Typed /\ NobodyLeadsUnopened /\ [Next]_vars =>
            [\A a \in AuctionIds :
                /\ highestBid'[a] >= highestBid[a]
                /\ <<highestBid'[a], highestBidder'[a]>> # <<highestBid[a], highestBidder[a]>> =>
                        status[a] = "Active" /\ highestBid'[a] > highestBid[a]]_vars
    BY PriceStep
  <1> QED
    BY <1>2, <1>3, TypingInvariant, PTL DEF Spec, PriceOnlyRises

----------------------------------------------------------------------------
(* End dates                                                               *)

\* The clock and the terms of an auction that exists move in one direction only.
LEMMA ClockStep ==
    ASSUME Typed, [Next]_vars
    PROVE  /\ now \in Nat /\ now' \in Nat /\ now' >= now
           /\ \A c \in AuctionIds : status[c] # "Absent" => terms'[c] = terms[c]
  <1>1. now \in Nat
    BY DEF Typed, TypeOK, AuctionTypeOK
  <1>2. ASSUME NEW s \in Sellers, NEW admin \in Admins, NEW listing \in Listings,
               CreateAuction(s, admin, listing)
        PROVE  now' = now /\ \A c \in AuctionIds : status[c] # "Absent" => terms'[c] = terms[c]
    <2> DEFINE a == <<s, auctionCount[s]>>
    <2>1. now' = now /\ status[a] = "Absent" /\ terms' = [terms EXCEPT ![a] = listing]
      BY <1>2 DEF CreateAuction
    <2> HIDE DEF a
    <2> QED
      BY <2>1 DEF Typed, TypeOK, AuctionTypeOK
  <1>3. ASSUME NEW a \in AuctionIds, NEW w \in Bidders, NEW admin \in Admins,
               NEW passed \in Passed,
               SettleAuction(a, w, admin, passed)
        PROVE  UNCHANGED <<now, terms>>
    BY <1>3 DEF SettleAuction
  <1>4. ASSUME NEW a \in AuctionIds, NEW u \in Bidders, WithdrawBid(a, u)
        PROVE  UNCHANGED <<now, terms>>
    BY <1>4 DEF WithdrawBid
  <1>5. ASSUME NEW a \in AuctionIds, EndAuction(a)
        PROVE  UNCHANGED <<now, terms>>
    BY <1>5 DEF EndAuction
  <1>6. ASSUME NEW s \in Sellers, NEW item \in Items, NEW nonce \in 0 .. MaxAuctions - 1,
               DepositItem(s, item, nonce)
        PROVE  UNCHANGED <<now, terms>>
    BY <1>6 DEF DepositItem
  <1>7. ASSUME NEW a \in AuctionIds, NEW u \in Bidders, NEW x \in BidAmounts,
               PlaceBid(a, u, x)
        PROVE  UNCHANGED <<now, terms>>
    BY <1>7 DEF PlaceBid
  <1>8. CASE Tick
    BY <1>1, <1>8 DEF Tick
  <1>9. CASE UNCHANGED <<now, terms>>
    BY <1>1, <1>9
  <1>10. UNCHANGED auctionVars => UNCHANGED <<now, terms>>
    BY DEF auctionVars
  <1>11. \/ UNCHANGED <<now, terms>>
         \/ Tick
         \/ \E s \in Sellers, admin \in Admins, listing \in Listings :
              CreateAuction(s, admin, listing)
    BY StepCases, <1>3, <1>4, <1>5, <1>6, <1>7, <1>10, Zenon
  <1> QED
    BY <1>1, <1>2, <1>8, <1>9, <1>11

LEMMA NextClosed == Typed /\ ClosedOnlyAfterEndDate /\ [Next]_vars => ClosedOnlyAfterEndDate'
  <1> SUFFICES ASSUME Typed, ClosedOnlyAfterEndDate, [Next]_vars, NEW c \in AuctionIds,
                      status'[c] \in {"Ended", "Settled"}
               PROVE  now' >= terms'[c].endDate
    BY DEF ClosedOnlyAfterEndDate
  <1>1. status[c] # "Absent"
    <2>1. CASE status'[c] = status[c]
      BY <2>1
    <2>2. CASE status'[c] # status[c]
      BY <2>2, StatusStep DEF StatusSteps
    <2> QED
      BY <2>1, <2>2
  <1>2. terms'[c] = terms[c] /\ terms[c].endDate \in Int
    BY <1>1, ClockStep DEF Typed, TermsOK, Terms
  <1>3. now \in Nat /\ now' \in Nat /\ now' >= now
    BY ClockStep
  <1>4. now >= terms[c].endDate
    <2>1. CASE status[c] \in {"Ended", "Settled"}
      BY <2>1 DEF ClosedOnlyAfterEndDate
    <2>2. CASE status[c] \notin {"Ended", "Settled"}
      <3>1. status'[c] = "Ended" /\ status[c] = "Active"
        BY <2>2, StatusStep DEF StatusSteps
      <3>2. \E a \in AuctionIds : EndAuction(a)
        BY <3>1, EndingStep
      <3> QED
        BY <3>1, <3>2 DEF EndAuction, MayEnd, Typed, TypeOK, AuctionTypeOK
    <2> QED
      BY <2>1, <2>2
  <1> QED
    BY <1>2, <1>3, <1>4, SMT

\* Nobody can close the bidding of an auction, or settle it, before its end date.
THEOREM BiddingStaysOpen == Spec => []ClosedOnlyAfterEndDate
  <1>1. Init => ClosedOnlyAfterEndDate
    BY DEF Init, AuctionInit, ClosedOnlyAfterEndDate
  <1> QED
    BY <1>1, NextClosed, TypingInvariant, PTL DEF Spec

=============================================================================
