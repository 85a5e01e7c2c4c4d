---------------------------- MODULE ExchangeProofs ----------------------------
(***************************************************************************)
(* The program implements Exchange, for any number of users, auctions,     *)
(* bids and platforms: each instruction is one step of the abstract        *)
(* exchange, or none.                                                      *)
(***************************************************************************)
EXTENDS AuctionProofs, AuctionHouse

\* Whoever leads an auction has bid something.
\* (It makes the leader's stake higher than that of somebody who has none.)
LeadersHaveBid == \A a \in AuctionIds : highestBidder[a] # NoKey => highestBid[a] > 0

LEMMA InitLeaders == AuctionInit => NobodyLeadsUnopened /\ LeadersHaveBid
  BY DEF AuctionInit, NobodyLeadsUnopened, LeadersHaveBid

LEMMA NextLeadersHaveBid ==
    Typed /\ NobodyLeadsUnopened /\ LeadersHaveBid /\ [Next]_vars => LeadersHaveBid'
  <1> SUFFICES ASSUME Typed, NobodyLeadsUnopened, LeadersHaveBid, [Next]_vars,
                      NEW a \in AuctionIds, highestBidder'[a] # NoKey
               PROVE  highestBid'[a] > 0
    BY DEF LeadersHaveBid
  <1>1. highestBid[a] \in Nat /\ highestBid'[a] \in Nat
    BY NextTyping DEF Typed, TypeOK, AuctionTypeOK
  <1>2. \/ highestBid'[a] = highestBid[a] /\ highestBidder'[a] = highestBidder[a]
        \/ highestBid'[a] > highestBid[a]
    BY PriceStep
  <1> QED
    BY <1>1, <1>2, SMT DEF LeadersHaveBid

\* What the refinement needs of the states.
Ready == Typed /\ EscrowSound /\ LeadersHaveBid

LEMMA ReadyInvariant == Spec => []Ready
  <1>1. Init => NobodyLeadsUnopened /\ LeadersHaveBid
    BY InitLeaders DEF Init
  <1> QED
    BY <1>1, NextUnopened, NextLeadersHaveBid, SoundInvariant, PTL DEF Spec, Ready

----------------------------------------------------------------------------
(* Stakes                                                                  *)

\* A stake is the amount of a bid in its vault, or nothing.
LEMMA StakeValue ==
    ASSUME Ready, NEW a \in AuctionIds, NEW u \in Users
    PROVE  /\ stakeBar[a][u] = escrow[<<a, u>>]
           /\ stakeBar[a][u] \in Nat
           /\ \/ stakeBar[a][u] = 0
              \/ <<a, u>> \in bids /\ stakeBar[a][u] = amount[<<a, u>>]
  <1>1. <<a, u>> \in BidIds
    BY DEF BidIds
  <1>2. escrow[<<a, u>>] \in Nat
    BY <1>1 DEF Ready, Typed, TypeOK, AuctionTypeOK
  <1>3. CASE <<a, u>> \in vaults
    BY <1>2, <1>3 DEF Ready, EscrowSound, EscrowBacksBids, stakeBar
  <1>4. CASE <<a, u>> \notin vaults
    BY <1>1, <1>2, <1>4 DEF Ready, EscrowSound, EscrowBacksBids, stakeBar
  <1> QED
    BY <1>3, <1>4

\* Of a trading auction, highest_bidder is who leads by the stakes, and highest_bid is
\* that stake: the two cached fields say nothing the stakes do not say.
LEMMA LeaderLeads ==
    ASSUME Ready, NEW a \in AuctionIds, Trading(a), highestBidder[a] # NoKey
    PROVE  /\ highestBidder[a] \in Users
           /\ stakeBar[a][highestBidder[a]] = highestBid[a]
           /\ \A v \in Users \ {highestBidder[a]} : stakeBar[a][v] < highestBid[a]
  <1> DEFINE w == highestBidder[a]
  <1>1. /\ <<a, w>> \in vaults
        /\ amount[<<a, w>>] = highestBid[a]
        /\ \A b \in BidsOf(a) : b[2] # w => amount[b] < highestBid[a]
    BY DEF Ready, EscrowSound, LeaderHoldsHighestBid
  <1>2. w \in Users
    BY <1>1, BidIdPair DEF Ready, Typed, TypeOK, AuctionTypeOK
  <1>3. stakeBar[a][w] = highestBid[a]
    <2>1. escrow[<<a, w>>] = highestBid[a]
      BY <1>1 DEF Ready, EscrowSound, EscrowBacksBids
    <2> QED
      BY <1>2, <2>1, StakeValue
  <1>4. ASSUME NEW v \in Users \ {w} PROVE stakeBar[a][v] < highestBid[a]
    <2>1. CASE stakeBar[a][v] = 0
      BY <2>1 DEF Ready, LeadersHaveBid
    <2>2. CASE <<a, v>> \in bids /\ stakeBar[a][v] = amount[<<a, v>>]
      <3>1. <<a, v>> \in BidsOf(a)
        BY <2>2 DEF BidsOf
      <3> QED
        BY <1>1, <2>2, <3>1
    <2> QED
      BY <2>1, <2>2, StakeValue
  <1> QED
    BY <1>2, <1>3, <1>4

\* Every stake of a trading auction is at most its highest bid.
LEMMA StakesBelowPrice ==
    ASSUME Ready, NEW a \in AuctionIds, Trading(a), NEW v \in Users
    PROVE  stakeBar[a][v] <= highestBid[a]
  <1>1. highestBid[a] \in Nat /\ stakeBar[a][v] \in Nat
    BY StakeValue DEF Ready, Typed, TypeOK, AuctionTypeOK
  <1>2. CASE highestBidder[a] = NoKey
    <2>1. highestBid[a] = 0 /\ BidsOf(a) = {}
      BY <1>2 DEF Ready, EscrowSound, LeaderHoldsHighestBid
    <2>2. <<a, v>> \notin bids
      BY <2>1 DEF BidsOf
    <2>3. stakeBar[a][v] = 0
      BY <2>2, StakeValue
    <2> QED
      BY <2>1, <2>3, SMT
  <1>3. CASE highestBidder[a] # NoKey
    <2>1. stakeBar[a][v] = highestBid[a] \/ stakeBar[a][v] < highestBid[a]
      BY <1>3, LeaderLeads
    <2> QED
      BY <1>1, <2>1, SMT
  <1> QED
    BY <1>2, <1>3

----------------------------------------------------------------------------
(* Steps                                                                   *)

absVars == <<phaseBar, reserveBar, stakeBar, buyerBar>>

\* Writing the balance of a vault writes that stake and no other.
LEMMA VaultWritten ==
    ASSUME Ready, NEW a \in AuctionIds, NEW u \in Users, NEW balance,
           escrow' = [escrow EXCEPT ![<<a, u>>] = balance]
    PROVE  stakeBar' = [stakeBar EXCEPT ![a][u] = balance]
  <1>1. \A c \in AuctionIds, v \in Users :
            escrow'[<<c, v>>] = IF c = a /\ v = u THEN balance ELSE escrow[<<c, v>>]
    BY DEF BidIds, Ready, Typed, TypeOK, AuctionTypeOK
  <1> DEFINE row(c) == [v \in Users |-> escrow[<<c, v>>]]
  <1>2. \A c \in AuctionIds :
            [v \in Users |-> escrow'[<<c, v>>]]
                = IF c = a THEN [row(c) EXCEPT ![u] = balance] ELSE row(c)
    BY <1>1
  <1>3. stakeBar = [c \in AuctionIds |-> row(c)]
    BY DEF stakeBar
  <1> HIDE DEF row
  <1>4. stakeBar' = [c \in AuctionIds |->
                        IF c = a THEN [row(c) EXCEPT ![u] = balance] ELSE row(c)]
    BY <1>2 DEF stakeBar
  <1> QED
    BY <1>3, <1>4

LEMMA CreateAuctionIsList ==
    ASSUME Ready, NEW s \in Sellers, NEW admin \in Admins, NEW listing \in Listings,
           CreateAuction(s, admin, listing)
    PROVE  \E a \in AuctionIds : Promise!List(a)
  <1> DEFINE a == <<s, auctionCount[s]>>
             first == FirstStatus(listing.assetType)
  <1>1. a \in AuctionIds
    BY SMT, AuctionAssumption
    DEF AuctionIds, CreateAuction, Ready, Typed, TypeOK, AuctionTypeOK
  <1>2. /\ status[a] = "Absent"
        /\ status' = [status EXCEPT ![a] = first]
        /\ terms' = [terms EXCEPT ![a] = listing]
        /\ highestBidder' = [highestBidder EXCEPT ![a] = NoKey]
        /\ UNCHANGED escrow
    BY DEF CreateAuction
  <1>3. first \in {"Active", "Pending"}
    BY DEF FirstStatus
  <1>4. listing # NoTerms /\ listing.reservedPrice \in Nat
    BY AuctionAssumption DEF Terms
  <1> HIDE DEF a, first
  <1> USE DEF Ready, Typed, TypeOK, AuctionTypeOK
  <1>5. phaseBar[a] = "unlisted"
    BY <1>1, <1>2 DEF phaseBar, PhaseOf
  <1>6. phaseBar' = [phaseBar EXCEPT ![a] = PhaseOf(first)]
    BY <1>1, <1>2 DEF phaseBar
  <1>7. PhaseOf(first) \in {"open", "held"}
    BY <1>3 DEF PhaseOf
  <1>8. reserveBar' = [reserveBar EXCEPT ![a] = listing.reservedPrice]
    BY <1>1, <1>2, <1>4 DEF reserveBar
  <1>9. reserveBar'[a] = listing.reservedPrice
    BY <1>1, <1>8 DEF reserveBar
  <1>10. UNCHANGED stakeBar
    BY <1>2 DEF stakeBar
  <1>11. UNCHANGED buyerBar
    BY <1>1, <1>2, <1>3 DEF buyerBar
  <1>12. Promise!List(a)
    BY <1>4, <1>5, <1>6, <1>7, <1>8, <1>9, <1>10, <1>11
    DEF Promise!List, Promise!Moves
  <1> QED
    BY <1>1, <1>12

LEMMA PlaceBidIsRaise ==
    ASSUME Ready, NEW a \in AuctionIds, NEW u \in Bidders, NEW x \in BidAmounts,
           PlaceBid(a, u, x)
    PROVE  u \in Users /\ Promise!Raise(a, u)
  <1> DEFINE b == <<a, u>>
             total == NewTotal(b, x)
  <1>1. u \in Users /\ x \in Nat /\ b \in BidIds
    BY AuctionAssumption DEF BidIds
  <1>2. /\ status[a] = "Active"
        /\ total > highestBid[a]
        /\ escrow' = [escrow EXCEPT ![b] = @ + x]
        /\ UNCHANGED <<status, terms>>
    BY DEF PlaceBid, TakesBids, Outbids, Escrowed
  <1>3. highestBid[a] \in Nat /\ total \in Nat
    BY <1>1, SMT DEF NewTotal, Ready, Typed, TypeOK, AuctionTypeOK
  <1>4. escrow[b] + x = total
    <2>1. CASE b \in bids
      BY <1>2, <2>1, OpenBidsHaveVaults DEF NewTotal, Ready
    <2>2. CASE b \notin bids
      <3>1. escrow[b] = 0
        BY <1>1, <2>2 DEF Ready, EscrowSound, EscrowBacksBids
      <3> QED
        BY <1>1, <2>2, <3>1, SMT DEF NewTotal
    <2> QED
      BY <2>1, <2>2
  <1> HIDE DEF total
  <1>5. escrow' = [escrow EXCEPT ![b] = total]
    BY <1>2, <1>4
  <1>6. stakeBar' = [stakeBar EXCEPT ![a][u] = total]
    BY <1>1, <1>5, VaultWritten
  <1>7. stakeBar'[a][u] = total
    BY <1>1, <1>6 DEF stakeBar
  <1>8. \A v \in Users : total > stakeBar[a][v]
    <2> SUFFICES ASSUME NEW v \in Users PROVE total > stakeBar[a][v]
      OBVIOUS
    <2>1. stakeBar[a][v] \in Nat /\ stakeBar[a][v] <= highestBid[a]
      BY <1>2, StakeValue, StakesBelowPrice DEF Trading
    <2> QED
      BY <1>2, <1>3, <2>1, SMT
  <1>9. phaseBar[a] = "open"
    BY <1>2 DEF phaseBar, PhaseOf
  <1>10. UNCHANGED <<phaseBar, reserveBar>>
    BY <1>2 DEF phaseBar, reserveBar
  <1>11. UNCHANGED buyerBar
    <2>1. highestBidder' = [highestBidder EXCEPT ![a] = u]
      BY DEF PlaceBid
    <2> QED
      BY <1>2, <2>1 DEF buyerBar, Ready, Typed, TypeOK, AuctionTypeOK
  <1> QED
    BY <1>1, <1>6, <1>7, <1>8, <1>9, <1>10, <1>11 DEF Promise!Raise

LEMMA EndAuctionIsClose ==
    ASSUME Ready, NEW a \in AuctionIds, EndAuction(a)
    PROVE  Promise!Close(a)
  <1>1. /\ status[a] = "Active"
        /\ status' = [status EXCEPT ![a] = "Ended"]
        /\ UNCHANGED <<terms, highestBidder, escrow>>
    BY DEF EndAuction, MayEnd
  <1> USE DEF Ready, Typed, TypeOK, AuctionTypeOK
  <1>2. phaseBar[a] = "open" /\ phaseBar' = [phaseBar EXCEPT ![a] = "closed"]
    BY <1>1 DEF phaseBar, PhaseOf
  <1>3. UNCHANGED <<reserveBar, stakeBar>>
    BY <1>1 DEF reserveBar, stakeBar
  <1>4. UNCHANGED buyerBar
    BY <1>1 DEF buyerBar
  <1> QED
    BY <1>2, <1>3, <1>4 DEF Promise!Close, Promise!Moves

LEMMA SettleAuctionIsSell ==
    ASSUME Ready, NEW a \in AuctionIds, NEW w \in Bidders, NEW admin \in Admins,
           NEW passed \in Passed,
           SettleAuction(a, w, admin, passed)
    PROVE  w \in Users /\ Promise!Sell(a, w)
  <1>1. /\ status[a] = "Ended" /\ w = highestBidder[a]
        /\ highestBid[a] >= terms[a].reservedPrice
        /\ status' = [status EXCEPT ![a] = "Settled"]
        /\ escrow' = [escrow EXCEPT ![<<a, w>>] = 0]
        /\ UNCHANGED <<terms, highestBidder>>
    BY DEF SettleAuction, MaySettle
  <1>2. w \in Users /\ w # NoKey
    BY AuctionAssumption, RegistryAssumption
  <1>3. /\ stakeBar[a][w] = highestBid[a]
        /\ \A v \in Users \ {w} : stakeBar[a][v] < stakeBar[a][w]
    BY <1>1, <1>2, LeaderLeads DEF Trading
  <1>4. Promise!Leads(a, w)
    BY <1>3 DEF Promise!Leads
  <1>5. stakeBar[a][w] >= reserveBar[a]
    <2>1. terms[a] # NoTerms
      BY <1>1, AuctionAssumption DEF Ready, Typed, TermsOK
    <2> QED
      BY <1>1, <1>3, <2>1 DEF reserveBar
  <1>6. stakeBar' = [stakeBar EXCEPT ![a][w] = 0]
    BY <1>1, <1>2, VaultWritten
  <1> USE DEF Ready, Typed, TypeOK, AuctionTypeOK
  <1>7. phaseBar[a] = "closed" /\ phaseBar' = [phaseBar EXCEPT ![a] = "sold"]
    BY <1>1 DEF phaseBar, PhaseOf
  <1>8. buyerBar' = [buyerBar EXCEPT ![a] = w]
    BY <1>1 DEF buyerBar
  <1>9. UNCHANGED reserveBar
    BY <1>1 DEF reserveBar
  <1> QED
    BY <1>2, <1>4, <1>5, <1>6, <1>7, <1>8, <1>9 DEF Promise!Sell, Promise!Moves

LEMMA WithdrawBidIsRefund ==
    ASSUME Ready, NEW a \in AuctionIds, NEW u \in Bidders, WithdrawBid(a, u)
    PROVE  u \in Users /\ (Promise!Refund(a, u) \/ UNCHANGED absVars)
  <1>1. /\ status[a] = "Ended" /\ u # highestBidder[a]
        /\ <<a, u>> \in bids
        /\ escrow' = [escrow EXCEPT ![<<a, u>>] = 0]
        /\ UNCHANGED <<status, terms, highestBidder>>
    BY DEF WithdrawBid, MayWithdraw
  <1>2. u \in Users
    BY AuctionAssumption
  <1>3. stakeBar' = [stakeBar EXCEPT ![a][u] = 0]
    BY <1>1, <1>2, VaultWritten
  <1>4. UNCHANGED <<phaseBar, reserveBar, buyerBar>>
    BY <1>1 DEF phaseBar, reserveBar, buyerBar
  <1>5. CASE stakeBar[a][u] = 0
    <2>1. stakeBar' = stakeBar
      BY <1>2, <1>3, <1>5 DEF stakeBar
    <2> QED
      BY <1>2, <1>4, <2>1 DEF absVars
  <1>6. CASE stakeBar[a][u] # 0
    <2>1. stakeBar[a][u] > 0
      <3>1. stakeBar[a][u] \in Nat
        BY <1>2, StakeValue
      <3> QED
        BY <1>6, <3>1, SMT
    <2>2. phaseBar[a] = "closed"
      BY <1>1 DEF phaseBar, PhaseOf
    <2>3. highestBidder[a] # NoKey
      <3>1. <<a, u>> \in BidsOf(a) /\ Trading(a)
        BY <1>1 DEF BidsOf, Trading
      <3> QED
        BY <3>1 DEF Ready, EscrowSound, LeaderHoldsHighestBid
    <2>4. highestBidder[a] \in Users \ {u}
          /\ ~(stakeBar[a][highestBidder[a]] < stakeBar[a][u])
      <3>1. /\ highestBidder[a] \in Users
            /\ stakeBar[a][highestBidder[a]] = highestBid[a]
            /\ stakeBar[a][u] < highestBid[a]
        BY <1>1, <1>2, <2>3, LeaderLeads DEF Trading
      <3>2. highestBid[a] \in Nat /\ stakeBar[a][u] \in Nat
        BY <1>2, StakeValue DEF Ready, Typed, TypeOK, AuctionTypeOK
      <3> QED
        BY <1>1, <3>1, <3>2, SMT
    <2>5. ~Promise!Leads(a, u)
      BY <2>4 DEF Promise!Leads
    <2> QED
      BY <1>2, <1>3, <1>4, <2>1, <2>2, <2>5 DEF Promise!Refund
  <1> QED
    BY <1>5, <1>6

----------------------------------------------------------------------------
LEMMA InitMaps == AuctionInit => Promise!Init
  <1> SUFFICES ASSUME AuctionInit PROVE Promise!Init
    OBVIOUS
  <1> USE DEF AuctionInit
  <1>1. phaseBar = [a \in AuctionIds |-> "unlisted"]
    BY DEF phaseBar, PhaseOf
  <1>2. reserveBar = [a \in AuctionIds |-> 0]
    BY DEF reserveBar
  <1>3. stakeBar = [a \in AuctionIds |-> [u \in Users |-> 0]]
    BY DEF stakeBar, BidIds
  <1>4. buyerBar = [a \in AuctionIds |-> NoKey]
    BY DEF buyerBar
  <1> QED
    BY <1>1, <1>2, <1>3, <1>4 DEF Promise!Init

LEMMA NextMaps == Ready /\ [Next]_vars => [Promise!Next]_(Promise!vars)
  <1> SUFFICES ASSUME Ready, [Next]_vars PROVE Promise!Next \/ UNCHANGED absVars
    BY DEF absVars, Promise!vars
  <1>1. CASE UNCHANGED <<status, terms, highestBidder, escrow>>
    BY <1>1 DEF absVars, phaseBar, reserveBar, stakeBar, buyerBar
  <1>2. CASE \E s \in Sellers, admin \in Admins, listing \in Listings :
                CreateAuction(s, admin, listing)
    BY <1>2, CreateAuctionIsList DEF Promise!Next
  <1>3. CASE \E a \in AuctionIds, u \in Bidders, x \in BidAmounts : PlaceBid(a, u, x)
    BY <1>3, PlaceBidIsRaise DEF Promise!Next
  <1>4. CASE \E a \in AuctionIds : EndAuction(a)
    BY <1>4, EndAuctionIsClose DEF Promise!Next
  <1>5. CASE \E a \in AuctionIds, w \in Bidders, admin \in Admins, passed \in Passed :
                   SettleAuction(a, w, admin, passed)
    BY <1>5, SettleAuctionIsSell DEF Promise!Next
  <1>6. CASE \E a \in AuctionIds, u \in Bidders : WithdrawBid(a, u)
    BY <1>6, WithdrawBidIsRefund DEF Promise!Next
  <1>7. \/ UNCHANGED <<status, terms, highestBidder, escrow>>
        \/ \E s \in Sellers, admin \in Admins, listing \in Listings :
              CreateAuction(s, admin, listing)
        \/ \E a \in AuctionIds, u \in Bidders, x \in BidAmounts : PlaceBid(a, u, x)
        \/ \E a \in AuctionIds : EndAuction(a)
        \/ \E a \in AuctionIds, w \in Bidders, admin \in Admins, passed \in Passed :
                 SettleAuction(a, w, admin, passed)
        \/ \E a \in AuctionIds, u \in Bidders : WithdrawBid(a, u)
    BY StepCases, Zenon DEF auctionVars, Tick, DepositItem
  <1> QED
    BY <1>1, <1>2, <1>3, <1>4, <1>5, <1>6, <1>7

\* Every behaviour of the program is a behaviour of the exchange: who leads, who buys, at
\* what price and who gets a refund is decided by the stakes in the vaults alone, although
\* the program decides it by the two fields it caches in the auction.
THEOREM Implements == Spec => ImplementsExchange
  <1>1. Init => Promise!Init
    BY InitMaps DEF Init
  <1> QED
    BY <1>1, NextMaps, ReadyInvariant, PTL DEF Spec, ImplementsExchange, Promise!Spec

----------------------------------------------------------------------------
(* The house: the same instructions on platforms that exist at first       *)

LEMMA HouseStep == [HouseNext]_vars => [Next]_vars
  BY DEF HouseNext, Next

LEMMA HouseTyping == HouseInit => Typed
  <1> SUFFICES ASSUME HouseInit PROVE Typed
    OBVIOUS
  <1> USE DEF HouseInit
  <1>1. [platformFeeBps |-> HouseRates.platform, authFeeBps |-> HouseRates.auth,
         minDuration |-> 1, maxDuration |-> 2, isPaused |-> FALSE] \in Configs
    BY HouseAssumption, SMT DEF Configs
  <1>2. [authenticators |-> HouseAuthenticators, nextIndex |-> 0] \in Registries
    BY HouseAssumption, SMT DEF Registries
  <1>3. PlatformTypeOK
    BY <1>1, <1>2, AuctionAssumption DEF PlatformTypeOK, AuctionInit
  <1> QED
    BY <1>3, AuctionInitTyping DEF Typed, TypeOK

LEMMA HouseReady == HouseSpec => [](Typed /\ EscrowSound /\ LeadersHaveBid)
  <1>1. HouseInit => EscrowSound /\ NobodyLeadsUnopened /\ LeadersHaveBid
    BY InitSound, InitLeaders DEF HouseInit
  <1> QED
    BY <1>1, HouseTyping, HouseStep, NextTyping, NextSound, NextUnopened,
       NextLeadersHaveBid, PTL
    DEF HouseSpec

\* The sound escrow does not depend on how the platforms came about: an auction house whose
\* platforms nobody changes keeps it, with any rates and authenticators.
THEOREM HouseEscrowIsSound ==
    HouseSpec => [](EscrowBacksBids /\ LeaderHoldsHighestBid /\ NoTies)
  BY HouseReady, PTL DEF EscrowSound

\* Neither does the exchange: what the run of the house checks on two auctions holds for
\* any number of them.
THEOREM HouseImplements == HouseSpec => ImplementsExchange
  <1>1. HouseInit => Promise!Init
    BY InitMaps DEF HouseInit
  <1> QED
    BY <1>1, HouseReady, HouseStep, NextMaps, PTL
    DEF HouseSpec, Ready, ImplementsExchange, Promise!Spec

=============================================================================
