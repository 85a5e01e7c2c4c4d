--------------------------- MODULE BidXTypeProofs ---------------------------
(***************************************************************************)
(* Type correctness of the whole program, for any users, mints, listings,  *)
(* bids, platforms and bounds.                                             *)
(***************************************************************************)
EXTENDS BidXProperties, SequenceTheorems, TLAPS

\* A fee is a natural number, whatever the rate.
LEMMA FeeIsNat ==
    ASSUME NEW w \in Nat, NEW rate \in Nat
    PROVE  FeeOf(w, rate) \in Nat
  <1> DEFINE product == w * rate
             quotient == product \div Bps
  <1>1. product \in Nat
    BY SMT
  <1>2. quotient \in Nat
    <2> HIDE DEF product
    <2> QED
      BY <1>1, FeesAssumption, SMT
  <1>3. FeeOf(w, rate) = quotient % Word
    BY DEF FeeOf
  <1> HIDE DEF quotient
  <1> QED
    BY <1>2, <1>3, FeesAssumption, SMT

\* The registry operators return registries.
LEMMA RegistryTypes ==
    ASSUME NEW reg \in Registries
    PROVE  /\ \A keys \in Seq(Keys) : Registered(reg, keys) \in Registries
           /\ CanAssign(reg) => Rotated(reg) \in Registries /\ Assignee(reg) \in Keys
           /\ \A key : Contains(reg, key) => SwapRemoved(reg, key) \in Registries
  <1> DEFINE list == reg.authenticators
             n == Len(list)
  <1>1. list \in Seq(Keys) /\ n \in Nat /\ reg.nextIndex \in Nat
    BY SMT DEF Registries
  <1>2. ASSUME NEW keys \in Seq(Keys) PROVE Registered(reg, keys) \in Registries
    <2>1. list \o keys \in Seq(Keys)
      BY <1>1, SMT
    <2> QED
      BY <2>1 DEF Registered, Registries
  <1>3. ASSUME CanAssign(reg) PROVE Rotated(reg) \in Registries /\ Assignee(reg) \in Keys
    <2>1. n # 0
      BY <1>1, <1>3, SMT DEF CanAssign
    <2>2. (reg.nextIndex + 1) % n \in Nat
      BY <1>1, <2>1, SMT
    <2>3. Rotated(reg) \in Registries
      BY <2>2 DEF Rotated, Registries
    <2>4. Assignee(reg) \in Keys
      BY <1>1, <1>3, SMT DEF Assignee, CanAssign
    <2> QED
      BY <2>3, <2>4
  <1>4. ASSUME NEW key, Contains(reg, key) PROVE SwapRemoved(reg, key) \in Registries
    <2> DEFINE short == [i \in 1 .. n - 1 |->
                            IF i = Position(reg, key) THEN list[n] ELSE list[i]]
    <2>1. n >= 1
      BY <1>1, <1>4, SMT DEF Contains
    <2>2. \A i \in 1 .. n : list[i] \in Keys
      BY <1>1, SMT
    <2>3. short \in Seq(Keys)
      <3>1. \A i \in 1 .. n - 1 : short[i] \in Keys
        BY <1>1, <2>1, <2>2, SMT
      <3>2. n - 1 \in Nat
        BY <1>1, <2>1, SMT
      <3>3. short \in [1 .. n - 1 -> Keys]
        BY <3>1
      <3> QED
        BY <3>2, <3>3, SMT
    <2>4. SwapRemoved(reg, key) = [reg EXCEPT !.authenticators = short]
      BY DEF SwapRemoved
    <2> QED
      BY <2>3, <2>4 DEF Registries
  <1> QED
    BY <1>2, <1>3, <1>4

LEMMA TokensNonempty == Usdc \in Tokens /\ Wsol \in Tokens
  BY DEF Tokens

\* Crediting an account keeps the balances natural numbers.
LEMMA CreditTypes ==
    ASSUME PlatformTypeOK, NEW t \in Tokens, NEW u \in Users, NEW x \in Nat
    PROVE  Credit(t, u, x) \in [Tokens -> [Users -> Nat]]
  BY SMT DEF PlatformTypeOK, Credit

LEMMA InitializeTyping ==
    ASSUME PlatformTypeOK, NEW admin \in Admins,
           NEW setup \in [rate : Nat, authRate : Nat, min : Int, max : Int, keys : Seq(Keys)],
           Initialize(admin, setup)
    PROVE  PlatformTypeOK'
  <1>1. [platformFeeBps |-> setup.rate, authFeeBps |-> setup.authRate,
         minDuration |-> setup.min, maxDuration |-> setup.max,
         isPaused |-> FALSE] \in Configs
    BY DEF Configs
  <1>2. [authenticators |-> setup.keys, nextIndex |-> 0] \in Registries
    BY SMT DEF Registries
  <1> QED
    BY <1>1, <1>2 DEF Initialize, PlatformTypeOK

\* The admins' instructions keep the types of the platform side.
LEMMA PlatformTyping == PlatformTypeOK /\ PlatformNext => PlatformTypeOK'
  <1> SUFFICES ASSUME PlatformTypeOK, NEW admin \in Admins,
                      \/ \E setup \in Setups : Initialize(admin, setup)
                      \/ \E rate, authRate \in RateInputs \cup {NoValue},
                            min, max \in DurationInputs \cup {NoValue} :
                          UpdatePlatformConfig(admin, rate, authRate, min, max)
                      \/ TogglePause(admin)
                      \/ ClosePlatform(admin)
                      \/ \E keys \in KeyLists : RegisterAuthenticators(admin, keys)
                      \/ \E key \in Keys : RemoveAuthenticator(admin, key)
               PROVE  PlatformTypeOK'
    BY DEF PlatformNext
  <1> USE DEF PlatformTypeOK
  <1>1. ASSUME NEW setup \in Setups, Initialize(admin, setup) PROVE PlatformTypeOK'
    BY <1>1, InitializeTyping, PlatformAssumption
  <1>2. ASSUME NEW rate \in RateInputs \cup {NoValue},
               NEW authRate \in RateInputs \cup {NoValue},
               NEW min \in DurationInputs \cup {NoValue},
               NEW max \in DurationInputs \cup {NoValue},
               UpdatePlatformConfig(admin, rate, authRate, min, max)
        PROVE  PlatformTypeOK'
    <2> DEFINE old == config[admin]
               new == [old EXCEPT !.platformFeeBps = UnwrapOr(rate, @),
                                  !.authFeeBps = UnwrapOr(authRate, @),
                                  !.minDuration = UnwrapOr(min, @),
                                  !.maxDuration = UnwrapOr(max, @)]
    <2>1. old \in Configs
      OBVIOUS
    <2>2. UnwrapOr(rate, old.platformFeeBps) \in Nat /\ UnwrapOr(authRate, old.authFeeBps) \in Nat
      BY <2>1, PlatformAssumption DEF UnwrapOr, Configs
    <2>3. UnwrapOr(min, old.minDuration) \in Int /\ UnwrapOr(max, old.maxDuration) \in Int
      BY <2>1, PlatformAssumption DEF UnwrapOr, Configs
    <2>4. new \in Configs
      BY <2>1, <2>2, <2>3, Zenon DEF Configs
    <2>5. config' = [config EXCEPT ![admin] = new]
      BY <1>2 DEF UpdatePlatformConfig
    <2> HIDE DEF new
    <2> QED
      BY <1>2, <2>4, <2>5 DEF UpdatePlatformConfig
  <1>3. ASSUME TogglePause(admin) PROVE PlatformTypeOK'
    <2>1. [config[admin] EXCEPT !.isPaused = ~config[admin].isPaused] \in Configs
      BY Zenon DEF Configs
    <2>2. config' \in [Admins -> Configs]
      BY <1>3, <2>1, Zenon DEF TogglePause
    <2> QED
      BY <1>3, <2>2 DEF TogglePause
  <1>4. ASSUME ClosePlatform(admin) PROVE PlatformTypeOK'
    <2>1. wallet' \in [Tokens -> [Users -> Nat]]
      BY <1>4, CreditTypes, TokensNonempty, PlatformAssumption DEF ClosePlatform, ClosingWallet
    <2>2. ZeroConfig \in Configs /\ EmptyRegistry \in Registries
      BY SMT DEF ZeroConfig, Configs, EmptyRegistry, Registries
    <2> QED
      BY <1>4, <2>1, <2>2 DEF ClosePlatform
  <1>5. ASSUME NEW keys \in KeyLists, RegisterAuthenticators(admin, keys)
        PROVE  PlatformTypeOK'
    BY <1>5, RegistryTypes, PlatformAssumption DEF RegisterAuthenticators
  <1>6. ASSUME NEW key \in Keys, RemoveAuthenticator(admin, key) PROVE PlatformTypeOK'
    BY <1>6, RegistryTypes DEF RemoveAuthenticator
  <1> QED
    BY <1>1, <1>2, <1>3, <1>4, <1>5, <1>6

\* An auction that is not absent has terms.
\* (The conjunct the type invariant needs to be inductive.)
TermsOK == \A a \in AuctionIds : status[a] # "Absent" => terms[a] \in Terms

Typed == TypeOK /\ TermsOK

\* Before anybody lists anything, whatever the platforms.
LEMMA AuctionInitTyping == AuctionInit => AuctionTypeOK /\ TermsOK
  <1> SUFFICES ASSUME AuctionInit PROVE AuctionTypeOK /\ TermsOK
    OBVIOUS
  <1> USE DEF AuctionInit
  <1>1. ZeroAuthentication \in Authentications
    BY SMT DEF ZeroAuthentication, Authentications, AuthStatuses, Keys
  <1>2. NoKey \in Keys /\ "NotRequired" \in AuthStatuses
    BY DEF Keys, AuthStatuses
  <1>3. AuctionTypeOK
    BY <1>1, <1>2, AuctionAssumption DEF AuctionTypeOK
  <1> QED
    BY <1>3 DEF TermsOK

LEMMA InitTyping == Init => Typed
  <1> SUFFICES ASSUME Init PROVE Typed
    OBVIOUS
  <1> USE DEF Init, PlatformInit
  <1>1. ZeroConfig \in Configs
    BY SMT DEF ZeroConfig, Configs
  <1>2. EmptyRegistry \in Registries
    BY SMT DEF EmptyRegistry, Registries
  <1>3. PlatformTypeOK
    BY <1>1, <1>2, AuctionAssumption DEF PlatformTypeOK, AuctionInit
  <1> QED
    BY <1>3, AuctionInitTyping DEF Typed, TypeOK

LEMMA TickTyping == Typed /\ Tick => Typed'
  BY SMT DEF Typed, TypeOK, TermsOK, PlatformTypeOK, AuctionTypeOK, Tick, platformVars

LEMMA DepositItemTyping ==
    ASSUME Typed, NEW s \in Sellers, NEW item \in Items, NEW nonce \in 0 .. MaxAuctions - 1,
           DepositItem(s, item, nonce)
    PROVE  Typed'
  <1>1. <<s, nonce>> \in AuctionIds
    BY DEF AuctionIds
  <1> QED
    BY <1>1 DEF Typed, TypeOK, TermsOK, PlatformTypeOK, AuctionTypeOK, DepositItem, platformVars

LEMMA CreateAuctionTyping ==
    ASSUME Typed, NEW s \in Sellers, NEW admin \in Admins, NEW listing \in Terms,
           CreateAuction(s, admin, listing)
    PROVE  Typed'
  <1> DEFINE a == <<s, auctionCount[s]>>
             physical == listing.assetType = "PhysicalRWA"
             filled == [filled |-> TRUE, authStatus |-> "Pending",
                        authenticator |-> Assignee(registry[admin]),
                        reportHash |-> <<>>, feeAmount |-> 0, feePaid |-> FALSE]
  <1>1. a \in AuctionIds
    BY SMT, AuctionAssumption
    DEF AuctionIds, CreateAuction, Typed, TypeOK, AuctionTypeOK
  <1>2. listing \in Terms
    OBVIOUS
  <1>3. registry' \in [Admins -> Registries]
    BY RegistryTypes DEF CreateAuction, Typed, TypeOK, PlatformTypeOK
  <1>4. authentication' \in [AuctionIds -> Authentications]
    <2>1. ZeroAuthentication \in Authentications
      BY SMT DEF ZeroAuthentication, Authentications, AuthStatuses, Keys
    <2>2. ASSUME physical PROVE filled \in Authentications
      <3>1. Assignee(registry[admin]) \in Keys
        BY <2>2, RegistryTypes DEF CreateAuction, Typed, TypeOK, PlatformTypeOK
      <3> QED
        BY <3>1, SMT DEF Authentications, AuthStatuses
    <2>3. authentication' = [authentication EXCEPT ![a] =
                                IF physical THEN filled ELSE ZeroAuthentication]
      BY DEF CreateAuction
    <2> HIDE DEF filled, a, physical
    <2> QED
      BY <1>1, <2>1, <2>2, <2>3 DEF Typed, TypeOK, AuctionTypeOK
  <1>5. /\ FirstStatus(listing.assetType) \in AuctionStatuses
        /\ FirstAuthStatus(listing.assetType) \in AuthStatuses
    BY DEF FirstStatus, FirstAuthStatus, AuctionStatuses, AuthStatuses
  <1>6. /\ auctionCount' \in [Sellers -> Nat]
        /\ status' \in [AuctionIds -> AuctionStatuses \cup {"Absent"}]
        /\ authStatus' \in [AuctionIds -> AuthStatuses]
        /\ terms' \in [AuctionIds -> Terms \cup {NoTerms}]
        /\ highestBid' \in [AuctionIds -> Nat]
        /\ highestBidder' \in [AuctionIds -> Keys]
    BY <1>1, <1>2, <1>5, SMT
    DEF CreateAuction, NextAuctionCount, Typed, TypeOK, AuctionTypeOK, Keys
  <1>7. TermsOK'
    BY <1>1, <1>2, SMT DEF CreateAuction, Typed, TypeOK, AuctionTypeOK, TermsOK
  <1> QED
    BY <1>3, <1>4, <1>6, <1>7
    DEF CreateAuction, Typed, TypeOK, PlatformTypeOK, AuctionTypeOK

\* A trading auction's terms are terms.
LEMMA TermsOfAuction ==
    ASSUME Typed, NEW a \in AuctionIds, status[a] # "Absent"
    PROVE  /\ terms[a] \in Terms
           /\ terms[a].acceptedToken \in Tokens
           /\ terms[a].nftMint \in Items
  BY DEF Typed, TermsOK, Terms

LEMMA PlaceBidTyping ==
    ASSUME Typed, NEW a \in AuctionIds, NEW u \in Users, NEW x \in Nat, PlaceBid(a, u, x)
    PROVE  Typed'
  <1> DEFINE b == <<a, u>>
             t == terms[a].acceptedToken
             total == NewTotal(b, x)
  <1>1. u \in Users /\ u \in Keys /\ x \in Nat /\ b \in BidIds
    BY DEF Keys, BidIds
  <1>2. t \in Tokens
    BY TermsOfAuction DEF PlaceBid, TakesBids
  <1>3. total \in Nat
    BY <1>1, SMT DEF NewTotal, Typed, TypeOK, AuctionTypeOK
  <1>4. wallet' \in [Tokens -> [Users -> Nat]]
    <2>1. wallet[t] \in [Users -> Nat] /\ wallet[t][u] - x \in Nat
      BY <1>1, <1>2, SMT DEF PlaceBid, Typed, TypeOK, PlatformTypeOK
    <2>2. wallet' = [wallet EXCEPT ![t][u] = @ - x]
      BY DEF PlaceBid
    <2> HIDE DEF t
    <2> QED
      BY <1>1, <1>2, <2>1, <2>2, SMT DEF Typed, TypeOK, PlatformTypeOK
  <1>5. /\ bids' \subseteq BidIds
        /\ vaults' \subseteq BidIds
    BY <1>1 DEF PlaceBid, Typed, TypeOK, AuctionTypeOK
  <1>6. escrow' \in [BidIds -> Nat]
    <2>1. escrow' = [escrow EXCEPT ![b] = @ + x]
      BY DEF PlaceBid, Escrowed
    <2> QED
      BY <1>1, <2>1, SMT DEF Typed, TypeOK, AuctionTypeOK
  <1>7. /\ amount' \in [BidIds -> Nat]
        /\ highestBid' \in [AuctionIds -> Nat]
        /\ highestBidder' \in [AuctionIds -> Keys]
    <2> HIDE DEF total, b
    <2>1. /\ amount' = [amount EXCEPT ![b] = total]
          /\ highestBid' = [highestBid EXCEPT ![a] = total]
          /\ highestBidder' = [highestBidder EXCEPT ![a] = u]
      BY DEF PlaceBid, total, b
    <2> QED
      BY <1>1, <1>3, <2>1 DEF Typed, TypeOK, AuctionTypeOK
  <1>8. UNCHANGED <<platforms, config, registry, treasuryUsdc, treasurySol,
                    now, auctionCount, itemAt, status, authStatus, terms, authentication>>
    BY DEF PlaceBid
  <1> QED
    BY <1>4, <1>5, <1>6, <1>7, <1>8
    DEF Typed, TypeOK, TermsOK, PlatformTypeOK, AuctionTypeOK

LEMMA EndAuctionTyping ==
    ASSUME Typed, NEW a \in AuctionIds, EndAuction(a)
    PROVE  Typed'
  <1>1. status' \in [AuctionIds -> AuctionStatuses \cup {"Absent"}]
    BY DEF EndAuction, Typed, TypeOK, AuctionTypeOK, AuctionStatuses
  <1>2. TermsOK'
    BY SMT DEF EndAuction, MayEnd, Typed, TypeOK, AuctionTypeOK, TermsOK
  <1> QED
    BY <1>1, <1>2
    DEF EndAuction, platformVars, Typed, TypeOK, PlatformTypeOK, AuctionTypeOK

LEMMA SettleAuctionTyping ==
    ASSUME Typed, NEW a \in AuctionIds, NEW w \in Users, NEW admin \in Admins,
           NEW passed \in Passed,
           SettleAuction(a, w, admin, passed)
    PROVE  Typed'
  <1> DEFINE b == <<a, w>>
             t == terms[a].acceptedToken
             fee == PlatformFee(a, admin)
             authFee == AuthFee(a, admin)
             toSeller == SellerAmount(highestBid[a], fee, authFee)
             toPayee == IF passed.payee = NoKey THEN 0 ELSE authFee
             rest == escrow[b] - (toSeller + fee + toPayee)
             Paid(u) == (IF u = passed.recipient THEN toSeller ELSE 0)
                        + (IF u = passed.payee THEN toPayee ELSE 0)
                        + (IF u = w THEN rest ELSE 0)
  <1>1. w \in Users /\ b \in BidIds
    BY AuctionAssumption DEF BidIds
  <1>2. status[a] # "Absent"
    BY DEF SettleAuction, MaySettle
  <1>3. t \in Tokens /\ passed.item \in Items
    BY <1>2, TermsOfAuction DEF Passed
  <1>4. highestBid[a] \in Nat /\ escrow[b] \in Nat
    BY <1>1 DEF Typed, TypeOK, AuctionTypeOK
  <1>5. fee \in Nat /\ authFee \in Nat
    <2>1. config[admin].platformFeeBps \in Nat /\ config[admin].authFeeBps \in Nat
      BY DEF Typed, TypeOK, PlatformTypeOK, Configs
    <2> QED
      BY <1>4, <2>1, FeeIsNat DEF PlatformFee, AuthFee
  <1>6. toSeller \in Nat
    <2>1. Splits(highestBid[a], fee, authFee)
      BY DEF SettleAuction
    <2> HIDE DEF fee, authFee
    <2> QED
      BY <1>4, <1>5, <2>1, SMT DEF Splits, SellerAmount
  <1>7. rest \in Nat /\ toPayee \in Nat
    <2>1. rest >= 0
      BY DEF SettleAuction
    <2> HIDE DEF fee, authFee, toSeller
    <2> QED
      BY <1>4, <1>5, <1>6, <2>1, SMT
  <1>8. \A u \in Users : Paid(u) \in Nat
    <2> HIDE DEF toSeller, toPayee, rest
    <2> QED
      BY <1>6, <1>7, SMT
  <1>9. wallet' \in [Tokens -> [Users -> Nat]]
    <2>1. wallet' = [wallet EXCEPT ![t] = [u \in Users |-> wallet[t][u] + Paid(u)]]
      BY DEF SettleAuction
    <2>2. [u \in Users |-> wallet[t][u] + Paid(u)] \in [Users -> Nat]
      <3>1. \A u \in Users : wallet[t][u] \in Nat
        BY <1>3 DEF Typed, TypeOK, PlatformTypeOK
      <3> HIDE DEF t, Paid
      <3> QED
        BY <3>1, <1>8, SMT
    <2> HIDE DEF t, Paid
    <2> QED
      BY <1>3, <2>1, <2>2 DEF Typed, TypeOK, PlatformTypeOK
  <1>10. treasuryUsdc' \in [Admins -> Nat] /\ treasurySol' \in Nat
    <2>1. /\ treasuryUsdc' = IF t = Usdc THEN [treasuryUsdc EXCEPT ![admin] = @ + fee]
                                         ELSE treasuryUsdc
          /\ treasurySol' = IF t = Wsol THEN treasurySol + fee ELSE treasurySol
      BY DEF SettleAuction
    <2> HIDE DEF t, fee
    <2> QED
      BY <1>5, <2>1, SMT DEF Typed, TypeOK, PlatformTypeOK
  <1>11. authentication' \in [AuctionIds -> Authentications]
    <2>1. authentication' = IF IsPhysical(a) /\ passed.presented
                            THEN [authentication EXCEPT ![a].feeAmount = authFee,
                                                        ![a].feePaid = TRUE]
                            ELSE authentication
      BY DEF SettleAuction
    <2>2. authentication[a] \in Authentications
      BY DEF Typed, TypeOK, AuctionTypeOK
    <2> HIDE DEF authFee
    <2>3. [authentication[a] EXCEPT !.feeAmount = authFee] \in Authentications
      BY <2>2, <1>5, Zenon DEF Authentications
    <2>4. [authentication EXCEPT ![a].feeAmount = authFee] \in [AuctionIds -> Authentications]
      BY <2>3, Zenon DEF Typed, TypeOK, AuctionTypeOK
    <2> DEFINE noted == [authentication EXCEPT ![a].feeAmount = authFee]
    <2>5. [noted EXCEPT ![a].feePaid = TRUE] \in [AuctionIds -> Authentications]
      <3>1. noted[a] \in Authentications
        BY <2>4
      <3> HIDE DEF noted
      <3>2. [noted[a] EXCEPT !.feePaid = TRUE] \in Authentications
        BY <3>1, Zenon DEF Authentications
      <3> QED
        BY <3>2, <2>4, Zenon DEF noted
    <2> QED
      BY <2>1, <2>5 DEF Typed, TypeOK, AuctionTypeOK
  <1>12. /\ itemAt' \in [Items -> Users \cup AuctionIds]
         /\ escrow' \in [BidIds -> Nat]
         /\ vaults' \subseteq BidIds
         /\ status' \in [AuctionIds -> AuctionStatuses \cup {"Absent"}]
    BY <1>1, <1>3 DEF SettleAuction, Typed, TypeOK, AuctionTypeOK, AuctionStatuses
  <1>13. TermsOK'
    BY <1>2, SMT DEF SettleAuction, Typed, TypeOK, AuctionTypeOK, TermsOK
  <1>14. UNCHANGED <<platforms, config, registry, now, auctionCount, authStatus,
                     terms, highestBid, highestBidder, bids, amount>>
    BY DEF SettleAuction
  <1> QED
    BY <1>9, <1>10, <1>11, <1>12, <1>13, <1>14
    DEF Typed, TypeOK, PlatformTypeOK, AuctionTypeOK

LEMMA WithdrawBidTyping ==
    ASSUME Typed, NEW a \in AuctionIds, NEW u \in Users, WithdrawBid(a, u)
    PROVE  Typed'
  <1> DEFINE b == <<a, u>>
             t == terms[a].acceptedToken
  <1>1. u \in Users /\ b \in BidIds
    BY AuctionAssumption DEF BidIds
  <1>2. t \in Tokens
    BY TermsOfAuction DEF WithdrawBid, MayWithdraw
  <1>3. wallet' \in [Tokens -> [Users -> Nat]]
    <2>1. wallet' = Credit(t, u, escrow[b]) /\ escrow[b] \in Nat
      BY <1>1 DEF WithdrawBid, Typed, TypeOK, AuctionTypeOK
    <2> HIDE DEF t, b
    <2> QED
      BY <1>1, <1>2, <2>1, CreditTypes DEF Typed, TypeOK
  <1>4. /\ escrow' \in [BidIds -> Nat]
        /\ amount' \in [BidIds -> Nat]
        /\ vaults' \subseteq BidIds
        /\ bids' \subseteq BidIds
    BY <1>1 DEF WithdrawBid, Typed, TypeOK, AuctionTypeOK
  <1> QED
    BY <1>3, <1>4 DEF WithdrawBid, Typed, TypeOK, TermsOK, PlatformTypeOK, AuctionTypeOK

LEMMA UploadAuthReportTyping ==
    ASSUME Typed, NEW a \in AuctionIds, NEW u \in Users, NEW admin \in Admins,
           NEW report \in Reports, NEW trailing \in Trailings,
           UploadAuthReport(a, u, admin, report, trailing)
    PROVE  Typed'
  <1> DEFINE assigned == [authentication EXCEPT ![a].authenticator = u]
  <1>1. report \in Seq(Nat)
    <2>1. report \in Seq(0 .. 255)
      BY AuthenticationAssumption
    <2>2. (0 .. 255) \subseteq Nat
      BY SMT
    <2> QED
      BY <2>1, <2>2, SeqMonotonic, Zenon
  <1>2. u \in Keys
    BY DEF Keys
  <1>3. assigned \in [AuctionIds -> Authentications]
    <2>1. authentication[a] \in Authentications
      BY DEF Typed, TypeOK, AuctionTypeOK
    <2>2. [authentication[a] EXCEPT !.authenticator = u] \in Authentications
      BY <1>2, <2>1, Zenon DEF Authentications
    <2> QED
      BY <2>2, Zenon DEF Typed, TypeOK, AuctionTypeOK
  <1>4. [assigned EXCEPT ![a].reportHash = report] \in [AuctionIds -> Authentications]
    <2>1. assigned[a] \in Authentications
      BY <1>3
    <2> HIDE DEF assigned
    <2>2. [assigned[a] EXCEPT !.reportHash = report] \in Authentications
      BY <1>1, <2>1, Zenon DEF Authentications
    <2> QED
      BY <1>3, <2>2, Zenon
  <1>5. authentication' = [assigned EXCEPT ![a].reportHash = report]
    BY Zenon DEF UploadAuthReport
  <1> QED
    BY <1>4, <1>5
    DEF UploadAuthReport, platformVars, Typed, TypeOK, TermsOK, PlatformTypeOK, AuctionTypeOK

LEMMA AttestAuthenticationTyping ==
    ASSUME Typed, NEW a \in AuctionIds, NEW u \in Users, NEW admin \in Admins,
           NEW approved \in BOOLEAN, NEW trailing \in Trailings,
           AttestAuthentication(a, u, admin, approved, trailing)
    PROVE  Typed'
  <1> DEFINE verdict == IF approved THEN "Verified" ELSE "Rejected"
  <1>1. verdict \in AuthStatuses
    BY DEF AuthStatuses
  <1>2. authentication' \in [AuctionIds -> Authentications]
    <2>1. authentication[a] \in Authentications
      BY DEF Typed, TypeOK, AuctionTypeOK
    <2>2. authentication' = [authentication EXCEPT ![a].authStatus = verdict]
      BY Zenon DEF AttestAuthentication
    <2> HIDE DEF verdict
    <2>3. [authentication[a] EXCEPT !.authStatus = verdict] \in Authentications
      BY <1>1, <2>1, Zenon DEF Authentications
    <2> QED
      BY <2>2, <2>3, Zenon DEF Typed, TypeOK, AuctionTypeOK
  <1> QED
    BY <1>2
    DEF AttestAuthentication, platformVars, Typed, TypeOK, TermsOK, PlatformTypeOK, AuctionTypeOK

----------------------------------------------------------------------------
LEMMA NextTyping == Typed /\ [Next]_vars => Typed'
  <1> SUFFICES ASSUME Typed, [Next]_vars PROVE Typed'
    OBVIOUS
  <1>1. ASSUME PlatformNext, UNCHANGED auctionVars PROVE Typed'
    <2>1. PlatformTypeOK'
      BY <1>1, PlatformTyping DEF Typed, TypeOK
    <2> QED
      BY <1>1, <2>1 DEF auctionVars, Typed, TypeOK, TermsOK, AuctionTypeOK
  <1>2. ASSUME AuctionNext PROVE Typed'
    <2>1. /\ \A u \in Bidders : u \in Users
          /\ \A x \in BidAmounts : x \in Nat
          /\ \A listing \in Listings : listing \in Terms
      BY AuctionAssumption
    <2> QED
      BY <1>2, <2>1, TickTyping, DepositItemTyping, CreateAuctionTyping, PlaceBidTyping,
         EndAuctionTyping, SettleAuctionTyping, WithdrawBidTyping, Zenon
      DEF AuctionNext
  <1>3. ASSUME AuthenticationNext PROVE Typed'
    BY <1>3, UploadAuthReportTyping, AttestAuthenticationTyping, Zenon DEF AuthenticationNext
  <1>4. ASSUME UNCHANGED vars PROVE Typed'
    BY <1>4 DEF vars, platformVars, auctionVars, Typed, TypeOK, TermsOK, PlatformTypeOK,
                AuctionTypeOK
  <1> QED
    BY <1>1, <1>2, <1>3, <1>4 DEF Next

LEMMA TypingInvariant == Spec => []Typed
  BY InitTyping, NextTyping, PTL DEF Spec

\* Every account keeps the type its declaration gives it, whatever instructions run: no
\* balance, bid or vault goes negative (each subtraction of a u64 is guarded), the round
\* robin only assigns keys of the registry, and the fees are numbers.
THEOREM TypeCorrect == Spec => []TypeOK
  BY TypingInvariant, PTL DEF Typed

=============================================================================
