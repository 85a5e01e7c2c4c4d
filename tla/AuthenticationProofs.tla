------------------------- MODULE AuthenticationProofs -------------------------
(***************************************************************************)
(* Registries and verdicts, for any number of users, auctions, reports and *)
(* platforms.                                                              *)
(***************************************************************************)
EXTENDS AuctionProofs

\* Who is in a list of authenticators: no key twice, and neither of the keys that
\* register_authenticators refuses.
GoodList(list, admin) ==
    \A i \in DOMAIN list :
        /\ list[i] \notin {NoKey, admin}
        /\ \A j \in DOMAIN list : i # j => list[i] # list[j]

LEMMA RegisteredIsGood ==
    ASSUME NEW reg \in Registries, NEW admin, NEW keys \in Seq(Keys),
           GoodList(reg.authenticators, admin), CanRegister(reg, admin, keys)
    PROVE  GoodList(Registered(reg, keys).authenticators, admin)
  <1> DEFINE list == reg.authenticators
             m == Len(list)
             n == Len(keys)
             both == list \o keys
  <1>1. list \in Seq(Keys) /\ m \in Nat /\ n \in Nat
    BY SMT DEF Registries
  <1>2. /\ DOMAIN both = 1 .. m + n
        /\ \A i \in 1 .. m : both[i] = list[i]
        /\ \A i \in m + 1 .. m + n : both[i] = keys[i - m]
    BY <1>1, SMT
  <1>3. /\ DOMAIN list = 1 .. m
        /\ DOMAIN keys = 1 .. n
    BY <1>1, SMT
  <1>4. Registered(reg, keys).authenticators = both
    BY DEF Registered, Registries
  <1>5. \A i \in 1 .. n : /\ keys[i] \notin {NoKey, admin}
                          /\ \A k \in 1 .. m : list[k] # keys[i]
                          /\ \A j \in 1 .. i - 1 : keys[j] # keys[i]
    BY <1>3 DEF CanRegister, Contains
  <1>6. \A i, j \in 1 .. n : i # j => keys[i] # keys[j]
    <2> SUFFICES ASSUME NEW i \in 1 .. n, NEW j \in 1 .. n, i # j
                 PROVE  keys[i] # keys[j]
      OBVIOUS
    <2>1. i \in 1 .. j - 1 \/ j \in 1 .. i - 1
      BY <1>1, SMT
    <2> QED
      BY <1>5, <2>1
  <1> HIDE DEF m, n, both, list
  <1>7. \A i \in 1 .. m + n : i \in 1 .. m \/ (i \in m + 1 .. m + n /\ i - m \in 1 .. n)
    BY <1>1, SMT
  <1>8. ASSUME NEW i \in 1 .. m + n PROVE both[i] \notin {NoKey, admin}
    <2>1. CASE i \in 1 .. m
      BY <1>2, <1>3, <2>1 DEF GoodList, list
    <2>2. CASE i \in m + 1 .. m + n /\ i - m \in 1 .. n
      BY <1>2, <1>5, <2>2
    <2> QED
      BY <1>7, <2>1, <2>2
  <1>9. ASSUME NEW i \in 1 .. m + n, NEW j \in 1 .. m + n, i # j
        PROVE  both[i] # both[j]
    <2>1. CASE i \in 1 .. m /\ j \in 1 .. m
      BY <1>2, <1>3, <1>9, <2>1 DEF GoodList, list
    <2>2. CASE i \in 1 .. m /\ j \in m + 1 .. m + n /\ j - m \in 1 .. n
      BY <1>2, <1>5, <2>2
    <2>3. CASE j \in 1 .. m /\ i \in m + 1 .. m + n /\ i - m \in 1 .. n
      BY <1>2, <1>5, <2>3
    <2>4. CASE /\ i \in m + 1 .. m + n /\ i - m \in 1 .. n
               /\ j \in m + 1 .. m + n /\ j - m \in 1 .. n
      <3>1. i - m # j - m
        BY <1>1, <1>9, SMT
      <3> QED
        BY <1>2, <1>6, <2>4, <3>1
    <2> QED
      BY <1>7, <2>1, <2>2, <2>3, <2>4
  <1> QED
    BY <1>2, <1>4, <1>8, <1>9 DEF GoodList

LEMMA SwapRemovedIsGood ==
    ASSUME NEW reg \in Registries, NEW admin, NEW key,
           GoodList(reg.authenticators, admin), Contains(reg, key)
    PROVE  GoodList(SwapRemoved(reg, key).authenticators, admin)
  <1> DEFINE list == reg.authenticators
             n == Len(list)
             p == Position(reg, key)
             short == [i \in 1 .. n - 1 |-> IF i = p THEN list[n] ELSE list[i]]
  <1>1. list \in Seq(Keys) /\ n \in Nat /\ DOMAIN list = 1 .. n
    BY SMT DEF Registries
  <1>2. SwapRemoved(reg, key).authenticators = short
    BY DEF SwapRemoved, Registries
  <1>3. \A i \in 1 .. n - 1 : i \in 1 .. n /\ n \in 1 .. n /\ i # n
    BY <1>1, SMT
  <1>4. \A i, j \in 1 .. n : list[i] \notin {NoKey, admin} /\ (i # j => list[i] # list[j])
    BY <1>1 DEF GoodList
  <1> HIDE DEF n, list, p
  <1>5. DOMAIN short = 1 .. n - 1
    OBVIOUS
  <1>6. \A i \in 1 .. n - 1 : short[i] = IF i = p THEN list[n] ELSE list[i]
    OBVIOUS
  <1> HIDE DEF short
  <1>7. \A i, j \in 1 .. n - 1 : short[i] \notin {NoKey, admin} /\ (i # j => short[i] # short[j])
    BY <1>3, <1>4, <1>6, Zenon
  <1> QED
    BY <1>2, <1>5, <1>7 DEF GoodList

\* What the admins' instructions and create_auction do to the registries.
LEMMA RegistryCases ==
    ASSUME [Next]_vars
    PROVE  \/ UNCHANGED registry
           \/ \E admin \in Admins :
                \/ \E setup \in Setups : Initialize(admin, setup)
                \/ ClosePlatform(admin)
                \/ \E keys \in KeyLists : RegisterAuthenticators(admin, keys)
                \/ \E key \in Keys : RemoveAuthenticator(admin, key)
           \/ \E s \in Sellers, admin \in Admins, listing \in Listings :
                CreateAuction(s, admin, listing)
  <1>1. CASE UNCHANGED vars
    BY <1>1 DEF vars, platformVars
  <1>2. CASE PlatformNext
    <2>1. ASSUME NEW admin \in Admins, NEW rate, NEW authRate, NEW min, NEW max,
                 UpdatePlatformConfig(admin, rate, authRate, min, max)
          PROVE  UNCHANGED registry
      BY <2>1 DEF UpdatePlatformConfig
    <2>2. ASSUME NEW admin \in Admins, TogglePause(admin) PROVE UNCHANGED registry
      BY <2>2 DEF TogglePause
    <2> QED
      BY <1>2, <2>1, <2>2, Zenon DEF PlatformNext
  <1>3. CASE AuctionNext
    <2>1. ASSUME NEW a \in AuctionIds, NEW u \in Bidders, NEW x \in BidAmounts,
                 PlaceBid(a, u, x)
          PROVE  UNCHANGED registry
      BY <2>1 DEF PlaceBid
    <2>2. ASSUME NEW a \in AuctionIds, NEW w \in Bidders, NEW admin \in Admins,
                 NEW passed \in Passed,
                 SettleAuction(a, w, admin, passed)
          PROVE  UNCHANGED registry
      BY <2>2 DEF SettleAuction
    <2>3. ASSUME NEW a \in AuctionIds, NEW u \in Bidders, WithdrawBid(a, u)
          PROVE  UNCHANGED registry
      BY <2>3 DEF WithdrawBid
    <2> QED
      BY <1>3, <2>1, <2>2, <2>3, Zenon
      DEF AuctionNext, Tick, DepositItem, EndAuction, platformVars
  <1>4. CASE AuthenticationNext
    BY <1>4, Zenon DEF AuthenticationNext, UploadAuthReport, AttestAuthentication, platformVars
  <1> QED
    BY <1>1, <1>2, <1>3, <1>4 DEF Next

GoodRegistries == \A admin \in Admins : GoodList(registry[admin].authenticators, admin)

\* One registry is replaced by one whose list is good.
LEMMA OneRegistryReplaced ==
    ASSUME Typed, GoodRegistries, NEW admin \in Admins, NEW reg,
           GoodList(reg.authenticators, admin), registry' = [registry EXCEPT ![admin] = reg]
    PROVE  GoodRegistries'
  <1>1. \A other \in Admins : registry'[other] = IF other = admin THEN reg ELSE registry[other]
    BY DEF Typed, TypeOK, PlatformTypeOK
  <1> QED
    BY <1>1 DEF GoodRegistries

LEMMA NextGoodRegistries ==
    ASSUME \A setup \in Setups, admin \in Admins : GoodList(setup.keys, admin),
           Typed, GoodRegistries, [Next]_vars
    PROVE  GoodRegistries'
  <1>1. \A admin \in Admins : registry[admin] \in Registries
                              /\ GoodList(registry[admin].authenticators, admin)
    BY DEF Typed, TypeOK, PlatformTypeOK, GoodRegistries
  <1>2. ASSUME NEW admin \in Admins, NEW setup \in Setups, Initialize(admin, setup)
        PROVE  GoodRegistries'
    <2>1. registry' = [registry EXCEPT ![admin] =
                        [authenticators |-> setup.keys, nextIndex |-> 0]]
      BY <1>2 DEF Initialize
    <2>2. GoodList([authenticators |-> setup.keys, nextIndex |-> 0].authenticators, admin)
      OBVIOUS
    <2> QED
      BY <2>1, <2>2, OneRegistryReplaced
  <1>3. ASSUME NEW admin \in Admins, ClosePlatform(admin) PROVE GoodRegistries'
    <2>1. registry' = [registry EXCEPT ![admin] = EmptyRegistry]
      BY <1>3 DEF ClosePlatform
    <2>2. GoodList(EmptyRegistry.authenticators, admin)
      BY SMT DEF GoodList, EmptyRegistry
    <2> QED
      BY <2>1, <2>2, OneRegistryReplaced
  <1>4. ASSUME NEW admin \in Admins, NEW keys \in KeyLists, RegisterAuthenticators(admin, keys)
        PROVE  GoodRegistries'
    <2>1. /\ registry' = [registry EXCEPT ![admin] = Registered(registry[admin], keys)]
          /\ CanRegister(registry[admin], admin, keys)
      BY <1>4 DEF RegisterAuthenticators
    <2>2. GoodList(Registered(registry[admin], keys).authenticators, admin)
      BY <1>1, <2>1, RegisteredIsGood, PlatformAssumption
    <2> QED
      BY <2>1, <2>2, OneRegistryReplaced
  <1>5. ASSUME NEW admin \in Admins, NEW key \in Keys, RemoveAuthenticator(admin, key)
        PROVE  GoodRegistries'
    <2>1. /\ registry' = [registry EXCEPT ![admin] = SwapRemoved(registry[admin], key)]
          /\ Contains(registry[admin], key)
      BY <1>5 DEF RemoveAuthenticator
    <2>2. GoodList(SwapRemoved(registry[admin], key).authenticators, admin)
      BY <1>1, <2>1, SwapRemovedIsGood
    <2> QED
      BY <2>1, <2>2, OneRegistryReplaced
  <1>6. ASSUME NEW s \in Sellers, NEW admin \in Admins, NEW listing \in Listings,
               CreateAuction(s, admin, listing)
        PROVE  GoodRegistries'
    <2>1. \/ registry' = registry
          \/ registry' = [registry EXCEPT ![admin] = Rotated(registry[admin])]
      BY <1>6 DEF CreateAuction
    <2>2. Rotated(registry[admin]).authenticators = registry[admin].authenticators
      BY <1>1 DEF Rotated, Registries
    <2> QED
      BY <1>1, <2>1, <2>2, OneRegistryReplaced DEF GoodRegistries
  <1>7. CASE UNCHANGED registry
    BY <1>7 DEF GoodRegistries
  <1> QED
    BY <1>2, <1>3, <1>4, <1>5, <1>6, <1>7, RegistryCases

\* register_authenticators pushes key by key and remove_authenticator reorders with
\* swap_remove: neither ever lets a key in twice, the default key or the admin's own.  Of
\* initialize, which checks nothing, it is asked that it starts with such a list.
THEOREM RegistriesStayWellFormed ==
    ASSUME \A setup \in Setups, admin \in Admins : GoodList(setup.keys, admin)
    PROVE  Spec => []RegistryWellFormed
  <1>1. Init => GoodRegistries
    <2> SUFFICES ASSUME Init, NEW admin \in Admins
                 PROVE  GoodList(registry[admin].authenticators, admin)
      BY DEF GoodRegistries
    <2>1. registry[admin].authenticators = <<>>
      BY DEF Init, PlatformInit, EmptyRegistry
    <2> QED
      BY <2>1, SMT DEF GoodList
  <1>2. Typed /\ GoodRegistries /\ [Next]_vars => GoodRegistries'
    BY NextGoodRegistries
  <1>3. GoodRegistries => RegistryWellFormed
    BY Zenon DEF GoodRegistries, RegistryWellFormed, GoodList
  <1> QED
    BY <1>1, <1>2, <1>3, TypingInvariant, PTL DEF Spec

----------------------------------------------------------------------------
(* Verdicts and auctions                                                   *)

\* The auth_status of an auction is written where the auction is created, and nowhere else.
LEMMA AuthStatusCases ==
    ASSUME [Next]_vars
    PROVE  \/ UNCHANGED authStatus
           \/ \E s \in Sellers, admin \in Admins, listing \in Listings :
                CreateAuction(s, admin, listing)
  <1>1. ASSUME NEW a \in AuctionIds, NEW w \in Bidders, NEW admin \in Admins,
               NEW passed \in Passed,
               SettleAuction(a, w, admin, passed)
        PROVE  UNCHANGED authStatus
    BY <1>1 DEF SettleAuction
  <1> QED
    BY <1>1, StepCases, Zenon
    DEF auctionVars, Tick, DepositItem, PlaceBid, EndAuction, WithdrawBid

\* An auction comes to be by create_auction only.
LEMMA OpeningStep ==
    ASSUME Typed, [Next]_vars, NEW c \in AuctionIds, status[c] = "Absent",
           status'[c] # status[c]
    PROVE  \E s \in Sellers, admin \in Admins, listing \in Listings :
                CreateAuction(s, admin, listing)
  <1>1. ASSUME NEW a \in AuctionIds, EndAuction(a) PROVE FALSE
    BY <1>1 DEF EndAuction, MayEnd, Typed, TypeOK, AuctionTypeOK
  <1>2. ASSUME NEW a \in AuctionIds, NEW w \in Bidders, NEW admin \in Admins,
               NEW passed \in Passed,
               SettleAuction(a, w, admin, passed)
        PROVE  FALSE
    <2>1. status[a] = "Ended" /\ status' = [status EXCEPT ![a] = "Settled"]
      BY <1>2 DEF SettleAuction, MaySettle
    <2> QED
      BY <2>1 DEF Typed, TypeOK, AuctionTypeOK
  <1> QED
    BY <1>1, <1>2, StatusCases

LEMMA CreateAuctionPending ==
    ASSUME Typed, PhysicalStaysPending, NEW s \in Sellers, NEW admin \in Admins,
           NEW listing \in Listings, CreateAuction(s, admin, listing)
    PROVE  PhysicalStaysPending'
  <1> DEFINE a == <<s, auctionCount[s]>>
             first == FirstStatus(listing.assetType)
             firstAuth == FirstAuthStatus(listing.assetType)
  <1>1. /\ status' = [status EXCEPT ![a] = first]
        /\ authStatus' = [authStatus EXCEPT ![a] = firstAuth]
        /\ terms' = [terms EXCEPT ![a] = listing]
    BY DEF CreateAuction
  <1>2. listing.assetType = "PhysicalRWA" => first = "Pending" /\ firstAuth = "Pending"
    BY DEF FirstStatus, FirstAuthStatus
  <1> HIDE DEF a, first, firstAuth
  <1> SUFFICES ASSUME NEW c \in AuctionIds, status'[c] # "Absent",
                      terms'[c].assetType = "PhysicalRWA"
               PROVE  status'[c] = "Pending" /\ authStatus'[c] = "Pending"
    BY DEF PhysicalStaysPending, IsPhysical
  <1>3. CASE c = a
    BY <1>1, <1>2, <1>3 DEF Typed, TypeOK, AuctionTypeOK
  <1>4. CASE c # a
    BY <1>1, <1>4 DEF PhysicalStaysPending, IsPhysical, Typed, TypeOK, AuctionTypeOK
  <1> QED
    BY <1>3, <1>4

LEMMA NextPending == Typed /\ PhysicalStaysPending /\ [Next]_vars => PhysicalStaysPending'
  <1> SUFFICES ASSUME Typed, PhysicalStaysPending, [Next]_vars
               PROVE  PhysicalStaysPending'
    OBVIOUS
  <1>1. CASE \E s \in Sellers, admin \in Admins, listing \in Listings :
                CreateAuction(s, admin, listing)
    BY <1>1, CreateAuctionPending
  <1>2. CASE UNCHANGED authStatus
    <2> SUFFICES ASSUME NEW c \in AuctionIds, status'[c] # "Absent",
                        terms'[c].assetType = "PhysicalRWA"
                 PROVE  status'[c] = "Pending" /\ authStatus'[c] = "Pending"
      BY DEF PhysicalStaysPending, IsPhysical
    <2>1. status[c] # "Absent" => terms'[c] = terms[c] /\ status[c] = "Pending"
                                  /\ authStatus[c] = "Pending"
      BY ClockStep DEF PhysicalStaysPending, IsPhysical
    <2>2. <<status[c], status'[c]>> \in StatusSteps => status[c] = "Absent"
      BY <2>1 DEF StatusSteps
    <2>3. CASE status'[c] = status[c]
      BY <1>2, <2>1, <2>3
    <2>4. CASE status'[c] # status[c]
      <3>1. status[c] = "Absent"
        BY <2>2, <2>4, StatusStep
      <3>2. PICK s \in Sellers, admin \in Admins, listing \in Listings :
                CreateAuction(s, admin, listing)
        BY <2>4, <3>1, OpeningStep
      <3>3. PhysicalStaysPending'
        BY <3>2, CreateAuctionPending
      <3> QED
        BY <3>3 DEF PhysicalStaysPending, IsPhysical
    <2> QED
      BY <2>3, <2>4
  <1> QED
    BY <1>1, <1>2, AuthStatusCases

\* No verdict ever opens the auction of a physical item, or closes it, or is noted in it,
\* whatever is called in which order.
THEOREM PhysicalNeverOpens == Spec => []PhysicalStaysPending
  <1>1. Init => PhysicalStaysPending
    BY DEF Init, AuctionInit, PhysicalStaysPending
  <1> QED
    BY <1>1, NextPending, TypingInvariant, PTL DEF Spec

----------------------------------------------------------------------------
(* Reports and verdicts                                                    *)

\* The first byte of the data of upload_auth_report is the length of the report, and it
\* is the first byte of the nonce that is decoded from it.
LEMMA ReportLengthIsNonce ==
    ASSUME NEW report \in Reports, NEW trailing \in Trailings, NEW nonce,
           NamesNonce(EncodedString(report) \o trailing, nonce)
    PROVE  Len(report) = nonce
  <1> DEFINE data == EncodedString(report) \o trailing
             length == LittleEndian(Len(report), LengthBytes)
  <1>1. report \in Seq(0 .. 255) /\ trailing \in Seq(0 .. 255) /\ Len(report) \in Nat
    BY AuthenticationAssumption, SMT
  <1>2. length \in Seq(Nat) /\ Len(length) = 4 /\ length[1] = Len(report)
    <2>1. length = [i \in 1 .. 4 |-> IF i = 1 THEN Len(report) ELSE 0]
      BY DEF LittleEndian, LengthBytes
    <2> HIDE DEF length
    <2>2. \A i \in 1 .. 4 : length[i] \in Nat
      BY <1>1, <2>1, SMT
    <2> QED
      BY <1>1, <2>1, <2>2, SMT
  <1>3. Len(data) >= 8 /\ SubSeq(data, 1, 8) = LittleEndian(nonce, 8)
    BY DEF NamesNonce, NonceBytes
  <1>4. report \in Seq(Nat) /\ trailing \in Seq(Nat)
    <2>1. (0 .. 255) \subseteq Nat
      BY SMT
    <2> QED
      BY <1>1, <2>1, SeqMonotonic, Zenon
  <1>5. data = (length \o report) \o trailing
    BY DEF EncodedString
  <1> HIDE DEF length, data
  <1>6. data \in Seq(Nat) /\ data[1] = length[1]
    <2>1. 1 \in 1 .. Len(length) + Len(report)
      BY <1>1, <1>2, SMT
    <2>2. /\ length \o report \in Seq(Nat)
          /\ Len(length \o report) = Len(length) + Len(report)
          /\ \A i \in 1 .. Len(length) + Len(report) :
                (length \o report)[i] = IF i <= Len(length) THEN length[i]
                                                            ELSE report[i - Len(length)]
      BY <1>2, <1>4, ConcatProperties, Zenon
    <2> DEFINE front == length \o report
    <2> HIDE DEF front
    <2>3. /\ front \in Seq(Nat) /\ front[1] = length[1]
          /\ 1 \in 1 .. Len(front) + Len(trailing) /\ 1 <= Len(front)
      BY <1>1, <1>2, <1>4, <2>1, <2>2, SMT DEF front
    <2>4. front \o trailing \in Seq(Nat) /\ (front \o trailing)[1] = front[1]
      BY <1>4, <2>3, ConcatProperties, SMT
    <2> QED
      BY <1>5, <2>3, <2>4 DEF front
  <1>7. SubSeq(data, 1, 8)[1] = data[1]
    BY <1>3, <1>6, SMT
  <1>8. LittleEndian(nonce, 8)[1] = nonce
    BY SMT DEF LittleEndian
  <1> QED
    BY <1>2, <1>3, <1>6, <1>7, <1>8

\* What a step may do to the authentication of auction c: nothing to its report and its
\* verdict, a fresh account, a new report under the old verdict, or a verdict.
AccountKept(c) ==
    /\ authentication'[c].authStatus = authentication[c].authStatus
    /\ authentication'[c].reportHash = authentication[c].reportHash

AccountOpened(c) ==
    /\ authentication'[c].authStatus \in {"NotRequired", "Pending"}
    /\ authentication'[c].reportHash = <<>>

AccountReported(c) == \E report \in Reports, trailing \in Trailings :
    /\ NamesNonce(EncodedString(report) \o trailing, c[2])
    /\ authentication'[c].authStatus = authentication[c].authStatus
    /\ authentication'[c].reportHash = report

AccountJudged(c) ==
    /\ authentication[c].reportHash # <<>>
    /\ authentication'[c].reportHash = authentication[c].reportHash
    /\ \E admin \in platforms : Contains(registry[admin], authentication[c].authenticator)

LEMMA AuthenticationCases ==
    ASSUME [Next]_vars
    PROVE  \/ UNCHANGED authentication
           \/ \E s \in Sellers, admin \in Admins, listing \in Listings :
                CreateAuction(s, admin, listing)
           \/ \E a \in AuctionIds, w \in Bidders, admin \in Admins, passed \in Passed :
                    SettleAuction(a, w, admin, passed)
           \/ \E a \in AuctionIds, u \in Users, admin \in Admins, trailing \in Trailings :
                \/ \E report \in Reports : UploadAuthReport(a, u, admin, report, trailing)
                \/ \E approved \in BOOLEAN :
                     AttestAuthentication(a, u, admin, approved, trailing)
  <1>1. CASE AuthenticationNext
    BY <1>1, Zenon DEF AuthenticationNext
  <1>2. CASE AuctionNext
    <2>1. ASSUME NEW a \in AuctionIds, NEW u \in Bidders, NEW x \in BidAmounts,
                 PlaceBid(a, u, x)
          PROVE  UNCHANGED authentication
      BY <2>1 DEF PlaceBid
    <2>2. ASSUME NEW a \in AuctionIds, NEW u \in Bidders, WithdrawBid(a, u)
          PROVE  UNCHANGED authentication
      BY <2>2 DEF WithdrawBid
    <2> QED
      BY <1>2, <2>1, <2>2, Zenon DEF AuctionNext, Tick, DepositItem, EndAuction
  <1>3. CASE UNCHANGED authentication
    BY <1>3
  <1> QED
    BY <1>1, <1>2, <1>3 DEF Next, auctionVars, vars

LEMMA CreateAuctionOpens ==
    ASSUME Typed, NEW s \in Sellers, NEW admin \in Admins, NEW listing \in Listings,
           CreateAuction(s, admin, listing), NEW c \in AuctionIds
    PROVE  AccountKept(c) \/ AccountOpened(c)
  <1> DEFINE a == <<s, auctionCount[s]>>
             filled == [filled |-> TRUE, authStatus |-> "Pending",
                        authenticator |-> Assignee(registry[admin]),
                        reportHash |-> <<>>, feeAmount |-> 0, feePaid |-> FALSE]
             new == IF listing.assetType = "PhysicalRWA" THEN filled ELSE ZeroAuthentication
  <1>1. authentication' = [authentication EXCEPT ![a] = new]
    BY DEF CreateAuction
  <1>2. new.authStatus \in {"NotRequired", "Pending"} /\ new.reportHash = <<>>
    BY DEF ZeroAuthentication
  <1> HIDE DEF a, new
  <1>3. authentication'[c] = authentication[c] \/ authentication'[c] = new
    BY <1>1 DEF Typed, TypeOK, AuctionTypeOK
  <1> QED
    BY <1>2, <1>3 DEF AccountKept, AccountOpened

LEMMA AuthenticationStep ==
    ASSUME Typed, [Next]_vars, NEW c \in AuctionIds
    PROVE  AccountKept(c) \/ AccountOpened(c) \/ AccountReported(c) \/ AccountJudged(c)
  <1> DEFINE Goal == AccountKept(c) \/ AccountOpened(c) \/ AccountReported(c) \/ AccountJudged(c)
  <1>1. authentication \in [AuctionIds -> Authentications]
    BY DEF Typed, TypeOK, AuctionTypeOK
  <1>2. ASSUME NEW a \in AuctionIds, NEW w \in Bidders, NEW admin \in Admins,
               NEW passed \in Passed,
               SettleAuction(a, w, admin, passed)
        PROVE  AccountKept(c)
    <2>1. \/ authentication' = authentication
          \/ authentication' = [authentication EXCEPT ![a].feeAmount = AuthFee(a, admin),
                                                      ![a].feePaid = TRUE]
      BY <1>2, Zenon DEF SettleAuction
    <2> DEFINE marked == [authentication EXCEPT ![a].feeAmount = AuthFee(a, admin)]
    <2>2. CASE authentication' = authentication
      BY <2>2 DEF AccountKept
    <2>3. CASE authentication' = [marked EXCEPT ![a].feePaid = TRUE]
      <3>1. marked[c].authStatus = authentication[c].authStatus
            /\ marked[c].reportHash = authentication[c].reportHash
        BY <1>1 DEF Authentications
      <3>2. DOMAIN marked = AuctionIds
        BY <1>1
      <3> HIDE DEF marked
      <3>3. authentication'[c] = IF c = a THEN [marked[a] EXCEPT !.feePaid = TRUE] ELSE marked[c]
        BY <2>3, <3>2, Zenon
      <3> QED
        BY <3>1, <3>3 DEF AccountKept
    <2> QED
      BY <2>1, <2>2, <2>3
  <1>3. ASSUME NEW a \in AuctionIds, NEW u \in Users, NEW admin \in Admins,
               NEW trailing \in Trailings, NEW report \in Reports,
               UploadAuthReport(a, u, admin, report, trailing)
        PROVE  Goal
    <2>1. /\ NamesNonce(EncodedString(report) \o trailing, a[2])
          /\ authentication' = [authentication EXCEPT ![a].authenticator = u,
                                                      ![a].reportHash = report]
      BY <1>3, Zenon DEF UploadAuthReport
    <2>2. CASE c = a
      <3>1. /\ authentication'[c].authStatus = authentication[c].authStatus
            /\ authentication'[c].reportHash = report
        BY <1>1, <2>1, <2>2 DEF Authentications
      <3> QED
        BY <2>1, <2>2, <3>1 DEF AccountReported
    <2>3. CASE c # a
      <3>1. authentication'[c] = authentication[c]
        BY <1>1, <2>1, <2>3
      <3> QED
        BY <3>1 DEF AccountKept
    <2> QED
      BY <2>2, <2>3
  <1>4. ASSUME NEW a \in AuctionIds, NEW u \in Users, NEW admin \in Admins,
               NEW trailing \in Trailings, NEW approved \in BOOLEAN,
               AttestAuthentication(a, u, admin, approved, trailing)
        PROVE  Goal
    <2>1. /\ admin \in platforms /\ Contains(registry[admin], u)
          /\ authentication[a].authenticator = u /\ authentication[a].reportHash # <<>>
          /\ authentication' = [authentication EXCEPT ![a].authStatus =
                                    IF approved THEN "Verified" ELSE "Rejected"]
      BY <1>4, Zenon DEF AttestAuthentication, IsAuthenticator, MayAttest
    <2>2. authentication'[c].reportHash = authentication[c].reportHash
      BY <1>1, <2>1 DEF Authentications
    <2>3. c # a => authentication'[c] = authentication[c]
      BY <1>1, <2>1
    <2> QED
      BY <2>1, <2>2, <2>3, Zenon DEF AccountJudged, AccountKept
  <1>5. CASE UNCHANGED authentication
    BY <1>5 DEF AccountKept
  <1> QED
    BY <1>2, <1>3, <1>4, <1>5, CreateAuctionOpens, AuthenticationCases

\* The inductive form: an auction of nonce 0 can only ever be given the empty report, and
\* any other only a report as long as its nonce, so a report is never replaced by none.
ReportsKept ==
    \A a \in AuctionIds :
        /\ authentication[a].reportHash # <<>> => a[2] # 0
        /\ authentication[a].authStatus \in {"Verified", "Rejected"} =>
               authentication[a].reportHash # <<>>

LEMMA NextReportsKept == Typed /\ ReportsKept /\ [Next]_vars => ReportsKept'
  <1> SUFFICES ASSUME Typed, ReportsKept, [Next]_vars, NEW c \in AuctionIds
               PROVE  /\ authentication'[c].reportHash # <<>> => c[2] # 0
                      /\ authentication'[c].authStatus \in {"Verified", "Rejected"} =>
                             authentication'[c].reportHash # <<>>
    BY DEF ReportsKept
  <1>1. /\ authentication[c].reportHash # <<>> => c[2] # 0
        /\ authentication[c].authStatus \in {"Verified", "Rejected"} =>
               authentication[c].reportHash # <<>>
    BY DEF ReportsKept
  <1>2. CASE AccountKept(c)
    BY <1>1, <1>2 DEF AccountKept
  <1>3. CASE AccountOpened(c)
    BY <1>3 DEF AccountOpened
  <1>4. CASE AccountJudged(c)
    BY <1>1, <1>4 DEF AccountJudged
  <1>5. CASE AccountReported(c)
    <2>1. PICK report \in Reports, trailing \in Trailings :
                /\ NamesNonce(EncodedString(report) \o trailing, c[2])
                /\ authentication'[c].authStatus = authentication[c].authStatus
                /\ authentication'[c].reportHash = report
      BY <1>5 DEF AccountReported
    <2>2. Len(report) = c[2]
      BY <2>1, ReportLengthIsNonce
    <2>3. report = <<>> <=> Len(report) = 0
      BY AuthenticationAssumption, SMT
    <2> QED
      BY <1>1, <2>1, <2>2, <2>3
  <1> QED
    BY <1>2, <1>3, <1>4, <1>5, AuthenticationStep

\* A verdict always has a report under it, although nothing stops a report from being
\* uploaded again after the verdict.
THEOREM VerdictsRestOnReports == Spec => []VerdictRestsOnReport
  <1>1. Init => ReportsKept
    BY DEF Init, AuctionInit, ReportsKept, ZeroAuthentication
  <1>2. ReportsKept => VerdictRestsOnReport
    BY DEF ReportsKept, VerdictRestsOnReport
  <1> QED
    BY <1>1, <1>2, NextReportsKept, TypingInvariant, PTL DEF Spec

\* Nobody but the reporter of an auction, registered at that moment with some platform,
\* changes its verdict.
THEOREM ReporterGivesVerdict == Spec => VerdictByRegisteredReporter
  <1>1. Typed /\ [Next]_vars =>
            [\A a \in AuctionIds :
                authentication'[a].authStatus # authentication[a].authStatus
                /\ authentication'[a].authStatus \in {"Verified", "Rejected"} =>
                    /\ authentication[a].reportHash # <<>>
                    /\ \E admin \in platforms :
                        Contains(registry[admin], authentication[a].authenticator)]_vars
    BY AuthenticationStep, Zenon
    DEF AccountKept, AccountOpened, AccountReported, AccountJudged
  <1> QED
    BY <1>1, TypingInvariant, PTL DEF Spec, VerdictByRegisteredReporter

=============================================================================
