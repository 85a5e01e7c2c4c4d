----------------------------- MODULE TokenProofs -----------------------------
(***************************************************************************)
(* Where the tokens are, for any number of users, auctions, mints and      *)
(* platforms: sums of balances, and what each instruction does to them.    *)
(***************************************************************************)
EXTENDS AuthenticationProofs, FiniteSetTheorems, WellFoundedInduction

----------------------------------------------------------------------------
(* Sums.  SumOver takes the elements of a set in the order CHOOSE gives    *)
(* them: it is the value at S of the function Iter(f, S), which the        *)
(* lemmas show to exist and not to depend on S.                            *)

Any(s) == CHOOSE x \in s : TRUE

Rest(s) == s \ {Any(s)}

IsIter(f, S, g) ==
    g = [s \in SUBSET S |-> IF s = {} THEN 0 ELSE f[Any(s)] + g[Rest(s)]]

Iter(f, S) == CHOOSE g : IsIter(f, S, g)

LEMMA SumIsIter ==
    ASSUME NEW f, NEW S
    PROVE  SumOver(f, S) = Iter(f, S)[S]
  BY DEF SumOver, Iter, IsIter, Any, Rest, Sets!MapThenSumSet, Sets!MapThenFoldSet

\* A collection of finite sets has a member none of whose proper subsets are members.
LEMMA MinimalSubset ==
    ASSUME NEW S, IsFiniteSet(S), NEW C, C \subseteq SUBSET S, C # {}
    PROVE  \E s \in C : \A t \in C : ~(t \subseteq s /\ t # s)
  <1> DEFINE R == StrictSubsetOrdering(S)
             F == FiniteSubsetsOf(S)
  <1>1. IsWellFoundedOn(R, F)
    BY FS_StrictSubsetOrderingWellFounded
  <1>2. C \subseteq F
    BY FS_FiniteSubsetsOfFinite
  <1>3. \A s, t \in C : t \subseteq s /\ t # s => <<t, s>> \in R
    BY DEF StrictSubsetOrdering
  <1> HIDE DEF R, F
  <1>4. \E s \in C : \A t \in C : ~(<<t, s>> \in R)
    BY <1>1, <1>2, WFMin
  <1> QED
    BY <1>3, <1>4

LEMMA RestIsSmaller ==
    ASSUME NEW s, s # {}
    PROVE  Any(s) \in s /\ Rest(s) \subseteq s /\ Rest(s) # s
  BY DEF Any, Rest

LEMMA IterStep ==
    ASSUME NEW f, NEW S, NEW g, IsIter(f, S, g), NEW s \in SUBSET S
    PROVE  g[s] = IF s = {} THEN 0 ELSE f[Any(s)] + g[Rest(s)]
  BY Zenon DEF IsIter

\* Two such functions agree wherever both are defined.
LEMMA IterUnique ==
    ASSUME NEW f, NEW S, IsFiniteSet(S), NEW T, NEW g, NEW h,
           IsIter(f, S, g), IsIter(f, T, h), NEW r, r \subseteq S, r \subseteq T
    PROVE  g[r] = h[r]
  <1> DEFINE C == {s \in SUBSET S : s \subseteq T /\ g[s] # h[s]}
  <1> SUFFICES ASSUME C # {} PROVE FALSE
    OBVIOUS
  <1>1. PICK s \in C : \A t \in C : ~(t \subseteq s /\ t # s)
    <2>1. C \subseteq SUBSET S
      OBVIOUS
    <2> HIDE DEF C
    <2> QED
      BY <2>1, MinimalSubset
  <1>2. /\ g[s] = IF s = {} THEN 0 ELSE f[Any(s)] + g[Rest(s)]
        /\ h[s] = IF s = {} THEN 0 ELSE f[Any(s)] + h[Rest(s)]
    BY IterStep
  <1>3. s # {}
    BY <1>2
  <1>4. g[Rest(s)] = h[Rest(s)]
    BY <1>1, <1>3, RestIsSmaller
  <1> QED
    BY <1>2, <1>3, <1>4

\* Such a function exists on every finite set.
LEMMA IterExists ==
    ASSUME NEW f, NEW S, IsFiniteSet(S)
    PROVE  \E g : IsIter(f, S, g)
  <1> DEFINE C == {s \in SUBSET S : ~ \E g : IsIter(f, s, g)}
  <1> SUFFICES ASSUME C # {} PROVE FALSE
    OBVIOUS
  <1>1. PICK s \in C : \A t \in C : ~(t \subseteq s /\ t # s)
    <2>1. C \subseteq SUBSET S
      OBVIOUS
    <2> HIDE DEF C
    <2> QED
      BY <2>1, MinimalSubset
  <1>2. \A t : t \subseteq s /\ t # s => IsIter(f, t, Iter(f, t)) /\ IsFiniteSet(t)
    <2> SUFFICES ASSUME NEW t, t \subseteq s, t # s
                 PROVE  IsIter(f, t, Iter(f, t)) /\ IsFiniteSet(t)
      OBVIOUS
    <2>1. t \in SUBSET S /\ t \notin C
      BY <1>1
    <2>2. \E g : IsIter(f, t, g)
      BY <2>1
    <2> QED
      BY <2>1, <2>2, FS_Subset DEF Iter
  <1> DEFINE below(t) == Iter(f, Rest(t))[Rest(t)]
             h == [t \in SUBSET s |-> IF t = {} THEN 0 ELSE f[Any(t)] + below(t)]
  <1>3. ASSUME NEW t \in SUBSET s, t # {}
        PROVE  h[Rest(t)] = below(t)
    <2> DEFINE u == Rest(t)
               g == Iter(f, u)
    <2>1. u \subseteq s /\ u # s /\ IsIter(f, u, g) /\ IsFiniteSet(u)
      <3>1. Rest(t) \subseteq s /\ Rest(t) # s
        BY <1>3, RestIsSmaller
      <3> QED
        BY <1>2, <3>1
    <2>2. g[u] = IF u = {} THEN 0 ELSE f[Any(u)] + g[Rest(u)]
      BY <2>1, IterStep
    <2>3. u # {} => g[Rest(u)] = below(u)
      <3> SUFFICES ASSUME u # {} PROVE g[Rest(u)] = Iter(f, Rest(u))[Rest(u)]
        OBVIOUS
      <3>1. Rest(u) \subseteq u /\ Rest(u) \subseteq s /\ Rest(u) # s
        BY <2>1, RestIsSmaller
      <3>2. IsIter(f, Rest(u), Iter(f, Rest(u)))
        BY <1>2, <3>1
      <3> QED
        BY <2>1, <3>1, <3>2, IterUnique
    <2> HIDE DEF below, g, u
    <2>4. h[u] = IF u = {} THEN 0 ELSE f[Any(u)] + below(u)
      BY <2>1
    <2> QED
      BY <2>2, <2>3, <2>4 DEF below, g, u
  <1>4. IsIter(f, s, h)
    <2>1. \A t \in SUBSET s : h[t] = IF t = {} THEN 0 ELSE f[Any(t)] + h[Rest(t)]
      <3> HIDE DEF below
      <3> QED
        BY <1>3
    <2> HIDE DEF h
    <2>2. h = [t \in SUBSET s |-> h[t]]
      BY DEF h
    <2> QED
      BY <2>1, <2>2, Zenon DEF IsIter
  <1> QED
    BY <1>4

\* A sum over a finite set is that of its rest and the element chosen first.
LEMMA SumStep ==
    ASSUME NEW f, NEW S, IsFiniteSet(S)
    PROVE  SumOver(f, S) = IF S = {} THEN 0 ELSE f[Any(S)] + SumOver(f, Rest(S))
  <1>1. IsIter(f, S, Iter(f, S))
    BY IterExists DEF Iter
  <1>2. Iter(f, S)[S] = IF S = {} THEN 0 ELSE f[Any(S)] + Iter(f, S)[Rest(S)]
    BY <1>1, IterStep
  <1>3. ASSUME S # {} PROVE Iter(f, S)[Rest(S)] = Iter(f, Rest(S))[Rest(S)]
    <2>1. Rest(S) \subseteq S /\ IsFiniteSet(Rest(S))
      BY <1>3, RestIsSmaller, FS_Subset
    <2>2. IsIter(f, Rest(S), Iter(f, Rest(S)))
      BY <2>1, IterExists DEF Iter
    <2> QED
      BY <1>1, <2>1, <2>2, IterUnique
  <1> QED
    BY <1>2, <1>3, SumIsIter

\* What holds of the empty set, and of a set when it holds of its rest, holds of every
\* finite set: Good is the collection of the subsets of S it holds of.
LEMMA RestInduction ==
    ASSUME NEW S, IsFiniteSet(S), NEW Good,
           \A s \in SUBSET S : (s = {} \/ Rest(s) \in Good) => s \in Good
    PROVE  \A s \in SUBSET S : s \in Good
  <1> DEFINE C == {s \in SUBSET S : s \notin Good}
  <1> SUFFICES ASSUME C # {} PROVE FALSE
    OBVIOUS
  <1>1. PICK s \in C : \A t \in C : ~(t \subseteq s /\ t # s)
    <2>1. C \subseteq SUBSET S
      OBVIOUS
    <2> HIDE DEF C
    <2> QED
      BY <2>1, MinimalSubset
  <1>2. s \in SUBSET S /\ s # {} /\ Rest(s) \notin Good
    OBVIOUS
  <1>3. Rest(s) \subseteq s /\ Rest(s) # s
    BY <1>2, RestIsSmaller
  <1> QED
    BY <1>1, <1>2, <1>3

LEMMA SumIsInt ==
    ASSUME NEW f, NEW S, IsFiniteSet(S), \A x \in S : f[x] \in Int
    PROVE  SumOver(f, S) \in Int
  <1> DEFINE Good == {s \in SUBSET S : SumOver(f, s) \in Int}
  <1>1. ASSUME NEW s \in SUBSET S, s = {} \/ Rest(s) \in Good PROVE s \in Good
    <2>1. SumOver(f, s) = IF s = {} THEN 0 ELSE f[Any(s)] + SumOver(f, Rest(s))
      BY SumStep, FS_Subset
    <2>2. s # {} => f[Any(s)] \in Int
      BY RestIsSmaller
    <2> QED
      BY <1>1, <2>1, <2>2
  <1> HIDE DEF Good
  <1>2. S \in Good
    BY <1>1, RestInduction
  <1> QED
    BY <1>2 DEF Good

\* Sums add up.
LEMMA SumOfSums ==
    ASSUME NEW f, NEW g, NEW h, NEW S, IsFiniteSet(S),
           \A x \in S : f[x] \in Int /\ g[x] \in Int /\ h[x] = f[x] + g[x]
    PROVE  SumOver(h, S) = SumOver(f, S) + SumOver(g, S)
  <1> DEFINE Good == {s \in SUBSET S : SumOver(h, s) = SumOver(f, s) + SumOver(g, s)}
  <1>1. ASSUME NEW s \in SUBSET S, s = {} \/ Rest(s) \in Good PROVE s \in Good
    <2>1. /\ SumOver(f, s) = IF s = {} THEN 0 ELSE f[Any(s)] + SumOver(f, Rest(s))
          /\ SumOver(g, s) = IF s = {} THEN 0 ELSE g[Any(s)] + SumOver(g, Rest(s))
          /\ SumOver(h, s) = IF s = {} THEN 0 ELSE h[Any(s)] + SumOver(h, Rest(s))
      BY SumStep, FS_Subset
    <2>2. CASE s = {}
      BY <2>1, <2>2
    <2>3. CASE s # {}
      <3>1. Any(s) \in S /\ Rest(s) \subseteq S /\ IsFiniteSet(Rest(s))
        BY <2>3, RestIsSmaller, FS_Subset
      <3>2. SumOver(f, Rest(s)) \in Int /\ SumOver(g, Rest(s)) \in Int
        BY <3>1, SumIsInt
      <3>3. SumOver(h, Rest(s)) = SumOver(f, Rest(s)) + SumOver(g, Rest(s))
        BY <1>1, <2>3
      <3>4. f[Any(s)] \in Int /\ g[Any(s)] \in Int /\ h[Any(s)] = f[Any(s)] + g[Any(s)]
        BY <3>1
      <3> HIDE DEF Good
      <3>5. SumOver(h, s) = SumOver(f, s) + SumOver(g, s)
        BY <2>1, <2>3, <3>2, <3>3, <3>4
      <3> QED
        BY <3>5 DEF Good
    <2> QED
      BY <2>2, <2>3
  <1> HIDE DEF Good
  <1>2. S \in Good
    BY <1>1, RestInduction
  <1> QED
    BY <1>2 DEF Good

\* A function that is 0 but at c.
LEMMA SumOfPoint ==
    ASSUME NEW S, IsFiniteSet(S), NEW c, NEW k \in Int, NEW f,
           \A x \in S : f[x] = IF x = c THEN k ELSE 0
    PROVE  SumOver(f, S) = IF c \in S THEN k ELSE 0
  <1> DEFINE Good == {s \in SUBSET S : SumOver(f, s) = IF c \in s THEN k ELSE 0}
  <1>1. ASSUME NEW s \in SUBSET S, s = {} \/ Rest(s) \in Good PROVE s \in Good
    <2>1. SumOver(f, s) = IF s = {} THEN 0 ELSE f[Any(s)] + SumOver(f, Rest(s))
      BY SumStep, FS_Subset
    <2>2. CASE s = {}
      BY <2>1, <2>2
    <2>3. CASE s # {}
      <3>1. Any(s) \in S
        BY <2>3, RestIsSmaller
      <3>2. SumOver(f, Rest(s)) = IF c \in Rest(s) THEN k ELSE 0
        BY <1>1, <2>3
      <3>3. f[Any(s)] = IF Any(s) = c THEN k ELSE 0
        BY <3>1
      <3>4. c \in Rest(s) <=> c \in s /\ c # Any(s)
        BY DEF Rest
      <3>5. c = Any(s) => c \in s
        BY <2>3, RestIsSmaller
      <3> HIDE DEF Good
      <3>6. SumOver(f, s) = IF c \in s THEN k ELSE 0
        BY <2>1, <2>3, <3>2, <3>3, <3>4, <3>5
      <3> QED
        BY <3>6 DEF Good
    <2> QED
      BY <2>2, <2>3
  <1> HIDE DEF Good
  <1>2. S \in Good
    BY <1>1, RestInduction
  <1> QED
    BY <1>2 DEF Good

\* A sum changes by what is added at one place.
LEMMA SumChangedAt ==
    ASSUME NEW f, NEW h, NEW S, IsFiniteSet(S), NEW c, NEW k \in Int,
           \A x \in S : f[x] \in Int /\ h[x] = IF x = c THEN f[x] + k ELSE f[x]
    PROVE  SumOver(h, S) = SumOver(f, S) + (IF c \in S THEN k ELSE 0)
  <1> DEFINE point == [x \in S |-> IF x = c THEN k ELSE 0]
  <1>1. \A x \in S : point[x] = IF x = c THEN k ELSE 0
    OBVIOUS
  <1> HIDE DEF point
  <1>2. SumOver(point, S) = IF c \in S THEN k ELSE 0
    BY <1>1, SumOfPoint
  <1>3. \A x \in S : f[x] \in Int /\ point[x] \in Int /\ h[x] = f[x] + point[x]
    BY <1>1
  <1>4. SumOver(h, S) = SumOver(f, S) + SumOver(point, S)
    BY <1>3, SumOfSums
  <1> QED
    BY <1>2, <1>4

LEMMA SameSum ==
    ASSUME NEW f, NEW h, NEW S, IsFiniteSet(S), \A x \in S : f[x] \in Int /\ h[x] = f[x]
    PROVE  SumOver(h, S) = SumOver(f, S)
  <1>1. ASSUME NEW x \in S PROVE f[x] \in Int /\ h[x] = IF x = 0 THEN f[x] + 0 ELSE f[x]
    <2>1. f[x] \in Int /\ h[x] = f[x] /\ f[x] + 0 = f[x]
      OBVIOUS
    <2> QED
      BY <2>1
  <1>2. SumOver(h, S) = SumOver(f, S) + (IF 0 \in S THEN 0 ELSE 0)
    BY <1>1, SumChangedAt
  <1>3. SumOver(f, S) \in Int
    BY SumIsInt
  <1> QED
    BY <1>2, <1>3

\* The sum over a part of B is the sum over B of what is 0 elsewhere.
LEMMA SumOverPart ==
    ASSUME NEW B, IsFiniteSet(B), NEW S \in SUBSET B, NEW f, NEW g,
           \A x \in S : f[x] \in Int,
           \A x \in B : g[x] = IF x \in S THEN f[x] ELSE 0
    PROVE  SumOver(g, B) = SumOver(f, S)
  <1> DEFINE part(T) == [x \in B |-> IF x \in T THEN f[x] ELSE 0]
             Good == {T \in SUBSET S : SumOver(part(T), B) = SumOver(f, T)}
  <1>1. IsFiniteSet(S)
    BY FS_Subset
  <1>2. ASSUME NEW T \in SUBSET S
        PROVE  \A x \in B : part(T)[x] \in Int /\ part(T)[x] = IF x \in T THEN f[x] ELSE 0
    OBVIOUS
  <1>3. ASSUME NEW T \in SUBSET S, T = {} \/ Rest(T) \in Good PROVE T \in Good
    <2>1. SumOver(f, T) = IF T = {} THEN 0 ELSE f[Any(T)] + SumOver(f, Rest(T))
      BY <1>1, SumStep, FS_Subset
    <2>2. CASE T = {}
      <3>1. \A x \in B : part(T)[x] = IF x = B THEN 0 ELSE 0
        BY <1>2, <2>2
      <3> HIDE DEF part
      <3>2. SumOver(part(T), B) = 0
        BY <3>1, SumOfPoint
      <3> QED
        BY <2>1, <2>2, <3>2
    <2>3. CASE T # {}
      <3>1. Any(T) \in S /\ Any(T) \in B /\ Rest(T) \in SUBSET S /\ f[Any(T)] \in Int
        BY <2>3, RestIsSmaller
      <3>2. \A x \in B : /\ part(Rest(T))[x] \in Int
                         /\ part(T)[x] = IF x = Any(T) THEN part(Rest(T))[x] + f[Any(T)]
                                                       ELSE part(Rest(T))[x]
        <4>1. \A x : x \in Rest(T) <=> x \in T /\ x # Any(T)
          BY DEF Rest
        <4>2. Any(T) \in T
          BY <2>3, RestIsSmaller
        <4>3. \A x \in B : /\ part(T)[x] = IF x \in T THEN f[x] ELSE 0
                           /\ part(Rest(T))[x] \in Int
                           /\ part(Rest(T))[x] = IF x \in Rest(T) THEN f[x] ELSE 0
          BY <1>2, <3>1
        <4> HIDE DEF part, Good
        <4> QED
          BY <3>1, <4>1, <4>2, <4>3
      <3>3. SumOver(part(Rest(T)), B) = SumOver(f, Rest(T))
        BY <1>3, <2>3
      <3> HIDE DEF part, Good
      <3>4. SumOver(part(T), B) = SumOver(part(Rest(T)), B) + f[Any(T)]
        BY <3>1, <3>2, SumChangedAt
      <3>5. SumOver(f, Rest(T)) \in Int
        BY <1>1, <3>1, SumIsInt, FS_Subset
      <3>6. SumOver(part(T), B) = SumOver(f, T)
        BY <2>1, <2>3, <3>1, <3>3, <3>4, <3>5
      <3> QED
        BY <3>6 DEF Good
    <2> QED
      BY <2>2, <2>3
  <1> HIDE DEF Good
  <1>4. S \in Good
    <2>1. \A T \in SUBSET S : (T = {} \/ Rest(T) \in Good) => T \in Good
      BY <1>3
    <2>2. \A T \in SUBSET S : T \in Good
      BY <1>1, <2>1, RestInduction
    <2> QED
      BY <2>2
  <1>5. SumOver(part(S), B) = SumOver(f, S)
    BY <1>4 DEF Good
  <1>6. SumOver(g, B) = SumOver(part(S), B)
    <2>1. \A x \in B : part(S)[x] \in Int /\ g[x] = part(S)[x]
      BY <1>2
    <2> HIDE DEF part
    <2> QED
      BY <2>1, SameSum
  <1> QED
    BY <1>5, <1>6

----------------------------------------------------------------------------
(* The accounts that hold tokens                                           *)

LEMMA FiniteAccounts == IsFiniteSet(Users) /\ IsFiniteSet(Admins) /\ IsFiniteSet(BidIds)
  <1>1. IsFiniteSet(Users) /\ IsFiniteSet(Admins) /\ IsFiniteSet(Sellers)
    BY PlatformAssumption, AuctionAssumption, FS_Subset
  <1>2. IsFiniteSet(0 .. MaxAuctions - 1)
    <2>1. 0 \in Int /\ MaxAuctions - 1 \in Int
      BY AuctionAssumption
    <2> QED
      BY <2>1, FS_Interval
  <1>3. IsFiniteSet(AuctionIds)
    BY <1>1, <1>2, FS_Product DEF AuctionIds
  <1> QED
    BY <1>1, <1>3, FS_Product DEF BidIds

moneyVars == <<treasuryUsdc, treasurySol, wallet, terms, vaults, escrow>>

\* Five instructions move tokens or say what the tokens of a vault are.
LEMMA MoneyCases ==
    ASSUME [Next]_vars
    PROVE  \/ UNCHANGED moneyVars
           \/ \E admin \in Admins : ClosePlatform(admin) /\ UNCHANGED auctionVars
           \/ \E s \in Sellers, admin \in Admins, listing \in Listings :
                CreateAuction(s, admin, listing)
           \/ \E a \in AuctionIds, u \in Bidders, x \in BidAmounts : PlaceBid(a, u, x)
           \/ \E a \in AuctionIds, w \in Bidders, admin \in Admins, passed \in Passed :
                    SettleAuction(a, w, admin, passed)
           \/ \E a \in AuctionIds, u \in Bidders : WithdrawBid(a, u)
  <1> USE DEF moneyVars
  <1>1. CASE UNCHANGED vars
    BY <1>1 DEF vars, platformVars, auctionVars
  <1>2. CASE PlatformNext /\ UNCHANGED auctionVars
    <2>1. ASSUME NEW admin \in Admins, NEW rate, NEW authRate, NEW min, NEW max,
                 UpdatePlatformConfig(admin, rate, authRate, min, max)
          PROVE  UNCHANGED <<treasuryUsdc, treasurySol, wallet>>
      BY <2>1 DEF UpdatePlatformConfig
    <2>2. ASSUME NEW admin \in Admins, NEW setup \in Setups, Initialize(admin, setup)
          PROVE  UNCHANGED <<treasuryUsdc, treasurySol, wallet>>
      BY <2>2 DEF Initialize
    <2>3. ASSUME NEW admin \in Admins,
                 \/ TogglePause(admin)
                 \/ \E keys \in KeyLists : RegisterAuthenticators(admin, keys)
                 \/ \E key \in Keys : RemoveAuthenticator(admin, key)
          PROVE  UNCHANGED <<treasuryUsdc, treasurySol, wallet>>
      BY <2>3 DEF TogglePause, RegisterAuthenticators, RemoveAuthenticator
    <2> QED
      BY <1>2, <2>1, <2>2, <2>3, Zenon DEF PlatformNext, auctionVars
  <1>3. CASE AuctionNext
    BY <1>3, Zenon DEF AuctionNext, Tick, DepositItem, EndAuction, platformVars
  <1>4. CASE AuthenticationNext
    <2>1. ASSUME NEW a \in AuctionIds, NEW u \in Users, NEW admin \in Admins,
                 NEW report \in Reports, NEW trailing \in Trailings,
                 UploadAuthReport(a, u, admin, report, trailing)
          PROVE  UNCHANGED moneyVars
      BY <2>1 DEF UploadAuthReport, platformVars
    <2>2. ASSUME NEW a \in AuctionIds, NEW u \in Users, NEW admin \in Admins,
                 NEW approved \in BOOLEAN, NEW trailing \in Trailings,
                 AttestAuthentication(a, u, admin, approved, trailing)
          PROVE  UNCHANGED moneyVars
      BY <2>2 DEF AttestAuthentication, platformVars
    <2> HIDE DEF moneyVars
    <2> QED
      BY <1>4, <2>1, <2>2, Zenon DEF AuthenticationNext
  <1> QED
    BY <1>1, <1>2, <1>3, <1>4 DEF Next

----------------------------------------------------------------------------
(* Treasuries                                                              *)

LEMMA TreasuryStep ==
    ASSUME Typed, [Next]_vars
    PROVE  /\ treasurySol' >= treasurySol
           /\ \A admin \in Admins : treasuryUsdc'[admin] < treasuryUsdc[admin] =>
                /\ admin \in platforms \ platforms'
                /\ treasuryUsdc'[admin] = 0
                /\ wallet'[Usdc][admin] = wallet[Usdc][admin] + treasuryUsdc[admin]
  <1> DEFINE Goal ==
        /\ treasurySol' >= treasurySol
        /\ \A admin \in Admins : treasuryUsdc'[admin] < treasuryUsdc[admin] =>
                /\ admin \in platforms \ platforms'
                /\ treasuryUsdc'[admin] = 0
                /\ wallet'[Usdc][admin] = wallet[Usdc][admin] + treasuryUsdc[admin]
  <1>1. /\ treasurySol \in Nat
        /\ treasuryUsdc \in [Admins -> Nat]
        /\ wallet \in [Tokens -> [Users -> Nat]]
    BY DEF Typed, TypeOK, PlatformTypeOK
  <1>2. CASE UNCHANGED <<treasuryUsdc, treasurySol>>
    BY <1>1, <1>2, SMT
  <1>3. ASSUME NEW owner \in Admins, ClosePlatform(owner) PROVE Goal
    <2>1. /\ owner \in platforms
          /\ wallet' = [wallet EXCEPT ![Usdc][owner] = @ + treasuryUsdc[owner]]
          /\ treasuryUsdc' = [treasuryUsdc EXCEPT ![owner] = 0]
          /\ platforms' = platforms \ {owner}
          /\ treasurySol' = treasurySol
      BY <1>3 DEF ClosePlatform, ClosingWallet, Credit
    <2>2. wallet'[Usdc][owner] = wallet[Usdc][owner] + treasuryUsdc[owner]
      BY <1>1, <2>1, TokensNonempty, PlatformAssumption
    <2>3. \A admin \in Admins : admin # owner => treasuryUsdc'[admin] = treasuryUsdc[admin]
      BY <1>1, <2>1
    <2>4. treasuryUsdc'[owner] = 0
      BY <1>1, <2>1
    <2>5. \A admin \in Admins : ~(treasuryUsdc[admin] < treasuryUsdc[admin])
      BY <1>1, SMT
    <2> QED
      BY <1>1, <2>1, <2>2, <2>3, <2>4, <2>5
  <1>4. ASSUME NEW a \in AuctionIds, NEW w \in Bidders, NEW owner \in Admins,
               NEW passed \in Passed,
               SettleAuction(a, w, owner, passed)
        PROVE  Goal
    <2> DEFINE t == terms[a].acceptedToken
               fee == PlatformFee(a, owner)
    <2>1. /\ treasuryUsdc' = IF t = Usdc THEN [treasuryUsdc EXCEPT ![owner] = @ + fee]
                                         ELSE treasuryUsdc
          /\ treasurySol' = IF t = Wsol THEN treasurySol + fee ELSE treasurySol
      BY <1>4 DEF SettleAuction
    <2>2. fee \in Nat
      BY FeeIsNat DEF PlatformFee, Typed, TypeOK, PlatformTypeOK, AuctionTypeOK, Configs
    <2> HIDE DEF fee, t
    <2>3. \A admin \in Admins : \/ treasuryUsdc'[admin] = treasuryUsdc[admin]
                                \/ treasuryUsdc'[admin] = treasuryUsdc[admin] + fee
      BY <1>1, <2>1
    <2> QED
      BY <1>1, <2>1, <2>2, <2>3, SMT
  <1>5. ASSUME NEW s \in Sellers, NEW admin \in Admins, NEW listing \in Listings,
               CreateAuction(s, admin, listing)
        PROVE  UNCHANGED <<treasuryUsdc, treasurySol>>
    BY <1>5 DEF CreateAuction
  <1>6. ASSUME NEW a \in AuctionIds, NEW u \in Bidders, NEW x \in BidAmounts,
               PlaceBid(a, u, x)
        PROVE  UNCHANGED <<treasuryUsdc, treasurySol>>
    BY <1>6 DEF PlaceBid
  <1>7. ASSUME NEW a \in AuctionIds, NEW u \in Bidders, WithdrawBid(a, u)
        PROVE  UNCHANGED <<treasuryUsdc, treasurySol>>
    BY <1>7 DEF WithdrawBid
  <1>8. UNCHANGED moneyVars => UNCHANGED <<treasuryUsdc, treasurySol>>
    BY DEF moneyVars
  <1> HIDE DEF Goal
  <1>9. UNCHANGED <<treasuryUsdc, treasurySol>> => Goal
    BY <1>2 DEF Goal
  <1>10. Goal
    BY <1>3, <1>4, <1>5, <1>6, <1>7, <1>8, <1>9, MoneyCases
  <1> QED
    BY <1>10 DEF Goal

\* Whatever is called on which platform, its treasury only ever shrinks by being paid out
\* whole to its admin when the platform closes, and the shared wSOL treasury never does.
THEOREM TreasuriesDrainToAdmins == Spec => TreasuryDrainsToAdmin
  <1>1. Typed /\ [Next]_vars =>
            [/\ treasurySol' >= treasurySol
             /\ \A admin \in Admins : treasuryUsdc'[admin] < treasuryUsdc[admin] =>
                    /\ admin \in platforms \ platforms'
                    /\ treasuryUsdc'[admin] = 0
                    /\ wallet'[Usdc][admin] = wallet[Usdc][admin] + treasuryUsdc[admin]]_vars
    BY TreasuryStep, Zenon
  <1> QED
    BY <1>1, TypingInvariant, PTL DEF Spec, TreasuryDrainsToAdmin

----------------------------------------------------------------------------
(* Conservation                                                            *)

\* What the vaults hold of mint t, bid by bid.
InVaults(t) == [b \in BidIds |-> IF terms[b[1]].acceptedToken = t THEN escrow[b] ELSE 0]

\* TotalOf(t), with the vaults summed over all bids there could be: what is not a vault
\* holds nothing.
Held(t) == SumOver(wallet[t], Users) + TreasuryOf(t) + SumOver(InVaults(t), BidIds)

LEMMA TotalIsHeld == Typed /\ EscrowBacksBids => \A t \in Tokens : TotalOf(t) = Held(t)
  <1> SUFFICES ASSUME Typed, EscrowBacksBids, NEW t \in Tokens PROVE TotalOf(t) = Held(t)
    OBVIOUS
  <1> DEFINE S == {b \in vaults : terms[b[1]].acceptedToken = t}
  <1>1. escrow \in [BidIds -> Nat] /\ S \in SUBSET BidIds
    BY DEF Typed, TypeOK, AuctionTypeOK
  <1>2. \A b \in S : escrow[b] \in Int
    BY <1>1
  <1>3. \A b \in BidIds : InVaults(t)[b] = IF b \in S THEN escrow[b] ELSE 0
    <2> SUFFICES ASSUME NEW b \in BidIds
                 PROVE  InVaults(t)[b] = IF b \in S THEN escrow[b] ELSE 0
      OBVIOUS
    <2>1. InVaults(t)[b] = IF terms[b[1]].acceptedToken = t THEN escrow[b] ELSE 0
      BY DEF InVaults
    <2>2. b \notin vaults => escrow[b] = 0
      BY DEF EscrowBacksBids
    <2> QED
      BY <2>1, <2>2
  <1> HIDE DEF S
  <1>4. SumOver(InVaults(t), BidIds) = SumOver(escrow, S)
    BY <1>1, <1>2, <1>3, FiniteAccounts, SumOverPart
  <1> QED
    BY <1>4 DEF TotalOf, Held, S

\* The sums are integers, so that they can be reckoned with.
LEMMA HeldTypes ==
    Typed => \A t \in Tokens : /\ SumOver(wallet[t], Users) \in Int
                               /\ SumOver(treasuryUsdc, Admins) \in Int
                               /\ treasurySol \in Int
                               /\ SumOver(InVaults(t), BidIds) \in Int
  <1> SUFFICES ASSUME Typed, NEW t \in Tokens
               PROVE  /\ SumOver(wallet[t], Users) \in Int
                      /\ SumOver(treasuryUsdc, Admins) \in Int
                      /\ treasurySol \in Int
                      /\ SumOver(InVaults(t), BidIds) \in Int
    OBVIOUS
  <1>1. /\ \A u \in Users : wallet[t][u] \in Int
        /\ \A admin \in Admins : treasuryUsdc[admin] \in Int
        /\ treasurySol \in Int
    BY DEF Typed, TypeOK, PlatformTypeOK
  <1>2. \A b \in BidIds : InVaults(t)[b] \in Int
    BY DEF InVaults, Typed, TypeOK, AuctionTypeOK
  <1> QED
    BY <1>1, <1>2, FiniteAccounts, SumIsInt

\* A payment of k into user u's account for mint t0 changes the sum of that mint's
\* accounts, and of no other's, by k.
LEMMA Payment ==
    ASSUME Typed, NEW t0 \in Tokens, NEW u \in Users, NEW k \in Int,
           wallet' = [wallet EXCEPT ![t0][u] = @ + k], NEW t \in Tokens
    PROVE  SumOver(wallet'[t], Users) =
               SumOver(wallet[t], Users) + (IF t = t0 THEN k ELSE 0)
  <1>1. \A v \in Users : wallet[t][v] \in Int
    BY DEF Typed, TypeOK, PlatformTypeOK
  <1>2. CASE t = t0
    <2>1. \A v \in Users : wallet'[t][v] = IF v = u THEN wallet[t][v] + k ELSE wallet[t][v]
      BY <1>2 DEF Typed, TypeOK, PlatformTypeOK
    <2> DEFINE f == wallet[t]
               h == wallet'[t]
    <2>2. \A v \in Users : f[v] \in Int /\ h[v] = IF v = u THEN f[v] + k ELSE f[v]
      BY <1>1, <2>1
    <2> HIDE DEF f, h
    <2>3. SumOver(h, Users) = SumOver(f, Users) + (IF u \in Users THEN k ELSE 0)
      BY <2>2, FiniteAccounts, SumChangedAt
    <2> QED
      BY <1>2, <2>3 DEF f, h
  <1>3. CASE t # t0
    <2>1. wallet'[t] = wallet[t]
      BY <1>3 DEF Typed, TypeOK, PlatformTypeOK
    <2>2. SumOver(wallet[t], Users) \in Int
      BY HeldTypes
    <2> QED
      BY <1>3, <2>1, <2>2
  <1> QED
    BY <1>2, <1>3

\* The vault of bid b, which is of mint t0, changes by k.
LEMMA VaultChange ==
    ASSUME Typed, NEW b \in BidIds, NEW k \in Int, UNCHANGED terms,
           escrow' = [escrow EXCEPT ![b] = @ + k], NEW t \in Tokens
    PROVE  SumOver(InVaults(t)', BidIds) =
               SumOver(InVaults(t), BidIds)
               + (IF t = terms[b[1]].acceptedToken THEN k ELSE 0)
  <1> DEFINE own == terms[b[1]].acceptedToken
             f == InVaults(t)
             h == InVaults(t)'
             d == IF t = own THEN k ELSE 0
  <1>1. escrow \in [BidIds -> Nat]
    BY DEF Typed, TypeOK, AuctionTypeOK
  <1>2. d \in Int
    OBVIOUS
  <1>3. \A c \in BidIds : f[c] \in Int /\ h[c] = IF c = b THEN f[c] + d ELSE f[c]
    <2> SUFFICES ASSUME NEW c \in BidIds
                 PROVE  f[c] \in Int /\ h[c] = IF c = b THEN f[c] + d ELSE f[c]
      OBVIOUS
    <2>1. /\ f[c] = IF terms[c[1]].acceptedToken = t THEN escrow[c] ELSE 0
          /\ h[c] = IF terms[c[1]].acceptedToken = t THEN escrow'[c] ELSE 0
      BY DEF InVaults
    <2>2. escrow[c] \in Int /\ escrow'[c] = IF c = b THEN escrow[c] + k ELSE escrow[c]
      BY <1>1
    <2> HIDE DEF f, h
    <2>3. CASE c = b
      BY <2>1, <2>2, <2>3
    <2>4. CASE c # b
      BY <2>1, <2>2, <2>4
    <2> QED
      BY <2>3, <2>4
  <1> HIDE DEF d, f, h
  <1>4. SumOver(h, BidIds) = SumOver(f, BidIds) + (IF b \in BidIds THEN d ELSE 0)
    <2>1. IsFiniteSet(BidIds)
      BY FiniteAccounts
    <2> QED
      BY <1>2, <1>3, <2>1, SumChangedAt, SMTT(60)
  <1> QED
    BY <1>4 DEF d, f, h

LEMMA HeldParts ==
    ASSUME NEW t \in Tokens
    PROVE  /\ Held(t) = SumOver(wallet[t], Users) + TreasuryOf(t) + SumOver(InVaults(t), BidIds)
           /\ Held(t)' = SumOver(wallet'[t], Users) + TreasuryOf(t)' + SumOver(InVaults(t)', BidIds)
           /\ TreasuryOf(t) = (IF t = Usdc THEN SumOver(treasuryUsdc, Admins) ELSE 0)
                              + (IF t = Wsol THEN treasurySol ELSE 0)
           /\ TreasuryOf(t)' = (IF t = Usdc THEN SumOver(treasuryUsdc', Admins) ELSE 0)
                               + (IF t = Wsol THEN treasurySol' ELSE 0)
  BY DEF Held, TreasuryOf

\* The treasury of admin's config changes by k.
LEMMA TreasuryChange ==
    ASSUME Typed, NEW admin \in Admins, NEW k \in Int,
           treasuryUsdc' = [treasuryUsdc EXCEPT ![admin] = @ + k]
    PROVE  SumOver(treasuryUsdc', Admins) = SumOver(treasuryUsdc, Admins) + k
  <1>1. \A x \in Admins : /\ treasuryUsdc[x] \in Int
                          /\ treasuryUsdc'[x] = IF x = admin THEN treasuryUsdc[x] + k
                                                             ELSE treasuryUsdc[x]
    BY DEF Typed, TypeOK, PlatformTypeOK
  <1> DEFINE f == treasuryUsdc
             h == treasuryUsdc'
  <1>2. \A x \in Admins : f[x] \in Int /\ h[x] = IF x = admin THEN f[x] + k ELSE f[x]
    BY <1>1
  <1> HIDE DEF f, h
  <1>3. SumOver(h, Admins) = SumOver(f, Admins) + (IF admin \in Admins THEN k ELSE 0)
    BY <1>2, FiniteAccounts, SumChangedAt
  <1> QED
    BY <1>3 DEF f, h

LEMMA ClosePlatformConserves ==
    ASSUME Typed, NEW admin \in Admins, ClosePlatform(admin), UNCHANGED auctionVars,
           NEW t \in Tokens
    PROVE  Held(t)' = Held(t)
  <1> DEFINE k == treasuryUsdc[admin]
  <1>1. /\ wallet' = [wallet EXCEPT ![Usdc][admin] = @ + k]
        /\ treasuryUsdc' = [treasuryUsdc EXCEPT ![admin] = 0]
        /\ treasurySol' = treasurySol
    BY DEF ClosePlatform, ClosingWallet, Credit
  <1>2. admin \in Users /\ k \in Int /\ 0 - k \in Int /\ k + (0 - k) = 0 /\ Usdc \in Tokens
    BY PlatformAssumption DEF Typed, TypeOK, PlatformTypeOK, Tokens
  <1>3. treasuryUsdc' = [treasuryUsdc EXCEPT ![admin] = @ + (0 - k)]
    BY <1>1, <1>2
  <1> HIDE DEF k
  <1>4. SumOver(wallet'[t], Users) = SumOver(wallet[t], Users) + (IF t = Usdc THEN k ELSE 0)
    BY <1>1, <1>2, Payment
  <1>5. SumOver(treasuryUsdc', Admins) = SumOver(treasuryUsdc, Admins) + (0 - k)
    BY <1>2, <1>3, TreasuryChange
  <1>6. InVaults(t)' = InVaults(t)
    BY DEF InVaults, auctionVars
  <1>7. CASE t = Usdc
    <2>1. /\ TreasuryOf(t) = SumOver(treasuryUsdc, Admins)
          /\ TreasuryOf(t)' = SumOver(treasuryUsdc', Admins)
      BY <1>2, <1>5, <1>7, HeldTypes, HeldParts, PlatformAssumption
    <2> QED
      BY <1>2, <1>4, <1>5, <1>6, <1>7, <2>1, HeldTypes, HeldParts
  <1>8. CASE t # Usdc
    BY <1>1, <1>2, <1>4, <1>6, <1>8, HeldTypes, HeldParts, SMT
  <1> QED
    BY <1>7, <1>8

LEMMA CreateAuctionConserves ==
    ASSUME Typed, EscrowSound, NEW s \in Sellers, NEW admin \in Admins,
           NEW listing \in Listings, CreateAuction(s, admin, listing), NEW t \in Tokens
    PROVE  Held(t)' = Held(t)
  <1> DEFINE a == <<s, auctionCount[s]>>
  <1>1. /\ status[a] = "Absent"
        /\ terms' = [terms EXCEPT ![a] = listing]
        /\ UNCHANGED <<treasuryUsdc, treasurySol, wallet, escrow>>
    BY DEF CreateAuction
  <1> HIDE DEF a
  <1>2. \A b \in BidIds : InVaults(t)'[b] = InVaults(t)[b]
    <2> SUFFICES ASSUME NEW b \in BidIds PROVE InVaults(t)'[b] = InVaults(t)[b]
      OBVIOUS
    <2>1. /\ InVaults(t)[b] = IF terms[b[1]].acceptedToken = t THEN escrow[b] ELSE 0
          /\ InVaults(t)'[b] = IF terms'[b[1]].acceptedToken = t THEN escrow[b] ELSE 0
      BY <1>1 DEF InVaults
    <2>2. CASE b[1] = a
      <3>1. b \notin vaults
        BY <1>1, <2>2 DEF EscrowSound, EscrowBacksBids
      <3>2. escrow[b] = 0
        BY <3>1 DEF EscrowSound, EscrowBacksBids
      <3> QED
        BY <2>1, <3>2
    <2>3. CASE b[1] # a
      <3>1. terms'[b[1]] = terms[b[1]]
        BY <1>1, <2>3, BidIdPair DEF Typed, TypeOK, AuctionTypeOK
      <3> QED
        BY <2>1, <3>1
    <2> QED
      BY <2>2, <2>3
  <1>3. InVaults(t)' = InVaults(t)
    BY <1>2 DEF InVaults
  <1> QED
    BY <1>1, <1>3, HeldParts

LEMMA PlaceBidConserves ==
    ASSUME Typed, NEW a \in AuctionIds, NEW u \in Bidders, NEW x \in BidAmounts,
           PlaceBid(a, u, x), NEW t \in Tokens
    PROVE  Held(t)' = Held(t)
  <1> DEFINE own == terms[a].acceptedToken
             b == <<a, u>>
  <1>1. /\ wallet' = [wallet EXCEPT ![own][u] = @ - x]
        /\ escrow' = [escrow EXCEPT ![b] = @ + x]
        /\ UNCHANGED <<treasuryUsdc, treasurySol, terms>>
    BY DEF PlaceBid, Escrowed
  <1>2. u \in Users /\ b \in BidIds /\ b[1] = a /\ x \in Int /\ 0 - x \in Int
    BY AuctionAssumption DEF BidIds
  <1>3. own \in Tokens
    BY TermsOfAuction DEF PlaceBid, TakesBids
  <1> HIDE DEF own, b
  <1>4. wallet' = [wallet EXCEPT ![own][u] = @ + (0 - x)]
    <2>1. wallet[own][u] - x = wallet[own][u] + (0 - x)
      BY <1>2, <1>3 DEF Typed, TypeOK, PlatformTypeOK
    <2> QED
      BY <1>1, <2>1
  <1>5. SumOver(wallet'[t], Users) = SumOver(wallet[t], Users) + (IF t = own THEN 0 - x ELSE 0)
    BY <1>2, <1>3, <1>4, Payment
  <1>6. SumOver(InVaults(t)', BidIds) =
            SumOver(InVaults(t), BidIds) + (IF t = own THEN x ELSE 0)
    BY <1>1, <1>2, VaultChange DEF own
  <1> QED
    BY <1>1, <1>2, <1>5, <1>6, HeldTypes, HeldParts

LEMMA WithdrawBidConserves ==
    ASSUME Typed, NEW a \in AuctionIds, NEW u \in Bidders, WithdrawBid(a, u), NEW t \in Tokens
    PROVE  Held(t)' = Held(t)
  <1> DEFINE own == terms[a].acceptedToken
             b == <<a, u>>
             x == escrow[b]
  <1>1. /\ wallet' = [wallet EXCEPT ![own][u] = @ + x]
        /\ escrow' = [escrow EXCEPT ![b] = 0]
        /\ UNCHANGED <<treasuryUsdc, treasurySol, terms>>
    BY DEF WithdrawBid, Credit
  <1>2. u \in Users /\ b \in BidIds /\ b[1] = a
    BY AuctionAssumption DEF BidIds
  <1>3. own \in Tokens
    BY TermsOfAuction DEF WithdrawBid, MayWithdraw
  <1>4. x \in Int /\ 0 - x \in Int /\ x + (0 - x) = 0
    BY <1>2 DEF Typed, TypeOK, AuctionTypeOK
  <1>5. escrow' = [escrow EXCEPT ![b] = @ + (0 - x)]
    BY <1>1, <1>4
  <1> HIDE DEF own, b, x
  <1>6. SumOver(wallet'[t], Users) = SumOver(wallet[t], Users) + (IF t = own THEN x ELSE 0)
    BY <1>1, <1>2, <1>3, <1>4, Payment
  <1>7. SumOver(InVaults(t)', BidIds) =
            SumOver(InVaults(t), BidIds) + (IF t = own THEN 0 - x ELSE 0)
    BY <1>1, <1>2, <1>4, <1>5, VaultChange DEF own
  <1> QED
    BY <1>1, <1>4, <1>6, <1>7, HeldTypes, HeldParts

\* What a settlement pays, and to whom.
ToSeller(a, admin) ==
    SellerAmount(highestBid[a], PlatformFee(a, admin), AuthFee(a, admin))

ToPayee(a, admin, passed) == IF passed.payee = NoKey THEN 0 ELSE AuthFee(a, admin)

Left(a, w, admin, passed) ==
    escrow[<<a, w>>] - (ToSeller(a, admin) + PlatformFee(a, admin) + ToPayee(a, admin, passed))

Share(a, w, admin, passed, u) ==
    (IF u = passed.recipient THEN ToSeller(a, admin) ELSE 0)
    + (IF u = passed.payee THEN ToPayee(a, admin, passed) ELSE 0)
    + (IF u = w THEN Left(a, w, admin, passed) ELSE 0)

LEMMA SettlementShares ==
    ASSUME Typed, NEW a \in AuctionIds, NEW w \in Users, NEW admin \in Admins,
           NEW passed \in Passed,
           SettleAuction(a, w, admin, passed)
    PROVE  /\ passed.recipient \in Users /\ <<a, w>> \in BidIds
           /\ terms[a].acceptedToken \in {Usdc, Wsol}
           /\ highestBid[a] \in Int /\ escrow[<<a, w>>] \in Int
           /\ PlatformFee(a, admin) \in Int /\ AuthFee(a, admin) \in Int
           /\ ToSeller(a, admin) \in Int
           /\ ToSeller(a, admin) = highestBid[a] - PlatformFee(a, admin) - AuthFee(a, admin)
           /\ ToPayee(a, admin, passed) \in Int /\ Left(a, w, admin, passed) \in Int
           /\ \A u \in Users : Share(a, w, admin, passed, u) \in Int
  <1>1. passed.recipient \in Users /\ <<a, w>> \in BidIds
    BY DEF BidIds, Passed
  <1>2. terms[a].acceptedToken \in {Usdc, Wsol}
    BY DEF SettleAuction
  <1>3. highestBid[a] \in Nat /\ escrow[<<a, w>>] \in Nat
    BY <1>1 DEF Typed, TypeOK, AuctionTypeOK
  <1>4. PlatformFee(a, admin) \in Nat /\ AuthFee(a, admin) \in Nat
    <2>1. config[admin].platformFeeBps \in Nat /\ config[admin].authFeeBps \in Nat
      BY DEF Typed, TypeOK, PlatformTypeOK, Configs
    <2> QED
      BY <1>3, <2>1, FeeIsNat DEF PlatformFee, AuthFee
  <1>5. ToSeller(a, admin) = highestBid[a] - PlatformFee(a, admin) - AuthFee(a, admin)
    BY DEF ToSeller, SellerAmount
  <1>6. ToSeller(a, admin) \in Int /\ ToPayee(a, admin, passed) \in Int
    BY <1>3, <1>4, <1>5, SMT DEF ToPayee
  <1>7. Left(a, w, admin, passed) \in Int
    BY <1>3, <1>4, <1>6, SMT DEF Left
  <1>8. \A u \in Users : Share(a, w, admin, passed, u) \in Int
    BY <1>6, <1>7, SMT DEF Share
  <1> QED
    BY <1>1, <1>2, <1>3, <1>4, <1>5, <1>6, <1>7, <1>8

\* The shares of a settlement add up to the vault, less the fee of the platform.
LEMMA SharesAddUp ==
    ASSUME Typed, NEW a \in AuctionIds, NEW w \in Bidders, NEW admin \in Admins,
           NEW passed \in Passed,
           SettleAuction(a, w, admin, passed)
    PROVE  SumOver(wallet'[terms[a].acceptedToken], Users) =
               SumOver(wallet[terms[a].acceptedToken], Users)
               + (escrow[<<a, w>>] - PlatformFee(a, admin))
  <1> DEFINE to == passed.recipient
             payee == passed.payee
             t == terms[a].acceptedToken
             s == ToSeller(a, admin)
             p == ToPayee(a, admin, passed)
             r == Left(a, w, admin, passed)
             f == wallet[t]
             h == wallet'[t]
             toS == [u \in Users |-> IF u = to THEN s ELSE 0]
             toP == [u \in Users |-> IF u = payee THEN p ELSE 0]
             toW == [u \in Users |-> IF u = w THEN r ELSE 0]
             two == [u \in Users |-> toS[u] + toP[u]]
             all == [u \in Users |-> two[u] + toW[u]]
  <1>1. /\ w \in Users /\ to \in Users /\ t \in Tokens
        /\ s \in Int /\ p \in Int /\ r \in Int
        /\ escrow[<<a, w>>] \in Int /\ PlatformFee(a, admin) \in Int
    <2>1. w \in Users
      BY AuctionAssumption
    <2> QED
      BY <2>1, SettlementShares DEF Tokens
  <1>2. s + p + r = escrow[<<a, w>>] - PlatformFee(a, admin)
    BY <1>1, SMT DEF Left
  <1>3. payee \in Users \/ p = 0
    BY DEF ToPayee, Keys, Passed
  <1>4. \A u \in Users : f[u] \in Int /\ h[u] = f[u] + Share(a, w, admin, passed, u)
    <2>1. wallet \in [Tokens -> [Users -> Nat]]
      BY DEF Typed, TypeOK, PlatformTypeOK
    <2>2. wallet' = [wallet EXCEPT ![t] =
                        [u \in Users |-> wallet[t][u] + Share(a, w, admin, passed, u)]]
      BY Zenon DEF SettleAuction, Share, Left, ToPayee, ToSeller
    <2>3. h = [u \in Users |-> f[u] + Share(a, w, admin, passed, u)]
      BY <1>1, <2>1, <2>2, Zenon
    <2>4. \A u \in Users : f[u] \in Int
      BY <1>1, <2>1
    <2> HIDE DEF f, h
    <2> QED
      BY <2>3, <2>4
  <1>5. \A u \in Users : Share(a, w, admin, passed, u) =
            (IF u = to THEN s ELSE 0) + (IF u = payee THEN p ELSE 0)
            + (IF u = w THEN r ELSE 0)
    BY DEF Share
  <1> HIDE DEF s, p, r, f, h, to, payee
  <1>6. \A u \in Users : /\ toS[u] = IF u = to THEN s ELSE 0
                         /\ toP[u] = IF u = payee THEN p ELSE 0
                         /\ toW[u] = IF u = w THEN r ELSE 0
    OBVIOUS
  <1>7. \A u \in Users : two[u] = toS[u] + toP[u] /\ all[u] = two[u] + toW[u]
    BY Zenon
  <1> HIDE DEF toS, toP, toW, two, all
  <1>8. \A u \in Users : /\ toS[u] \in Int /\ toP[u] \in Int /\ toW[u] \in Int
                         /\ two[u] \in Int /\ all[u] \in Int
    <2> SUFFICES ASSUME NEW u \in Users
                 PROVE  /\ toS[u] \in Int /\ toP[u] \in Int /\ toW[u] \in Int
                        /\ two[u] \in Int /\ all[u] \in Int
      OBVIOUS
    <2>1. toS[u] \in Int /\ toP[u] \in Int /\ toW[u] \in Int
      BY <1>1, <1>6
    <2>2. two[u] \in Int
      BY <1>7, <2>1
    <2> QED
      BY <1>7, <2>1, <2>2
  <1>9. \A u \in Users : h[u] = f[u] + all[u]
    <2> SUFFICES ASSUME NEW u \in Users PROVE h[u] = f[u] + all[u]
      OBVIOUS
    <2>1. Share(a, w, admin, passed, u) = toS[u] + toP[u] + toW[u]
      BY <1>5, <1>6
    <2>2. all[u] = toS[u] + toP[u] + toW[u]
      BY <1>7
    <2> QED
      BY <1>4, <2>1, <2>2
  <1>10. IsFiniteSet(Users)
    BY FiniteAccounts
  <1>11. SumOver(toS, Users) = s
    <2>1. \A u \in Users : toS[u] = IF u = to THEN s ELSE 0
      BY <1>6
    <2> QED
      BY <1>1, <1>10, <2>1, SumOfPoint
  <1>12. SumOver(toP, Users) = p
    <2>1. \A u \in Users : toP[u] = IF u = payee THEN p ELSE 0
      BY <1>6
    <2>2. SumOver(toP, Users) = IF payee \in Users THEN p ELSE 0
      BY <1>1, <1>10, <2>1, SumOfPoint
    <2> QED
      BY <1>3, <2>2
  <1>13. SumOver(toW, Users) = r
    <2>1. \A u \in Users : toW[u] = IF u = w THEN r ELSE 0
      BY <1>6
    <2> QED
      BY <1>1, <1>10, <2>1, SumOfPoint
  <1>14. SumOver(two, Users) = SumOver(toS, Users) + SumOver(toP, Users)
    <2>1. \A u \in Users : toS[u] \in Int /\ toP[u] \in Int /\ two[u] = toS[u] + toP[u]
      BY <1>7, <1>8
    <2> QED
      BY <1>10, <2>1, SumOfSums
  <1>15. SumOver(all, Users) = SumOver(two, Users) + SumOver(toW, Users)
    <2>1. \A u \in Users : two[u] \in Int /\ toW[u] \in Int /\ all[u] = two[u] + toW[u]
      BY <1>7, <1>8
    <2> QED
      BY <1>10, <2>1, SumOfSums
  <1>16. SumOver(h, Users) = SumOver(f, Users) + SumOver(all, Users)
    <2>1. \A u \in Users : f[u] \in Int /\ all[u] \in Int /\ h[u] = f[u] + all[u]
      BY <1>4, <1>8, <1>9
    <2> QED
      BY <1>10, <2>1, SumOfSums
  <1> QED
    BY <1>2, <1>11, <1>12, <1>13, <1>14, <1>15, <1>16 DEF f, h

\* The fee of a settlement goes to the treasury of the auction's mint.
LEMMA SettlementFee ==
    ASSUME Typed, NEW a \in AuctionIds, NEW w \in Users, NEW admin \in Admins,
           NEW passed \in Passed,
           SettleAuction(a, w, admin, passed), NEW t \in Tokens
    PROVE  /\ TreasuryOf(t) \in Int
           /\ TreasuryOf(t)' = TreasuryOf(t) + (IF t = terms[a].acceptedToken
                                                THEN PlatformFee(a, admin) ELSE 0)
  <1> DEFINE own == terms[a].acceptedToken
             fee == PlatformFee(a, admin)
             before == SumOver(treasuryUsdc, Admins)
             after == SumOver(treasuryUsdc', Admins)
  <1>1. /\ treasuryUsdc' = IF own = Usdc THEN [treasuryUsdc EXCEPT ![admin] = @ + fee]
                                         ELSE treasuryUsdc
        /\ treasurySol' = IF own = Wsol THEN treasurySol + fee ELSE treasurySol
    BY Zenon DEF SettleAuction
  <1>2. own \in {Usdc, Wsol} /\ fee \in Int
    BY SettlementShares
  <1>3. before \in Int /\ treasurySol \in Int
    BY HeldTypes
  <1> HIDE DEF own, fee
  <1>4. after = IF own = Usdc THEN before + fee ELSE before
    BY <1>1, <1>2, TreasuryChange
  <1>5. /\ TreasuryOf(t) = (IF t = Usdc THEN before ELSE 0)
                           + (IF t = Wsol THEN treasurySol ELSE 0)
        /\ TreasuryOf(t)' = (IF t = Usdc THEN after ELSE 0)
                            + (IF t = Wsol THEN treasurySol' ELSE 0)
    BY HeldParts
  <1> HIDE DEF before, after
  <1>6. TreasuryOf(t) \in Int
    BY <1>3, <1>5
  <1>7. CASE t = own /\ own = Usdc
    BY <1>1, <1>2, <1>3, <1>4, <1>5, <1>7, PlatformAssumption DEF own, fee
  <1>8. CASE t = own /\ own = Wsol
    BY <1>1, <1>2, <1>3, <1>4, <1>5, <1>8, PlatformAssumption DEF own, fee
  <1>9. CASE t # own
    <2>1. TreasuryOf(t)' = TreasuryOf(t)
      BY <1>1, <1>4, <1>5, <1>9
    <2>2. TreasuryOf(t)' = TreasuryOf(t) + 0
      BY <1>6, <2>1
    <2> QED
      BY <1>6, <1>9, <2>2, Zenon DEF own
  <1> QED
    BY <1>2, <1>6, <1>7, <1>8, <1>9 DEF own

LEMMA SettleAuctionConserves ==
    ASSUME Typed, NEW a \in AuctionIds, NEW w \in Bidders, NEW admin \in Admins,
           NEW passed \in Passed,
           SettleAuction(a, w, admin, passed), NEW t \in Tokens
    PROVE  Held(t)' = Held(t)
  <1> DEFINE own == terms[a].acceptedToken
             b == <<a, w>>
             x == escrow[b]
             fee == PlatformFee(a, admin)
  <1>1. /\ treasuryUsdc' = IF own = Usdc THEN [treasuryUsdc EXCEPT ![admin] = @ + fee]
                                         ELSE treasuryUsdc
        /\ treasurySol' = IF own = Wsol THEN treasurySol + fee ELSE treasurySol
        /\ escrow' = [escrow EXCEPT ![b] = 0]
        /\ UNCHANGED terms
    BY Zenon DEF SettleAuction
  <1>2. b \in BidIds /\ b[1] = a /\ own \in {Usdc, Wsol} /\ own \in Tokens
        /\ x \in Int /\ fee \in Int /\ 0 - x \in Int /\ x + (0 - x) = 0
    <2>1. w \in Users
      BY AuctionAssumption
    <2> QED
      BY <2>1, SettlementShares, SMT DEF Tokens
  <1>3. escrow' = [escrow EXCEPT ![b] = @ + (0 - x)]
    BY <1>1, <1>2
  <1>4. t # own => wallet'[t] = wallet[t]
    <2>1. wallet' = [wallet EXCEPT ![own] =
                        [u \in Users |-> wallet[own][u] + Share(a, w, admin, passed, u)]]
      BY Zenon DEF SettleAuction, Share, Left, ToPayee, ToSeller
    <2> HIDE DEF own
    <2> QED
      BY <1>2, <2>1 DEF Typed, TypeOK, PlatformTypeOK
  <1>5. SumOver(wallet'[own], Users) = SumOver(wallet[own], Users) + (x - fee)
    BY SharesAddUp
  <1>6. /\ SumOver(wallet[t], Users) \in Int
        /\ SumOver(treasuryUsdc, Admins) \in Int
        /\ treasurySol \in Int
        /\ SumOver(InVaults(t), BidIds) \in Int
    BY HeldTypes
  <1> HIDE DEF own, b, x, fee
  <1>7. SumOver(InVaults(t)', BidIds) =
            SumOver(InVaults(t), BidIds) + (IF t = own THEN 0 - x ELSE 0)
    BY <1>1, <1>2, <1>3, VaultChange DEF own
  <1>8. SumOver(wallet'[t], Users) = SumOver(wallet[t], Users) + (IF t = own THEN x - fee ELSE 0)
    BY <1>4, <1>5, <1>6
  <1>9. TreasuryOf(t)' = TreasuryOf(t) + (IF t = own THEN fee ELSE 0) /\ TreasuryOf(t) \in Int
    <2>1. w \in Users
      BY AuctionAssumption
    <2> QED
      BY <2>1, SettlementFee DEF own, fee
  <1>10. /\ Held(t) = SumOver(wallet[t], Users) + TreasuryOf(t) + SumOver(InVaults(t), BidIds)
         /\ Held(t)' = SumOver(wallet'[t], Users) + TreasuryOf(t)'
                       + SumOver(InVaults(t)', BidIds)
    BY HeldParts
  <1> QED
    BY <1>2, <1>6, <1>7, <1>8, <1>9, <1>10

LEMMA NextConserves ==
    ASSUME Typed, EscrowSound, [Next]_vars, NEW t \in Tokens
    PROVE  Held(t)' = Held(t)
  <1>1. CASE UNCHANGED moneyVars
    BY <1>1 DEF moneyVars, Held, TreasuryOf, InVaults
  <1> QED
    BY <1>1, ClosePlatformConserves, CreateAuctionConserves, PlaceBidConserves,
       SettleAuctionConserves, WithdrawBidConserves, MoneyCases

\* No instruction makes or loses a token of any mint: what bidders escrow, settlements
\* divide with their rounding, refunds return and closing platforms pay out is always the
\* amount people came with.
THEOREM TokensAreConserved == Spec => []TokensConserved
  <1> DEFINE Balanced == \A t \in Tokens : Held(t) = SumOver(Funds[t], Users)
             Inv == Typed /\ EscrowSound
  <1>1. Init => Balanced
    <2> SUFFICES ASSUME Init, NEW t \in Tokens PROVE Held(t) = SumOver(Funds[t], Users)
      OBVIOUS
    <2>1. /\ wallet = Funds
          /\ treasuryUsdc = [admin \in Admins |-> 0] /\ treasurySol = 0
          /\ escrow = [b \in BidIds |-> 0]
      BY DEF Init, PlatformInit, AuctionInit
    <2>2. SumOver(treasuryUsdc, Admins) = 0
      <3>1. \A admin \in Admins : treasuryUsdc[admin] = IF admin = 0 THEN 0 ELSE 0
        BY <2>1
      <3> QED
        BY <3>1, FiniteAccounts, SumOfPoint
    <2>3. SumOver(InVaults(t), BidIds) = 0
      <3> DEFINE f == InVaults(t)
      <3>1. \A b \in BidIds : f[b] = IF b = 0 THEN 0 ELSE 0
        BY <2>1 DEF InVaults
      <3> HIDE DEF f
      <3>2. SumOver(f, BidIds) = 0
        BY <3>1, FiniteAccounts, SumOfPoint
      <3> QED
        BY <3>2 DEF f
    <2>4. SumOver(Funds[t], Users) \in Int
      <3> DEFINE f == Funds[t]
      <3>1. \A u \in Users : f[u] \in Int
        BY AuctionAssumption
      <3> HIDE DEF f
      <3>2. SumOver(f, Users) \in Int
        BY <3>1, FiniteAccounts, SumIsInt
      <3> QED
        BY <3>2 DEF f
    <2> QED
      BY <2>1, <2>2, <2>3, <2>4, HeldParts
  <1>2. Inv /\ Balanced /\ [Next]_vars => Balanced'
    BY NextConserves
  <1>3. Inv /\ Balanced => TokensConserved
    BY TotalIsHeld DEF TokensConserved, EscrowSound
  <1> HIDE DEF Balanced
  <1>4. Spec => []Inv
    BY SoundInvariant, PTL
  <1> HIDE DEF Inv
  <1> QED
    BY <1>1, <1>2, <1>3, <1>4, PTL DEF Spec

----------------------------------------------------------------------------
(* Settlement                                                              *)

\* An auction is settled by settle_auction on that auction only.
LEMMA SettlingStep ==
    ASSUME Typed, [Next]_vars, NEW c \in AuctionIds, Settles(c)
    PROVE  \E w \in Bidders, admin \in Admins, passed \in Passed :
                SettleAuction(c, w, admin, passed)
  <1>1. status[c] = "Ended"
    BY StatusStep DEF Settles, StatusSteps
  <1>2. ASSUME NEW s \in Sellers, NEW admin \in Admins, NEW listing \in Listings,
               CreateAuction(s, admin, listing)
        PROVE  FALSE
    <2> DEFINE a == <<s, auctionCount[s]>>
    <2>1. /\ status' = [status EXCEPT ![a] = FirstStatus(listing.assetType)]
          /\ status[a] = "Absent"
      BY <1>2 DEF CreateAuction
    <2> HIDE DEF a
    <2> QED
      BY <1>1, <2>1 DEF Settles, Typed, TypeOK, AuctionTypeOK
  <1>3. ASSUME NEW a \in AuctionIds, EndAuction(a) PROVE FALSE
    BY <1>1, <1>3 DEF EndAuction, MayEnd, Settles, Typed, TypeOK, AuctionTypeOK
  <1>4. ASSUME NEW a \in AuctionIds, NEW w \in Bidders, NEW admin \in Admins,
               NEW passed \in Passed,
               SettleAuction(a, w, admin, passed)
        PROVE  a = c
    <2>1. status' = [status EXCEPT ![a] = "Settled"]
      BY <1>4 DEF SettleAuction
    <2> QED
      BY <2>1 DEF Settles, Typed, TypeOK, AuctionTypeOK
  <1> QED
    BY <1>2, <1>3, <1>4, StatusCases DEF Settles

\* The price of a digital item is what the owner of the account that is passed for the
\* seller and the treasuries gain.
LEMMA DigitalPriceIsDivided ==
    ASSUME Typed, NEW a \in AuctionIds, NEW w \in Users, NEW admin \in Admins,
           NEW passed \in Passed,
           SettleAuction(a, w, admin, passed),
           escrow[<<a, w>>] = highestBid[a], ~IsPhysical(a)
    PROVE  passed.recipient \in Users /\ PaysPriceTo(a, passed.recipient)
  <1> DEFINE t == terms[a].acceptedToken
             fee == PlatformFee(a, admin)
             price == highestBid[a]
             to == passed.recipient
             share == Share(a, w, admin, passed, to)
  <1>1. /\ to \in Users /\ t \in {Usdc, Wsol} /\ t \in Tokens
        /\ price \in Int /\ fee \in Int /\ AuthFee(a, admin) = 0
        /\ ToSeller(a, admin) = price - fee - 0
    BY SettlementShares DEF AuthFee, Tokens
  <1>2. ToPayee(a, admin, passed) = 0
    BY <1>1 DEF ToPayee
  <1>3. Left(a, w, admin, passed) = 0
    <2>1. Left(a, w, admin, passed) = price - (ToSeller(a, admin) + fee + 0)
      BY <1>2 DEF Left
    <2> HIDE DEF price, fee
    <2> QED
      BY <1>1, <2>1
  <1>4. share = price - fee
    <2>1. share = ToSeller(a, admin) + (IF to = passed.payee THEN 0 ELSE 0)
                  + (IF to = w THEN 0 ELSE 0)
      BY <1>2, <1>3 DEF Share
    <2> HIDE DEF price, fee, share
    <2> QED
      BY <1>1, <2>1
  <1>5. wallet'[t][to] = wallet[t][to] + share
    <2>1. wallet' = [wallet EXCEPT ![t] =
                        [u \in Users |-> wallet[t][u] + Share(a, w, admin, passed, u)]]
      BY Zenon DEF SettleAuction, Share, Left, ToPayee, ToSeller
    <2>2. wallet'[t] = [u \in Users |-> wallet[t][u] + Share(a, w, admin, passed, u)]
      BY <1>1, <2>1, Zenon DEF Typed, TypeOK, PlatformTypeOK
    <2> QED
      BY <1>1, <2>2, Zenon
  <1>6. wallet[t][to] \in Int
    BY <1>1 DEF Typed, TypeOK, PlatformTypeOK
  <1>7. TreasuryOf(t)' = TreasuryOf(t) + fee /\ TreasuryOf(t) \in Int
    <2>1. PICK x \in Tokens : x = t
      BY <1>1
    <2>2. TreasuryOf(x) \in Int /\ TreasuryOf(x)' = TreasuryOf(x) + fee
      BY <2>1, SettlementFee
    <2>3. t' = t
      BY DEF SettleAuction
    <2> HIDE DEF t
    <2> QED
      BY <2>1, <2>2, <2>3, Zenon DEF TreasuryOf
  <1> HIDE DEF t, fee, price, share, to
  <1>8. wallet'[t][to] - wallet[t][to] = price - (TreasuryOf(t)' - TreasuryOf(t))
    BY <1>1, <1>4, <1>5, <1>6, <1>7
  <1> QED
    BY <1>1, <1>8 DEF PaysPriceTo, TreasuryGain, t, price, to

LEMMA SettlementStep ==
    ASSUME Typed, EscrowSound, [Next]_vars, NEW a \in AuctionIds, Settles(a)
    PROVE  Swaps(a)
  <1>1. PICK w \in Bidders, admin \in Admins, passed \in Passed :
            SettleAuction(a, w, admin, passed)
    BY SettlingStep
  <1>2. /\ status[a] = "Ended" /\ w = highestBidder[a]
        /\ highestBid[a] >= terms[a].reservedPrice
        /\ itemAt[passed.item] = a
        /\ itemAt' = [itemAt EXCEPT ![passed.item] = w]
        /\ escrow' = [escrow EXCEPT ![<<a, w>>] = 0]
    BY <1>1 DEF SettleAuction, MaySettle, ItemInVault
  <1>3. w \in Users /\ passed.item \in Items /\ w # NoKey
    BY AuctionAssumption, RegistryAssumption DEF Passed
  <1>4. escrow[<<a, w>>] = highestBid[a]
    <2>1. <<a, w>> \in vaults /\ amount[<<a, w>>] = highestBid[a]
      BY <1>2, <1>3 DEF EscrowSound, LeaderHoldsHighestBid, Trading
    <2> QED
      BY <2>1 DEF EscrowSound, EscrowBacksBids
  <1>5. ~IsPhysical(a) => \E u \in Users : PaysPriceTo(a, u)
    BY <1>1, <1>3, <1>4, DigitalPriceIsDivided, Zenon
  <1> QED
    BY <1>2, <1>3, <1>4, <1>5, Zenon DEF Swaps

\* A settlement is all or nothing: an item of the vault, the whole of the winner's escrow
\* and the price change hands in one step, and of a digital item's price nothing is lost:
\* what the treasury does not get goes to one user, whom the winner has named.
THEOREM SettlementsSwap == Spec => SettlementIsAtomicSwap
  <1>1. Typed /\ EscrowSound /\ [Next]_vars =>
            [\A a \in AuctionIds : Settles(a) => Swaps(a)]_vars
    BY SettlementStep, Zenon
  <1> QED
    BY <1>1, SoundInvariant, PTL DEF Spec, SettlementIsAtomicSwap

=============================================================================
