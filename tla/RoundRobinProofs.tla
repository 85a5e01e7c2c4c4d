-------------------------- MODULE RoundRobinProofs --------------------------
(***************************************************************************)
(* The round robin, for any number of authenticators, any lists of keys    *)
(* and any order of assignments and registrations.                         *)
(***************************************************************************)
EXTENDS RoundRobin, TLAPS

\* How many assignments come before the turn of place p of a list of n keys, the cursor
\* being at i.
ToGo(p, i, n) == IF p > i THEN p - 1 - i ELSE n + p - 1 - i

CursorInRange ==
    \/ reg.nextIndex < Len(reg.authenticators)
    \/ reg.nextIndex = 0 /\ reg.authenticators = <<>>

RoundTypeOK == reg \in Registries /\ waiting \in [Users -> Nat]

\* A key that is not registered is not waiting.
OnlyMembersWait == \A key \in Users \ Members : waiting[key] = 0

\* What a key has waited and what it has yet to wait make up less than a round: at every
\* place that holds it, so that the place it is next assigned from is among them.
LessThanARound ==
    LET n == Len(reg.authenticators)
    IN  \A p \in 1 .. n : reg.authenticators[p] \in Users =>
            waiting[reg.authenticators[p]] + ToGo(p, reg.nextIndex, n) < n

RoundInv == RoundTypeOK /\ CursorInRange /\ OnlyMembersWait /\ LessThanARound

LEMMA RoundInvInit == Init => RoundInv
  <1> SUFFICES ASSUME Init PROVE RoundInv
    OBVIOUS
  <1> DEFINE n == Len(FirstList)
  <1>1. /\ reg = [authenticators |-> FirstList, nextIndex |-> 0]
        /\ reg.authenticators = FirstList /\ reg.nextIndex = 0
        /\ FirstList \in Seq(Keys) /\ n \in Nat
        /\ \A key \in Users : waiting[key] = 0
    BY RoundRobinAssumption DEF Init
  <1>2. RoundTypeOK
    BY <1>1 DEF Init, RoundTypeOK, Registries
  <1>3. CursorInRange
    BY <1>1 DEF CursorInRange
  <1>4. OnlyMembersWait
    BY <1>1 DEF OnlyMembersWait
  <1>5. LessThanARound
    <2>1. \A p \in 1 .. n : 0 + ToGo(p, 0, n) < n
      BY <1>1 DEF ToGo
    <2> QED
      BY <1>1, <2>1 DEF LessThanARound
  <1> QED
    BY <1>2, <1>3, <1>4, <1>5 DEF RoundInv

\* An assignment brings every place one step nearer, but the one it is made from.
LEMMA AssignKeepsRoundInv == RoundInv /\ Assign => RoundInv'
  <1> SUFFICES ASSUME RoundInv, Assign PROVE RoundInv'
    OBVIOUS
  <1> DEFINE list == reg.authenticators
             n == Len(list)
             i == reg.nextIndex
             next == reg'.nextIndex
  <1>1. list \in Seq(Keys) /\ n \in Nat /\ i \in Nat /\ i < n
    BY DEF RoundInv, RoundTypeOK, Registries, Assign, CanAssign
  <1>2. reg' = [reg EXCEPT !.nextIndex = (i + 1) % n]
    BY DEF Assign, Rotated
  <1>3. reg'.authenticators = list /\ next = (i + 1) % n
    BY <1>2 DEF RoundInv, RoundTypeOK, Registries
  <1>4. next = IF i + 1 = n THEN 0 ELSE i + 1
    <2> HIDE DEF i, n
    <2> QED
      BY <1>1, <1>3
  <1>5. next \in Nat /\ next < n
    BY <1>1, <1>4
  <1>6. reg' \in Registries
    BY <1>2, <1>3, <1>5 DEF RoundInv, RoundTypeOK, Registries
  <1>7. /\ waiting' \in [Users -> Nat]
        /\ \A key \in Users : waiting'[key] =
                IF key \in Members /\ key # list[i + 1] THEN waiting[key] + 1 ELSE 0
    BY DEF Assign, Assignee, RoundInv, RoundTypeOK
  <1>8. Members' = Members
    BY <1>3 DEF Members, Contains
  <1>9. LessThanARound'
    <2> SUFFICES ASSUME NEW p \in 1 .. n, list[p] \in Users
                 PROVE  waiting'[list[p]] + ToGo(p, next, n) < n
      BY <1>3 DEF LessThanARound
    <2>1. list[p] \in Members
      BY DEF Members, Contains
    <2>2. waiting[list[p]] \in Nat /\ waiting[list[p]] + ToGo(p, i, n) < n
      BY DEF RoundInv, RoundTypeOK, LessThanARound
    <2> HIDE DEF list, n, i, next
    <2>3. CASE list[p] = list[i + 1]
      <3>1. waiting'[list[p]] = 0
        BY <1>7, <2>3
      <3>2. ToGo(p, next, n) < n
        BY <1>1, <1>5 DEF ToGo
      <3>3. ToGo(p, next, n) \in Int
        BY <1>1, <1>5 DEF ToGo
      <3> QED
        BY <3>1, <3>2, <3>3
    <2>4. CASE list[p] # list[i + 1]
      <3>1. waiting'[list[p]] = waiting[list[p]] + 1
        BY <1>7, <2>1, <2>4
      <3>2. p # i + 1
        BY <2>4
      <3>3. ToGo(p, next, n) + 1 = ToGo(p, i, n) /\ ToGo(p, next, n) \in Int
        BY <1>1, <1>4, <3>2 DEF ToGo
      <3> QED
        BY <1>1, <2>2, <3>1, <3>3
    <2> QED
      BY <2>3, <2>4
  <1> QED
    BY <1>3, <1>5, <1>6, <1>7, <1>8, <1>9
    DEF RoundInv, RoundTypeOK, CursorInRange, OnlyMembersWait

\* A registration lengthens the round by as much as it puts before anybody's turn.
LEMMA RegisterKeepsRoundInv ==
    ASSUME RoundInv, NEW keys \in KeyLists, Register(keys)
    PROVE  RoundInv'
  <1> DEFINE list == reg.authenticators
             n == Len(list)
             k == Len(keys)
             both == list \o keys
             i == reg.nextIndex
  <1>1. /\ list \in Seq(Keys) /\ keys \in Seq(Keys)
        /\ n \in Nat /\ k \in Nat /\ i \in Nat
    BY RoundRobinAssumption DEF RoundInv, RoundTypeOK, Registries
  <1>2. /\ both \in Seq(Keys) /\ Len(both) = n + k
        /\ \A p \in 1 .. n : both[p] = list[p]
        /\ \A p \in n + 1 .. n + k : both[p] = keys[p - n] /\ p - n \in DOMAIN keys
    BY <1>1
  <1>3. reg' = [reg EXCEPT !.authenticators = both] /\ waiting' = waiting
    BY DEF Register, Registered
  <1>4. reg'.authenticators = both /\ reg'.nextIndex = i /\ reg' \in Registries
    BY <1>1, <1>2, <1>3 DEF RoundInv, RoundTypeOK, Registries
  <1>5. i < n \/ (i = 0 /\ n = 0)
    BY <1>1 DEF RoundInv, CursorInRange
  <1>6. CursorInRange'
    <2>1. i < n + k \/ (i = 0 /\ n + k = 0)
      BY <1>1, <1>5
    <2> QED
      BY <1>2, <1>4, <2>1 DEF CursorInRange
  <1>7. Members \subseteq Members'
    <2> SUFFICES ASSUME NEW key \in Users, NEW p \in 1 .. n, list[p] = key
                 PROVE  key \in Members'
      BY <1>1 DEF Members, Contains
    <2>1. p \in DOMAIN both /\ both[p] = key
      BY <1>1, <1>2
    <2> QED
      BY <1>4, <2>1 DEF Members, Contains
  <1>8. OnlyMembersWait'
    BY <1>3, <1>7 DEF RoundInv, OnlyMembersWait
  <1>9. \A p \in DOMAIN keys : keys[p] \notin Members
    BY DEF Register, CanRegister, Members
  <1>10. LessThanARound'
    <2> SUFFICES ASSUME NEW p \in 1 .. n + k, both[p] \in Users
                 PROVE  waiting[both[p]] + ToGo(p, i, n + k) < n + k
      BY <1>2, <1>3, <1>4 DEF LessThanARound
    <2>1. CASE p \in 1 .. n
      <3>1. both[p] = list[p]
        BY <1>2, <2>1
      <3>2. waiting[list[p]] \in Nat /\ waiting[list[p]] + ToGo(p, i, n) < n
        BY <2>1, <3>1 DEF RoundInv, RoundTypeOK, LessThanARound
      <3> HIDE DEF both, list, n, k, i
      <3> QED
        BY <1>1, <2>1, <3>1, <3>2 DEF ToGo
    <2>2. CASE p \in n + 1 .. n + k
      <3>1. both[p] \notin Members
        BY <1>2, <1>9, <2>2
      <3>2. waiting[both[p]] = 0
        BY <3>1 DEF RoundInv, OnlyMembersWait
      <3> HIDE DEF both, list, n, k, i
      <3>3. p > i /\ p - 1 - i < n + k /\ p - 1 - i \in Int
        BY <1>1, <1>5, <2>2
      <3> QED
        BY <1>1, <3>2, <3>3 DEF ToGo
    <2> HIDE DEF both, n, k, i
    <2> QED
      BY <1>1, <2>1, <2>2
  <1> QED
    BY <1>3, <1>4, <1>6, <1>8, <1>10 DEF RoundInv, RoundTypeOK

LEMMA RoundInvariant == GrowingSpec => []RoundInv
  <1>1. RoundInv /\ [GrowingNext]_registryVars => RoundInv'
    <2> SUFFICES ASSUME RoundInv, [GrowingNext]_registryVars PROVE RoundInv'
      OBVIOUS
    <2>1. CASE Assign
      BY <2>1, AssignKeepsRoundInv
    <2>2. CASE \E keys \in KeyLists : Register(keys)
      BY <2>2, RegisterKeepsRoundInv
    <2>3. CASE UNCHANGED registryVars
      BY <2>3 DEF registryVars, RoundInv, RoundTypeOK, CursorInRange, OnlyMembersWait,
                  LessThanARound, Members, Contains
    <2> QED
      BY <2>1, <2>2, <2>3 DEF GrowingNext
  <1> QED
    BY <1>1, RoundInvInit, PTL DEF GrowingSpec

\* While nobody is removed, no registered authenticator waits for more than every other
\* one to be assigned, however many there are and whenever they were registered.
THEOREM TurnsComeRound == GrowingSpec => []NobodyWaitsLongerThanARound
  <1>1. RoundInv => NobodyWaitsLongerThanARound
    <2> SUFFICES ASSUME RoundInv, NEW key \in Members
                 PROVE  waiting[key] < Len(reg.authenticators)
      BY DEF NobodyWaitsLongerThanARound
    <2> DEFINE n == Len(reg.authenticators)
               i == reg.nextIndex
    <2>1. reg.authenticators \in Seq(Keys) /\ n \in Nat /\ i \in Nat
      BY DEF RoundInv, RoundTypeOK, Registries
    <2>2. PICK p \in 1 .. n : reg.authenticators[p] = key
      BY <2>1 DEF Members, Contains
    <2>3. key \in Users /\ waiting[key] \in Nat
      BY DEF Members, RoundInv, RoundTypeOK
    <2>4. waiting[key] + ToGo(p, i, n) < n
      BY <2>2, <2>3 DEF RoundInv, LessThanARound
    <2>5. i < n
      BY <2>1, <2>2 DEF RoundInv, CursorInRange
    <2> HIDE DEF n, i
    <2>6. ToGo(p, i, n) \in Nat
      BY <2>1, <2>5 DEF ToGo
    <2>7. waiting[key] < n
      BY <2>1, <2>3, <2>4, <2>6
    <2> QED
      BY <2>7 DEF n
  <1> QED
    BY <1>1, RoundInvariant, PTL

\* While nobody is removed, the cursor points at a key and an assignment is possible as
\* soon as anybody is registered: it is remove_authenticator alone that breaks this.
THEOREM GrowingRegistryAssigns == GrowingSpec => []AssignsWhileAnyRegistered
  <1>1. RoundInv => AssignsWhileAnyRegistered
    BY DEF RoundInv, CursorInRange, AssignsWhileAnyRegistered, CanAssign
  <1> QED
    BY <1>1, RoundInvariant, PTL

=============================================================================
