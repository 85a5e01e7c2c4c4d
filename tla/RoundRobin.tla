----------------------------- MODULE RoundRobin -----------------------------
(***************************************************************************)
(* One admin's registry by itself: the assignments create_auction makes,   *)
(* the registrations and the removals.  `waiting` is a history variable,   *)
(* the number of assignments since a key was last assigned or registered.  *)
(***************************************************************************)
EXTENDS Registry

CONSTANTS
    Admin,      \* the admin of the registry
    KeyLists,   \* bound: the lists passed to register_authenticators
    FirstList   \* the list initialize was given, which it does not look at

ASSUME RoundRobinAssumption ==
    /\ FirstList \in Seq(Keys)
    /\ KeyLists \subseteq Seq(Keys)

VARIABLES reg, waiting

registryVars == <<reg, waiting>>

Members == {key \in Users : Contains(reg, key)}

Init ==
    /\ reg = [authenticators |-> FirstList, nextIndex |-> 0]
    /\ waiting = [key \in Users |-> 0]

\* create_auction of a physical item.
Assign ==
    /\ CanAssign(reg)
    /\ reg' = Rotated(reg)
    /\ waiting' = [key \in Users |->
            IF key \in Members \ {Assignee(reg)} THEN waiting[key] + 1 ELSE 0]

Register(keys) ==
    /\ CanRegister(reg, Admin, keys)
    /\ reg' = Registered(reg, keys)
    /\ UNCHANGED waiting

Remove(key) ==
    /\ Contains(reg, key)
    /\ reg' = SwapRemoved(reg, key)
    /\ waiting' = [waiting EXCEPT ![key] = 0]

GrowingNext == Assign \/ \E keys \in KeyLists : Register(keys)

\* Authenticators are never removed.
GrowingSpec == Init /\ [][GrowingNext]_registryVars

Next == GrowingNext \/ \E key \in Users : Remove(key)

Spec == Init /\ [][Next]_registryVars

\* However the list grows between assignments, no registered authenticator is passed
\* over: at most every other member is assigned before it is its turn again.
NobodyWaitsLongerThanARound ==
    \A key \in Members : waiting[key] < Len(reg.authenticators)

\* README.md:92: the round robin always finds an authenticator when one is registered.
AssignsWhileAnyRegistered == reg.authenticators # <<>> => CanAssign(reg)

=============================================================================
