------------------------------ MODULE Registry ------------------------------
(***************************************************************************)
(* The authenticators registry as a value                                  *)
(* (programs/bidx/src/states/authenticators.rs): a list of keys and the    *)
(* round-robin cursor next_index, counted from 0 as in the program.        *)
(* The operators say what the instructions do to it; the state that holds  *)
(* a registry per admin is in module Platform.                             *)
(***************************************************************************)
EXTENDS Integers, Sequences

CONSTANTS
    Users,              \* the keys of people: sellers, bidders, admins, authenticators
    NoKey,              \* Pubkey::default(), the key nobody holds
    MaxAuthenticators   \* max_len of the list, 100 in the program

ASSUME RegistryAssumption ==
    /\ NoKey \notin Users
    /\ MaxAuthenticators \in Nat

Keys == Users \cup {NoKey}

Registries == [authenticators : Seq(Keys), nextIndex : Nat]

EmptyRegistry == [authenticators |-> <<>>, nextIndex |-> 0]

Contains(reg, key) == \E i \in DOMAIN reg.authenticators : reg.authenticators[i] = key

\* The account has room for MaxAuthenticators keys: writing a longer list back fails.
Fits(keys) == Len(keys) <= MaxAuthenticators

----------------------------------------------------------------------------
(* Assignment of an authenticator to a new physical auction.              *)

\* The list is not empty, and indexing it at the cursor does not panic.
CanAssign(reg) ==
    /\ reg.authenticators # <<>>
    /\ reg.nextIndex < Len(reg.authenticators)

Assignee(reg) == reg.authenticators[reg.nextIndex + 1]

\* A plausible slip: the cursor steps over a place.
RotatedByTwo(reg) == [reg EXCEPT !.nextIndex = (@ + 2) % Len(reg.authenticators)]

Rotated(reg) == [reg EXCEPT !.nextIndex = (@ + 1) % Len(reg.authenticators)]

----------------------------------------------------------------------------
(* register_authenticators and remove_authenticator.                      *)

\* A plausible slip: a key is looked up in the stored list only, so that one call
\* may register the same key twice.
CanRegisterStoredOnly(reg, admin, keys) ==
    /\ \A i \in DOMAIN keys : keys[i] # NoKey /\ keys[i] # admin /\ ~Contains(reg, keys[i])
    /\ Fits(reg.authenticators \o keys)

\* Each key in turn is valid, new to the list the earlier keys were pushed to, and
\* not the admin's; one refusal refuses the call.
CanRegister(reg, admin, keys) ==
    /\ \A i \in DOMAIN keys :
        /\ keys[i] # NoKey
        /\ ~Contains(reg, keys[i])
        /\ \A j \in 1 .. i - 1 : keys[j] # keys[i]
        /\ keys[i] # admin
    /\ Fits(reg.authenticators \o keys)

Registered(reg, keys) == [reg EXCEPT !.authenticators = @ \o keys]

\* position(): the first index that holds the key.
Position(reg, key) ==
    CHOOSE i \in DOMAIN reg.authenticators :
        /\ reg.authenticators[i] = key
        /\ \A j \in 1 .. i - 1 : reg.authenticators[j] # key

\* swap_remove(): the last key takes the place of the removed one.  The cursor stays.
SwapRemoved(reg, key) ==
    LET list == reg.authenticators
        last == Len(list)
    IN  [reg EXCEPT !.authenticators =
            [i \in 1 .. last - 1 |-> IF i = Position(reg, key) THEN list[last] ELSE list[i]]]

=============================================================================
