------------------------------ MODULE Platform ------------------------------
(***************************************************************************)
(* The platform side of the program: one config and one authenticators     *)
(* registry per admin, both program-derived accounts seeded by the admin's *)
(* key, the treasuries that collect fees, and people's token balances.     *)
(*                                                                         *)
(* An instruction is one Solana transaction: any failed guard or transfer  *)
(* reverts all of it, so an instruction is one action and its failures are *)
(* a disabled action.                                                      *)
(***************************************************************************)
EXTENDS Registry, FiniteSets

CONSTANTS
    Admins,         \* the users who run a platform
    Usdc, Wsol,     \* the two mints a treasury exists for
    OtherMints,     \* further mints an auction may name as accepted_token
    NoValue,        \* None, for the Option arguments of update_platform_config
    Setups,         \* bound: the arguments of initialize
    RateInputs,     \* bound: the fee rates an admin updates to (u16)
    DurationInputs, \* bound: the auction durations an admin updates to (i64)
    KeyLists        \* bound: the authenticator lists an admin registers

Tokens == {Usdc, Wsol} \cup OtherMints

ASSUME PlatformAssumption ==
    /\ IsFiniteSet(Users)
    /\ Admins \subseteq Users
    /\ Usdc # Wsol
    /\ NoValue \notin Int
    /\ Setups \subseteq [rate : Nat, authRate : Nat, min : Int, max : Int, keys : Seq(Keys)]
    /\ RateInputs \subseteq Nat
    /\ DurationInputs \subseteq Int
    /\ KeyLists \subseteq Seq(Keys)

VARIABLES
    platforms,      \* the admins whose config and registry accounts exist
    config,         \* [Admins -> Configs], ZeroConfig where there is none
    registry,       \* [Admins -> Registries], EmptyRegistry where there is none
    treasuryUsdc,   \* USDC held by the treasury of each config
    treasurySol,    \* wSOL held by the one treasury all configs share
    wallet          \* wallet[t][u]: user u's associated token account for mint t

platformVars == <<platforms, config, registry, treasuryUsdc, treasurySol, wallet>>

Configs == [platformFeeBps : Nat, authFeeBps : Nat,
            minDuration : Int, maxDuration : Int, isPaused : BOOLEAN]

ZeroConfig == [platformFeeBps |-> 0, authFeeBps |-> 0,
               minDuration |-> 0, maxDuration |-> 0, isPaused |-> FALSE]

PlatformTypeOK ==
    /\ platforms \subseteq Admins
    /\ config \in [Admins -> Configs]
    /\ registry \in [Admins -> Registries]
    /\ treasuryUsdc \in [Admins -> Nat]
    /\ treasurySol \in Nat
    /\ wallet \in [Tokens -> [Users -> Nat]]

\* Nothing is initialised; the wallets are given by the module that states a Spec.
PlatformInit ==
    /\ platforms = {}
    /\ config = [admin \in Admins |-> ZeroConfig]
    /\ registry = [admin \in Admins |-> EmptyRegistry]
    /\ treasuryUsdc = [admin \in Admins |-> 0]
    /\ treasurySol = 0

----------------------------------------------------------------------------
(* Token accounts, as the SPL token program moves their balances.         *)

Credit(t, u, amount) == [wallet EXCEPT ![t][u] = @ + amount]

\* An account can be closed when it is empty; a native (wSOL) account always can,
\* and what is left in it goes to the destination.
Closes(t, rest) == rest = 0 \/ t = Wsol

----------------------------------------------------------------------------
(* The admin's instructions.                                              *)

\* initialize: creates both accounts, or sets them again for an admin who has them;
\* no argument is validated.  The treasuries are init_if_needed and keep their balance.
Initialize(admin, setup) ==
    /\ Fits(setup.keys)
    /\ platforms' = platforms \cup {admin}
    /\ config' = [config EXCEPT ![admin] =
                    [platformFeeBps |-> setup.rate, authFeeBps |-> setup.authRate,
                     minDuration |-> setup.min, maxDuration |-> setup.max,
                     isPaused |-> FALSE]]
    /\ registry' = [registry EXCEPT ![admin] =
                    [authenticators |-> setup.keys, nextIndex |-> 0]]
    /\ UNCHANGED <<treasuryUsdc, treasurySol, wallet>>

\* Option::unwrap_or
UnwrapOr(option, default) == IF option = NoValue THEN default ELSE option

\* x > y on Option<i64>: None is below every Some, and not below itself.
OptionGreater(x, y) == x # NoValue /\ (y # NoValue => x > y)

\* update_platform_config: the rates and the minimum are validated after defaulting
\* to the stored ones, the two durations are compared as they were passed.
UpdatePlatformConfig(admin, rate, authRate, min, max) ==
    LET old == config[admin]
        new == [old EXCEPT !.platformFeeBps = UnwrapOr(rate, @),
                           !.authFeeBps = UnwrapOr(authRate, @),
                           !.minDuration = UnwrapOr(min, @),
                           !.maxDuration = UnwrapOr(max, @)]
    IN  /\ admin \in platforms
        /\ new.platformFeeBps > 0 /\ new.authFeeBps > 0
        /\ new.minDuration > 0
        /\ OptionGreater(max, min)
        /\ config' = [config EXCEPT ![admin] = new]
        /\ UNCHANGED <<platforms, registry, treasuryUsdc, treasurySol, wallet>>

\* toggle_pause_platform.
TogglePause(admin) ==
    /\ admin \in platforms
    /\ config' = [config EXCEPT ![admin].isPaused = ~@]
    /\ UNCHANGED <<platforms, registry, treasuryUsdc, treasurySol, wallet>>

\* A plausible slip: the treasury is closed without being emptied to the admin.
ClosingWalletUnpaid(admin) == wallet

\* What close_platform leaves in the wallets: the USDC treasury goes to the admin.
ClosingWallet(admin) == Credit(Usdc, admin, treasuryUsdc[admin])

\* close_platform: empties and closes the USDC treasury, closes config and registry.
\* The wSOL treasury is left as it is.
ClosePlatform(admin) ==
    /\ admin \in platforms
    /\ wallet' = ClosingWallet(admin)
    /\ treasuryUsdc' = [treasuryUsdc EXCEPT ![admin] = 0]
    /\ platforms' = platforms \ {admin}
    /\ config' = [config EXCEPT ![admin] = ZeroConfig]
    /\ registry' = [registry EXCEPT ![admin] = EmptyRegistry]
    /\ UNCHANGED treasurySol

\* register_authenticators
RegisterAuthenticators(admin, keys) ==
    /\ admin \in platforms
    /\ CanRegister(registry[admin], admin, keys)
    /\ registry' = [registry EXCEPT ![admin] = Registered(@, keys)]
    /\ UNCHANGED <<platforms, config, treasuryUsdc, treasurySol, wallet>>

\* remove_authenticator
RemoveAuthenticator(admin, key) ==
    /\ admin \in platforms
    /\ Contains(registry[admin], key)
    /\ registry' = [registry EXCEPT ![admin] = SwapRemoved(@, key)]
    /\ UNCHANGED <<platforms, config, treasuryUsdc, treasurySol, wallet>>

PlatformNext ==
    \E admin \in Admins :
        \/ \E setup \in Setups : Initialize(admin, setup)
        \/ \E rate, authRate \in RateInputs \cup {NoValue},
              min, max \in DurationInputs \cup {NoValue} :
            UpdatePlatformConfig(admin, rate, authRate, min, max)
        \/ TogglePause(admin)
        \/ ClosePlatform(admin)
        \/ \E keys \in KeyLists : RegisterAuthenticators(admin, keys)
        \/ \E key \in Keys : RemoveAuthenticator(admin, key)

=============================================================================
