------------------------------- MODULE Client -------------------------------
(***************************************************************************)
(* The command line client: people at terminals run its commands, one      *)
(* after another at each terminal, over the program of BidX.               *)
(*                                                                         *)
(* A command is a chain of awaits.  Each is a read of the ledger or a      *)
(* transaction, which is sent, travels and lands by itself: the command    *)
(* goes on when it hears that it landed, and gives up when the request     *)
(* throws, which says nothing about a transaction that still travels.  The *)
(* stage of a command is the await it is at; a stage of TxStages is the    *)
(* wait for one transaction, or for several whose order nothing depends on.*)
(***************************************************************************)
EXTENDS BidX

CONSTANTS
    Terminals,      \* where commands are run
    Mode,           \* [Terminals -> Modes]: how the client was started there
    Wallets,        \* [Terminals -> SUBSET Users]: the keypair files of each terminal
    Budget,         \* bound: [Terminals -> Nat], commands per terminal
    MaxCommands,    \* bound: the largest budget
    Kinds,          \* bound: [1 .. MaxCommands -> the commands run first, second, ...]
    SeedAdmins,     \* whose platform the commands may look for, see seedAdmin
    NoJob           \* the job of a command that has not begun

Modes == {"dashboard", "default", "direct"}

Commands == {c \in Terminals \X (1 .. MaxCommands) : c[2] <= Budget[c[1]]}

ASSUME ClientAssumption ==
    /\ IsFiniteSet(Terminals)
    /\ Mode \in [Terminals -> Modes]
    /\ Wallets \in [Terminals -> SUBSET Users]
    /\ Budget \in [Terminals -> 0 .. MaxCommands]
    /\ MaxCommands \in Nat
    /\ DOMAIN Kinds = 1 .. MaxCommands
    /\ SeedAdmins \subseteq Keys

Mints == Tokens \cup Items

VARIABLES
    seedAdmin,      \* the admin whose key the address of the config is derived with
    accounts,       \* the associated token accounts <<user, mint>> that exist
    pc,             \* the stage of each command
    job,            \* what each command was asked to do and has read so far
    tx              \* the stage whose transaction travels, "landed", or "none"

clientVars == <<seedAdmin, accounts, pc, job, tx>>

ReadStages == {"configuring", "counting", "fetching", "probing", "reading"}

TxStages == {"airdropping", "initialising", "minting", "depositing", "paying", "listing",
             "opening", "funding", "bidding", "settling", "withdrawing"}

Outcomes == {"reported", "failed"}

ClientTypeOK ==
    /\ seedAdmin \in SeedAdmins
    /\ accounts \subseteq Users \X Mints
    /\ pc \in [Commands -> {"idle"} \cup ReadStages \cup TxStages \cup Outcomes]
    /\ DOMAIN job = Commands
    /\ tx \in [Commands -> {"none", "landed"} \cup TxStages]

(* The commands derive the addresses of the config and of the registry from*)
(* a fixed word alone, while the program's are seeded by the admin as well *)
(* (getPlatformConfigPDA of the same client does that, and no command uses *)
(* it).  seedAdmin = NoKey is that address, where there is never a config. *)
(* The other members of SeedAdmins are what the commands would find if     *)
(* they were told the admin.                                               *)
ClientInit ==
    /\ seedAdmin \in SeedAdmins
    /\ pc = [c \in Commands |-> "idle"]
    /\ job = [c \in Commands |-> NoJob]
    /\ tx = [c \in Commands |-> "none"]

----------------------------------------------------------------------------
(* The menus                                                               *)

\* What the menu shows; its help is left out.
MenuChoices == {"init", "list", "create", "bid", "view", "settle", "withdraw", "status",
                "account", "exit"}

\* The commands the two loops over that menu have a branch for, and the subcommands.  The
\* loops print "coming soon" for anything else, and "exit" leaves the loop.
DashboardCases == {"init", "create", "bid", "view", "settle", "withdraw", "list", "status"}

DefaultCases == {"init", "create", "view", "settle", "withdraw", "list", "status"}

Subcommands == {"init", "list", "view", "settle", "create", "withdraw"}

\* The commands that run when they are chosen at a terminal.
Handled(mode) ==
    CASE mode = "dashboard" -> MenuChoices \cap DashboardCases
      [] mode = "default"   -> MenuChoices \cap DefaultCases
      [] mode = "direct"    -> Subcommands

\* The keypair file is at the path that was given.  A command that does not find it fails
\* before it has read or sent anything.
LoadsWallet(c, u) == u \in Wallets[c[1]]

Begun(c) == pc[c] # "idle"

Ended(c) == pc[c] \in Outcomes

Running(c) == Begun(c) /\ ~Ended(c)

\* A command is chosen when the one before it at the same terminal has ended.
IsNext(c) ==
    /\ ~Begun(c)
    /\ \A d \in Commands : d[1] = c[1] /\ d[2] < c[2] => Ended(d)

\* A plausible slip: the transaction of the stage before is sent again.
SendsAgain(c, stage) ==
    /\ pc' = [pc EXCEPT ![c] = stage]
    /\ tx' = [tx EXCEPT ![c] = IF stage \in TxStages THEN stage ELSE pc[c]]

\* The command c goes on to a stage; if that waits for a transaction, it is sent.
GoesTo(c, stage) ==
    /\ pc' = [pc EXCEPT ![c] = stage]
    /\ tx' = [tx EXCEPT ![c] = IF stage \in TxStages THEN stage ELSE "none"]

\* A menu or a subcommand calls the command, whose prompts and arguments make its job.
Begins(c, newJob, stage) ==
    /\ IsNext(c)
    /\ newJob.kind \in Handled(Mode[c[1]]) \cap Kinds[c[2]]
    /\ job' = [job EXCEPT ![c] = newJob]
    /\ GoesTo(c, stage)
    /\ UNCHANGED <<vars, seedAdmin, accounts>>

----------------------------------------------------------------------------
(* Awaits                                                                  *)

\* Command c, of that kind, reads the ledger at the stage.
Reads(c, kind, stage) == pc[c] = stage /\ job[c].kind = kind

\* Command c, of that kind, hears that the transaction of the stage has landed.
Hears(c, kind, stage) == Reads(c, kind, stage) /\ tx[c] = "landed"

\* The transaction that command c sent at the stage lands, whether or not the command
\* still waits for it.  What it does to the ledger is said with each command.
Lands(c, kind, stage) ==
    /\ tx[c] = stage
    /\ job[c].kind = kind
    /\ tx' = [tx EXCEPT ![c] = IF pc[c] = stage THEN "landed" ELSE "none"]
    /\ UNCHANGED <<seedAdmin, pc, job>>

\* A transaction is refused by the program, or lost, or expires.
Drop(c) ==
    /\ tx[c] \in TxStages
    /\ tx' = [tx EXCEPT ![c] = "none"]
    /\ UNCHANGED <<vars, seedAdmin, accounts, pc, job>>

\* Any await may throw: a failed request, a refused transaction, one not heard of in time.
\* The catch block of the command prints the error and the command returns.  A killed
\* process is no different: a transaction that travels goes on without it.
Fail(c) ==
    /\ Running(c)
    /\ pc' = [pc EXCEPT ![c] = "failed"]
    /\ tx' = [tx EXCEPT ![c] = IF @ = "landed" THEN "none" ELSE @]
    /\ UNCHANGED <<vars, seedAdmin, accounts, job>>

\* Nothing but the stage changes.
Quietly(c, stage) ==
    /\ GoesTo(c, stage)
    /\ UNCHANGED <<vars, seedAdmin, accounts, job>>

\* fetch throws unless there is an account at the address.
ConfigFound == seedAdmin \in platforms

AuctionFound(a) == status[a] # "Absent"

=============================================================================
