------------------------------ MODULE Exchange ------------------------------
(***************************************************************************)
(* What the auction house promises, without its bookkeeping: an auction is *)
(* a set of stakes; the highest one buys, the others come back.  There is  *)
(* no highest bid and no highest bidder here: who leads is a fact about    *)
(* the stakes, where the program keeps it in fields of its own.            *)
(***************************************************************************)
EXTENDS Integers

CONSTANTS
    Ids,        \* auctions
    People,     \* who may stake
    Nobody      \* no buyer yet

VARIABLES
    phase,      \* "unlisted", "held" (not open yet), "open", "closed" or "sold"
    reserve,    \* the least stake that buys
    stake,      \* stake[a][u]: what u has put up in auction a
    buyer       \* who bought

vars == <<phase, reserve, stake, buyer>>

Init ==
    /\ phase = [a \in Ids |-> "unlisted"]
    /\ reserve = [a \in Ids |-> 0]
    /\ stake = [a \in Ids |-> [u \in People |-> 0]]
    /\ buyer = [a \in Ids |-> Nobody]

Moves(a, from, to) == phase[a] = from /\ phase' = [phase EXCEPT ![a] = to]

Leads(a, u) == \A v \in People \ {u} : stake[a][v] < stake[a][u]

\* The seller sets the reserve once and for all.
List(a) ==
    /\ Moves(a, "unlisted", "open") \/ Moves(a, "unlisted", "held")
    /\ reserve'[a] \in Nat
    /\ reserve' = [reserve EXCEPT ![a] = reserve'[a]]
    /\ UNCHANGED <<stake, buyer>>

\* Somebody takes the lead by staking more than anybody, themselves included.
Raise(a, u) ==
    /\ phase[a] = "open"
    /\ \A v \in People : stake'[a][u] > stake[a][v]
    /\ stake' = [stake EXCEPT ![a][u] = stake'[a][u]]
    /\ UNCHANGED <<phase, reserve, buyer>>

Close(a) ==
    /\ Moves(a, "open", "closed")
    /\ UNCHANGED <<reserve, stake, buyer>>

\* The one who leads buys with the whole stake, if it reaches the reserve.
Sell(a, u) ==
    /\ Moves(a, "closed", "sold")
    /\ Leads(a, u)
    /\ stake[a][u] >= reserve[a]
    /\ stake' = [stake EXCEPT ![a][u] = 0]
    /\ buyer' = [buyer EXCEPT ![a] = u]
    /\ UNCHANGED reserve

\* A stake that is not, or no longer, the highest one comes back, before or after the sale.
Refund(a, u) ==
    /\ stake[a][u] > 0
    /\ \/ phase[a] = "sold"
       \/ phase[a] = "closed" /\ ~Leads(a, u)
    /\ stake' = [stake EXCEPT ![a][u] = 0]
    /\ UNCHANGED <<phase, reserve, buyer>>

Next ==
    \E a \in Ids :
        \/ List(a)
        \/ Close(a)
        \/ \E u \in People : Raise(a, u) \/ Sell(a, u) \/ Refund(a, u)

Spec == Init /\ [][Next]_vars

=============================================================================
