-------------------------------- MODULE BidX --------------------------------
(***************************************************************************)
(* The whole program: the admins', the sellers', the bidders' and the      *)
(* authenticators' instructions interleaved in any order the ledger may    *)
(* commit them, with the clock and the deposits of items.                  *)
(***************************************************************************)
EXTENDS Authentication

vars == <<platformVars, auctionVars>>

TypeOK == PlatformTypeOK /\ AuctionTypeOK

Init == PlatformInit /\ AuctionInit

Next ==
    \/ PlatformNext /\ UNCHANGED auctionVars
    \/ AuctionNext
    \/ AuthenticationNext

Spec == Init /\ [][Next]_vars

=============================================================================
