---------------------------- MODULE MCRoundRobin ----------------------------
(* Instances of RoundRobin for TLC.                                        *)
EXTENDS RoundRobin

CONSTANTS root, ada, ben, cyd, dee

MCFirstList == <<ada>>

MCKeyLists == {<<key>> : key \in Users} \cup {<<cyd, dee>>, <<cyd, cyd>>, <<NoKey>>}

=============================================================================
