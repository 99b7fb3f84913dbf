------------------------- MODULE MCIntegritySigning -------------------------
(* An instance of IntegritySigning for TLC: one status call asks. *)
EXTENDS IntegritySigning

MCChallenges == {<<"a1", 1>>}
MCCrowds == {[c \in {"c1"} |-> <<"a1", 1>>]}

=============================================================================
