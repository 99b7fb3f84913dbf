--------------------------- MODULE MCRouteRecovery ---------------------------
(***************************************************************************)
(* RouteRecovery on one transfer that up to two calls own in turn.         *)
(***************************************************************************)
EXTENDS RouteRecovery, TLC

CONSTANTS t1, a, b

MCTransfers == {t1}
MCTransferOf == [o \in Owners |-> t1]
Symmetry == Permutations({a, b})
=============================================================================
