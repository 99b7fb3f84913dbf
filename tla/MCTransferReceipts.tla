------------------------ MODULE MCTransferReceipts -------------------------
(* Two Room keys, so that a job can have an input and an output. *)
EXTENDS TransferReceipts, TLC

CONSTANTS k1, k2

Symmetry == Permutations({k1, k2})

=============================================================================
