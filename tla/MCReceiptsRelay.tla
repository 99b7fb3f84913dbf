--------------------------- MODULE MCReceiptsRelay ---------------------------
(* An instance of ReceiptsRelay for TLC: t1 is alice's and owed to her, t3  *)
(* is Beam's, which the relay asks for, and alice asks to start t3, which   *)
(* her key does not see.                                                    *)
EXTENDS ReceiptsRelay

CONSTANTS alice, relay, t1, t3, r1

MCTransferOf == [r \in RequestIds |-> t3]
MCBelongsTo == [t \in TransferIds |-> IF t = t3 THEN relay ELSE alice]
MCCompletedAt == [t \in TransferIds |-> IF t = t3 THEN 3 ELSE 1]

MCAsks == {<<relay, <<"Receipt", t3>>>>, <<alice, <<"Transfer", r1>>>>}

=============================================================================
