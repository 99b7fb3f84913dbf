------------------------------- MODULE Outbox -------------------------------
(***************************************************************************)
(* What the open-request set of BeamTransferReceipts promises: a bounded   *)
(* outbox of questions.  A question that is settled is never asked again;  *)
(* until then it can be asked, withdrawn and asked anew.                   *)
(***************************************************************************)
EXTENDS Naturals, FiniteSets

CONSTANTS Questions, Capacity

VARIABLES open, settled

OutboxInit == open = {} /\ settled = {}

Ask(q) ==
    /\ q \notin open \cup settled
    /\ Cardinality(open) < Capacity
    /\ open' = open \cup {q}
    /\ UNCHANGED settled

Withdraw(q) ==
    /\ q \in open
    /\ open' = open \ {q}
    /\ UNCHANGED settled

\* One report entry may settle a request and the subject it names.
Settle(S) ==
    /\ settled' = settled \cup S
    /\ open' = open \ S

OutboxNext ==
    \/ \E q \in Questions : Ask(q) \/ Withdraw(q)
    \/ \E S \in SUBSET Questions : Settle(S)

OutboxSpec == OutboxInit /\ [][OutboxNext]_<<open, settled>>

=============================================================================
