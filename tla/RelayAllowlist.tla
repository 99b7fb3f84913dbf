--------------------------- MODULE RelayAllowlist ---------------------------
(***************************************************************************)
(* syncAllowlist of relay.ts: in every pass the relay allows the addresses *)
(* the registry shows as approved and removes those it shows as revoked,   *)
(* each with a transaction, and reports the transaction to the registry.   *)
(* It goes by the registry's record of the contract, read at the beginning *)
(* of the pass.  The registry and the chain are external: a report may be  *)
(* lost, and a transaction whose wait failed may be mined later.           *)
(***************************************************************************)
EXTENDS Naturals, Sequences, FiniteSets

CONSTANTS Addresses, RelayAccount, None,
    MaxSent,   \* bound: transactions sent and not mined
    MaxFaults  \* bound: failed calls and crashes

VARIABLES
    requesters, \* the contract's s_requesters
    status,     \* external: what the organization and Beam decided
    allowlist,  \* external: what the registry was told of the contract
    sent,       \* external: the relay's transactions, mined in nonce order
    registry,   \* what the pass read of status and allowlist, None between passes
    left,       \* the addresses the pass has still to look at
    doing,      \* the change the pass is at, None between changes
    pc,
    faults

world == <<status, allowlist>>
pass  == <<registry, left, doing, pc>>
vars  == <<requesters, world, sent, pass, faults>>

\* Only the requesters of the contract matter here.
Contract == INSTANCE TransferReceipts WITH
    RequestIds <- {}, TransferIds <- {}, RoomKeys <- {},
    Accounts <- Addresses \cup {RelayAccount}, Owner <- RelayAccount,
    MaxOpenRequests <- 0, MaxEntries <- 0,
    open <- [keys |-> <<>>, position |-> <<>>, request |-> <<>>],
    receipts <- <<>>, roomReceipts <- <<>>, transferIdForRequest <- <<>>,
    roomKeyForRequest <- <<>>, jobs <- <<>>, section <- 0, reported <- {}

Changes == [address : Addresses, allowed : BOOLEAN]

Statuses  == [Addresses -> {"PENDING", "APPROVED", "REVOKED"}]
Reports   == [Addresses -> {"NONE", "ALLOWED", "REMOVED"}]
Snapshots == [status : Statuses, allowlist : Reports]

\* The bounds are numbers, and what is nobody or nothing is nothing else.
Limits ==
    /\ MaxSent \in Nat /\ MaxFaults \in Nat
    /\ RelayAccount \notin Addresses
    /\ None \notin Changes \cup Snapshots

Init ==
    /\ requesters = {}
    /\ status = [a \in Addresses |-> "PENDING"]
    /\ allowlist = [a \in Addresses |-> "NONE"]
    /\ sent = <<>>
    /\ registry = None /\ left = {} /\ doing = None /\ pc = "idle"
    /\ faults = 0

Fault == faults < MaxFaults /\ faults' = faults + 1

-----------------------------------------------------------------------------
(* The relay.                                                              *)

StartPass ==
    /\ pc = "idle"
    /\ registry' = [status |-> status, allowlist |-> allowlist]
    /\ left' = Addresses
    /\ pc' = "next"
    /\ UNCHANGED <<requesters, world, sent, doing, faults>>

ToAllow(a)  == registry.status[a] = "APPROVED" /\ registry.allowlist[a] # "ALLOWED"
ToRemove(a) == registry.status[a] = "REVOKED" /\ registry.allowlist[a] = "ALLOWED"

Skip(a) ==
    /\ pc = "next" /\ a \in left
    /\ ~ToAllow(a) /\ ~ToRemove(a)
    /\ left' = left \ {a}
    /\ UNCHANGED <<requesters, world, sent, registry, doing, pc, faults>>

\* Mutant: what is to be allowed is taken off.
SendSwapped(a) ==
    /\ pc = "next" /\ a \in left
    /\ ToAllow(a) \/ ToRemove(a)
    /\ Len(sent) < MaxSent
    /\ doing' = [address |-> a, allowed |-> ToRemove(a)]
    /\ sent' = Append(sent, doing')
    /\ left' = left \ {a}
    /\ pc' = "wait"
    /\ UNCHANGED <<requesters, world, registry, faults>>

Send(a) ==
    /\ pc = "next" /\ a \in left
    /\ ToAllow(a) \/ ToRemove(a)
    /\ Len(sent) < MaxSent
    /\ doing' = [address |-> a, allowed |-> ToAllow(a)]
    /\ sent' = Append(sent, doing')
    /\ left' = left \ {a}
    /\ pc' = "wait"
    /\ UNCHANGED <<requesters, world, registry, faults>>

SendFails(a) ==
    /\ pc = "next" /\ a \in left
    /\ ToAllow(a) \/ ToRemove(a)
    /\ Fault
    /\ left' = left \ {a}
    /\ UNCHANGED <<requesters, world, sent, registry, doing, pc>>

\* Mutant: the report does not wait for the transaction.
WaitedForSend ==
    /\ pc = "wait"
    /\ pc' = "report"
    /\ UNCHANGED <<requesters, world, sent, registry, left, doing, faults>>

\* The transaction waited for is the last one sent; setRequester does not revert.
Waited ==
    /\ pc = "wait" /\ sent = <<>>
    /\ pc' = "report"
    /\ UNCHANGED <<requesters, world, sent, registry, left, doing, faults>>

WaitFails ==
    /\ pc = "wait"
    /\ Fault
    /\ pc' = "next" /\ doing' = None
    /\ UNCHANGED <<requesters, world, sent, registry, left>>

\* reportAllowlist; a report that fails may have arrived.
Report ==
    /\ pc = "report"
    /\ \/ /\ allowlist' = [allowlist EXCEPT ![doing.address] =
                             IF doing.allowed THEN "ALLOWED" ELSE "REMOVED"]
          /\ faults' \in {faults, faults + 1} /\ faults' <= MaxFaults
       \/ UNCHANGED allowlist /\ Fault
    /\ pc' = "next" /\ doing' = None
    /\ UNCHANGED <<requesters, status, sent, registry, left>>

EndPass ==
    /\ pc = "next" /\ left = {}
    /\ pc' = "idle" /\ registry' = None
    /\ UNCHANGED <<requesters, world, sent, left, doing, faults>>

Crash ==
    /\ pc # "idle"
    /\ Fault
    /\ pc' = "idle" /\ registry' = None /\ left' = {} /\ doing' = None
    /\ UNCHANGED <<requesters, world, sent>>

-----------------------------------------------------------------------------
(* The world.                                                              *)

Mine ==
    /\ sent # <<>>
    /\ Contract!SetRequester(Head(sent).address, Head(sent).allowed)
    /\ sent' = Tail(sent)
    /\ UNCHANGED <<world, pass, faults>>

Decide(a) ==
    /\ \/ status[a] = "PENDING" /\ status' = [status EXCEPT ![a] = "APPROVED"]
       \/ status[a] # "REVOKED" /\ status' = [status EXCEPT ![a] = "REVOKED"]
    /\ UNCHANGED <<requesters, allowlist, sent, pass, faults>>

RelayStep ==
    \/ StartPass
    \/ \E a \in Addresses : Skip(a) \/ Send(a) \/ SendFails(a)
    \/ Waited \/ WaitFails \/ Report \/ EndPass

Next == RelayStep \/ Crash \/ Mine \/ \E a \in Addresses : Decide(a)

\* The relay's loop goes on and the chain mines what is sent.
Spec == Init /\ [][Next]_vars /\ WF_vars(RelayStep) /\ WF_vars(Mine)

-----------------------------------------------------------------------------
(* Properties.                                                             *)

\* Types.
TypeOK ==
    /\ requesters \subseteq Addresses
    /\ status \in Statuses /\ allowlist \in Reports
    /\ sent \in Seq(Changes) /\ Len(sent) <= MaxSent
    /\ registry \in Snapshots \cup {None} /\ doing \in Changes \cup {None}
    /\ left \subseteq Addresses
    /\ pc \in {"idle", "next", "wait", "report"}
    /\ faults \in 0..MaxFaults

\* What the registry shows of the contract was true when it was reported and
\* stays so but for a removal: an address shown as removed is off the contract
\* for good, also when transactions of failed waits are mined late, and one
\* shown as allowed is off it only after a removal.
RegistryFollows ==
    \A a \in Addresses :
        /\ allowlist[a] = "REMOVED" => a \notin requesters
        /\ allowlist[a] = "ALLOWED" => a \in requesters \/ status[a] = "REVOKED"

\* Every approved address, unless it is revoked, is allowed on the contract: what the
\* passes come to in the end.
ApprovedIsAllowed ==
    \A a \in Addresses : status[a] = "APPROVED" => a \in requesters

\* A revoked address is in the end off the contract.
RevokedIsRemoved ==
    \A a \in Addresses : status[a] = "REVOKED" ~> a \notin requesters

=============================================================================
