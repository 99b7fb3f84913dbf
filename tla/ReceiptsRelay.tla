--------------------------- MODULE ReceiptsRelay ---------------------------
(***************************************************************************)
(* The relay in customers mode, relay.ts, with the contract it writes to.  *)
(* A pass reads the open requests in pages, lists the finished transfers   *)
(* of customers, looks each subject up at Beam, holds its charge at the    *)
(* website, writes reports, commits the charges, moves the listing cursors *)
(* and closes the requests it will never answer.                           *)
(*                                                                         *)
(* The contract is TransferReceipts, with variables of the same names.     *)
(* Beam, the website and the chain between the relay and the contract are  *)
(* external: a call may fail, and it may have had its effect all the same; *)
(* a transaction whose wait failed may be mined later.  Room subjects and  *)
(* jobs are left out: a transfer stands for a subject.                     *)
(***************************************************************************)
EXTENDS Naturals, FiniteSetsExt, SequencesExt

CONSTANTS
    RequestIds, TransferIds, Accounts, None, MaxOpenRequests,
    RelayAccount,       \* the relay's account, owner of the contract
    Customers,          \* organizations, each with the one address it goes by
    TransferOf,         \* the transfer a request to start one asks for
    BelongsTo,          \* the account whose key sees a transfer at Beam
    Owed,               \* transfers created while "every transfer" was on
    Unreadable,         \* transfers whose record at Beam is not a valid receipt
    CompletedAt,        \* the millisecond a transfer completes in
    MaxPerOrganization, \* maxPerOrganization
    PageSize,           \* OPEN_REQUEST_PAGE
    BatchSize,          \* MAX_ENTRIES_PER_REPORT
    Asks,               \* bound: who may ask what on chain
    Revocable,          \* bound: the customers whose address may be revoked
    MaxSent,            \* bound: transactions sent and not mined
    MaxFaults           \* bound: failed calls and crashes

\* A customer goes by one address, which is not the relay's.
ASSUME PartiesAssumption ==
    /\ RelayAccount \in Accounts
    /\ Customers \subseteq Accounts \ {RelayAccount}

ASSUME SubjectsAssumption ==
    /\ TransferOf \in [RequestIds -> TransferIds]
    /\ BelongsTo \in [TransferIds -> Accounts]
    /\ Owed \subseteq {t \in TransferIds : BelongsTo[t] \in Customers}
    /\ Unreadable \subseteq TransferIds
    /\ CompletedAt \in [TransferIds -> Nat \ {0}]

ASSUME LimitsAssumption ==
    /\ {MaxPerOrganization, PageSize, BatchSize} \subseteq Nat \ {0}
    /\ {MaxOpenRequests, MaxSent, MaxFaults} \subseteq Nat

VARIABLES
    open, receipts, transferIdForRequest, requesters, section, reported, \* the contract
    finished,    \* external: transfers Beam shows as finished
    charge,      \* external: what the website holds for each charge subject
    approved,    \* external: customers whose address is approved
    sent,        \* external: the relay's transactions, mined in nonce order
    mined,       \* what became of the last mined one
    cancelled,   \* history: the keys the relay's cancels took off the set
    cursor,      \* the file of listing cursors
    uncommitted, \* state.uncommittedCloses, lost in a crash
    pc,          \* where the pass is
    pass,        \* the local variables of the pass
    faults

chain    == <<open, receipts, transferIdForRequest, requesters, section, reported>>
external == <<finished, charge, approved>>
txs      == <<sent, mined, cancelled>>
kept     == <<cursor, uncommitted>>
local    == <<pc, pass>>
vars     == <<chain, external, txs, kept, local, faults>>

\* The relay records no Room receipts and no jobs here.
Contract == INSTANCE TransferReceipts WITH
    RoomKeys <- {}, Owner <- RelayAccount, MaxEntries <- BatchSize,
    roomReceipts <- [k \in {} |-> None],
    roomKeyForRequest <- [r \in RequestIds |-> None],
    jobs <- [r \in RequestIds |-> None]

ASSUME NoneAssumption ==
    /\ None \notin RequestIds \cup TransferIds \cup Contract!TransferKinds
    /\ None \notin Contract!Keys \cup Contract!OpenRequests \cup Contract!Receipts
    /\ None \notin Contract!RoomReceipts \cup Contract!JobResults

transferCharge(t) == <<"transfer", t>>
requestCharge(key) == <<"request", key>>
ChargeSubjects == {transferCharge(t) : t \in TransferIds}
                      \cup {requestCharge(key) : key \in Contract!Keys}

\* The customers with a period in which their switch was on.
Listing == {BelongsTo[t] : t \in Owed} \cap Customers

Idle == [registry |-> {}, total |-> 0, offset |-> 0, requests |-> <<>>,
         left |-> {}, listed |-> [c \in Customers |-> {}], pending |-> <<>>,
         planned |-> <<>>, batch |-> <<>>, settled |-> {},
         unanswerable |-> <<>>, retries |-> {}]

\* The contract as deployed, with the customers' addresses allowed.
Init ==
    /\ open = [keys |-> <<>>, position |-> [k \in Contract!Keys |-> 0],
               request |-> [k \in Contract!Keys |-> None]]
    /\ receipts = [t \in TransferIds |-> None]
    /\ transferIdForRequest = [r \in RequestIds |-> None]
    /\ requesters = Customers
    /\ section = 0 /\ reported = {}
    /\ finished = {}
    /\ charge = [s \in ChargeSubjects |-> "none"]
    /\ approved = Customers
    /\ sent = <<>> /\ mined = None /\ cancelled = {}
    /\ cursor = [c \in Customers |-> 0]
    /\ uncommitted = {}
    /\ pc = "idle" /\ pass = Idle
    /\ faults = 0

\* A call that fails, within the bound.
Fault == faults < MaxFaults /\ faults' = faults + 1

-----------------------------------------------------------------------------
(* The website's charges.  A reply that is lost may have had its effect.   *)

Reserve(subject, outcome) ==
    \/ /\ outcome = "charged"
       /\ charge[subject] = "charged"
       /\ UNCHANGED <<charge, faults>>
    \/ /\ outcome = "held"
       /\ charge[subject] # "charged"
       /\ charge' = [charge EXCEPT ![subject] = "held"]
       /\ UNCHANGED faults
    \/ /\ outcome = "failed" /\ Fault
       /\ \/ UNCHANGED charge
          \/ /\ charge[subject] = "none"
             /\ charge' = [charge EXCEPT ![subject] = "held"]

Commit(subject, outcome) ==
    \/ /\ outcome = "charged"
       /\ charge' = [charge EXCEPT ![subject] = "charged"]
       /\ UNCHANGED faults
    \/ /\ outcome = "failed" /\ Fault
       /\ charge' \in {charge, [charge EXCEPT ![subject] = "charged"]}

\* What of a sequence is in a set, in its order.
Kept(s, S) ==
    LET picked[i \in 0..Len(s)] ==
            IF i = 0 THEN <<>>
            ELSE IF s[i] \in S THEN Append(picked[i - 1], s[i]) ELSE picked[i - 1]
    IN  picked[Len(s)]

-----------------------------------------------------------------------------
(* Reading the open requests, in pages of the contract's array.  The array *)
(* may change between two pages.                                           *)

StartPass ==
    /\ pc = "idle"
    /\ pc' = "count"
    /\ pass' = [Idle EXCEPT !.registry = approved]
    /\ UNCHANGED <<chain, external, txs, kept, faults>>

CountRequests ==
    /\ pc = "count" /\ section = 0
    /\ pc' = "read"
    /\ pass' = [pass EXCEPT !.total = Len(open.keys)]
    /\ UNCHANGED <<chain, external, txs, kept, faults>>

ReadPage ==
    LET page == SubSeq(open.keys, pass.offset + 1,
                       Min({pass.offset + PageSize, Len(open.keys)}))
    IN  /\ pc = "read" /\ section = 0
        /\ pass.offset < pass.total
        /\ pass' = [pass EXCEPT
              !.offset = @ + PageSize,
              !.requests = @ \o [i \in DOMAIN page |->
                  [key |-> page[i], requester |-> open.request[page[i]].requester]]]
        /\ UNCHANGED <<chain, external, txs, kept, pc, faults>>

\* A customer's request to start a transfer, or one of an address that is no
\* longer approved, is never answered.
NeverAnswered(q) ==
    /\ q.requester \in Customers
    /\ (q.requester \in pass.registry => q.key[1] = "Transfer")

IsPending(q) ==
    \/ q.requester = RelayAccount
    \/ /\ q.requester \in pass.registry
       /\ q.key[1] = "Receipt"

AskedItem(q) ==
    [transfer  |-> IF q.key[1] = "Transfer" THEN TransferOf[q.key[2]] ELSE q.key[2],
     requestId |-> IF q.key[1] = "Transfer" THEN q.key[2] ELSE None,
     owner |-> q.requester, listed |-> FALSE, key |-> q.key]

ListedItem(c, t) ==
    [transfer |-> t, requestId |-> None, owner |-> c, listed |-> TRUE, key |-> None]

\* add: one item per subject; a later one only replaces one without request id.
Added(items, item) ==
    IF \E i \in DOMAIN items : items[i].transfer = item.transfer
    THEN [i \in DOMAIN items |->
             IF /\ items[i].transfer = item.transfer
                /\ items[i].requestId = None /\ item.requestId # None
             THEN item ELSE items[i]]
    ELSE Append(items, item)

AllAdded(items, more) ==
    LET added[i \in 0..Len(more)] ==
            IF i = 0 THEN items ELSE Added(added[i - 1], more[i])
    IN  added[Len(more)]

AllRead ==
    /\ pc = "read" /\ pass.offset >= pass.total
    /\ pc' = "look"
    /\ LET asked == Kept(pass.requests, {q \in Range(pass.requests) : IsPending(q)})
       IN  pass' = [pass EXCEPT
              !.requests = <<>>,
              !.pending = AllAdded(<<>>, [i \in DOMAIN asked |-> AskedItem(asked[i])]),
              !.unanswerable = Kept(pass.requests,
                                    {q \in Range(pass.requests) : NeverAnswered(q)}),
              !.left = Listing]
    /\ UNCHANGED <<chain, external, txs, kept, faults>>

-----------------------------------------------------------------------------
(* Listing a customer's finished transfers.                                *)

\* What finishedTransfers may return, cut at the limit: among transfers of the
\* same millisecond the order is Beam's.
Slices(c) ==
    LET after == {t \in finished : BelongsTo[t] = c /\ CompletedAt[t] > cursor[c]}
    IN  {S \in SUBSET after :
           /\ Cardinality(S) = Min({MaxPerOrganization, Cardinality(after)})
           /\ \A t \in S, u \in after \ S : CompletedAt[t] <= CompletedAt[u]}

InOrder(S) ==
    {s \in SetToSeqs(S) :
        \A i, j \in DOMAIN s : i < j => CompletedAt[s[i]] <= CompletedAt[s[j]]}

List(c) ==
    /\ pc = "look" /\ c \in pass.left
    /\ \E slice \in Slices(c) :
          \E owed \in InOrder(slice \cap Owed) :
              pass' = [pass EXCEPT
                 !.left = @ \ {c},
                 !.listed[c] = slice,
                 !.pending = AllAdded(@, [i \in DOMAIN owed |-> ListedItem(c, owed[i])])]
    /\ UNCHANGED <<chain, external, txs, kept, pc, faults>>

ListFails(c) ==
    /\ pc = "look" /\ c \in pass.left
    /\ Fault
    /\ pass' = [pass EXCEPT !.left = @ \ {c}]
    /\ UNCHANGED <<chain, external, txs, kept, pc>>

-----------------------------------------------------------------------------
(* Looking a subject up at Beam, and holding its charge.                   *)

Item == Head(pass.pending)

Looking == pc = "look" /\ pass.left = {} /\ pass.pending # <<>>

Sees(item) == item.owner = BelongsTo[item.transfer]

HasEntry(item) == Sees(item) /\ item.transfer \in finished \ Unreadable

IsCustomers(item) == item.owner \in Customers

\* There is nothing to record.  A request for what its customer's key does not
\* see is not answered once its grace is over; a listed transfer that can never
\* be recorded is done with.
LookUpNothing ==
    /\ Looking /\ ~HasEntry(Item)
    /\ \E graceOver \in BOOLEAN :
          pass' = [pass EXCEPT
             !.pending = Tail(@),
             !.settled = IF Item.listed THEN @ \cup {Item.transfer} ELSE @,
             !.unanswerable = IF ~Sees(Item) /\ IsCustomers(Item) /\ graceOver
                              THEN Append(@, [key |-> Item.key, requester |-> Item.owner])
                              ELSE @]
    /\ UNCHANGED <<chain, external, txs, kept, pc, faults>>

\* Beam does not answer.
LookUpFails ==
    /\ Looking /\ ~Item.listed
    /\ Fault
    /\ pass' = [pass EXCEPT !.pending = Tail(@)]
    /\ UNCHANGED <<chain, external, txs, kept, pc>>

\* Beam's own subjects are not charged.
PlanOwn ==
    /\ Looking /\ HasEntry(Item) /\ ~IsCustomers(Item)
    /\ pass' = [pass EXCEPT !.pending = Tail(@), !.planned = Append(@, Item)]
    /\ UNCHANGED <<chain, external, txs, kept, pc, faults>>

\* Mutant: a customer's receipt is written without asking for its charge.
PlanUnheld ==
    /\ Looking /\ HasEntry(Item) /\ IsCustomers(Item)
    /\ pass' = [pass EXCEPT !.pending = Tail(@), !.planned = Append(@, Item)]
    /\ UNCHANGED <<chain, external, txs, kept, pc, faults>>

PlanCustomers ==
    /\ Looking /\ HasEntry(Item) /\ IsCustomers(Item)
    /\ \E outcome \in {"held", "charged", "failed"} :
          /\ Reserve(transferCharge(Item.transfer), outcome)
          /\ pass' = [pass EXCEPT
                !.pending = Tail(@),
                !.planned = IF outcome = "held" THEN Append(@, Item) ELSE @,
                !.settled = IF outcome = "charged" THEN @ \cup {Item.transfer} ELSE @]
    /\ UNCHANGED <<chain, finished, approved, txs, kept, pc>>

-----------------------------------------------------------------------------
(* Writing reports, one batch after the other, and committing the charges. *)

LookedUp == pc = "look" /\ pass.left = {} /\ pass.pending = <<>>

Send(tx) == Len(sent) < MaxSent /\ sent' = Append(sent, tx) /\ UNCHANGED <<mined, cancelled>>

\* The transaction waited for is the last one sent.
Mined(outcome) == sent = <<>> /\ mined = outcome

\* Mutant: one report for everything that is planned.
WriteAll ==
    /\ LookedUp /\ pass.planned # <<>>
    /\ Send([kind |-> "report", entries |-> pass.planned])
    /\ pc' = "wait"
    /\ pass' = [pass EXCEPT !.batch = pass.planned, !.planned = <<>>]
    /\ UNCHANGED <<chain, external, kept, faults>>

WriteReport ==
    LET size == Min({BatchSize, Len(pass.planned)})
    IN  /\ LookedUp /\ pass.planned # <<>>
        /\ Send([kind |-> "report", entries |-> SubSeq(pass.planned, 1, size)])
        /\ pc' = "wait"
        /\ pass' = [pass EXCEPT
              !.batch = SubSeq(pass.planned, 1, size),
              !.planned = SubSeq(@, size + 1, Len(@))]
        /\ UNCHANGED <<chain, external, kept, faults>>

\* A write that fails, before it is sent or while it is waited for, ends the writing.
WriteFails ==
    /\ \/ pc = "wait"
       \/ LookedUp /\ pass.planned # <<>>
    /\ Fault
    /\ pc' = "save"
    /\ pass' = [pass EXCEPT !.batch = <<>>, !.planned = <<>>]
    /\ UNCHANGED <<chain, external, txs, kept>>

\* Mutant: a wait that fails is taken for a report that is mined.
WrittenOrTimedOut ==
    /\ pc = "wait"
    /\ pc' = "commit"
    /\ UNCHANGED <<chain, external, txs, kept, pass, faults>>

Written ==
    /\ pc = "wait" /\ Mined("success")
    /\ pc' = "commit"
    /\ UNCHANGED <<chain, external, txs, kept, pass, faults>>

\* Only a customer's receipt has a charge to commit; one that fails leaves the
\* transfer unsettled.
CommitReceipt ==
    LET item == Head(pass.batch)
    IN  /\ pc = "commit"
        /\ pc' = IF Len(pass.batch) = 1 THEN "look" ELSE "commit"
        /\ \E outcome \in {"charged", "failed"} :
              /\ IF IsCustomers(item) THEN Commit(transferCharge(item.transfer), outcome)
                 ELSE outcome = "failed" /\ UNCHANGED <<charge, faults>>
              /\ pass' = [pass EXCEPT
                    !.batch = Tail(@),
                    !.settled = IF outcome = "charged" THEN @ \cup {item.transfer} ELSE @]
        /\ UNCHANGED <<chain, finished, approved, txs, kept>>

AllWritten ==
    /\ LookedUp /\ pass.planned = <<>>
    /\ pc' = "save"
    /\ UNCHANGED <<chain, external, txs, kept, pass, faults>>

\* Mutant: the cursor passes what is finished, settled or not.
NextCursorPastAll(c) == Max({cursor[c]} \cup {CompletedAt[t] : t \in pass.listed[c]})

\* nextTransferCursor: just before the oldest transfer that is not done.
NextCursor(c) ==
    LET undone == {t \in pass.listed[c] \cap Owed : t \notin pass.settled}
    IN  IF undone # {}
        THEN Max({cursor[c], Min({CompletedAt[t] : t \in undone}) - 1})
        ELSE Max({cursor[c]} \cup {CompletedAt[t] : t \in pass.listed[c]})

SaveCursors ==
    /\ pc = "save"
    /\ cursor' = [c \in Customers |-> NextCursor(c)]
    /\ pc' = "close"
    /\ pass' = [Idle EXCEPT !.unanswerable = pass.unanswerable, !.retries = uncommitted]
    /\ UNCHANGED <<chain, external, txs, uncommitted, faults>>

\* Reading the registry, the open requests or the cursors, or saving them, throws.
PassFails ==
    /\ pc \in {"count", "read", "save"}
    /\ Fault
    /\ pc' = "idle" /\ pass' = Idle
    /\ UNCHANGED <<chain, external, txs, kept>>

-----------------------------------------------------------------------------
(* Closing the requests that will never be answered.                       *)

\* Another request of the same key is not looked at in this pass.
CloseDone == [pass EXCEPT !.unanswerable =
                 Kept(@, {q \in Range(@) : q.key # Head(@).key})]

\* First the commits that earlier passes owe.  Only an unavailable service is asked
\* again: any other answer, charged or refused, ends the debt.
RetryCommit(key) ==
    /\ pc = "close" /\ key \in pass.retries
    /\ \E outcome \in {"charged", "failed"} :
          /\ Commit(requestCharge(key), outcome)
          /\ uncommitted' \in {uncommitted \ {key}}
                \cup (IF outcome = "failed" THEN {uncommitted} ELSE {})
    /\ pass' = [pass EXCEPT !.retries = @ \ {key}]
    /\ UNCHANGED <<chain, finished, approved, txs, cursor, pc>>

Closing == pc = "close" /\ pass.retries = {} /\ pass.unanswerable # <<>>

HoldClose ==
    /\ Closing
    /\ \E outcome \in {"held", "charged", "failed"} :
          /\ Reserve(requestCharge(Head(pass.unanswerable).key), outcome)
          /\ IF outcome = "held" THEN pc' = "cancel" /\ UNCHANGED pass
             ELSE pc' = "close" /\ pass' = CloseDone
    /\ UNCHANGED <<chain, finished, approved, txs, kept>>

CancelRequest ==
    LET q == Head(pass.unanswerable)
    IN  /\ pc = "cancel"
        /\ Send([kind |-> "cancel", key |-> q.key, organization |-> q.requester])
        /\ pc' = "cancelling"
        /\ UNCHANGED <<chain, external, kept, pass, faults>>

\* The cancel is not sent, its wait fails, or it reverts.
CancelFails ==
    /\ \/ pc \in {"cancel", "cancelling"} /\ Fault
       \/ pc = "cancelling" /\ Mined("reverted") /\ UNCHANGED faults
    /\ pc' = "close" /\ pass' = CloseDone
    /\ UNCHANGED <<chain, external, txs, kept>>

Cancelled ==
    /\ pc = "cancelling" /\ Mined("success")
    /\ pc' = "closed"
    /\ UNCHANGED <<chain, external, txs, kept, pass, faults>>

CommitClose ==
    LET key == Head(pass.unanswerable).key
    IN  /\ pc = "closed"
        /\ \E outcome \in {"charged", "failed"} :
              /\ Commit(requestCharge(key), outcome)
              /\ uncommitted' = IF outcome = "failed" THEN uncommitted \cup {key}
                                ELSE uncommitted
        /\ pc' = "close" /\ pass' = CloseDone
        /\ UNCHANGED <<chain, finished, approved, txs, cursor>>

EndPass ==
    /\ pc = "close" /\ pass.retries = {} /\ pass.unanswerable = <<>>
    /\ pc' = "idle" /\ pass' = Idle
    /\ UNCHANGED <<chain, external, txs, kept, faults>>

Crash ==
    /\ pc # "idle" \/ uncommitted # {}
    /\ Fault
    /\ pc' = "idle" /\ pass' = Idle /\ uncommitted' = {}
    /\ UNCHANGED <<chain, external, txs, cursor>>

-----------------------------------------------------------------------------
(* The chain: the relay's transactions, in the order they were sent.       *)

MineEntry ==
    /\ sent # <<>> /\ Head(sent).kind = "report" /\ Head(sent).entries # <<>>
    /\ LET item == Head(Head(sent).entries)
       IN  Contract!RecordReceipt([transferId |-> item.transfer,
                                   requestId |-> item.requestId,
                                   status |-> "Completed"])
    /\ sent' = [sent EXCEPT ![1].entries = Tail(@)]
    /\ UNCHANGED <<external, mined, cancelled, kept, local, faults>>

MineReport ==
    /\ sent # <<>> /\ Head(sent).kind = "report" /\ Head(sent).entries = <<>>
    /\ Contract!EndReport
    /\ sent' = Tail(sent) /\ mined' = "success"
    /\ UNCHANGED <<external, cancelled, kept, local, faults>>

MineCancel ==
    /\ sent # <<>> /\ Head(sent).kind = "cancel"
    /\ sent' = Tail(sent)
    /\ \/ /\ Contract!CancelRequest(RelayAccount, Head(sent).key)
          /\ mined' = "success"
          /\ cancelled' = cancelled \cup {Head(sent).key}
       \/ /\ ~Contract!IsOpen(Head(sent).key)
          /\ mined' = "reverted"
          /\ UNCHANGED <<chain, cancelled>>
    /\ UNCHANGED <<external, kept, local, faults>>

-----------------------------------------------------------------------------
(* The world: requesters, Beam and the registry of customers.              *)

Ask(a, key) ==
    /\ <<a, key>> \in Asks
    /\ \/ key[1] = "Receipt" /\ Contract!RequestReceipt(a, key[2])
       \/ key[1] = "Transfer" /\ Contract!RequestTransfer(a, key[2], "Standard")
    /\ UNCHANGED <<external, txs, kept, local, faults>>

Withdraw(a, key) ==
    /\ Contract!IsOpen(key) /\ open.request[key].requester = a
    /\ Contract!CancelRequest(a, key)
    /\ UNCHANGED <<external, txs, kept, local, faults>>

\* Time does not run backwards.
Finish(t) ==
    /\ t \notin finished
    /\ \A u \in finished : CompletedAt[u] <= CompletedAt[t]
    /\ finished' = finished \cup {t}
    /\ UNCHANGED <<chain, charge, approved, txs, kept, local, faults>>

\* The address is revoked; syncAllowlist takes it off the contract later.
Revoke(c) ==
    /\ c \in Revocable
    /\ approved' = approved \ {c}
    /\ UNCHANGED <<chain, finished, charge, txs, kept, local, faults>>

Disallow(c) ==
    /\ c \notin approved
    /\ Contract!SetRequester(c, FALSE)
    /\ UNCHANGED <<external, txs, kept, local, faults>>

World ==
    \/ \E a \in Accounts, key \in Contract!Keys : Ask(a, key) \/ Withdraw(a, key)
    \/ \E t \in TransferIds : Finish(t)
    \/ \E c \in Customers : Revoke(c) \/ Disallow(c)

RelayStep ==
    \/ StartPass \/ CountRequests \/ ReadPage \/ AllRead
    \/ \E c \in Customers : List(c) \/ ListFails(c)
    \/ LookUpNothing \/ LookUpFails \/ PlanOwn \/ PlanCustomers
    \/ WriteReport \/ WriteFails \/ Written \/ CommitReceipt \/ AllWritten
    \/ SaveCursors
    \/ \E key \in Contract!Keys : RetryCommit(key)
    \/ HoldClose \/ CancelRequest \/ CancelFails \/ Cancelled \/ CommitClose \/ EndPass

Mine == MineEntry \/ MineReport \/ MineCancel

Next == RelayStep \/ PassFails \/ Crash \/ Mine \/ World

Spec == Init /\ [][Next]_vars

\* The relay's loop goes on and the chain mines what is sent.
FairSpec == Spec /\ WF_vars(RelayStep) /\ WF_vars(Mine)

-----------------------------------------------------------------------------
(* Properties.                                                             *)

Items == [transfer : TransferIds, requestId : RequestIds \cup {None}, owner : Accounts,
          listed : BOOLEAN, key : Contract!Keys \cup {None}]

Questions == [key : Contract!Keys, requester : Accounts]

Passes == [registry : SUBSET Customers, total : Nat, offset : Nat,
           requests : Seq(Questions), left : SUBSET Customers,
           listed : [Customers -> SUBSET TransferIds], pending : Seq(Items),
           planned : Seq(Items), batch : Seq(Items), settled : SUBSET TransferIds,
           unanswerable : Seq(Questions), retries : SUBSET Contract!Keys]

Transactions == [kind : {"report"}, entries : Seq(Items)]
                    \cup [kind : {"cancel"}, key : Contract!Keys, organization : Customers]

\* Types; at most one batch of entries in a report.
TypeOK ==
    /\ Contract!TypeOK
    /\ finished \subseteq TransferIds /\ approved \subseteq Customers
    /\ charge \in [ChargeSubjects -> {"none", "held", "charged"}]
    /\ sent \in Seq(Transactions) /\ mined \in {None, "success", "reverted"}
    /\ \A i \in DOMAIN sent : sent[i].kind = "report" => Len(sent[i].entries) <= BatchSize
    /\ cancelled \subseteq Contract!Keys /\ uncommitted \subseteq Contract!Keys
    /\ cursor \in [Customers -> Nat]
    /\ pc \in {"idle", "count", "read", "look", "wait", "commit", "save",
               "close", "cancel", "cancelling", "closed"}
    /\ pass \in Passes
    /\ faults \in 0..MaxFaults

\* Nothing a customer pays for goes out before its credit is held: no receipt
\* is sent or recorded and no cancel is sent or mined without its charge,
\* whatever replies are lost and whenever a transaction of an earlier pass is
\* mined.
PaidFirst ==
    LET recorded == {t \in TransferIds : receipts[t] # None /\ BelongsTo[t] \in Customers}
        entries  == UNION {Range(sent[i].entries) :
                              i \in {j \in DOMAIN sent : sent[j].kind = "report"}}
        closing  == {sent[i].key : i \in {j \in DOMAIN sent : sent[j].kind = "cancel"}}
    IN  /\ \A t \in recorded : charge[transferCharge(t)] # "none"
        /\ \A item \in entries : IsCustomers(item) => charge[transferCharge(item.transfer)] # "none"
        /\ \A key \in closing \cup cancelled : charge[requestCharge(key)] # "none"

\* A credit is charged only for what has happened on chain: the receipt is
\* recorded, or a cancel of the relay has closed the request.
ChargedForEffect ==
    /\ \A t \in TransferIds : charge[transferCharge(t)] = "charged" => receipts[t] # None
    /\ \A key \in Contract!Keys :
          charge[requestCharge(key)] = "charged" => key \in cancelled

\* The saved cursor passes a transfer that is owed only when its receipt is
\* charged or can never be recorded: none is lost behind it.
CursorPassesDone ==
    \A t \in finished \cap Owed : CompletedAt[t] <= cursor[BelongsTo[t]] =>
        charge[transferCharge(t)] = "charged" \/ t \in Unreadable

\* Every customer's listed transfer that is owed is looked up with the key of
\* its customer.
ReadWithOwnersKey ==
    \A i \in DOMAIN pass.pending :
        LET item == pass.pending[i]
        IN  item.transfer \in Owed /\ item.transfer \in pass.listed[BelongsTo[item.transfer]]
                => Sees(item)

\* A mined cancel closes the request of the organization that is charged for it.
ClosesWhatIsCharged ==
    [][(/\ sent # <<>> /\ Head(sent).kind = "cancel"
        /\ Contract!IsOpen(Head(sent).key)
        /\ sent' = Tail(sent))
          => open.request[Head(sent).key].requester = Head(sent).organization]_vars

\* Eventually: every finished transfer that is owed a receipt is recorded and charged.
OwedCharged ==
    \A t \in (Owed \ Unreadable) \cap finished :
        receipts[t] # None /\ charge[transferCharge(t)] = "charged"

\* Again and again: no receipt request of the relay or of an approved customer,
\* for a finished transfer that its key sees, is open.
NoAskOpen(t) ==
    LET key == Contract!receiptRequestKey(t)
    IN  ~ /\ t \in finished \ Unreadable
          /\ Contract!IsOpen(key) /\ open.request[key].requester = BelongsTo[t]
          /\ BelongsTo[t] \in approved \cup {RelayAccount}

\* A recorded receipt of a customer is in the end charged.
RecordedIsCharged ==
    \A t \in TransferIds : BelongsTo[t] \in Customers =>
        (receipts[t] # None ~> charge[transferCharge(t)] = "charged")

=============================================================================
