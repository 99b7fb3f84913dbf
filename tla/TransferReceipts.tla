-------------------------- MODULE TransferReceipts --------------------------
(***************************************************************************)
(* The receipts contract, BeamTransferReceipts.sol: the set of open        *)
(* requests, kept as an array with positions and removed from by swapping  *)
(* with the last element, the receipts and the answers of requests.        *)
(*                                                                         *)
(* A transaction is atomic.  A report is a transaction of many entries, in *)
(* four sections; the model takes one step per entry and lets no other     *)
(* transaction in between.  A report that reverts changes nothing, so the  *)
(* entries are those that pass the field checks of their section.  Keys    *)
(* are keccak256 hashes, taken to be free of collisions.                   *)
(***************************************************************************)
EXTENDS Naturals, FiniteSets, Sequences

CONSTANTS
    RequestIds, TransferIds, RoomKeys,
    Accounts, Owner,
    None,            \* the zero value of an id or of a record
    MaxOpenRequests, \* MAX_OPEN_REQUESTS
    MaxEntries       \* bound: distinct entries of one report

ASSUME OwnerAssumption == Owner \in Accounts

ASSUME BoundAssumption == MaxOpenRequests \in Nat /\ MaxEntries \in Nat

VARIABLES
    open,                 \* s_openKeys, s_openPosition, s_openRequests
    receipts,             \* s_receipts
    roomReceipts,         \* s_roomReceipts
    transferIdForRequest, \* s_transferIdForRequest
    roomKeyForRequest,    \* s_roomKeyForRequest
    jobs,                 \* s_jobs
    requesters,           \* s_requesters
    section,              \* 0 between transactions, else the report's section
    reported              \* history: the entries of the current or last report

ledger  == <<receipts, roomReceipts, transferIdForRequest, roomKeyForRequest, jobs>>
vars == <<open, ledger, requesters, section, reported>>

TransferKinds == {"Standard", "RoomDelivery", "Job"}
\* Completed stands for itself, Failed for Failed, Cancelled and Partial, which no
\* guard tells apart.
Statuses      == {"Completed", "Failed"}
Claims        == {"BeamReported", "TargetSigned"}

transferRequestKey(r) == <<"Transfer", r>>
receiptRequestKey(t)  == <<"Receipt", t>>
roomRequestKey(k)     == <<"RoomReceipt", k>>

Keys == {transferRequestKey(r) : r \in RequestIds}
            \cup {receiptRequestKey(t) : t \in TransferIds}
            \cup {roomRequestKey(k) : k \in RoomKeys}

OpenRequests == [kind : {"Transfer", "Receipt", "RoomReceipt"},
                 transferKind : TransferKinds \cup {None},
                 requester : Accounts]
Receipts     == [requestId : RequestIds \cup {None}, status : Statuses]
RoomReceipts == [status : Statuses, level : SUBSET Claims]
JobResults   == [input : RoomKeys, output : RoomKeys,
                 status : Statuses, level : SUBSET Claims]

ASSUME NoneAssumption ==
    /\ None \notin RequestIds \cup TransferIds \cup RoomKeys \cup TransferKinds
    /\ None \notin OpenRequests \cup Receipts \cup RoomReceipts \cup JobResults

StandardEntries == [transferId : TransferIds, requestId : RequestIds \cup {None},
                    status : Statuses]
RoomEntries     == [roomKey : RoomKeys, requestId : RequestIds \cup {None},
                    status : Statuses,
                    level : {{"BeamReported"}, {"BeamReported", "TargetSigned"}}]
JobEntries      == {e \in [requestId : RequestIds, input : RoomKeys, output : RoomKeys] :
                       e.input # e.output}

Init ==
    /\ open = [keys |-> <<>>, position |-> [k \in Keys |-> 0],
               request |-> [k \in Keys |-> None]]
    /\ receipts = [t \in TransferIds |-> None]
    /\ roomReceipts = [k \in RoomKeys |-> None]
    /\ transferIdForRequest = [r \in RequestIds |-> None]
    /\ roomKeyForRequest = [r \in RequestIds |-> None]
    /\ jobs = [r \in RequestIds |-> None]
    /\ requesters = {}
    /\ section = 0
    /\ reported = {}

-----------------------------------------------------------------------------
(* The open-request set.                                                   *)

IsOpen(key) == open.position[key] # 0

\* _isAnswered.
IsAnswered(r) ==
    \/ transferIdForRequest[r] # None
    \/ roomKeyForRequest[r] # None
    \/ jobs[r] # None

\* _open: push the key and remember its position, counted from one.
Opened(o, key, request) ==
    [keys     |-> Append(o.keys, key),
     position |-> [o.position EXCEPT ![key] = Len(o.keys) + 1],
     request  |-> [o.request EXCEPT ![key] = request]]

\* Mutant: the moved key keeps its old position.
ClosedWithoutMove(o, key) ==
    LET position == o.position[key]
        last     == Len(o.keys)
    IN  IF position = 0 THEN o
        ELSE [keys     |-> [i \in 1..(last - 1) |->
                               IF i = position THEN o.keys[last] ELSE o.keys[i]],
              position |-> [o.position EXCEPT ![key] = 0],
              request  |-> [o.request EXCEPT ![key] = None]]

\* _close: the last key moves into the place of the one that goes.
Closed(o, key) ==
    LET position == o.position[key]
        last     == Len(o.keys)
    IN  IF position = 0 THEN o
        ELSE [keys     |-> [i \in 1..(last - 1) |->
                               IF i = position THEN o.keys[last] ELSE o.keys[i]],
              position |-> [k \in Keys |->
                               IF k = key THEN 0
                               ELSE IF k = o.keys[last] THEN position
                               ELSE o.position[k]],
              request  |-> [o.request EXCEPT ![key] = None]]

-----------------------------------------------------------------------------
(* Requests and administration.  A request that is already open or settled *)
(* is a no-op, one beyond the bound or of a stranger reverts.              *)

OnlyRequester(a) == a = Owner \/ a \in requesters

Transaction == section = 0 /\ section' = 0 /\ reported' = {}

\* Mutant: the bound is checked after the push.
OpenBeyondBound(a, key, kind, transferKind) ==
    /\ Transaction
    /\ OnlyRequester(a) /\ ~IsOpen(key)
    /\ Len(open.keys) <= MaxOpenRequests
    /\ open' = Opened(open, key, [kind |-> kind, transferKind |-> transferKind,
                                  requester |-> a])
    /\ UNCHANGED <<ledger, requesters>>

Open(a, key, kind, transferKind) ==
    /\ Transaction
    /\ OnlyRequester(a) /\ ~IsOpen(key)
    /\ Len(open.keys) < MaxOpenRequests
    /\ open' = Opened(open, key, [kind |-> kind, transferKind |-> transferKind,
                                  requester |-> a])
    /\ UNCHANGED <<ledger, requesters>>

\* Mutant: an answered request can be opened again.
RequestTransferAgain(a, r, kind) ==
    Open(a, transferRequestKey(r), "Transfer", kind)

RequestTransfer(a, r, kind) ==
    /\ ~IsAnswered(r)
    /\ Open(a, transferRequestKey(r), "Transfer", kind)

RequestReceipt(a, t) ==
    /\ receipts[t] = None
    /\ Open(a, receiptRequestKey(t), "Receipt", None)

RequestRoomReceipt(a, k) ==
    /\ roomReceipts[k] = None
    /\ Open(a, roomRequestKey(k), "RoomReceipt", None)

CancelRequest(a, key) ==
    /\ Transaction
    /\ IsOpen(key)
    /\ a = Owner \/ a = open.request[key].requester
    /\ open' = Closed(open, key)
    /\ UNCHANGED <<ledger, requesters>>

SetRequester(a, allowed) ==
    /\ Transaction
    /\ requesters' = IF allowed THEN requesters \cup {a} ELSE requesters \ {a}
    /\ UNCHANGED <<open, ledger>>

-----------------------------------------------------------------------------
(* Reports.                                                                *)

\* An entry of section s comes after those of the earlier sections.
ReportEntry(s, e) ==
    /\ section <= s /\ section' = s
    /\ reported' = (IF section = 0 THEN {} ELSE reported) \cup {<<s, e>>}
    /\ Cardinality(reported') <= MaxEntries
    /\ UNCHANGED requesters

EndReport ==
    /\ section # 0 /\ section' = 0
    /\ UNCHANGED <<open, ledger, requesters, reported>>

\* Mutant: an open request of another kind is answered too.
AnswersAnyKind(r, kind) == r # None /\ ~IsAnswered(r)

\* Mutant: an answered request is answered again.
AnswersTwice(r, kind) ==
    /\ r # None
    /\ IsOpen(transferRequestKey(r)) =>
          open.request[transferRequestKey(r)].transferKind = kind

\* _answerRequest binds an unanswered request, even one that was never opened,
\* unless it is open and asked for another kind.
Answers(r, kind) ==
    /\ r # None
    /\ ~IsAnswered(r)
    /\ IsOpen(transferRequestKey(r)) =>
          open.request[transferRequestKey(r)].transferKind = kind

AfterAnswer(r, kind) ==
    IF Answers(r, kind) THEN Closed(open, transferRequestKey(r)) ELSE open

\* _recordReceipt.  A recorded receipt keeps its values; it is bound to the
\* first request it answers.
RecordReceipt(e) ==
    LET answers == Answers(e.requestId, "Standard")
        receipt == receipts[e.transferId]
    IN  /\ ReportEntry(1, <<e.transferId, e.requestId>>)
        /\ transferIdForRequest' =
              IF answers THEN [transferIdForRequest EXCEPT ![e.requestId] = e.transferId]
              ELSE transferIdForRequest
        /\ IF receipt # None
           THEN /\ receipts' = IF answers /\ receipt.requestId = None
                               THEN [receipts EXCEPT ![e.transferId] =
                                       [requestId |-> e.requestId,
                                        status |-> receipt.status]]
                               ELSE receipts
                /\ open' = AfterAnswer(e.requestId, "Standard")
           ELSE /\ receipts' = [receipts EXCEPT ![e.transferId] =
                                  [requestId |-> IF answers THEN e.requestId ELSE None,
                                   status |-> e.status]]
                /\ open' = Closed(AfterAnswer(e.requestId, "Standard"),
                                  receiptRequestKey(e.transferId))
        /\ UNCHANGED <<roomReceipts, roomKeyForRequest, jobs>>

\* Mutant: a Room receipt that is already recorded is overwritten.
RecordRoomReceiptAgain(e) ==
    LET answers == Answers(e.requestId, "RoomDelivery")
    IN  /\ ReportEntry(2, <<e.roomKey, e.requestId>>)
        /\ roomKeyForRequest' =
              IF answers THEN [roomKeyForRequest EXCEPT ![e.requestId] = e.roomKey]
              ELSE roomKeyForRequest
        /\ roomReceipts' = [roomReceipts EXCEPT ![e.roomKey] =
                               [status |-> e.status, level |-> e.level]]
        /\ open' = Closed(AfterAnswer(e.requestId, "RoomDelivery"),
                          roomRequestKey(e.roomKey))
        /\ UNCHANGED <<receipts, transferIdForRequest, jobs>>

\* _recordRoomReceipt.
RecordRoomReceipt(e) ==
    LET answers == Answers(e.requestId, "RoomDelivery")
    IN  /\ ReportEntry(2, <<e.roomKey, e.requestId>>)
        /\ roomKeyForRequest' =
              IF answers THEN [roomKeyForRequest EXCEPT ![e.requestId] = e.roomKey]
              ELSE roomKeyForRequest
        /\ IF roomReceipts[e.roomKey] # None
           THEN /\ UNCHANGED roomReceipts
                /\ open' = AfterAnswer(e.requestId, "RoomDelivery")
           ELSE /\ roomReceipts' = [roomReceipts EXCEPT ![e.roomKey] =
                                       [status |-> e.status, level |-> e.level]]
                /\ open' = Closed(AfterAnswer(e.requestId, "RoomDelivery"),
                                  roomRequestKey(e.roomKey))
        /\ UNCHANGED <<receipts, transferIdForRequest, jobs>>

\* _closeRequest: only an open Room receipt request.
CloseRequest(key) ==
    /\ ReportEntry(3, key)
    /\ open' = IF IsOpen(key) /\ open.request[key].kind = "RoomReceipt"
               THEN Closed(open, key) ELSE open
    /\ UNCHANGED ledger

\* Mutant: a job takes the status of its output, whatever its input's.
RecordJobOutput(e) ==
    LET input  == roomReceipts[e.input]
        output == roomReceipts[e.output]
    IN  /\ ReportEntry(4, e.requestId)
        /\ input # None /\ output # None
        /\ open' = AfterAnswer(e.requestId, "Job")
        /\ jobs' = IF Answers(e.requestId, "Job")
                   THEN [jobs EXCEPT ![e.requestId] =
                           [input |-> e.input, output |-> e.output,
                            status |-> output.status,
                            level |-> input.level \cap output.level]]
                   ELSE jobs
        /\ UNCHANGED <<receipts, roomReceipts, transferIdForRequest, roomKeyForRequest>>

\* _recordJob reverts unless both Room receipts are recorded.
RecordJob(e) ==
    LET input  == roomReceipts[e.input]
        output == roomReceipts[e.output]
    IN  /\ ReportEntry(4, e.requestId)
        /\ input # None /\ output # None
        /\ open' = AfterAnswer(e.requestId, "Job")
        /\ jobs' = IF Answers(e.requestId, "Job")
                   THEN [jobs EXCEPT ![e.requestId] =
                           [input |-> e.input, output |-> e.output,
                            status |-> IF input.status = "Completed"
                                       THEN output.status ELSE input.status,
                            level |-> input.level \cap output.level]]
                   ELSE jobs
        /\ UNCHANGED <<receipts, roomReceipts, transferIdForRequest, roomKeyForRequest>>

-----------------------------------------------------------------------------
RequesterStep(a) ==
    \/ \E r \in RequestIds, kind \in TransferKinds : RequestTransfer(a, r, kind)
    \/ \E t \in TransferIds : RequestReceipt(a, t)
    \/ \E k \in RoomKeys : RequestRoomReceipt(a, k)
    \/ \E key \in Keys : CancelRequest(a, key)

ReportStep ==
    \/ \E e \in StandardEntries : RecordReceipt(e)
    \/ \E e \in RoomEntries : RecordRoomReceipt(e)
    \/ \E key \in Keys : CloseRequest(key)
    \/ \E e \in JobEntries : RecordJob(e)

Next ==
    \/ \E a \in Accounts : RequesterStep(a)
    \/ \E a \in Accounts, allowed \in BOOLEAN : SetRequester(a, allowed)
    \/ ReportStep
    \/ EndReport

Spec == Init /\ [][Next]_vars

-----------------------------------------------------------------------------
(* Properties.                                                             *)

OpenSets == [keys : Seq(Keys), position : [Keys -> 0..MaxOpenRequests],
             request : [Keys -> OpenRequests \cup {None}]]

\* Types, and the bound MAX_OPEN_REQUESTS of the set.
TypeOK ==
    /\ open \in OpenSets /\ Len(open.keys) <= MaxOpenRequests
    /\ receipts \in [TransferIds -> Receipts \cup {None}]
    /\ roomReceipts \in [RoomKeys -> RoomReceipts \cup {None}]
    /\ transferIdForRequest \in [RequestIds -> TransferIds \cup {None}]
    /\ roomKeyForRequest \in [RequestIds -> RoomKeys \cup {None}]
    /\ jobs \in [RequestIds -> JobResults \cup {None}]
    /\ requesters \subseteq Accounts
    /\ section \in 0..4

\* Array and positions index each other, however many swaps _close has made:
\* every listed key knows its place, every position is the place of its key,
\* and exactly the open keys have a request, of the kind their key says.
OpenSetIndexed ==
    /\ \A i \in 1..Len(open.keys) : open.position[open.keys[i]] = i
    /\ \A key \in Keys : IsOpen(key) =>
          /\ open.position[key] \in 1..Len(open.keys)
          /\ open.keys[open.position[key]] = key
    /\ \A key \in Keys : /\ IsOpen(key) <=> open.request[key] # None
                         /\ IsOpen(key) => open.request[key].kind = key[1]

\* Every answer is backed by what it points to, across the three maps: a
\* transfer id or Room key by a recorded receipt, the request of a receipt by
\* the answer of that request, and a job by what its two receipts still say.
AnswersBacked ==
    /\ \A r \in RequestIds :
          /\ transferIdForRequest[r] # None => receipts[transferIdForRequest[r]] # None
          /\ roomKeyForRequest[r] # None => roomReceipts[roomKeyForRequest[r]] # None
          /\ jobs[r] # None =>
                /\ roomReceipts[jobs[r].input] # None
                /\ roomReceipts[jobs[r].output] # None
                /\ jobs[r].status = "Completed" <=>
                      /\ roomReceipts[jobs[r].input].status = "Completed"
                      /\ roomReceipts[jobs[r].output].status = "Completed"
                /\ jobs[r].level \subseteq roomReceipts[jobs[r].input].level
                                            \cap roomReceipts[jobs[r].output].level
    /\ \A t \in TransferIds : receipts[t] # None /\ receipts[t].requestId # None =>
          transferIdForRequest[receipts[t].requestId] = t

\* The step overwrites no recorded receipt and no answer.
KeepsRecords ==
    /\ \A t \in TransferIds : receipts[t] # None =>
          /\ receipts'[t] # None /\ receipts'[t].status = receipts[t].status
          /\ receipts[t].requestId \in {None, receipts'[t].requestId}
    /\ \A k \in RoomKeys : roomReceipts[k] # None => roomReceipts'[k] = roomReceipts[k]
    /\ \A r \in RequestIds : IsAnswered(r) =>
          /\ transferIdForRequest'[r] = transferIdForRequest[r]
          /\ roomKeyForRequest'[r] = roomKeyForRequest[r]
          /\ jobs'[r] = jobs[r]

\* What the contract has recorded is final: a recorded receipt is never
\* overwritten, and a request id is answered once, by one kind.
RecordsAreFinal == [][KeepsRecords]_vars

\* A receipt only answers a request of its own kind: while a request is open,
\* no report binds it to an answer of another kind or takes it off the set.
AnsweredInKind ==
    [][\A r \in RequestIds :
          LET key  == transferRequestKey(r)
              kind == open.request[key].transferKind
          IN  IsOpen(key) /\ section' # 0 =>
                /\ transferIdForRequest'[r] = None \/ kind = "Standard"
                /\ roomKeyForRequest'[r] = None \/ kind = "RoomDelivery"
                /\ jobs'[r] = None \/ kind = "Job"
                /\ open'.position[key] # 0 \/ IsAnswered(r)']_vars

\* What processing an entry of section s again would leave alone.
EntrySettled(s, e) ==
    \/ s = 1 /\ ~Answers(e[2], "Standard") /\ receipts[e[1]] # None
    \/ s = 2 /\ ~Answers(e[2], "RoomDelivery") /\ roomReceipts[e[1]] # None
    \/ s = 3 /\ (IsOpen(e) => open.request[e].kind # "RoomReceipt")
    \/ s = 4 /\ ~Answers(e, "Job")

\* A report that is delivered twice is a no-op the second time: no entry that
\* it has processed has anything left to do, whatever its other entries did.
RepeatedReportIsNoOp == \A p \in reported : EntrySettled(p[1], p[2])

\* The questions that have their final answer.
SettledKeys ==
    {transferRequestKey(r) : r \in {q \in RequestIds : IsAnswered(q)}}
        \cup {receiptRequestKey(t) : t \in {u \in TransferIds : receipts[u] # None}}
        \cup {roomRequestKey(k) : k \in {j \in RoomKeys : roomReceipts[j] # None}}

OpenKeys == {open.keys[i] : i \in 1..Len(open.keys)}

AsOutbox == INSTANCE Outbox WITH Questions <- Keys, Capacity <- MaxOpenRequests,
                                 open <- OpenKeys, settled <- SettledKeys

\* The array with positions implements a bounded set of questions of which
\* none is asked again once it is settled.
ImplementsOutbox == AsOutbox!OutboxSpec

=============================================================================
