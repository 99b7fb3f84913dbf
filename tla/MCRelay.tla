---------------------------- MODULE MCRelay ----------------------------
(***************************************************************************)
(* The passes of packages/cre/relay and the workflows of                   *)
(* packages/cre/workflows for TLC, side by side: a behaviour is one of one *)
(* of them.  The variables of RelayStarts rest in its initial state when   *)
(* it is not that one, and those of the others are Off.  The receipts pass *)
(* comes in three instances: requests that are served, listings that are   *)
(* owed, and requests that can only be closed.  The workflows come in      *)
(* three: cron alone with a window that wraps around, a job with log       *)
(* triggers, and pushes and attestations.                                  *)
(***************************************************************************)
EXTENDS RelayStarts, TLC

CONSTANTS Off, None

VARIABLES
    part,   \* the component that this behaviour is of
    requesters, status, allowlist, sent, registry, left, doing, allowlistPc,
    allowlistFaults,
    askedOpen, askedReceipts, askedTransferIdForRequest, askedRequesters, askedSection,
    askedReported, finished, charge, approved, askedSent, mined, cancelled, askedCursor,
    uncommitted, askedPc, pass, askedFaults,
    windowOpen, windowReceipts, roomReceipts, windowTransferIdForRequest,
    roomKeyForRequest, jobs, windowSection, windowReported, asked, beam, slot, run,
    delivered, windowFaults

\* RelayStarts: two requests in one block, a block without any, a kind without workflow.
Request(block, startable) == [block |-> block, startable |-> startable]
MCLog == <<Request(1, TRUE), Request(2, TRUE), Request(2, TRUE), Request(4, FALSE),
           Request(5, TRUE)>>

\* The relay's t3 and the others alice's; or all are alice's.
Mixed(T) == [t \in T |-> IF t = "t3" THEN "relay" ELSE "alice"]
Alices(T) == [t \in T |-> "alice"]

\* They complete one after the other.
Completion(T) == [t \in T |-> CASE t = "t1" -> 1 [] t = "t2" -> 2 [] t = "t3" -> 3]

\* alice asks for what is hers, and the relay for what is Beam's; or alice asks
\* for what her key does not see, and to start a transfer.
AsksOwn == {<<"alice", <<"Receipt", "t1">>>>, <<"relay", <<"Receipt", "t3">>>>,
            <<"relay", <<"Transfer", "r1">>>>}
AsksHopeless == {<<"alice", <<"Receipt", "t3">>>>, <<"alice", <<"Transfer", "r1">>>>}

\* A Room delivery and two receipt requests, one for its publication; a job and a
\* receipt request for its input; a transfer and a receipt request for it.
AsksWindow == <<"Transfer", "d">> :> "RoomDelivery" @@ <<"Receipt", "t">> :> None
                  @@ <<"RoomReceipt", "k">> :> None
AsksJob == <<"Transfer", "j">> :> "Job" @@ <<"RoomReceipt", "k">> :> None
AsksStandard == <<"Transfer", "s">> :> "Standard" @@ <<"Receipt", "t">> :> None
Transfer(r) == [kind |-> "transfer", id |-> "t", requestId |-> r]
Other == [kind |-> "transfer", id |-> "u", requestId |-> None]
Status == "t" :> "Completed" @@ "u" :> "Failed" @@ "k" :> "Completed" @@ "o" :> "Failed"

Allowlist == INSTANCE RelayAllowlist WITH
    Addresses <- {"a1", "a2"}, RelayAccount <- "relay", None <- None, MaxSent <- 2,
    MaxFaults <- 2, pc <- allowlistPc, faults <- allowlistFaults

\* The assumptions of the theorems of RelayAllowlistProofs hold of these values.
ASSUME LimitsHold == Allowlist!Limits

Served == INSTANCE ReceiptsRelay WITH
    RequestIds <- {"r1"}, TransferIds <- {"t1", "t3"}, Accounts <- {"relay", "alice"},
    None <- None, MaxOpenRequests <- 2, RelayAccount <- "relay", Customers <- {"alice"},
    TransferOf <- [r \in {"r1"} |-> "t3"], BelongsTo <- Mixed({"t1", "t3"}), Owed <- {"t1"},
    Unreadable <- {}, CompletedAt <- Completion({"t1", "t3"}), MaxPerOrganization <- 1, PageSize <- 1,
    BatchSize <- 1, Revocable <- {}, Asks <- AsksOwn, MaxSent <- 2, MaxFaults <- 1,
    open <- askedOpen, receipts <- askedReceipts,
    transferIdForRequest <- askedTransferIdForRequest, requesters <- askedRequesters,
    section <- askedSection, reported <- askedReported, sent <- askedSent,
    cursor <- askedCursor, pc <- askedPc, faults <- askedFaults
Listing == INSTANCE ReceiptsRelay WITH
    RequestIds <- {"r1"}, TransferIds <- {"t1", "t2", "t3"},
    Accounts <- {"relay", "alice"}, None <- None, MaxOpenRequests <- 2,
    RelayAccount <- "relay", Customers <- {"alice"}, TransferOf <- [r \in {"r1"} |->
    "t3"], BelongsTo <- Alices({"t1", "t2", "t3"}), Owed <- {"t1", "t2", "t3"}, Unreadable <- {"t2"},
    CompletedAt <- Completion({"t1", "t2", "t3"}), MaxPerOrganization <- 2, PageSize <- 1, BatchSize <- 1,
    Revocable <- {}, Asks <- {}, MaxSent <- 2, MaxFaults <- 3, open <- askedOpen,
    receipts <- askedReceipts, transferIdForRequest <- askedTransferIdForRequest,
    requesters <- askedRequesters, section <- askedSection, reported <- askedReported,
    sent <- askedSent, cursor <- askedCursor, pc <- askedPc, faults <- askedFaults
Closing == INSTANCE ReceiptsRelay WITH
    RequestIds <- {"r1"}, TransferIds <- {"t3"}, Accounts <- {"relay", "alice"},
    None <- None, MaxOpenRequests <- 2, RelayAccount <- "relay", Customers <- {"alice"},
    TransferOf <- [r \in {"r1"} |-> "t3"], BelongsTo <- Mixed({"t3"}), Owed <- {},
    Unreadable <- {}, CompletedAt <- Completion({"t3"}), MaxPerOrganization <- 1, PageSize <- 1,
    BatchSize <- 1, Revocable <- {"alice"}, Asks <- AsksHopeless, MaxSent <- 2,
    MaxFaults <- 1, open <- askedOpen, receipts <- askedReceipts,
    transferIdForRequest <- askedTransferIdForRequest, requesters <- askedRequesters,
    section <- askedSection, reported <- askedReported, sent <- askedSent,
    cursor <- askedCursor, pc <- askedPc, faults <- askedFaults
Window == INSTANCE ReceiptsWorkflow WITH
    RequestIds <- {"d"}, TransferIds <- {"t"}, RoomKeys <- {"k"}, None <- None,
    MaxOpenRequests <- 3, TransferOf <- <<>>, InputOf <- "d" :> "k", OutputOf <- <<>>,
    StatusOf <- Status, RoomDelivery <- TRUE, JobOutput <- FALSE, Batch <- 2,
    MaxSubjects <- 4, MaxAttestations <- 1, Slots <- 6, Asks <- AsksWindow,
    Pushes <- {}, Attestations <- {}, Triggers <- {"cron"}, MaxFaults <- 0,
    open <- windowOpen, receipts <- windowReceipts,
    transferIdForRequest <- windowTransferIdForRequest, section <- windowSection,
    reported <- windowReported, faults <- windowFaults
Job == INSTANCE ReceiptsWorkflow WITH
    RequestIds <- {"j"}, TransferIds <- {}, RoomKeys <- {"k", "o"}, None <- None,
    MaxOpenRequests <- 2, TransferOf <- <<>>, InputOf <- "j" :> "k", OutputOf <- "j" :>
    "o", StatusOf <- Status, RoomDelivery <- TRUE, JobOutput <- TRUE, Batch <- 1,
    MaxSubjects <- 4, MaxAttestations <- 1, Slots <- 2, Asks <- AsksJob, Pushes <- {},
    Attestations <- {}, Triggers <- {"cron", "log"}, MaxFaults <- 1, open <- windowOpen,
    receipts <- windowReceipts, transferIdForRequest <- windowTransferIdForRequest,
    section <- windowSection, reported <- windowReported, faults <- windowFaults
Push == INSTANCE ReceiptsWorkflow WITH
    RequestIds <- {"s"}, TransferIds <- {"t", "u"}, RoomKeys <- {}, None <- None,
    MaxOpenRequests <- 2, TransferOf <- "s" :> "t", InputOf <- <<>>, OutputOf <- <<>>,
    StatusOf <- Status, RoomDelivery <- FALSE, JobOutput <- FALSE, Batch <- 2,
    MaxSubjects <- 2, MaxAttestations <- 1, Slots <- 2, Asks <- AsksStandard,
    Pushes <- {<<Transfer(None), Transfer("s")>>}, Attestations <- {<<Transfer(None)>>, <<Transfer(None), Other>>},
    Triggers <- {"cron", "http"}, MaxFaults <- 1, open <- windowOpen,
    receipts <- windowReceipts, transferIdForRequest <- windowTransferIdForRequest,
    section <- windowSection, reported <- windowReported, faults <- windowFaults

askedVars == <<askedOpen, askedReceipts, askedTransferIdForRequest, askedRequesters,
    askedSection, askedReported, finished, charge, approved, askedSent, mined, cancelled,
    askedCursor, uncommitted, askedPc, pass, askedFaults>>
windowVars == <<windowOpen, windowReceipts, roomReceipts, windowTransferIdForRequest,
    roomKeyForRequest, jobs, windowSection, windowReported, asked, beam, slot, run,
    delivered, windowFaults>>
allowlistVars == <<requesters, status, allowlist, sent, registry, left, doing,
    allowlistPc, allowlistFaults>>
all == <<part, vars, allowlistVars, askedVars, windowVars>>

\* The variables of a component that does not run.
allowlistOff ==
    /\ requesters = Off /\ status = Off /\ allowlist = Off /\ sent = Off
    /\ registry = Off /\ left = Off /\ doing = Off /\ allowlistPc = Off
    /\ allowlistFaults = Off
askedOff ==
    /\ askedOpen = Off /\ askedReceipts = Off /\ askedTransferIdForRequest = Off
    /\ askedRequesters = Off /\ askedSection = Off /\ askedReported = Off
    /\ finished = Off /\ charge = Off /\ approved = Off /\ askedSent = Off
    /\ mined = Off /\ cancelled = Off /\ askedCursor = Off /\ uncommitted = Off
    /\ askedPc = Off /\ pass = Off /\ askedFaults = Off
windowOff ==
    /\ windowOpen = Off /\ windowReceipts = Off /\ roomReceipts = Off
    /\ windowTransferIdForRequest = Off /\ roomKeyForRequest = Off /\ jobs = Off
    /\ windowSection = Off /\ windowReported = Off /\ asked = Off /\ beam = Off
    /\ slot = Off /\ run = Off /\ delivered = Off /\ windowFaults = Off
OthersOff ==
    /\ Init
    /\ IF part = "allowlist" THEN TRUE ELSE allowlistOff
    /\ IF part \in {"served", "listing", "closing"} THEN TRUE ELSE askedOff
    /\ IF part \in {"window", "job", "push"} THEN TRUE ELSE windowOff
OthersStay ==
    /\ UNCHANGED part
    /\ IF part = "starts" THEN TRUE ELSE UNCHANGED vars
    /\ IF part = "allowlist" THEN TRUE ELSE UNCHANGED allowlistVars
    /\ IF part \in {"served", "listing", "closing"} THEN TRUE ELSE UNCHANGED askedVars
    /\ IF part \in {"window", "job", "push"} THEN TRUE ELSE UNCHANGED windowVars

PartsInit ==
    \/ part = "starts" /\ OthersOff
    \/ part = "allowlist" /\ Allowlist!Init /\ OthersOff
    \/ part = "served" /\ Served!Init /\ OthersOff
    \/ part = "listing" /\ Listing!Init /\ OthersOff
    \/ part = "closing" /\ Closing!Init /\ OthersOff
    \/ part = "window" /\ Window!Init /\ OthersOff
    \/ part = "job" /\ Job!Init /\ OthersOff
    \/ part = "push" /\ Push!Init /\ OthersOff

PartsNext ==
    \/ part = "starts" /\ OthersStay /\ Next
    \/ part = "allowlist" /\ OthersStay /\ Allowlist!Next
    \/ part = "served" /\ OthersStay /\ Served!Next
    \/ part = "listing" /\ OthersStay /\ Listing!Next
    \/ part = "closing" /\ OthersStay /\ Closing!Next
    \/ part = "window" /\ OthersStay /\ Window!Next
    \/ part = "job" /\ OthersStay /\ Job!Next
    \/ part = "push" /\ OthersStay /\ Push!Next

PartsSpec ==
    /\ PartsInit /\ [][PartsNext]_all
    /\ WF_vars(part = "starts" /\ RelayStep)
    /\ WF_allowlistVars(part = "allowlist" /\ Allowlist!RelayStep)
    /\ WF_allowlistVars(part = "allowlist" /\ Allowlist!Mine)
    /\ WF_askedVars(part = "served" /\ Served!RelayStep)
    /\ WF_askedVars(part = "served" /\ Served!Mine)
    /\ WF_askedVars(part = "listing" /\ Listing!RelayStep)
    /\ WF_askedVars(part = "listing" /\ Listing!Mine)
    /\ WF_windowVars(part = "window" /\ Window!CronStep)

-----------------------------------------------------------------------------
\* What reportAllowlist has told the registry of the contract is so, but for a removal,
\* also when transactions of failed waits are mined late (relay.ts, syncAllowlist).
RegistryFollows == part = "allowlist" => Allowlist!RegistryFollows

\* Eventually: every approved address, unless it is revoked, is allowed on the contract,
\* whatever reports are lost and whenever a transaction is mined (relay.ts, syncAllowlist).
ApprovedAllowed == <>[](part = "allowlist" => Allowlist!ApprovedIsAllowed)

\* Eventually: every request of a finalized block is accepted or refused, although the
\* pass that delivers it may stop or the relay crash anywhere (relay.ts, runStarts).
StartsAnswered == <>[](part = "starts" => FinalizedAnswered)

\* Nothing is recorded, and no request that is never answered closed, but on a held
\* credit, which is charged for what is on chain; listings cut into slices leave nothing behind
\* the saved cursor (relay.ts, closeUnanswerable; customers.ts, nextTransferCursor).
\* Executions of the workflows make no more calls than they may, and what the contract
\* holds, and the bridge was sent, is what Beam shows, each request answered with what
\* it started or asked for (workflow.ts, recordReceipts).
RecordsFollow ==
    /\ part = "served" => Served!PaidFirst /\ Served!ChargedForEffect
    /\ part = "listing" => Listing!CursorPassesDone
    /\ part = "closing" => Closing!PaidFirst /\ Closing!ChargedForEffect
    /\ part = "window" => Window!TypeOK /\ Window!RecordsAreBeams
    /\ part = "job" => Job!TypeOK /\ Job!RecordsAreBeams
    /\ part = "push" => Push!TypeOK /\ Push!RecordsAreBeams

\* Every receipt request for a transfer that its key sees is answered, every owed
\* receipt is recorded and charged, and cron alone answers every open request that
\* Beam has the answer to, in the end.
EveryoneIsServed ==
    /\ \A t \in {"t1", "t3"} : []<>(part = "served" => Served!NoAskOpen(t))
    /\ <>[](/\ part = "listing" => Listing!OwedCharged
            /\ part = "window" => Window!NothingAnswerableOpen)

=============================================================================
