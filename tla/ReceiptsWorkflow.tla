-------------------------- MODULE ReceiptsWorkflow --------------------------
(***************************************************************************)
(* The CRE workflows transfer-receipts and start-transfer, with the        *)
(* contract they serve.  An execution of transfer-receipts is triggered by *)
(* the log of a receipt request, by cron, which checks a window of the     *)
(* open requests, or over HTTP, with a push or a bridge's attestations.    *)
(* It looks each subject up at Beam and writes one report.  Executions     *)
(* keep nothing between them; one of each trigger may run at a time.       *)
(*                                                                         *)
(* The contract is TransferReceipts, with variables of the same names.     *)
(* Beam, Studio and the CRE runtime are external.  Nodes that disagree and *)
(* a service that fails look the same: a lookup without a usable answer.   *)
(* A view reads the last finalized block, that is, some time before its    *)
(* execution goes on; executions may take any time.                        *)
(***************************************************************************)
EXTENDS Naturals, FiniteSetsExt, SequencesExt

CONSTANTS
    RequestIds, TransferIds, RoomKeys, None, MaxOpenRequests,
    TransferOf,   \* the transfer id of a Standard request, by client id and request
    InputOf,      \* the publication of the source under the key of a request
    OutputOf,     \* the publication of the compute member under that key
    StatusOf,     \* how a transfer or publication ends
    RoomDelivery, \* whether the deployment has the route roomDelivery
    JobOutput,    \* whether it has the route jobOutput, which needs the other
    Batch,        \* reconcileBatchSize
    MaxSubjects,  \* MAX_SUBJECTS
    MaxAttestations, \* MAX_ATTESTATIONS
    Slots,        \* bound: a multiple of each number of open requests
    Asks,         \* bound: the keys that are asked, each once, and their kinds
    Pushes,       \* bound: what pushes name
    Attestations, \* bound: what a bridge asks for
    Triggers,     \* bound: of "log", "cron" and "http", those that fire
    MaxFaults     \* bound: failed lookups, executions and deliveries, missed slots

VARIABLES
    open, receipts, roomReceipts, transferIdForRequest, roomKeyForRequest, jobs,
    section, reported, \* the contract
    asked,     \* history: the keys that were asked, and whether they were cancelled
    beam,      \* external: what Beam shows of each transfer and publication
    slot,      \* scheduledSeconds / interval of the last cron trigger
    run,       \* the execution of each trigger
    delivered, \* external: the entries of the reports sent to the bridge
    faults

chain == <<open, receipts, roomReceipts, transferIdForRequest, roomKeyForRequest, jobs,
           section, reported>>
vars  == <<chain, asked, beam, slot, run, delivered, faults>>

Account == "requester"

Contract == INSTANCE TransferReceipts WITH
    Accounts <- {Account}, Owner <- Account, MaxEntries <- 3 * MaxSubjects,
    requesters <- {}

Idle == [pc |-> "idle", total |-> 0, start |-> 0, subjects |-> <<>>, entries |-> <<>>,
         calls |-> 0]

\* What a request to start a transfer starts.
StartedBy(r) == IF r \in DOMAIN TransferOf THEN TransferOf[r] ELSE InputOf[r]
Started == {StartedBy(r) : r \in RequestIds} \cup {OutputOf[r] : r \in DOMAIN OutputOf}

Init ==
    /\ open = [keys |-> <<>>, position |-> [k \in Contract!Keys |-> 0],
               request |-> [k \in Contract!Keys |-> None]]
    /\ receipts = [t \in TransferIds |-> None]
    /\ roomReceipts = [k \in RoomKeys |-> None]
    /\ transferIdForRequest = [r \in RequestIds |-> None]
    /\ roomKeyForRequest = [r \in RequestIds |-> None]
    /\ jobs = [r \in RequestIds |-> None]
    /\ section = 0 /\ reported = {}
    /\ asked = [key \in DOMAIN Asks |-> "no"]
    /\ beam = [x \in TransferIds \cup RoomKeys |->
                  IF x \in Started THEN "missing" ELSE "running"]
    /\ slot = 0
    /\ run = [e \in Triggers |-> Idle]
    /\ delivered = {}
    /\ faults = 0

Fault == faults < MaxFaults /\ faults' = faults + 1

-----------------------------------------------------------------------------
(* What is looked up, and what it adds to a report (subjects.ts).          *)

Subject(kind, id, r) == <<[kind |-> kind, id |-> id, requestId |-> r]>>

SubjectKey(s) ==
    IF s.kind \in {"transfer", "room"} THEN <<s.kind, s.id>> ELSE <<s.kind, s.requestId>>

\* Repeats are dropped, in favour of the first that carries a request id.
UniqueSubjects(subjects) ==
    LET Same(s)  == SelectSeq(subjects, LAMBDA c : SubjectKey(c) = SubjectKey(s))
        Named(s) == SelectSeq(Same(s), LAMBDA c : c.requestId # None)
        First(i) == \A j \in 1..(i - 1) : SubjectKey(subjects[j]) # SubjectKey(subjects[i])
        Kept(i)  == Head(Named(subjects[i]) \o Same(subjects[i]))
        firsts   == SelectSeq([i \in DOMAIN subjects |-> i], First)
    IN  [n \in DOMAIN firsts |-> Kept(firsts[n])]

\* Without its route, a Room delivery or a job is not looked up.
SubjectForOpenRequest(key) ==
    LET x == key[2]
        request == open.request[key]
    IN  CASE request.transferKind = "Standard" -> Subject("transfer", TransferOf[x], x)
          [] request.transferKind = "RoomDelivery" ->
                IF RoomDelivery THEN Subject("roomRequest", InputOf[x], x) ELSE <<>>
          [] request.transferKind = "Job" ->
                IF RoomDelivery /\ JobOutput THEN Subject("job", InputOf[x], x) ELSE <<>>
          [] request.kind = "Receipt" -> Subject("transfer", x, None)
          [] request.kind = "RoomReceipt" -> Subject("room", x, None)

SubjectCost(s) == CASE s.kind = "roomRequest" -> 2 [] s.kind = "job" -> 4 [] OTHER -> 1

\* What Beam's replies come to (beam.ts).  A reply that is an error or malformed, and
\* nodes that do not agree on one, record nothing: a lookup that fails stands for them.
ProjectTransfer(t) ==
    CASE beam[t] = "missing" -> "absent" [] beam[t] = "running" -> "pending"
      [] beam[t] = "terminal" -> "transfer"

ProjectRoomReceipt(k) ==
    CASE beam[k] = "missing" -> "absent" [] beam[k] = "running" -> "pending"
      [] beam[k] = "bucket_only" -> "not_room" [] beam[k] = "terminal" -> "room"

ProjectPublicationLookup(k) == IF beam[k] = "missing" THEN "absent" ELSE "found"

ObserveSubject(s) ==
    IF s.kind = "transfer" THEN ProjectTransfer(s.id) ELSE ProjectRoomReceipt(s.id)

Entry(s, e) == <<[section |-> s, entry |-> e]>>

\* Mutant: a running publication is reported.
ReportEntryForFound(s) ==
    LET state == ObserveSubject(s)
    IN  CASE state = "transfer" ->
                Entry(1, [transferId |-> s.id, requestId |-> s.requestId,
                          status |-> StatusOf[s.id]])
          [] state \in {"pending", "room"} /\ s.kind = "room" ->
                Entry(2, [roomKey |-> s.id, requestId |-> s.requestId,
                          status |-> StatusOf[s.id], level |-> {"BeamReported"}])
          [] OTHER -> <<>>

\* A publication that ran as a standard transfer closes its Room receipt request.
\* Levels are those of BeamTransferReceipts without DonAttested, which all entries
\* have here; whether every target signed is left out.
ReportEntryFor(s) ==
    LET state == ObserveSubject(s)
    IN  CASE state = "transfer" ->
                Entry(1, [transferId |-> s.id, requestId |-> s.requestId,
                          status |-> StatusOf[s.id]])
          [] state = "room" ->
                Entry(2, [roomKey |-> s.id, requestId |-> s.requestId,
                          status |-> StatusOf[s.id], level |-> {"BeamReported"}])
          [] state = "not_room" -> Entry(3, Contract!roomRequestKey(s.id))
          [] OTHER -> <<>>

\* The receipts of input and output, and the job that links them; nothing while one
\* of them is not recorded.
JobEntriesFor(s) ==
    LET output  == OutputOf[s.requestId]
        Room(k) == ReportEntryFor([kind |-> "room", id |-> k, requestId |-> None])
    IN  IF ProjectRoomReceipt(s.id) = "room" /\ ProjectRoomReceipt(output) = "room"
        THEN Room(s.id) \o Room(output) \o
             Entry(4, [requestId |-> s.requestId, input |-> s.id, output |-> output])
        ELSE <<>>

\* The entries of a subject when every call is answered.  The publication of a
\* Room delivery, and those of a job, are found by their key first.
EntriesFor(s) ==
    CASE s.kind = "job" -> JobEntriesFor(s)
      [] s.kind = "roomRequest" -> ReportEntryFor([s EXCEPT !.kind = "room"])
      [] OTHER -> ReportEntryFor(s)

\* encodeEntries: a report has its entries by section.
EncodeEntries(entries) ==
    LET Section(n) == SelectSeq(entries, LAMBDA e : e.section = n)
    IN  Section(1) \o Section(2) \o Section(3) \o Section(4)

\* The calls that this takes.
CallsFor(s) ==
    LET Found(k) == ProjectPublicationLookup(k) = "found"
    IN  CASE s.kind = "job" -> IF ~Found(s.id) THEN 1
                               ELSE IF ~Found(OutputOf[s.requestId]) THEN 2 ELSE 4
          [] s.kind = "roomRequest" -> IF Found(s.id) THEN 2 ELSE 1
          [] OTHER -> 1

-----------------------------------------------------------------------------
(* Executions of transfer-receipts.  No step falls into a transaction.     *)

Outside == section = 0

Cost(subjects) == FoldLeft(LAMBDA cost, s : cost + SubjectCost(s), 0, subjects)

Begins(e, subjects) ==
    run' = [run EXCEPT ![e] = [Idle EXCEPT !.pc = "begin", !.subjects = subjects]]

\* recordReceipts up to the lookups.  Subjects with an id derived from a request are
\* left out when GET /auth/me does not confirm the client id.
RecordReceipts(e) ==
    LET subjects   == UniqueSubjects(run[e].subjects)
        Derived(s) == s.kind = "transfer" /\ s.requestId # None
        derives    == \E i \in DOMAIN subjects : Derived(subjects[i])
        Begun(ss)  == IF Cost(subjects) > MaxSubjects THEN Idle
                      ELSE [Idle EXCEPT !.pc = "look", !.subjects = ss,
                                        !.calls = IF derives THEN 1 ELSE 0]
    IN  /\ Outside /\ run[e].pc = "begin"
        /\ \/ run' = [run EXCEPT ![e] = Begun(subjects)] /\ UNCHANGED faults
           \/ /\ derives /\ Fault
              /\ run' = [run EXCEPT ![e] = Begun(SelectSeq(subjects, LAMBDA s : ~Derived(s)))]
        /\ UNCHANGED <<chain, asked, beam, slot, delivered>>

\* onReceiptRequested.  The log may come late, again, or never.
OnReceiptRequested(key) ==
    /\ "log" \in Triggers
    /\ Outside /\ run["log"].pc = "idle"
    /\ key[1] \in {"Receipt", "RoomReceipt"} /\ asked[key] # "no"
    /\ Begins("log", Subject(IF key[1] = "Receipt" THEN "transfer" ELSE "room",
                             key[2], None))
    /\ UNCHANGED <<chain, asked, beam, slot, delivered, faults>>

\* Mutant: every run begins at the first request.
OnReconcileUnmoved ==
    /\ Outside /\ run["cron"].pc = "idle"
    /\ slot' = (slot + 1) % Slots
    /\ LET total == Len(open.keys)
       IN  run' = IF total = 0 THEN run
                  ELSE [run EXCEPT !["cron"] = [Idle EXCEPT !.pc = "read", !.total = total]]
    /\ UNCHANGED <<chain, asked, beam, delivered, faults>>

\* onReconcile reads the number of open requests, which places the window.
OnReconcile ==
    /\ Outside /\ run["cron"].pc = "idle"
    /\ slot' = (slot + 1) % Slots
    /\ LET total == Len(open.keys)
       IN  run' = IF total = 0 THEN run
                  ELSE [run EXCEPT !["cron"] =
                          [Idle EXCEPT !.pc = "read", !.total = total,
                                       !.start = (slot' * Batch) % total]]
    /\ UNCHANGED <<chain, asked, beam, delivered, faults>>

\* openRequests(offset, limit) as subjects, and how many requests it returned.
Page(offset, limit) == SubSeq(open.keys, offset + 1, Min({offset + limit, Len(open.keys)}))
SubjectsOf(page) == FlattenSeq([i \in DOMAIN page |-> SubjectForOpenRequest(page[i])])

\* The window, with a second read from the beginning when it ends early.  The set may
\* have changed since it was counted, and between the two reads.
ReadWindow ==
    LET c    == run["cron"]
        size == Min({c.total, Batch})
        page == Page(c.start, size)
    IN  /\ Outside /\ c.pc = "read"
        /\ IF Len(page) < size
           THEN run' = [run EXCEPT !["cron"].pc = "wrap",
                                   !["cron"].subjects = SubjectsOf(page),
                                   !["cron"].total = size - Len(page)]
           ELSE Begins("cron", SubjectsOf(page))
        /\ UNCHANGED <<chain, asked, beam, slot, delivered, faults>>

ReadWrapped ==
    LET c == run["cron"]
    IN  /\ Outside /\ c.pc = "wrap"
        /\ Begins("cron", c.subjects \o SubjectsOf(Page(0, c.total)))
        /\ UNCHANGED <<chain, asked, beam, slot, delivered, faults>>

\* onReceiptPush; a push that names too much is refused.
OnReceiptPush(push) ==
    /\ "http" \in Triggers
    /\ Outside /\ run["http"].pc = "idle"
    /\ Len(push) \in 1..MaxSubjects
    /\ Begins("http", push)
    /\ UNCHANGED <<chain, asked, beam, slot, delivered, faults>>

\* answerAttestations.  publish stands for publishOnchain.
OnAttest(attest, publish) ==
    /\ "http" \in Triggers
    /\ Outside /\ run["http"].pc = "idle"
    /\ Len(attest) \in 1..MaxAttestations
    /\ run' = [run EXCEPT !["http"] = [Idle EXCEPT !.subjects = UniqueSubjects(attest),
                  !.pc = IF publish THEN "attest_publish" ELSE "attest"]]
    /\ UNCHANGED <<chain, asked, beam, slot, delivered, faults>>

\* One turn of the loop of recordReceipts.  Its calls are one step: Beam only moves
\* on, and a call too early has the same result as one without a usable answer.
LookUp(e) ==
    LET x == run[e]
        s == Head(x.subjects)
    IN  /\ Outside /\ x.pc = "look" /\ x.subjects # <<>>
        /\ \E entries \in {EntriesFor(s), <<>>} :
              /\ IF entries = EntriesFor(s) THEN UNCHANGED faults ELSE Fault
              /\ run' = [run EXCEPT ![e] =
                            [x EXCEPT !.subjects = Tail(@), !.entries = @ \o entries,
                                      !.calls = @ + CallsFor(s)]]
        /\ UNCHANGED <<chain, asked, beam, slot, delivered>>

\* One turn of the loop of answerAttestations: what is finished is reported to the
\* bridge at once.  The lookup, or the delivery, may fail.
Attest ==
    LET x == run["http"]
        s == Head(x.subjects)
    IN  /\ Outside /\ x.pc \in {"attest", "attest_publish"} /\ x.subjects # <<>>
        /\ \E entries \in {ReportEntryFor(s), <<>>},
              sent \in {ToSet(ReportEntryFor(s)), {}} :
              /\ sent \subseteq ToSet(entries)
              /\ IF sent = ToSet(ReportEntryFor(s)) THEN UNCHANGED faults ELSE Fault
              /\ delivered' = delivered \cup sent
              /\ run' = [run EXCEPT !["http"] =
                            [x EXCEPT !.subjects = Tail(@), !.entries = @ \o entries,
                                      !.calls = @ + 1 + Len(entries)]]
        /\ UNCHANGED <<chain, asked, beam, slot>>

\* An execution that has nothing to write ends.
NothingToWrite(e) ==
    LET x == run[e]
    IN  /\ Outside /\ x.pc \in {"look", "attest", "attest_publish"} /\ x.subjects = <<>>
        /\ x.pc = "attest" \/ x.entries = <<>>
        /\ run' = [run EXCEPT ![e] = Idle]
        /\ UNCHANGED <<chain, asked, beam, slot, delivered, faults>>

\* writeReceiptReport: the entries of one report.
WriteEntry(e) ==
    LET x     == run[e]
        left  == EncodeEntries(x.entries)
        n     == Head(left).section
        entry == Head(left).entry
    IN  /\ \/ Outside /\ x.pc \in {"look", "attest_publish"} /\ x.subjects = <<>>
           \/ x.pc = "write"
        /\ x.entries # <<>>
        /\ \/ n = 1 /\ Contract!RecordReceipt(entry)
           \/ n = 2 /\ Contract!RecordRoomReceipt(entry)
           \/ n = 3 /\ Contract!CloseRequest(entry)
           \/ n = 4 /\ Contract!RecordJob(entry)
        /\ run' = [run EXCEPT ![e].pc = "write", ![e].entries = Tail(left)]
        /\ UNCHANGED <<asked, beam, slot, delivered, faults>>

EndWrite(e) ==
    /\ run[e].pc = "write" /\ run[e].entries = <<>>
    /\ Contract!EndReport
    /\ run' = [run EXCEPT ![e] = Idle]
    /\ UNCHANGED <<asked, beam, slot, delivered, faults>>

\* A view, the secrets or the write fail: the execution throws, and nobody repeats it.
Throw(e) ==
    /\ Outside /\ run[e].pc # "idle"
    /\ Fault
    /\ run' = [run EXCEPT ![e] = Idle]
    /\ UNCHANGED <<chain, asked, beam, slot, delivered>>

MissSlot ==
    /\ Outside /\ run["cron"].pc = "idle"
    /\ Fault
    /\ slot' = (slot + 1) % Slots
    /\ UNCHANGED <<chain, asked, beam, run, delivered>>

Step(e) ==
    \/ RecordReceipts(e) \/ LookUp(e) \/ NothingToWrite(e) \/ WriteEntry(e) \/ EndWrite(e)
    \/ e = "cron" /\ (ReadWindow \/ ReadWrapped)
    \/ e = "http" /\ Attest

CronStep == OnReconcile \/ Step("cron")

-----------------------------------------------------------------------------
(* start-transfer, and what is around the workflows.                       *)

\* webhookSecretsFor: the deployments agree on what they start and what they read.
Startable(kind) ==
    \/ kind = "Standard"
    \/ kind = "RoomDelivery" /\ RoomDelivery
    \/ kind = "Job" /\ JobOutput

\* onTransferRequested: every node posts, and Studio runs one workflow per request
\* id.  What was refused or unavailable is not tried again.
OnTransferRequested(r) ==
    LET key == Contract!transferRequestKey(r)
    IN  /\ Outside /\ key \in DOMAIN Asks /\ asked[key] # "no"
        /\ Startable(Asks[key])
        /\ beam[StartedBy(r)] = "missing"
        /\ beam' = [beam EXCEPT ![StartedBy(r)] = "running"]
        /\ UNCHANGED <<chain, asked, slot, run, delivered, faults>>

\* External: the compute member publishes its output.
PublishOutput(r) ==
    /\ Outside /\ r \in DOMAIN OutputOf
    /\ beam[InputOf[r]] = "terminal" /\ beam[OutputOf[r]] = "missing"
    /\ beam' = [beam EXCEPT ![OutputOf[r]] = "running"]
    /\ UNCHANGED <<chain, asked, slot, run, delivered, faults>>

\* External: a transfer or a publication finishes, or the publication turns out to
\* have run as a standard transfer.
Finish(x) ==
    /\ Outside /\ beam[x] = "running"
    /\ \E state \in {"terminal"} \cup (IF x \in RoomKeys THEN {"bucket_only"} ELSE {}) :
          beam' = [beam EXCEPT ![x] = state]
    /\ UNCHANGED <<chain, asked, slot, run, delivered, faults>>

Ask(key) ==
    /\ asked[key] = "no"
    /\ CASE key[1] = "Transfer"    -> Contract!RequestTransfer(Account, key[2], Asks[key])
         [] key[1] = "Receipt"     -> Contract!RequestReceipt(Account, key[2])
         [] key[1] = "RoomReceipt" -> Contract!RequestRoomReceipt(Account, key[2])
    /\ asked' = [asked EXCEPT ![key] = "yes"]
    /\ UNCHANGED <<beam, slot, run, delivered, faults>>

Cancel(key) ==
    /\ Contract!CancelRequest(Account, key)
    /\ asked' = [asked EXCEPT ![key] = "cancelled"]
    /\ UNCHANGED <<beam, slot, run, delivered, faults>>

Next ==
    \/ \E key \in DOMAIN Asks : Ask(key) \/ Cancel(key) \/ OnReceiptRequested(key)
    \/ \E r \in RequestIds : OnTransferRequested(r) \/ PublishOutput(r)
    \/ \E x \in TransferIds \cup RoomKeys : Finish(x)
    \/ OnReconcile \/ MissSlot
    \/ \E push \in Pushes : OnReceiptPush(push)
    \/ \E attest \in Attestations, publish \in BOOLEAN : OnAttest(attest, publish)
    \/ \E e \in Triggers : Step(e) \/ Throw(e)

-----------------------------------------------------------------------------
(* Properties.                                                             *)

\* Executions are where they can be, and none makes more calls than CRE allows it,
\* one more than MAX_SUBJECTS, whatever its window holds.
TypeOK ==
    /\ slot \in 0..(Slots - 1)
    /\ faults \in 0..MaxFaults
    /\ beam \in [TransferIds \cup RoomKeys -> {"missing", "running", "terminal", "bucket_only"}]
    /\ asked \in [DOMAIN Asks -> {"no", "yes", "cancelled"}]
    /\ \A e \in Triggers :
          /\ run[e].pc \in {"idle", "read", "wrap", "begin", "look", "attest",
                            "attest_publish", "write"}
          /\ run[e].calls <= MaxSubjects + 1

\* What the contract holds, and what the bridge was sent, is what Beam shows, and a
\* request is answered with what it started or asked for.  A Room receipt request
\* that nobody cancelled is closed without a receipt only when there is none to come.
RecordsAreBeams ==
    /\ \A t \in TransferIds : receipts[t] # None => beam[t] = "terminal"
    /\ \A k \in RoomKeys : roomReceipts[k] # None => beam[k] = "terminal"
    /\ \A r \in RequestIds :
          /\ transferIdForRequest[r] \in {None, StartedBy(r)}
          /\ roomKeyForRequest[r] \in {None, StartedBy(r)}
          /\ jobs[r] # None => jobs[r].input = InputOf[r] /\ jobs[r].output = OutputOf[r]
    /\ \A d \in delivered :
          CASE d.section = 1 -> beam[d.entry.transferId] = "terminal"
            [] d.section = 2 -> beam[d.entry.roomKey] = "terminal"
            [] d.section = 3 -> beam[d.entry[2]] = "bucket_only"
    /\ \A key \in DOMAIN Asks :
          (/\ key[1] = "RoomReceipt" /\ asked[key] = "yes"
           /\ ~Contract!IsOpen(key) /\ roomReceipts[key[2]] = None)
             => beam[key[2]] = "bucket_only"

\* Beam has what answers a request, and the deployment reads it.
Answerable(key) ==
    LET x == key[2]
    IN  CASE Asks[key] = "Standard"     -> beam[TransferOf[x]] = "terminal"
          [] Asks[key] = "RoomDelivery" -> RoomDelivery /\ beam[InputOf[x]] = "terminal"
          [] Asks[key] = "Job"          -> /\ JobOutput
                                           /\ beam[InputOf[x]] = "terminal"
                                           /\ beam[OutputOf[x]] = "terminal"
          [] OTHER                      -> beam[x] \in {"terminal", "bucket_only"}

\* No request is open that Beam has the answer to; with new requests coming to an
\* end, this is so in the end, by cron alone (onReconcile).
NothingAnswerableOpen ==
    section = 0 => \A key \in DOMAIN Asks : Contract!IsOpen(key) => ~Answerable(key)

=============================================================================
