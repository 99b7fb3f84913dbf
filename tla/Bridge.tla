------------------------------- MODULE Bridge -------------------------------
(***************************************************************************)
(* The Room bridge of packages/cre/bridge.  Room members ask for            *)
(* attestations in messages the host delivers; the bridge gets the answers *)
(* from DON-signed reports or from a receipts contract, and the host polls *)
(* for them.  Its state is kept in a file that is written one snapshot     *)
(* after another, and a restart begins with what the file holds.  Time is  *)
(* a flag per deadline.  The DON, its registry and the contract are        *)
(* external.                                                               *)
(***************************************************************************)
EXTENDS Integers, Sequences, SequencesExt, FiniteSets

CONSTANTS
    Ids,             \* publication ids of the messages that are delivered
    Scenarios,       \* where answers come from, and what the messages ask
    Policy,          \* the ops and channels this bridge attests
    Rooms,           \* the subjects that are Room publications
    Submissions,     \* the report copies nodes may send
    Signers, F,      \* the signer sets the registry holds in turn, and their f
    Handlers,        \* reports that are handled at the same time
    MaxAttempts,     \* answers.maxAttempts
    MaxAttestations, \* MAX_ATTESTATIONS
    MaxFailures,     \* MAX_CHAIN_FAILURES
    MaxReports,      \* MAX_REMEMBERED_REPORTS
    MaxFaults,       \* bound: failures and crashes, by where answers come from
    MaxClosings      \* bound: closings on the contract

\* The bounds of the code are positive, and f is a number.
ASSUME BoundsAssumption ==
    /\ {MaxAttempts, MaxFailures} \subseteq Nat \ {0} /\ {MaxReports, F, MaxClosings} \subseteq Nat

\* The registry holds finite sets of signers, one at the beginning.
ASSUME SignersAssumption ==
    Len(Signers) \in Nat \ {0} /\ \A set \in 1..Len(Signers) : IsFiniteSet(Signers[set])

\* config.answers.from has one of two values.
ASSUME ScenariosAssumption == \A scenario \in Scenarios : scenario.from \in {"cre", "contract"}

\* decodeReport: a report answers with a receipt or a closure, of any size.
ASSUME SubmissionsAssumption ==
    /\ Submissions # {}
    /\ \A r \in Submissions : r.kind \in {"receipt", "closure", "huge"}

\* Those who wait for a save are told apart.
ASSUME NamesAssumption == Ids \cap (Handlers \cup {"pump", "none"}) = {} /\ "pump" \notin Handlers

VARIABLES
    from,     \* config.answers.from
    message,  \* the content of each message
    requests, \* state.requests, in the order they arrived
    reports,  \* state.reports: digests, most recent last
    file,     \* the state file
    queue,    \* the snapshots to be written, and who waits for each
    broken,   \* a write failed, so that the queue rejects every later save
    pump,     \* the pump's loop
    handler,  \* the reports that are being handled
    cache,    \* the cached signer set, 0 when there is none
    acked,    \* history: requests acknowledged once they were saved
    dropped,  \* history: requests dropped after retention
    don,      \* external: the signer set in the registry
    chain,    \* external: open and recorded subjects, and the place of each
              \* subject's last closing among the closings
    faults

vars == <<from, message, requests, reports, file, queue, broken, pump, handler,
          cache, acked, dropped, don, chain, faults>>

envVars == <<from, message, faults, don>>

None == "none"

\* parseEnvelope and parseRoomRequest: what a message asks for, or none.
Asked(id) == IF message[id].op \in Policy.ops /\ message[id].channel \in Policy.channels
             THEN message[id].subject
             ELSE None

\* A reply, with the evidence a report brings.
Reply(kind, subject, set, sigs) == [kind |-> kind, subject |-> subject, set |-> set, sigs |-> sigs]
NoReply == Reply(None, None, 0, {})

Request(id) == [id |-> id, attempts |-> 0, forwarded |-> "no", since |-> 0,
                reply |-> NoReply]

IdsOf(rs) == {rs[i].id : i \in DOMAIN rs}

\* The records of rs, with those that satisfy Is replaced.
Change(rs, Is(_), To(_)) == [i \in DOMAIN rs |-> IF Is(rs[i]) THEN To(rs[i]) ELSE rs[i]]

Unanswered(r) == r.reply.kind = None

\* A request as it is stored: the flag of time is not.
Stored(rs) == [i \in DOMAIN rs |-> [rs[i] EXCEPT !.forwarded = IF @ = "due" THEN "waiting" ELSE @]]

\* save: the snapshot joins the queue, which rejects it after a failed write.
Save(by, rs, ds) ==
    queue' = IF broken THEN queue
             ELSE Append(queue, [by |-> by, state |-> [requests |-> Stored(rs), reports |-> ds]])

Fault == faults < MaxFaults[from] /\ faults' = faults + 1

Idle == [pc |-> "idle", batch |-> {}, todo |-> {}, opened |-> <<>>, changed |-> FALSE]
IdleHandler == [pc |-> "idle", report |-> CHOOSE r \in Submissions : TRUE]
Saving == IF broken THEN Idle ELSE [Idle EXCEPT !.pc = "saving"]

Init ==
    /\ \E scenario \in Scenarios : from = scenario.from /\ message = scenario.message
    /\ requests = <<>> /\ reports = <<>>
    /\ file = [requests |-> <<>>, reports |-> <<>>]
    /\ queue = <<>> /\ broken = FALSE
    /\ pump = Idle /\ handler = [h \in Handlers |-> IdleHandler]
    /\ cache = 0
    /\ acked = {} /\ dropped = {}
    /\ don = 1 /\ faults = 0
    /\ chain = [open |-> {}, recorded |-> {}, closed |-> <<>>, closings |-> 0]

-----------------------------------------------------------------------------
(* The Room host.                                                          *)

\* Mutant: a repeated delivery is a new request.
DeliveryRepeated(id) ==
    /\ Asked(id) # None /\ id \notin dropped
    /\ requests' = Append(requests, Request(id))
    /\ Save(id, requests', reports)
    /\ UNCHANGED <<envVars, reports, file, broken, pump, handler, cache, acked, dropped, chain>>

\* Mutant: the delivery is acknowledged before it is saved.
DeliveryAckedUnsaved(id) ==
    /\ Asked(id) # None /\ id \notin IdsOf(requests) \cup dropped
    /\ requests' = Append(requests, Request(id))
    /\ Save(None, requests', reports)
    /\ acked' = acked \cup {id}
    /\ UNCHANGED <<envVars, reports, file, broken, pump, handler, cache, dropped, chain>>

\* handleDelivery: a message that asks for nothing or is refused, and one that
\* was delivered before, change nothing.  A host that delivers an id again after its
\* retention, which would make it a new request, is not modelled.
Delivery(id) ==
    /\ Asked(id) # None /\ id \notin IdsOf(requests) \cup dropped
    /\ requests' = Append(requests, Request(id))
    /\ Save(id, requests', reports)
    /\ UNCHANGED <<envVars, reports, file, broken, pump, handler, cache, acked, dropped, chain>>

\* handlePoll: what a poll is answered.
Polled(id) == IF id \notin IdsOf(requests) THEN "404"
              ELSE LET r == CHOOSE r \in Range(requests) : r.id = id
                   IN  IF Unanswered(r) THEN "202" ELSE r.reply.kind

-----------------------------------------------------------------------------
(* state.ts: the writer.                                                   *)

\* Those who waited for the save of entry e go on.
Resume(by) ==
    /\ pump' = IF "pump" \in by THEN Idle ELSE pump
    /\ handler' = [h \in Handlers |-> IF h \in by THEN IdleHandler ELSE handler[h]]

\* The temporary file is written and renamed.
Write ==
    /\ queue # <<>>
    /\ file' = Head(queue).state
    /\ queue' = Tail(queue)
    /\ acked' = acked \cup ({Head(queue).by} \cap Ids)
    /\ Resume({Head(queue).by})
    /\ UNCHANGED <<envVars, requests, reports, broken, cache, dropped, chain>>

\* Every save chained to the failed one is rejected too.
WriteFails ==
    /\ queue # <<>> /\ Fault
    /\ queue' = <<>> /\ broken' = TRUE
    /\ Resume({queue[i].by : i \in DOMAIN queue})
    /\ UNCHANGED <<from, message, don, requests, reports, file, cache, acked, dropped, chain>>

\* The process ends and starts again with loadState.
Restart ==
    /\ Fault
    /\ requests' = file.requests /\ reports' = file.reports
    /\ queue' = <<>> /\ broken' = FALSE
    /\ pump' = Idle /\ handler' = [h \in Handlers |-> IdleHandler]
    /\ cache' = 0
    /\ UNCHANGED <<from, message, don, file, acked, dropped, chain>>

-----------------------------------------------------------------------------
(* handleResult: the reports of the DON.                                   *)

\* The digest is of the raw report: copies differ in their signatures only.
Digest(r) == <<r.subject, r.kind>>

\* Mutant: f signatures are enough.
VerifiedByF(r, set) == Cardinality(r.sigs \cap Signers[set]) >= F

\* verifyReportSignatures
Verified(r, set) == Cardinality(r.sigs \cap Signers[set]) >= F + 1

\* parseSubmission, the digest and parseHeader: only a new report of the
\* configured workflow is looked at.
BeginReport(h) ==
    /\ from = "cre" /\ handler[h].pc = "idle"
    /\ \E r \in Submissions :
          /\ ~Contains(reports, Digest(r))
          /\ handler' = [handler EXCEPT ![h] = [IdleHandler EXCEPT !.pc = "signers", !.report = r]]
    /\ UNCHANGED <<envVars, requests, reports, file, queue, broken, pump, cache,
                   acked, dropped, chain>>

\* creLink.signers: the cached set, or the registry's when a refresh is asked
\* for or the cache is too old.
ReadSigners(h) ==
    /\ handler[h].pc \in {"signers", "refresh"}
    /\ \/ cache # 0 /\ handler[h].pc = "signers" /\ UNCHANGED cache
       \/ cache' = don

SignersUnavailable(h) ==
    /\ handler[h].pc \in {"signers", "refresh"} /\ Fault
    /\ handler' = [handler EXCEPT ![h] = IdleHandler]
    /\ UNCHANGED <<from, message, don, requests, reports, file, queue, broken, pump, cache,
                   acked, dropped, chain>>

\* A report that does not verify is tried once more with the signers read anew.
Reject(h) ==
    /\ ReadSigners(h) /\ ~Verified(handler[h].report, cache')
    /\ handler' = [handler EXCEPT ![h] =
                     IF @.pc = "refresh" THEN IdleHandler ELSE [@ EXCEPT !.pc = "refresh"]]
    /\ UNCHANGED <<envVars, requests, reports, file, queue, broken, pump,
                   acked, dropped, chain>>

\* answerFor and the reply made of its answer.
ReplyOf(r, set) == IF r.kind = "huge" THEN Reply("reply_too_large", r.subject, 0, {})
                   ELSE Reply(r.kind, r.subject, set, r.sigs)

Remembered(ds, d) == LET all == Append(ds, d)
                     IN  SubSeq(all, Len(all) - (IF Len(all) > MaxReports THEN MaxReports ELSE Len(all)) + 1, Len(all))

\* Mutant: a late report replaces a reply.
AcceptOver(h) ==
    LET report == handler[h].report
    IN  /\ ReadSigners(h) /\ Verified(report, cache')
        /\ requests' = Change(requests, LAMBDA r : Asked(r.id) = report.subject,
                              LAMBDA r : [r EXCEPT !.reply = ReplyOf(report, cache')])
        /\ reports' = Remembered(reports, Digest(report))
        /\ Save(h, requests', reports')
        /\ handler' = [handler EXCEPT ![h] = IF broken THEN IdleHandler ELSE [@ EXCEPT !.pc = "saving"]]
        /\ UNCHANGED <<envVars, file, broken, pump, acked, dropped, chain>>

\* Every unanswered request about the report's subject is answered.
Accept(h) ==
    LET report == handler[h].report
    IN  /\ ReadSigners(h) /\ Verified(report, cache')
        /\ requests' = Change(requests, LAMBDA r : Unanswered(r) /\ Asked(r.id) = report.subject,
                              LAMBDA r : [r EXCEPT !.reply = ReplyOf(report, cache')])
        /\ reports' = Remembered(reports, Digest(report))
        /\ Save(h, requests', reports')
        /\ handler' = [handler EXCEPT ![h] = IF broken THEN IdleHandler ELSE [@ EXCEPT !.pc = "saving"]]
        /\ UNCHANGED <<envVars, file, broken, pump, acked, dropped, chain>>

-----------------------------------------------------------------------------
(* pump: the beginning of a round, in either mode.                         *)

\* Mutant: what was forwarded for the last time is forgotten.
NeverOverdue(r) == FALSE

\* Requests whose last chance is over.
Overdue(r) ==
    /\ Unanswered(r) /\ r.forwarded = "due"
    /\ from = "cre" => r.attempts >= MaxAttempts

\* The requests that get no answer any more.
Settled(kept) ==
    Change(kept, Overdue, LAMBDA r : [r EXCEPT !.reply =
        Reply(IF from = "cre" THEN "no_finished_receipt" ELSE "not_recorded", Asked(r.id), 0, {})])

\* dropExpired: the oldest request may be past retention, long after its save.  Several
\* that expire at once, or while a save waits, are dropped by several rounds.
Expired == IF queue = <<>> THEN {0, 1} ELSE {0}

\* Each round begins by dropping what expired and settling what is overdue.
BeginRound(expired) ==
    /\ pump.pc = "idle" /\ expired <= Len(requests)
    /\ requests' = Settled(SubSeq(requests, expired + 1, Len(requests)))
    /\ dropped' = dropped \cup (IdsOf(requests) \ IdsOf(requests'))

\* The positions of the requests that are forwarded next.
Due == {i \in DOMAIN requests' :
           /\ Unanswered(requests'[i]) /\ requests'[i].attempts < MaxAttempts
           /\ requests'[i].forwarded # "waiting"}

\* A round before nextRunAt, or with nothing to forward.
PumpSettle ==
    /\ \E expired \in Expired : BeginRound(expired)
    /\ requests' # requests
    /\ Save("pump", requests', reports)
    /\ pump' = Saving
    /\ UNCHANGED <<envVars, reports, file, broken, handler, cache, acked, chain>>

\* One batch: the oldest request's publishOnchain, and the first subjects.
BatchOf(rs, due) ==
    LET same == {i \in due : message[rs[i].id].onchain = message[rs[Min(due)].id].onchain}
        subject(i) == Asked(rs[i].id)
        First(s) == Min({i \in same : subject(i) = s})
        earlier(i) == {s \in {subject(j) : j \in same} : First(s) < First(subject(i))}
    IN  {rs[i].id : i \in {j \in same : Cardinality(earlier(j)) < MaxAttestations}}

\* pumpCre: the batch is sent to the gateway.
Forward ==
    /\ from = "cre"
    /\ \E expired \in Expired : BeginRound(expired)
    /\ Due # {}
    /\ pump' = [Idle EXCEPT !.pc = "forward", !.batch = BatchOf(requests', Due)]
    /\ UNCHANGED <<envVars, reports, file, queue, broken, handler, cache, acked, chain>>

\* Accepted or not, the attempt counts.
Forwarded ==
    /\ pump.pc = "forward"
    /\ requests' = Change(requests, LAMBDA r : r.id \in pump.batch,
                          LAMBDA r : [r EXCEPT !.attempts = @ + 1, !.forwarded = "waiting"])
    /\ Save("pump", requests', reports)
    /\ pump' = Saving
    /\ UNCHANGED <<envVars, reports, file, broken, handler, cache, acked, dropped, chain>>

\* The command could not be run: the round ends, and counts no attempt.
ForwardThrows ==
    /\ pump.pc = "forward" /\ Fault
    /\ pump' = Idle
    /\ UNCHANGED <<from, message, don, requests, reports, file, queue, broken, handler,
                   cache, acked, dropped, chain>>

-----------------------------------------------------------------------------
(* pumpContract: each unanswered request is looked up.                     *)

LookUpAll ==
    /\ from = "contract"
    /\ \E expired \in Expired : BeginRound(expired)
    /\ pump' = [Idle EXCEPT !.pc = "lookup", !.changed = (requests' # requests),
                  !.todo = {requests'[i].id : i \in {j \in DOMAIN requests' : Unanswered(requests'[j])}}]
    /\ UNCHANGED <<envVars, reports, file, queue, broken, handler, cache, acked, chain>>

\* The oldest of the requests that are still to be looked up.
Pending == requests[Min({i \in DOMAIN requests : requests[i].id \in pump.todo})]

Update(id, To(_)) == requests' = Change(requests, LAMBDA r : r.id = id, To)

ClosedAt(s) == IF s \in DOMAIN chain.closed THEN chain.closed[s] ELSE 0

\* lookup: the receipt, or for a Room publication the closing of its request
\* since the request was opened.
Found(r) ==
    LET s == Asked(r.id)
    IN  CASE s \in chain.recorded -> "receipt"
          [] s \notin chain.recorded /\ s \in Rooms /\ r.since # 0 /\ ClosedAt(s) >= r.since -> "closure"
          [] OTHER -> None

Skip(changed) == pump' = [pump EXCEPT !.pc = "lookup", !.todo = @ \ {Pending.id}, !.changed = changed]

Opens(r, block) == [r EXCEPT !.forwarded = "waiting", !.since = block]

LookUp ==
    /\ pump.pc = "lookup" /\ pump.todo # {}
    /\ LET id == Pending.id
           s == Asked(id)
       IN  \/ /\ Found(Pending) # None
              /\ Update(id, LAMBDA r : [r EXCEPT !.reply = Reply(Found(r), s, 0, {})])
              /\ Skip(TRUE)
           \/ /\ Found(Pending) = None /\ Pending.forwarded # "no"
              /\ UNCHANGED requests
              /\ Skip(pump.changed)
           \/ /\ Found(Pending) = None /\ Pending.forwarded = "no" /\ s \in DOMAIN pump.opened
              /\ Update(id, LAMBDA r : Opens(r, pump.opened[s]))
              /\ Skip(TRUE)
           \/ /\ Found(Pending) = None /\ Pending.forwarded = "no" /\ s \notin DOMAIN pump.opened
              /\ pump' = [pump EXCEPT !.pc = "request"]
              /\ UNCHANGED requests
    /\ UNCHANGED <<envVars, reports, file, queue, broken, handler, cache, acked, dropped, chain>>

\* requestReceipt or requestRoomReceipt is mined; the contract ignores it for
\* a subject that is open or recorded.
Mined(s) == chain' = [chain EXCEPT !.open = IF s \in chain.recorded THEN @ ELSE @ \cup {s}]

\* The block of a transaction: what is closed later is closed after it.
Block == chain.closings + 1

OpenRequest ==
    /\ pump.pc = "request"
    /\ LET id == Pending.id
           s == Asked(id)
       IN  /\ Mined(s)
           /\ Update(id, LAMBDA r : Opens(r, Block))
           /\ pump' = [pump EXCEPT !.pc = "lookup", !.todo = @ \ {id}, !.changed = TRUE,
                         !.opened = [t \in DOMAIN @ \cup {s} |-> IF t = s THEN Block ELSE @[t]]]
    /\ UNCHANGED <<envVars, reports, file, queue, broken, handler, cache, acked, dropped>>

\* A read or a request fails; the transaction may have been mined all the same.
ChainFails ==
    /\ pump.pc \in {"lookup", "request"} /\ pump.todo # {} /\ Fault
    /\ Update(Pending.id, LAMBDA r :
          [r EXCEPT !.attempts = @ + 1,
                    !.reply = IF r.attempts + 1 >= MaxFailures THEN Reply("chain_unavailable", Asked(r.id), 0, {}) ELSE @])
    /\ Skip(TRUE)
    /\ \/ UNCHANGED chain
       \/ pump.pc = "request" /\ Mined(Asked(Pending.id))
    /\ UNCHANGED <<from, message, don, reports, file, queue, broken, handler, cache, acked, dropped>>

LookedUp ==
    /\ pump.pc = "lookup" /\ pump.todo = {}
    /\ IF pump.changed THEN Save("pump", requests, reports) /\ pump' = Saving
                       ELSE UNCHANGED queue /\ pump' = Idle
    /\ UNCHANGED <<envVars, requests, reports, file, broken, handler, cache, acked, dropped, chain>>

-----------------------------------------------------------------------------
(* Time, the DON and the relay.                                            *)

\* retrySeconds or answerWithinSeconds pass.
Elapse ==
    /\ \E i \in DOMAIN requests :
          /\ requests[i].forwarded = "waiting"
          /\ requests' = [requests EXCEPT ![i].forwarded = "due"]
    /\ UNCHANGED <<envVars, reports, file, queue, broken, pump, handler, cache, acked, dropped, chain>>

Rotate ==
    /\ don < Len(Signers) /\ don' = don + 1
    /\ UNCHANGED <<from, message, faults, requests, reports, file, queue, broken, pump, handler, cache, acked, dropped, chain>>

\* The relay records a receipt, or closes a Room publication's request.
Relay ==
    /\ \E s \in chain.open :
          \/ chain' = [chain EXCEPT !.open = @ \ {s}, !.recorded = @ \cup {s}]
          \/ /\ s \in Rooms /\ chain.closings < MaxClosings
             /\ chain' = [chain EXCEPT !.open = @ \ {s}, !.closings = @ + 1,
                            !.closed = [t \in DOMAIN @ \cup {s} |-> IF t = s THEN Block ELSE @[t]]]
    /\ UNCHANGED <<envVars, requests, reports, file, queue, broken, pump, handler, cache,
                   acked, dropped>>

PumpStep ==
    \/ PumpSettle \/ Forward \/ Forwarded \/ ForwardThrows
    \/ LookUpAll \/ LookUp \/ OpenRequest \/ ChainFails \/ LookedUp

Next ==
    \/ \E id \in Ids : Delivery(id)
    \/ Write \/ WriteFails \/ Restart \/ PumpStep
    \/ \E h \in Handlers : BeginReport(h) \/ SignersUnavailable(h) \/ Reject(h) \/ Accept(h)
    \/ Elapse \/ Rotate \/ Relay

\* The pump is called every second, a write ends, and time passes.
Spec == Init /\ [][Next]_vars /\ WF_vars(PumpStep) /\ WF_vars(Write) /\ WF_vars(Elapse)

-----------------------------------------------------------------------------
(* Properties.                                                             *)

Replied(rs, id) == \E i \in DOMAIN rs : rs[i].id = id /\ ~Unanswered(rs[i])

Subjects == {None} \cup {r.subject : r \in Submissions}
                \cup UNION {{scenario.message[id].subject : id \in Ids} : scenario \in Scenarios}

Replies ==
    [kind : {None, "receipt", "closure", "reply_too_large", "no_finished_receipt",
             "not_recorded", "chain_unavailable"},
     subject : Subjects, set : 0..Len(Signers), sigs : {{}} \cup {r.sigs : r \in Submissions}]

Blocks == 1..(MaxClosings + 1)

\* The blocks in which a round opened requests, by subject.
Openings == UNION {[S -> Blocks] : S \in SUBSET Subjects}

Requests == [id : Ids, attempts : Nat, forwarded : {"no", "waiting", "due"}, since : {0} \cup Blocks,
             reply : Replies]

Snapshots == [requests : Seq(Requests),
              reports : Seq({<<r.subject, r.kind>> : r \in Submissions})]

\* Types; each request is there once, and attempts stay within the bound of the mode.
TypeOK ==
    /\ [requests |-> requests, reports |-> reports] \in Snapshots /\ file \in Snapshots
    /\ queue \in Seq([by : Ids \cup Handlers \cup {"pump"}, state : Snapshots])
    /\ acked \subseteq Ids /\ dropped \subseteq Ids
    /\ Cardinality(IdsOf(requests)) = Len(requests)
    /\ Len(reports) <= MaxReports
    /\ pump \in [pc : {"idle", "forward", "lookup", "request", "saving"},
                 batch : SUBSET Ids, todo : SUBSET Ids, changed : BOOLEAN,
                 opened : Openings]
    /\ handler \in [Handlers -> [pc : {"idle", "signers", "refresh", "saving"}, report : Submissions]]
    /\ don \in 1..Len(Signers) /\ cache \in 0..don
    /\ chain.open \cup chain.recorded \subseteq Subjects /\ chain.closed \in Openings
    /\ chain.closings \in 0..MaxClosings
    /\ \A i \in DOMAIN requests :
          requests[i].attempts <= (IF from = "cre" THEN MaxAttempts ELSE MaxFailures)

\* What an answer rests on: a set of signers the registry held, or what the
\* contract did at or after the request.
HasEvidence(r) ==
    r.reply.kind \in {"receipt", "closure"} =>
        /\ r.reply.subject = Asked(r.id)
        /\ IF from = "cre"
           THEN r.reply.set <= don /\ Cardinality(r.reply.sigs \cap Signers[r.reply.set]) > F
           ELSE IF r.reply.kind = "receipt" THEN r.reply.subject \in chain.recorded
           ELSE r.since # 0 /\ ClosedAt(r.reply.subject) >= r.since

\* A poll is answered from evidence about the subject that was asked: f + 1
\* signers of one set the registry held, or what the contract did at or after
\* the request, across restarts, rotations of the signers and late reports.
AnswersHaveEvidence == \A i \in DOMAIN requests : HasEvidence(requests[i])

\* A request whose delivery was acknowledged after its save is known to every
\* later poll until retention ends, wherever the process stops.
PollsSurviveRestart ==
    \A id \in acked \ dropped : Polled(id) # "404"

\* A reply in the file is in the file after the step, until its request is dropped.
SavedRepliesStay ==
    \A i \in DOMAIN file.requests : LET r == file.requests[i] IN
        ~Unanswered(r) /\ r.id \notin dropped' =>
            \E j \in DOMAIN file'.requests :
                file'.requests[j].id = r.id /\ file'.requests[j].reply = r.reply

\* A reply that was saved is the reply for good: no late report, later round
\* or older snapshot replaces it.
SavedReplyIsFinal == [][SavedRepliesStay]_vars

\* Every acknowledged request is answered in the end, or was kept to the end
\* of its retention: again and again nobody is left waiting.
EveryRequestAnswered ==
    []<>(\A id \in acked \ dropped : Replied(requests, id))

=============================================================================
