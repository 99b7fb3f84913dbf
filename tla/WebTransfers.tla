---------------------------- MODULE WebTransfers ----------------------------
(***************************************************************************)
(* Transfers of a browser behind the broker: transfers.create of           *)
(* src/packages/web-sdk with its retries, and the broker's side of it in   *)
(* src/packages/web-sdk-server/src: handle, handleTransferEvents and the   *)
(* upstream beamSdkTransfers, whose watchTransfer polls BeamCore for every *)
(* open event stream.                                                      *)
(*                                                                         *)
(* The browser's handle is the subject of WebTransferHandle; here it reads *)
(* one event stream after another and polls when they are used up.  A      *)
(* disconnect may cancel the response body, as web runtimes do, or only    *)
(* abort the request's signal, as the Express adapter does.                *)
(***************************************************************************)
EXTENDS Integers, Sequences

CONSTANTS
    MaxAttempts,    \* attempts of withRetry for the create
    MaxStreams,     \* bound: event streams that the browser opens
    Last,           \* the transfer's records are 0..Last; the last one is terminal
    Unseen,         \* records whose status and bytes are those of the one before
    MaxTroubles     \* bound: losses, failures and disconnects

VARIABLES
    create,     \* where transfers.create stands
    attempt,    \* its attempt
    client,     \* clientPromise: "none", "ready" or "rejected"
    started,    \* external: transfers that BeamCore has started
    record,     \* external: BeamCore's record of the transfer
    handler,    \* [stream |-> where watchTransfer stands]
    aborted,    \* streams whose controller is aborted
    cancelled,  \* streams whose body the runtime cancelled
    previous,   \* [stream |-> the record whose fingerprint is `previous']
    frames,     \* [stream |-> the events enqueued]
    reading,    \* the stream the browser reads, 0 for none
    opened,     \* streams opened so far
    taken,      \* events of that stream which the browser has handled
    view,       \* the browser's #transfer
    troubles

\* What the constants are: the last record is not one that looks like the one before.
Limits ==
    /\ {MaxAttempts, Last} \subseteq Nat \ {0} /\ {MaxStreams, MaxTroubles} \subseteq Nat
    /\ Unseen \subseteq 1 .. Last - 1

createVars == <<create, attempt, started>>
streamVars == <<handler, aborted, cancelled, previous, frames>>
browserVars == <<reading, opened, taken, view>>
vars == <<createVars, client, record, streamVars, browserVars, troubles>>

Streams == 1..MaxStreams
ErrorFrame == -1        \* event: error, data: {"error": "stream_failed"}
Blank == -1             \* what toTransfer makes of it: running, without progress
NoRecord == -2

Init ==
    /\ create = "idle" /\ attempt = 1 /\ started = 0 /\ client = "none" /\ record = 0
    /\ handler = [s \in Streams |-> "none"] /\ aborted = {} /\ cancelled = {}
    /\ previous = [s \in Streams |-> NoRecord] /\ frames = [s \in Streams |-> <<>>]
    /\ reading = 0 /\ opened = 0 /\ taken = 0 /\ view = 0 /\ troubles = 0

Trouble == troubles < MaxTroubles /\ troubles' = troubles + 1

-----------------------------------------------------------------------------
(* transfers.create, through handle() of the broker. *)

Create ==
    /\ create = "idle"
    /\ create' = "sent"
    /\ UNCHANGED <<attempt, started, client, record, streamVars, browserVars, troubles>>

\* client(): the import may fail; a rejected promise stays in clientPromise.
Resolved == IF client = "none" THEN {"ready", "rejected"} ELSE {client}

\* The broker starts a transfer; the Idempotency-Key of the request is not looked at.
HandleCreate(heard) ==
    /\ create = "sent"
    /\ client' \in Resolved
    /\ IF client' = "ready"
       THEN /\ started' = started + 1
            /\ create' = IF heard THEN "created" ELSE "unheard"
       ELSE /\ started' = started
            /\ create' = IF heard THEN "refused" ELSE "unheard"
    /\ IF heard THEN UNCHANGED troubles ELSE Trouble
    /\ UNCHANGED <<attempt, record, streamVars, browserVars>>

\* The request itself is lost, or its endpoint is unknown: 400, which is not retried.
CreateLost ==
    /\ create = "sent" /\ Trouble
    /\ create' \in {"unheard", "refused"}
    /\ UNCHANGED <<attempt, started, client, record, streamVars, browserVars>>

\* withRetry: a network error is retryable.
Retry ==
    /\ create = "unheard"
    /\ create' = IF attempt < MaxAttempts THEN "sent" ELSE "refused"
    /\ attempt' = IF attempt < MaxAttempts THEN attempt + 1 ELSE attempt
    /\ UNCHANGED <<started, client, record, streamVars, browserVars, troubles>>

-----------------------------------------------------------------------------
(* handleTransferEvents and watchTransfer, one for each stream. *)

Fingerprint(v) == IF v \in Unseen THEN v - 1 ELSE v
At(s, state) == handler' = [handler EXCEPT ![s] = state]

\* enqueue() throws when the body is cancelled; so does the one of the catch.
Enqueue(s, frame) ==
    frames' = IF s \in cancelled THEN frames ELSE [frames EXCEPT ![s] = Append(@, frame)]

\* The finally of start(): the controller is aborted, the stream closed.
Ends(s) == At(s, "ended") /\ aborted' = aborted \union {s}

\* while (!signal.aborted)
Loops(s) == s \notin aborted
Loop(s) == IF Loops(s) THEN At(s, "asking") /\ UNCHANGED aborted ELSE Ends(s)

Watch(s) ==
    /\ handler[s] = "client"
    /\ client' \in Resolved
    /\ IF client' = "ready"
       THEN Loop(s) /\ UNCHANGED frames
       ELSE Ends(s) /\ Enqueue(s, ErrorFrame)
    /\ UNCHANGED <<createVars, record, cancelled, previous, browserVars, troubles>>

\* A status reply: yield it if it changed, then end if it is terminal.
Changed(s) == Fingerprint(record) # Fingerprint(previous[s]) \/ previous[s] = NoRecord

Yield(s) == Enqueue(s, record)

Status(s) ==
    /\ handler[s] = "asking"
    /\ IF Changed(s)
       THEN /\ Yield(s)
            /\ previous' = [previous EXCEPT ![s] = record]
       ELSE UNCHANGED <<frames, previous>>
    /\ IF record = Last \/ (Changed(s) /\ s \in cancelled)
       THEN Ends(s)
       ELSE At(s, "sleeping") /\ UNCHANGED aborted
    /\ UNCHANGED <<createVars, client, record, cancelled, browserVars, troubles>>

StatusFails(s) ==
    /\ handler[s] = "asking" /\ Trouble
    /\ Enqueue(s, ErrorFrame)
    /\ Ends(s)
    /\ UNCHANGED <<createVars, client, record, cancelled, previous, browserVars>>

\* Mutant: nothing ends the sleep, neither its timer nor the signal.
NeverWakes(s) == FALSE /\ UNCHANGED <<handler, aborted>>

\* pollIntervalMs passed, or the signal aborted while the generator slept.
Wakes(s) == Loop(s)
Wake(s) ==
    /\ handler[s] = "sleeping"
    /\ Wakes(s)
    /\ UNCHANGED <<createVars, client, record, cancelled, previous, frames, browserVars, troubles>>

-----------------------------------------------------------------------------
(* The browser and BeamCore. *)

Connect ==
    /\ create = "created" /\ reading = 0 /\ opened < MaxStreams /\ view # Last
    /\ opened' = opened + 1 /\ reading' = opened + 1 /\ taken' = 0
    /\ At(opened + 1, "client")
    /\ UNCHANGED <<createVars, client, record, aborted, cancelled, previous, frames, view, troubles>>

\* #handleEvent applies every event, whatever its name.
Read ==
    /\ reading # 0
    /\ taken < Len(frames[reading])
    /\ taken' = taken + 1
    /\ view' = frames[reading][taken + 1]
    /\ UNCHANGED <<createVars, client, record, streamVars, reading, opened, troubles>>

ReadEnd ==
    /\ reading # 0
    /\ taken = Len(frames[reading]) /\ handler[reading] = "ended"
    /\ reading' = 0
    /\ UNCHANGED <<createVars, client, record, streamVars, opened, taken, view, troubles>>

\* close(), navigation or a lost connection.
Disconnect(cancels) ==
    /\ reading # 0 /\ Trouble
    /\ aborted' = aborted \union {reading}
    /\ cancelled' = IF cancels THEN cancelled \union {reading} ELSE cancelled
    /\ reading' = 0
    /\ UNCHANGED <<createVars, client, record, handler, previous, frames, opened, taken, view>>

\* getTransfer, from #pollUntilTerminal once the stream gave up.
Poll ==
    /\ create = "created" /\ reading = 0 /\ opened = MaxStreams /\ view # Last
    /\ client = "ready"
    /\ view' = record
    /\ UNCHANGED <<createVars, client, record, streamVars, reading, opened, taken, troubles>>

Advance ==
    /\ record < Last /\ started > 0
    /\ record' = record + 1
    /\ UNCHANGED <<createVars, client, streamVars, browserVars, troubles>>

-----------------------------------------------------------------------------
Broker(s) == Watch(s) \/ Status(s) \/ Wake(s)
Browser == Connect \/ Read \/ ReadEnd \/ Poll

Next ==
    \/ Create \/ HandleCreate(TRUE) \/ HandleCreate(FALSE) \/ CreateLost \/ Retry
    \/ \E s \in Streams : Broker(s) \/ StatusFails(s)
    \/ Browser \/ Disconnect(TRUE) \/ Disconnect(FALSE) \/ Advance

\* Timers and continuations of the broker and the page run; BeamCore makes progress.
Spec ==
    /\ Init /\ [][Next]_vars
    /\ \A s \in Streams : WF_vars(Broker(s))
    /\ WF_vars(Browser) /\ WF_vars(Advance)

-----------------------------------------------------------------------------
(* The state is one of the code's, and an event stream is never longer than  *)
(* the transfer's history: a watch is quiet while nothing changes.           *)
TypeOK ==
    /\ create \in {"idle", "sent", "unheard", "created", "refused"}
    /\ attempt \in 1..MaxAttempts /\ client \in {"none", "ready", "rejected"}
    /\ handler \in [Streams -> {"none", "client", "asking", "sleeping", "ended"}]
    /\ aborted \subseteq Streams /\ cancelled \subseteq aborted
    /\ reading \in 0..opened /\ opened \in 0..MaxStreams /\ record \in 0..Last
    /\ \A s \in Streams : Len(frames[s]) <= Last + 2

(* An event stream that the broker closed by itself, without an error event, *)
(* has told the transfer's end, and what it told before went only forward.   *)
CleanEndIsTerminal ==
    \A s \in Streams :
        LET f == frames[s] IN
        /\ \A i, j \in 1..Len(f) : i < j /\ f[j] # ErrorFrame => f[i] < f[j]
        /\ handler[s] = "ended" /\ reading = s =>
               f # <<>> /\ f[Len(f)] \in {Last, ErrorFrame}

(* BeamCore is not asked on behalf of a reader that has gone: at most the    *)
(* request that was under way is finished (broker.ts:205).                   *)
NoPollForNobody ==
    \A s \in Streams : s \in aborted /\ handler[s] # "asking" => handler'[s] # "asking"

(* Again and again: the watch of a reader that has gone has come to its end. *)
WatchesEnded == \A s \in aborted : handler[s] = "ended"

(* From some time on: a page that has a transfer knows its end, through      *)
(* failed, dropped and cancelled streams and although no stream resumes      *)
(* where the last one ended, unless the upstream has no client.              *)
PageKnowsTheEnd == create = "created" /\ client = "ready" => view = Last

(* What transfers/index.ts:43 says of a create: "A retried create must not   *)
(* start a second transfer of the same data."                                *)
RetriedCreateStartsOne == started <= 1

=============================================================================
