-------------------------- MODULE WebTransferHandle --------------------------
(***************************************************************************)
(* A transfer watched by the Web SDK: BeamTransferHandle of                *)
(* transfers/handle.ts over SseStream (core/transport/sse.ts), Reconnector *)
(* (core/retry/index.ts) and the progress iterator eventsToAsyncIterable   *)
(* (core/events/index.ts).                                                 *)
(*                                                                         *)
(* The transfer has versions 1 .. Last, the last one terminal, and a poll  *)
(* is answered with the version there is when it is read.  The events      *)
(* come from a server of either kind.  One that `resumes' is as sse.ts     *)
(* takes it to be (external): it sends every version, with the version as  *)
(* the event's id, and goes on after Last-Event-ID.  The other is the      *)
(* SDK's own broker, handleTransferEvents of web-sdk-server/src/broker.ts: *)
(* it numbers the events of each connection from 1, reads no Last-Event-ID *)
(* and sends the record there is, then what its polls see of it.           *)
(***************************************************************************)
EXTENDS Naturals, Sequences

CONSTANTS
    Last,           \* the terminal version
    MaxAttempts,    \* maxAttempts of the stream
    MaxBuffer,      \* maxBuffer of the iterator
    MaxTroubles     \* bound: drops, failures and polls that fail

ASSUME HandleAssumption ==
    /\ {Last, MaxAttempts, MaxBuffer} \subseteq Nat \ {0}
    /\ MaxTroubles \in Nat

VARIABLES
    server,     \* external: the version of the transfer
    outcome,    \* external: its terminal status
    resumes,    \* external: the server goes on after Last-Event-ID
    frame,      \* external: [version |-> what the record and its event's data are]
    loop,       \* where Reconnector.run stands
    attempt,    \* #attempt
    lastId,     \* #lastEventId, 0 when undefined
    sequence,   \* sequence of the broker's connection
    next,       \* the first version that the open connection may send next
    aborted,    \* #controller.signal.aborted of the stream
    transfer,   \* #transfer: its version
    closed,     \* #closed
    silent,     \* removeAllListeners was called
    settled,    \* #settled
    poll,       \* where #pollUntilTerminal stands
    asked,      \* external: the version a poll or a refresh was answered with
    refreshing, \* a refresh() of the application
    buffer,     \* the iterator: buffer
    waiter,     \* a consumer awaits next()
    done,       \* the iterator is finished
    yielded,    \* history: the last progress the consumer got
    emitted,    \* history: the last progress emitted
    said,       \* history: the last status emitted
    refreshed,  \* history: a refresh() brought the last change of status
    handled,    \* history: the events given to onEvent
    troubles

streamVars == <<loop, attempt, lastId, sequence, next, aborted>>
handleVars == <<transfer, closed, silent, settled, said, refreshed>>
pollVars == <<poll, asked, refreshing>>
iterVars == <<buffer, waiter, done, yielded, emitted>>
serverVars == <<outcome, resumes, frame>>
envVars == <<server, serverVars, troubles>>
vars == <<streamVars, handleVars, pollVars, iterVars, envVars, handled>>

-----------------------------------------------------------------------------
\* A record may come without progress ("bare"); the data of an event may be malformed,
\* or JSON that is no object ("poison").  The broker's records are objects.
Frames == {"transfer", "bare", "malformed", "poison"}
Terminal(version) == version = Last

\* toTransfer of the broker's error event: running, without progress.
Blank == 0
Status(version) ==
    CASE version = Last -> outcome
      [] version = 1 /\ version # Last -> "pending"
      [] OTHER -> "running"
HasProgress(version) == version # Blank /\ frame[version] # "bare"

Init ==
    /\ server \in {1, Last} /\ outcome \in {"completed", "failed"}
    /\ resumes \in BOOLEAN
    /\ frame \in [1 .. Last -> IF resumes THEN Frames ELSE {"transfer", "bare"}]
    /\ frame[1] = "transfer" /\ frame[Last] \in {"transfer", "bare"}
    /\ attempt = 0 /\ lastId = 0 /\ sequence = 0 /\ next = 0 /\ aborted = FALSE
    /\ transfer = server /\ silent = FALSE /\ said = Status(server) /\ refreshed = FALSE
    /\ closed = Terminal(server)
    /\ settled = IF Terminal(server) THEN outcome ELSE "pending"
    /\ loop = IF Terminal(server) THEN "none" ELSE "connecting"
    /\ poll = "none" /\ asked = 0 /\ refreshing = 0
    /\ buffer = <<>> /\ waiter = FALSE /\ done = Terminal(server)
    /\ yielded = 0 /\ emitted = 0 /\ handled = <<>> /\ troubles = 0

Trouble == troubles < MaxTroubles /\ troubles' = troubles + 1

Advance ==
    /\ server < Last /\ server' = server + 1
    /\ UNCHANGED <<streamVars, handleVars, pollVars, iterVars, serverVars, troubles, handled>>

-----------------------------------------------------------------------------
(* eventsToAsyncIterable *)

\* push: to a consumer that waits, else into the buffer, which drops its oldest.
Push(version) ==
    IF waiter THEN [buffer |-> buffer, waiter |-> FALSE, yielded |-> version]
    ELSE [buffer |-> Append(IF Len(buffer) >= MaxBuffer THEN Tail(buffer) ELSE buffer, version),
          waiter |-> FALSE, yielded |-> yielded]

\* next(): from the buffer, else it waits; at the end it answers done.
ConsumerNext ==
    /\ ~waiter /\ (buffer # <<>> \/ ~done)
    /\ IF buffer # <<>>
       THEN /\ yielded' = Head(buffer) /\ buffer' = Tail(buffer) /\ UNCHANGED waiter
       ELSE waiter' = TRUE /\ UNCHANGED <<yielded, buffer>>
    /\ UNCHANGED <<streamVars, handleVars, pollVars, envVars, done, emitted, handled>>

-----------------------------------------------------------------------------
(* BeamTransferHandle *)

\* Mutant: a closed handle still settles.
SettleAgain(version) ==
    /\ settled' = IF Terminal(version) THEN outcome ELSE settled
    /\ closed' = (closed \/ Terminal(version))
    /\ aborted' = (aborted \/ Terminal(version))

\* #settle closes the stream and resolves or rejects once.
Settle(version) ==
    LET settles == Terminal(version) /\ ~closed IN
    /\ settled' = IF settles THEN outcome ELSE settled
    /\ closed' = (closed \/ settles)
    /\ aborted' = (aborted \/ settles)

\* #apply on a handle whose #transfer is `current': the progress, when there is one,
\* and a status other than the one before are emitted before the handle settles, and
\* the iterator finishes when it has settled.
Apply(version, current) ==
    LET heard == HasProgress(version) /\ ~silent /\ ~done
        pushed == Push(version)
        changed == Status(version) # Status(current)
    IN /\ transfer' = version
       /\ emitted' = IF heard THEN version ELSE emitted
       /\ buffer' = IF heard THEN pushed.buffer ELSE buffer
       /\ yielded' = IF heard THEN pushed.yielded ELSE yielded
       /\ said' = IF changed /\ ~silent THEN Status(version) ELSE said
       /\ refreshed' = IF changed THEN FALSE
                       ELSE refreshed \/ Status(current) # Status(transfer)
       /\ Settle(version)
       /\ done' = (done \/ (Terminal(version) /\ ~closed))
       /\ waiter' = IF done' THEN FALSE ELSE IF heard THEN pushed.waiter ELSE waiter

\* close(): nothing is emitted afterwards; done() and the iterator stay as they are.
Close ==
    /\ ~closed
    /\ closed' = TRUE /\ aborted' = TRUE /\ silent' = TRUE
    /\ loop' = IF loop \in {"connecting", "waiting"} THEN "ended" ELSE loop
    /\ UNCHANGED <<pollVars, iterVars, envVars, attempt, lastId, sequence, next, transfer,
                   settled, said, refreshed, handled>>

-----------------------------------------------------------------------------
(* Reconnector.run over SseStream.#connectOnce *)

\* A connection ended, with an error or cleanly: give up, or wait and reconnect.
EndedConnection(error) ==
    IF aborted THEN "ended"
    ELSE IF attempt + 1 >= MaxAttempts THEN IF error THEN "gaveUp" ELSE "ended"
    ELSE "waiting"

\* start() rejected: the handle falls back to polling.
Fallback(state) == poll' = IF state = "gaveUp" /\ ~closed THEN "asleep" ELSE poll

Connect ==
    /\ loop = "connecting"
    /\ loop' = "reading" /\ attempt' = 0 /\ sequence' = 0
    /\ next' = IF resumes THEN lastId + 1 ELSE server
    /\ UNCHANGED <<handleVars, pollVars, iterVars, envVars, lastId, aborted, handled>>

\* The request fails: a retryable error counts, a refusal ends the loop.
ConnectFails(retryable) ==
    /\ loop = "connecting"
    /\ LET state == IF retryable THEN EndedConnection(TRUE) ELSE "gaveUp" IN
          loop' = state /\ Fallback(state)
    /\ attempt' = attempt + 1
    /\ Trouble
    /\ UNCHANGED <<handleVars, iterVars, server, serverVars, lastId, sequence, next, aborted,
                   asked, refreshing, handled>>

\* Mutant: an id is recorded only after the event was handled.
RecordsLate(version, id) == IF frame[version] = "poison" THEN lastId ELSE id

\* One event of a chunk.  Its id is recorded before it is dispatched; data that
\* is not JSON is discarded, data that is JSON but no object throws, which ends
\* the connection as an interruption.
Records(version, id) == id

\* A server that resumes sends each version; the broker what its poll has seen.
Sends(version) == version \in next .. server /\ (resumes => version = next)

Read(version) ==
    /\ loop = "reading" /\ Sends(version)
    /\ sequence' = sequence + 1
    /\ lastId' = Records(version, IF resumes THEN version ELSE sequence')
    /\ handled' = Append(handled, version)
    /\ IF frame[version] \in {"transfer", "bare"}
       THEN Apply(version, transfer)
       ELSE UNCHANGED <<transfer, settled, closed, said, refreshed, aborted, iterVars>>
    /\ IF frame[version] = "poison"
       THEN /\ loop' = EndedConnection(TRUE) /\ attempt' = attempt + 1
            /\ Fallback(EndedConnection(TRUE)) /\ UNCHANGED next
       ELSE next' = version + 1 /\ UNCHANGED <<loop, attempt, poll>>
    /\ UNCHANGED <<envVars, asked, refreshing, silent>>

\* The broker's poll failed: an event without id says so, and nothing follows it.
\* #handleEvent takes it for a record.
ReadError ==
    /\ loop = "reading" /\ ~resumes /\ next <= Last
    /\ Apply(Blank, transfer) /\ next' = Last + 1
    /\ Trouble
    /\ UNCHANGED <<server, serverVars, loop, attempt, lastId, sequence, poll, asked, refreshing,
                   silent, handled>>

\* The connection breaks, or the server closes it, which it does after its last
\* event.  close() does not reach an open body.
Drop(error) ==
    /\ loop = "reading"
    /\ error \/ next > Last
    /\ loop' = EndedConnection(error) /\ Fallback(EndedConnection(error))
    /\ attempt' = attempt + 1
    /\ IF error THEN Trouble ELSE UNCHANGED troubles
    /\ UNCHANGED <<handleVars, iterVars, server, serverVars, lastId, sequence, next, aborted,
                   asked, refreshing, handled>>

\* whenOnline and the jittered delay.
Wake ==
    /\ loop = "waiting" /\ loop' = "connecting"
    /\ UNCHANGED <<handleVars, pollVars, iterVars, envVars, attempt, lastId, sequence, next,
                   aborted, handled>>

-----------------------------------------------------------------------------
(* #pollUntilTerminal and refresh() *)

PollAsk ==
    /\ poll = "asleep"
    /\ IF closed THEN poll' = "none" /\ UNCHANGED asked
                 ELSE poll' = "asked" /\ asked' = server
    /\ UNCHANGED <<streamVars, handleVars, iterVars, envVars, refreshing, handled>>

\* #apply(await refresh()): refresh() has set #transfer, so the status is never new.
PollReply ==
    /\ poll = "asked"
    /\ Apply(asked, asked)
    /\ poll' = IF closed' THEN "none" ELSE "asleep"
    /\ UNCHANGED <<envVars, loop, attempt, lastId, sequence, next, asked, refreshing, silent,
                   handled>>

PollFails ==
    /\ poll = "asked" /\ Trouble
    /\ poll' = IF closed THEN "none" ELSE "asleep"
    /\ UNCHANGED <<streamVars, handleVars, iterVars, server, serverVars, asked, refreshing,
                   handled>>

Refresh ==
    /\ refreshing = 0 /\ refreshing' = server /\ Trouble
    /\ UNCHANGED <<streamVars, handleVars, iterVars, server, serverVars, poll, asked, handled>>

RefreshReply ==
    /\ refreshing # 0 /\ transfer' = refreshing /\ refreshing' = 0
    /\ refreshed' = (refreshed \/ Status(refreshing) # Status(transfer))
    /\ UNCHANGED <<streamVars, iterVars, envVars, closed, silent, settled, said, poll, asked,
                   handled>>

Stream == Connect \/ (\E version \in 1 .. Last : Read(version)) \/ Wake \/ Drop(FALSE)
Polling == PollAsk \/ PollReply

Next ==
    \/ Advance \/ ConsumerNext \/ Close \/ Stream \/ Polling
    \/ \E retryable \in BOOLEAN : ConnectFails(retryable)
    \/ ReadError \/ Drop(TRUE) \/ PollFails \/ Refresh \/ RefreshReply

\* The connection, the timers and the polls go on.
Spec == Init /\ [][Next]_vars /\ WF_vars(Stream) /\ WF_vars(Polling) /\ WF_vars(Advance)

-----------------------------------------------------------------------------
\* Types, and the iterator's buffer within its bound.
TypeOK ==
    /\ server \in 1 .. Last /\ transfer \in 0 .. Last
    /\ loop \in {"none", "connecting", "reading", "waiting", "gaveUp", "ended"}
    /\ attempt \in 0 .. MaxAttempts /\ lastId \in Nat /\ next \in 0 .. Last + 1
    /\ closed \in BOOLEAN /\ aborted \in BOOLEAN /\ silent \in BOOLEAN
    /\ settled \in {"pending", "completed", "failed"}
    /\ poll \in {"none", "asleep", "asked"}
    /\ asked \in 0 .. Last /\ refreshing \in 0 .. Last
    /\ buffer \in Seq(1 .. Last) /\ Len(buffer) <= MaxBuffer
    /\ waiter \in BOOLEAN /\ done \in BOOLEAN

\* Over any number of reconnections to a server that resumes the handler is given every
\* event once and in order, the ones it throws on too; behind the broker it never goes
\* back to an older record.
EventsInOrder ==
    IF resumes THEN \A i \in 1 .. Len(handled) : handled[i] = i
    ELSE \A i, j \in 1 .. Len(handled) : i < j => handled[i] <= handled[j]

\* The iterator keeps the newest: a consumer that drains it after the transfer
\* has settled has seen the last progress last, the terminal one when it has one.
IteratorEndsWithTheLast ==
    done /\ buffer = <<>> /\ emitted # 0 =>
        yielded = emitted /\ (frame[Last] = "transfer" => Terminal(yielded))

\* The listeners of "status" know the handle's status, except when a refresh() has
\* brought the change: the application's, or the one in every poll of the fallback, after
\* which #apply finds nothing changed (transfers/handle.ts:183, 228, 236).
StatusIsSaid == said = Status(transfer) \/ silent \/ refreshed

\* Over any number of reconnections, drops, polls and refreshes what the readers are
\* given is in order and has its end (transfers/handle.ts, core/transport/sse.ts,
\* core/events/index.ts).
EventsComplete == TypeOK /\ EventsInOrder /\ IteratorEndsWithTheLast /\ StatusIsSaid

\* What sse.ts:4-6 says of both its sources, the broker's transfer progress among them:
\* "a dropped connection resumes from the last delivered event instead of replaying or
\* silently skipping".
NothingReplayed ==
    \A i, j \in 1 .. Len(handled) : i < j => handled[i] # handled[j]

\* A handle that was closed while the transfer ran never settles, although the
\* open connection goes on delivering events.
ClosedNeverSettles == silent => settled' = settled

\* A closed handle opens no connection, and none follows the one it left open.
ClosedConnectsNoMore == closed => (loop' = "connecting" => loop = "connecting")

\* Both, of every step: what close() ended stays quiet, though the connection it left
\* open delivers on (handle.ts close, sse.ts close).
ClosedIsQuiet == [][ClosedNeverSettles /\ ClosedConnectsNoMore]_vars

\* Eventually: done() is settled for every handle that is not closed, by the stream
\* or by the polls once the stream has been given up.
Settled == settled # "pending" \/ silent
=============================================================================
