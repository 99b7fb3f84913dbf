---------------------------- MODULE MCWebSdk ----------------------------
(***************************************************************************)
(* The components of packages/web-sdk and packages/web-sdk-server for TLC, *)
(* side by side: a behaviour is one of one component.  The variables of    *)
(* WebTransferHandle rest in an initial state when it is not that one, and *)
(* those of the others are Off.                                            *)
(***************************************************************************)
EXTENDS WebTransferHandle, Integers

CONSTANTS Off

VARIABLES
    part,   \* the component that this behaviour is of
    requestsPc, requestsAttempt, reminted, held, requestsReply, requestsToken, age,
    inFlight, minting, minted, requestsAborted, revoked, sends, requestsTroubles,
    rejected,
    join, roomAborted, state, roomPeer, owned, roomPc, known, roomSlot, leave, during,
    roomLost, stream, resumable, unheard, queue, running, pending, run, offered, room,
    told, agreed, failed, restarting, roomTroubles,
    agentClient, fetching, agent, wire, agentTroubles,
    now, drift, skew, session, changes, brokerLost, granting, brokerReply,
    brokerToken, brokerOutcome,
    create, transfersAttempt, transfersClient, started, record, handler,
    transfersAborted, cancelled, previous, frames, reading, opened, taken, view,
    transfersTroubles,
    call, broadcastPeer, resource, closing, deletes, broadcastSlot, located,
    broadcastTroubles

Requests == INSTANCE WebRequests WITH
    Calls <- {"c1", "c2"}, MaxAttempts <- 2, MaxTroubles <- 2, pc <- requestsPc,
    attempt <- requestsAttempt, reply <- requestsReply, token <- requestsToken,
    aborted <- requestsAborted, troubles <- requestsTroubles
Room == INSTANCE WebRoom WITH
    MaxRoom <- 3, MaxTroubles <- 2, aborted <- roomAborted, peer <- roomPeer,
    pc <- roomPc, slot <- roomSlot, lost <- roomLost, troubles <- roomTroubles
Agent == INSTANCE WebAgent WITH
    MaxPending <- 2, MaxRequests <- 3, MaxControls <- 4, MaxSessions <- 2,
    MaxTroubles <- 2, client <- agentClient, troubles <- agentTroubles
Broker == INSTANCE WebBroker WITH
    Scopes <- {"create", "read"}, MinTtl <- 2, DefaultTtl <- 2, MaxTtl <- 3,
    Tolerance <- 1, Margin <- 0, Ttls <- {0, 1, 9}, Drifts <- {-1, 2}, Skews <- {1},
    MaxTime <- 3, MaxChanges <- 1, lost <- brokerLost, reply <- brokerReply,
    token <- brokerToken, outcome <- brokerOutcome
Transfers == INSTANCE WebTransfers WITH
    MaxAttempts <- 2, MaxStreams <- 2, Last <- 3, Unseen <- {2}, MaxTroubles <- 2,
    attempt <- transfersAttempt, client <- transfersClient, aborted <- transfersAborted,
    troubles <- transfersTroubles
Broadcast == INSTANCE WebBroadcast WITH
    MaxTroubles <- 2, peer <- broadcastPeer, slot <- broadcastSlot,
    troubles <- broadcastTroubles

\* The assumptions of the theorems of WebSdkProofs hold of these values.
ASSUME LimitsHold == Broker!Limits /\ Transfers!Limits /\ Agent!Limits

requestsVars == <<requestsPc, requestsAttempt, reminted, held, requestsReply,
    requestsToken, age, inFlight, minting, minted, requestsAborted, revoked, sends,
    requestsTroubles, rejected>>
roomVars == <<join, roomAborted, state, roomPeer, owned, roomPc, known, roomSlot, leave,
    during, roomLost, stream, resumable, unheard, queue, running, pending, run, offered,
    room, told, agreed, failed, restarting, roomTroubles>>
agentVars == <<agentClient, fetching, agent, wire, agentTroubles>>
brokerVars == <<now, drift, skew, session, changes, brokerLost, granting,
    brokerReply, brokerToken, brokerOutcome>>
transfersVars == <<create, transfersAttempt, transfersClient, started, record, handler,
    transfersAborted, cancelled, previous, frames, reading, opened, taken, view,
    transfersTroubles>>
broadcastVars == <<call, broadcastPeer, resource, closing, deletes, broadcastSlot,
    located, broadcastTroubles>>
all == <<part, requestsVars, vars, roomVars, agentVars, brokerVars, transfersVars,
    broadcastVars>>

\* The variables of a component that does not run.
requestsOff ==
    /\ requestsPc = Off /\ requestsAttempt = Off /\ reminted = Off /\ held = Off
    /\ requestsReply = Off /\ requestsToken = Off /\ age = Off /\ inFlight = Off
    /\ minting = Off /\ minted = Off /\ requestsAborted = Off /\ revoked = Off
    /\ sends = Off /\ requestsTroubles = Off /\ rejected = Off
handleRests ==
    /\ Init /\ server = Last /\ outcome = "completed" /\ resumes
    /\ frame = [v \in 1 .. Last |-> "transfer"]
roomOff ==
    /\ join = Off /\ roomAborted = Off /\ state = Off /\ roomPeer = Off /\ owned = Off
    /\ roomPc = Off /\ known = Off /\ roomSlot = Off /\ leave = Off /\ during = Off
    /\ roomLost = Off /\ stream = Off /\ resumable = Off /\ unheard = Off
    /\ queue = Off /\ running = Off /\ pending = Off
    /\ run = Off /\ offered = Off /\ room = Off /\ told = Off /\ agreed = Off
    /\ failed = Off /\ restarting = Off /\ roomTroubles = Off
agentOff ==
    /\ agentClient = Off /\ fetching = Off /\ agent = Off /\ wire = Off
    /\ agentTroubles = Off
brokerOff ==
    /\ now = Off /\ drift = Off /\ skew = Off /\ session = Off /\ changes = Off
    /\ brokerLost = Off /\ granting = Off /\ brokerReply = Off /\ brokerToken = Off
    /\ brokerOutcome = Off
transfersOff ==
    /\ create = Off /\ transfersAttempt = Off /\ transfersClient = Off /\ started = Off
    /\ record = Off /\ handler = Off /\ transfersAborted = Off /\ cancelled = Off
    /\ previous = Off /\ frames = Off /\ reading = Off /\ opened = Off /\ taken = Off
    /\ view = Off /\ transfersTroubles = Off
broadcastOff ==
    /\ call = Off /\ broadcastPeer = Off /\ resource = Off /\ closing = Off
    /\ deletes = Off /\ broadcastSlot = Off /\ located = Off /\ broadcastTroubles = Off
OthersOff ==
    /\ IF part = "requests" THEN TRUE ELSE requestsOff
    /\ IF part = "handle" THEN Init ELSE handleRests
    /\ IF part = "room" THEN TRUE ELSE roomOff
    /\ IF part = "agent" THEN TRUE ELSE agentOff
    /\ IF part = "broker" THEN TRUE ELSE brokerOff
    /\ IF part = "transfers" THEN TRUE ELSE transfersOff
    /\ IF part = "broadcast" THEN TRUE ELSE broadcastOff
OthersStay ==
    /\ UNCHANGED part
    /\ IF part = "requests" THEN TRUE ELSE UNCHANGED requestsVars
    /\ IF part = "handle" THEN TRUE ELSE UNCHANGED vars
    /\ IF part = "room" THEN TRUE ELSE UNCHANGED roomVars
    /\ IF part = "agent" THEN TRUE ELSE UNCHANGED agentVars
    /\ IF part = "broker" THEN TRUE ELSE UNCHANGED brokerVars
    /\ IF part = "transfers" THEN TRUE ELSE UNCHANGED transfersVars
    /\ IF part = "broadcast" THEN TRUE ELSE UNCHANGED broadcastVars

WebInit ==
    \/ part = "requests" /\ Requests!Init /\ OthersOff
    \/ part = "handle" /\ OthersOff
    \/ part = "room" /\ Room!Init /\ OthersOff
    \/ part = "agent" /\ Agent!Init /\ OthersOff
    \/ part = "broker" /\ Broker!Init /\ OthersOff
    \/ part = "transfers" /\ Transfers!Init /\ OthersOff
    \/ part = "broadcast" /\ Broadcast!Init /\ OthersOff

WebNext ==
    \/ part = "requests" /\ OthersStay /\ Requests!Next
    \/ part = "handle" /\ OthersStay /\ Next
    \/ part = "room" /\ OthersStay /\ Room!Next
    \/ part = "agent" /\ OthersStay /\ Agent!Next
    \/ part = "broker" /\ OthersStay /\ Broker!Next
    \/ part = "transfers" /\ OthersStay /\ Transfers!Next
    \/ part = "broadcast" /\ OthersStay /\ Broadcast!Next

WebSpec ==
    /\ WebInit /\ [][WebNext]_all
    /\ \A c \in {"c1", "c2"} : WF_requestsVars(part = "requests" /\ Requests!Timers(c))
    /\ WF_vars(part = "handle" /\ Stream)
    /\ WF_vars(part = "handle" /\ Polling)
    /\ WF_vars(part = "handle" /\ Advance)
    /\ WF_roomVars(part = "room" /\ Room!Connecting)
    /\ WF_roomVars(part = "room" /\ Room!Draining)
    /\ WF_roomVars(part = "room" /\ Room!RoomEvent)
    /\ WF_roomVars(part = "room" /\ Room!StreamUp)
    /\ WF_agentVars(part = "agent" /\ Agent!RequestTimer(FALSE))
    /\ WF_agentVars(part = "agent" /\ Agent!CancelTimer)
    /\ \A s \in 1..2 : WF_transfersVars(part = "transfers" /\ Transfers!Broker(s))
    /\ WF_transfersVars(part = "transfers" /\ Transfers!Browser)
    /\ WF_transfersVars(part = "transfers" /\ Transfers!Advance)

-----------------------------------------------------------------------------
\* A call sends no more requests than its attempts and one re-mint allow, no two token
\* refreshes run at once, a call that ends with a 401 was refused with two different
\* tokens, and only its own signal aborts a call, whoever owns the mint it awaits; a
\* withdrawn permission is exercised for less than MaxTtl + Tolerance and the time its
\* mint was held up, and a token the browser still uses is accepted while the clocks
\* agree within the tolerance; a stream that the broker ends without an error has told
\* the end (core/transport/http.ts, core/auth/provider.ts; web-sdk-server token.ts,
\* broker.ts).
CallsSound ==
    /\ part = "requests" =>
          /\ Requests!TypeOK
          /\ Requests!RequestsBounded
          /\ Requests!OneMintAtATime
          /\ Requests!UnauthorizedTakesTwoTokens
          /\ Requests!AbortedByItsOwn
    /\ part = "broker" =>
          /\ Broker!TypeOK
          /\ Broker!RevocationBound
          /\ Broker!UsableIsAccepted
    /\ part = "transfers" => Transfers!TypeOK /\ Transfers!CleanEndIsTerminal

\* A session that was left stays closed, whatever connect() still does; no peer
\* connection stays open, except after a leave() during the body of /ice; and a slot
\* is kept only when its DELETE failed, came too early or had no address. With media and
\* event stream up a session reports connected, and a renegotiation asked for while one
\* runs is not lost. However connect() and disconnect() of the web agent follow each
\* other no socket is leaked, what a call is given is of its own session, a watched
\* session ends with its subscription, and when all is answered the agent holds what the
\* client has handles for (rooms/session.ts, rooms/webrtc.ts, broadcast/index.ts;
\* web-agent/transport.ts, web-agent/client.ts).
SessionsSound ==
    /\ part = "room" =>
          /\ Room!TypeOK
          /\ Room!LeftIsClosed
          /\ Room!PeerOpenOnlyByIceBody
          /\ Room!SlotIsReleased
          /\ Room!HealthyIsConnected
          /\ Room!NoLostRenegotiation
    /\ part = "broadcast" =>
          /\ Broadcast!NoPeerLeft
          /\ Broadcast!SlotReleased
    /\ part = "agent" =>
          /\ Agent!TypeOK
          /\ Agent!OneSocket
          /\ Agent!OwnSession
          /\ Agent!ViewEndsWithSubscription
          /\ Agent!AgentAgrees

\* No request leaves with a token about to expire, and BeamCore is not asked for a reader
\* that has gone (http.ts, beam-sdk.ts).
QuietOnceOver ==
    /\ [][part = "requests" => Requests!SentWithUsableToken]_requestsVars
    /\ [][part = "transfers" => Transfers!NoPollForNobody]_transfersVars

\* Calls that wait for no peer end, done() settles by the stream or by the polls after
\* it, a joined session comes to agree with its room unless its event stream was refused
\* or told too late, no agent request stays pending, the watch of a reader that has gone
\* ends, and a page learns the end of its transfer.
WebProgresses ==
    /\ <>[](part = "requests" => Requests!HeldByPeersOnly)
    /\ <>[](part = "handle" => Settled)
    /\ <>[](part = "room" => Room!Agreed)
    /\ []<>(part = "agent" => Agent!NonePending)
    /\ []<>(part = "transfers" => Transfers!WatchesEnded)
    /\ <>[](part = "transfers" => Transfers!PageKnowsTheEnd)

=============================================================================
