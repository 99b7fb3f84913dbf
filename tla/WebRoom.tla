------------------------------- MODULE WebRoom -------------------------------
(***************************************************************************)
(* A room of the Web SDK: Rooms.join (rooms/rooms.ts), BeamRoomSession     *)
(* (rooms/session.ts) and RenegotiationQueue (rooms/webrtc.ts).            *)
(*                                                                         *)
(* connect() goes through several awaits; leave() may come during each of  *)
(* them, from the application or from its AbortSignal.  An HTTP request is *)
(* ended by the signal while its response has not begun, and no longer     *)
(* while its body is read.                                                 *)
(*                                                                         *)
(* External: the SFU (a slot per participant, a set of tracks with a       *)
(* version, an event for each change of it), the browser's peer connection *)
(* and the event stream.  The relay resumes it after Last-Event-ID, which  *)
(* a session sends once it has had an event; until then what happened      *)
(* before the stream opened may or may not be told.                        *)
(***************************************************************************)
EXTENDS Naturals

CONSTANTS
    MaxRoom,        \* bound: changes of the room's tracks
    MaxTroubles     \* bound: drops and failures

VARIABLES
    join,       \* where Rooms.join stands
    aborted,    \* #controller.signal.aborted
    state,      \* #state
    peer,       \* the RTCPeerConnection
    owned,      \* #peer # undefined
    pc,         \* its connectionState
    known,      \* #participantId # undefined
    slot,       \* external: the SFU holds this participant
    leave,      \* where leave() stands
    during,     \* history: where join stood when leave() came
    lost,       \* history: the DELETE of leave() failed
    stream,     \* the event stream: see Streams
    resumable,  \* #lastEventId of the stream # undefined
    unheard,    \* history: events before the stream opened were not told, and none since
    queue,      \* #renegotiation: "none", "open" or "closed"
    running, pending,   \* the queue's flags
    run,        \* where #drain stands
    offered,    \* the version of the SFU's offer that is being answered
    room,       \* external: the version of the room's tracks
    told,       \* external: the events delivered so far
    agreed,     \* the version the peers agreed on last
    failed,     \* history: the last renegotiation failed
    restarting, \* restartIce() awaits /ice-restart
    troubles

joinVars == <<join, known, slot>>
leaveVars == <<aborted, leave, during, lost>>
streamVars == <<stream, resumable, unheard>>
mediaVars == <<peer, owned, pc, streamVars, restarting>>
queueVars == <<queue, running, pending, run, offered, agreed, failed>>
envVars == <<room, told, troubles>>
vars == <<joinVars, leaveVars, mediaVars, queueVars, envVars, state>>

-----------------------------------------------------------------------------
JoinStates == {"ice", "iceBody", "offer", "post", "postBody", "remote", "joined", "failed"}
Over == {"joined", "failed"}

\* Opening for the first time, up, down (the reconnector goes on), refused (it has
\* stopped for good) or over once aborted.
Streams == {"none", "opening", "up", "down", "refused", "over"}

Init ==
    /\ join = "ice" /\ known = FALSE /\ slot = FALSE
    /\ aborted = FALSE /\ leave = "no" /\ during = "none" /\ lost = FALSE
    /\ state = "connecting"
    /\ peer = "none" /\ owned = FALSE /\ pc = "new" /\ restarting = FALSE
    /\ stream = "none" /\ resumable = FALSE /\ unheard = FALSE
    /\ queue = "none" /\ running = FALSE /\ pending = FALSE /\ run = "idle"
    /\ offered = 0 /\ agreed = 0 /\ failed = FALSE
    /\ room = 0 /\ told = 0 /\ troubles = 0

Trouble == troubles < MaxTroubles /\ troubles' = troubles + 1

-----------------------------------------------------------------------------
(* BeamRoomSession.leave *)

\* The end of leave(), after the DELETE when there was one.
Left ==
    /\ peer' = IF owned THEN "closed" ELSE peer
    /\ owned' = FALSE /\ state' = "closed" /\ leave' = "done"

\* The beginning: the signal, the queue and the stream, then the DELETE of a
\* participant whose id is known.
LeaveNow ==
    /\ aborted' = TRUE
    /\ queue' = IF queue = "none" THEN queue ELSE "closed"
    /\ pending' = IF queue = "none" THEN pending ELSE FALSE
    /\ stream' = IF stream = "none" THEN stream ELSE "over"
    /\ IF known THEN leave' = "deleting" /\ UNCHANGED <<peer, owned, state>> ELSE Left

\* leave() by the application or its signal.  What connect() awaits rejects when
\* it listens to the signal, a request without a response or the ICE gathering;
\* createOffer on a peer that is closed meanwhile never settles.
Leave ==
    /\ ~aborted /\ LeaveNow
    /\ during' = join
    /\ \/ join \in {"ice", "offer", "post"} /\ join' = "failed"
       \/ join \notin {"ice", "post"} /\ UNCHANGED join
    /\ UNCHANGED <<envVars, known, slot, lost, pc, resumable, unheard, restarting, running, run,
                   offered, agreed, failed>>

LeaveDeleted(heard) ==
    /\ leave = "deleting"
    /\ IF heard THEN slot' = FALSE /\ UNCHANGED <<lost, troubles>>
                ELSE lost' = TRUE /\ Trouble /\ UNCHANGED slot
    /\ Left
    /\ UNCHANGED <<queueVars, join, known, aborted, during, pc, streamVars, restarting, room,
                   told>>

\* connect() throws: Rooms.join calls leave(), which returns at once when it has
\* been called before, and throws.
Fails ==
    /\ join' = "failed" /\ during' = IF aborted THEN during ELSE join
    /\ IF aborted THEN UNCHANGED <<aborted, leave, peer, owned, state, queue, pending, stream>>
                  ELSE LeaveNow

-----------------------------------------------------------------------------
(* BeamRoomSession.connect *)

\* The SFU serves the POST: it takes the participant in and answers for its tracks of now.
Served ==
    IF join = "post" /\ ~slot THEN slot' = TRUE /\ agreed' = room /\ told' = room
    ELSE UNCHANGED <<slot, agreed, told>>

\* A response begins: from here on the signal does not end the request.
Responds ==
    /\ join \in {"ice", "post"}
    /\ join' = IF join = "ice" THEN "iceBody" ELSE "postBody"
    /\ Served
    /\ UNCHANGED <<leaveVars, mediaVars, known, queue, running, pending, run, offered,
                   failed, room, troubles, state>>

\* The SFU serves the POST before its response is seen, or is lost.
SfuTakes ==
    /\ join = "post" /\ ~slot /\ Served
    /\ UNCHANGED <<leaveVars, mediaVars, join, known, queue, running, pending, run, offered,
                   failed, room, troubles, state>>

\* The ICE servers are read: the peer connection is made, whether or not the
\* session has been left, and its offer is created and gathered.
IceRead ==
    /\ join = "iceBody" /\ join' = "offer"
    /\ peer' = "open" /\ owned' = TRUE
    /\ UNCHANGED <<leaveVars, queueVars, envVars, known, slot, pc, streamVars, restarting, state>>

\* The offer is gathered; a POST with a signal that fired is not sent.
Gathered ==
    /\ join = "offer" /\ peer = "open"
    /\ IF aborted THEN Fails ELSE /\ join' = "post"
                                  /\ UNCHANGED <<aborted, leave, during, peer, owned, state,
                                                 queue, pending, stream>>
    /\ UNCHANGED <<envVars, known, slot, lost, pc, resumable, unheard, restarting, running, run,
                   offered, agreed, failed>>

\* The participant's id is read; setRemoteDescription rejects on a closed peer.
PostRead ==
    /\ join = "postBody" /\ known' = TRUE
    /\ join' = IF peer = "closed" THEN "failed" ELSE "remote"
    /\ UNCHANGED <<leaveVars, mediaVars, queueVars, envVars, slot, state>>

\* The answer is applied: the queue is made, the event stream opened (not by a
\* session that has been left) and the session reported connected.
Joined ==
    /\ join = "remote" /\ peer = "open"
    /\ join' = "joined" /\ queue' = "open"
    /\ stream' = IF aborted THEN "over" ELSE "opening"
    /\ state' = "connected"
    /\ UNCHANGED <<leaveVars, envVars, known, slot, peer, owned, pc, resumable, unheard, restarting,
                   running, pending, run, offered, agreed, failed>>

JoinFails ==
    /\ join \notin Over /\ Trouble
    /\ Fails
    /\ UNCHANGED <<known, slot, lost, pc, resumable, unheard, restarting, running, run, offered,
                   agreed, failed, room, told>>

-----------------------------------------------------------------------------
(* RenegotiationQueue *)

\* schedule(): join the run that is going on, or begin one.
Schedule ==
    IF queue # "open" THEN UNCHANGED <<running, pending, run>>
    ELSE IF running THEN pending' = TRUE /\ UNCHANGED <<running, run>>
    ELSE running' = TRUE /\ pending' = FALSE /\ run' = "stable"

\* The signalling state is stable, or five seconds are over: #renegotiate asks for
\* the SFU's offer, unless the queue was closed.
DrainRuns ==
    /\ run = "stable"
    /\ IF queue = "closed" \/ ~owned
       THEN run' = "ended" /\ UNCHANGED offered
       ELSE run' = "answer" /\ offered' = room
    /\ UNCHANGED <<joinVars, leaveVars, mediaVars, envVars, queue, running, pending, agreed, failed, state>>

\* The answer is posted, or a step of #renegotiate failed; onError goes on.
DrainAnswered(ok) ==
    /\ run = "answer"
    /\ IF ok THEN agreed' = offered /\ UNCHANGED troubles 
       ELSE UNCHANGED agreed /\ IF aborted THEN UNCHANGED troubles ELSE Trouble
    /\ run' = "ended" /\ failed' = ~ok
    /\ UNCHANGED <<joinVars, leaveVars, mediaVars, room, told, queue, running, pending, offered, state>>

\* Mutant: a renegotiation asked for meanwhile is forgotten.
DrainForgets ==
    [running |-> FALSE, pending |-> FALSE, run |-> "idle"]

\* while (pending && !closed).
DrainAgain ==
    IF pending /\ queue # "closed" THEN [running |-> TRUE, pending |-> FALSE, run |-> "stable"]
    ELSE [running |-> FALSE, pending |-> pending, run |-> "idle"]

DrainEnds ==
    /\ run = "ended"
    /\ running' = DrainAgain.running /\ pending' = DrainAgain.pending /\ run' = DrainAgain.run
    /\ UNCHANGED <<joinVars, leaveVars, mediaVars, envVars, queue, offered, agreed, failed, state>>

-----------------------------------------------------------------------------
(* What reaches a session. *)

RoomChanges ==
    /\ room < MaxRoom /\ room' = room + 1
    /\ UNCHANGED <<joinVars, leaveVars, mediaVars, queueVars, told, troubles, state>>

\* #handleRoomEvent with renegotiation_required.
RoomEvent ==
    /\ stream = "up" /\ told < room
    /\ told' = told + 1
    /\ resumable' = TRUE /\ unheard' = FALSE
    /\ Schedule
    /\ UNCHANGED <<joinVars, leaveVars, peer, owned, pc, stream, restarting, room, troubles, queue,
                   offered, agreed, failed, state>>

\* onStateChange of the event stream.
StreamUpState == IF owned /\ pc = "connected" THEN "connected" ELSE state

\* The stream opens; without an id to resume after, what has happened so far may be skipped.
StreamUp ==
    /\ stream \in {"opening", "down"} /\ stream' = "up"
    /\ told' \in IF resumable THEN {told} ELSE {told, room}
    /\ unheard' = (unheard \/ told' # told)
    /\ state' = StreamUpState
    /\ UNCHANGED <<joinVars, leaveVars, queueVars, room, troubles, peer, owned, pc, resumable,
                   restarting>>

\* It breaks, or its first opening fails: the reconnector goes on.
StreamDown ==
    /\ stream \in {"opening", "up"} /\ stream' = "down" /\ Trouble
    /\ state' = IF state = "connected" THEN "reconnecting" ELSE state
    /\ UNCHANGED <<joinVars, leaveVars, queueVars, room, told, peer, owned, pc, resumable, unheard,
                   restarting>>

\* The relay answers with an error that is not retryable, as for a room's token that has
\* expired: the reconnector stops for good and the session only emits "error".
StreamRefused ==
    /\ stream \in {"opening", "down"} /\ stream' = "refused" /\ Trouble
    /\ UNCHANGED <<joinVars, leaveVars, queueVars, room, told, peer, owned, pc, resumable, unheard,
                   restarting, state>>

\* onconnectionstatechange; "failed" begins an ICE restart.
PeerChanges(next) ==
    /\ peer = "open" /\ known /\ next # pc
    /\ pc' = next
    /\ next = "disconnected" => pc = "connected"
    /\ state' = IF next = "connected" THEN "connected" ELSE "reconnecting"
    /\ restarting' = (restarting \/ next = "failed")
    /\ IF next = "connected" THEN UNCHANGED troubles ELSE Trouble
    /\ UNCHANGED <<joinVars, leaveVars, queueVars, room, told, peer, owned, streamVars>>

\* restartIce after /ice-restart answered or failed; on a closed peer it throws.
IceRestarted ==
    /\ restarting /\ restarting' = FALSE
    /\ IF peer = "open" THEN Schedule ELSE UNCHANGED <<running, pending, run>>
    /\ UNCHANGED <<joinVars, leaveVars, envVars, peer, owned, pc, streamVars, queue, offered,
                   agreed, failed, state>>

\* publish() of a joined session.
Publish ==
    /\ join = "joined" /\ owned /\ Trouble
    /\ Schedule
    /\ UNCHANGED <<joinVars, leaveVars, mediaVars, room, told, queue, offered, agreed, failed, state>>

Connecting == Responds \/ IceRead \/ Gathered \/ PostRead \/ Joined
Draining == DrainRuns \/ DrainAnswered(TRUE) \/ DrainEnds

Next ==
    \/ Leave \/ \E heard \in BOOLEAN : LeaveDeleted(heard)
    \/ Connecting \/ SfuTakes \/ JoinFails \/ Draining \/ DrainAnswered(FALSE)
    \/ RoomChanges \/ RoomEvent \/ StreamUp \/ StreamDown \/ StreamRefused
    \/ \E next \in {"connected", "disconnected", "failed"} : PeerChanges(next)
    \/ IceRestarted \/ Publish

Spec ==
    /\ Init /\ [][Next]_vars
    /\ WF_vars(Connecting) /\ WF_vars(Draining) /\ WF_vars(RoomEvent) /\ WF_vars(StreamUp)

-----------------------------------------------------------------------------
TypeOK ==
    /\ join \in JoinStates /\ known \in BOOLEAN /\ slot \in BOOLEAN
    /\ leave \in {"no", "deleting", "done"} /\ during \in JoinStates \union {"none"}
    /\ state \in {"connecting", "connected", "reconnecting", "closed"}
    /\ peer \in {"none", "open", "closed"}
    /\ stream \in Streams /\ resumable \in BOOLEAN /\ unheard \in BOOLEAN
    /\ queue \in {"none", "open", "closed"} /\ run \in {"idle", "stable", "answer", "ended"}
    /\ running = (run # "idle")
    /\ agreed \in 0 .. room /\ told \in 0 .. room

\* Whatever connect() still does after leave() has ended, the session stays closed.
LeftIsClosed == leave = "done" => state = "closed"

\* The one way to a peer connection that nobody closes is a leave() during the
\* body of the /ice response.
PeerOpenOnlyByIceBody ==
    leave = "done" /\ join \in Over /\ peer = "open" => during = "iceBody"

\* The SFU keeps the participant of a session that was left only when the DELETE
\* failed, or when leave() came before the response to the join had been read.
SlotIsReleased ==
    leave = "done" /\ join \in Over /\ slot => lost \/ during \in {"post", "postBody"}

\* While the media and the event stream are up the session reports connected,
\* in whatever order they went down and came back.
HealthyIsConnected ==
    join = "joined" /\ ~aborted /\ pc = "connected" /\ stream = "up" => state = "connected"

\* A renegotiation that is asked for while one runs is not lost: an idle queue
\* whose last run did not fail has agreed on the latest tracks it was told of.
NoLostRenegotiation ==
    join = "joined" /\ ~aborted /\ run = "idle" /\ told = room /\ ~failed /\ ~unheard
        => agreed = room

\* From some time on: a joined session agrees with the room (webrtc.ts: "the caller
\* always ends up negotiating against the room's latest state"), unless its last
\* renegotiation failed, its event stream was refused, which no later event repairs, or
\* the last change came before the stream opened and was not told.
Agreed ==
    agreed = room \/ failed \/ aborted \/ join # "joined" \/ stream = "refused" \/ unheard
=============================================================================
