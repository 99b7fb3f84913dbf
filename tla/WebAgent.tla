------------------------------ MODULE WebAgent ------------------------------
(***************************************************************************)
(* The client of a standalone Web Agent: AgentTransport                    *)
(* (web-agent/transport.ts), the subscription and the media session it     *)
(* hands out (resources.ts) and the calls of WebAgent (client.ts).         *)
(*                                                                         *)
(* The handlers call each other synchronously (a response may end a media  *)
(* session, which cancels a request, which may end the whole session), so  *)
(* the client is one record and every handler a function of it.  The two   *)
(* operations are "sub", a media subscription, and "view", a media session *)
(* that watches it: the parent and the child of resources.ts.              *)
(*                                                                         *)
(* External: the agent answers requests out of order, ends a resource on   *)
(* its own, ends the viewers of a subscription with it, and releases what  *)
(* a session holds when its socket closes.                                 *)
(***************************************************************************)
EXTENDS Naturals, Sequences, FiniteSets

CONSTANTS
    MaxPending,     \* the 28 requests in flight
    MaxRequests,    \* the counter's limit for requests (4000)
    MaxControls,    \* and for controls (4090)
    MaxSessions,    \* bound: calls of connect()
    MaxTroubles     \* bound: failures, and calls that open nothing

\* Controls may use the ids that requests leave free.
Limits ==
    /\ MaxPending \in Nat /\ MaxRequests \in Nat /\ MaxControls \in Nat /\ MaxSessions \in Nat
    /\ MaxRequests <= MaxControls

VARIABLES
    client,     \* AgentTransport, its Subscription and its MediaSession
    fetching,   \* the attempts whose getCredential has not settled
    agent,      \* external: the agent's view of the current session
    wire,       \* external: messages to the client, of whichever socket
    troubles

vars == <<client, fetching, agent, wire, troubles>>

Ops == {"sub", "view"}
Idle == [sub |-> "idle", view |-> "idle"]
NoSession == [work |-> {}, held |-> {}, readied |-> FALSE]

Init ==
    /\ client = [link |-> "off", attempt |-> 0, gen |-> 0, socket |-> 0, socks |-> {},
                 counter |-> 0, pending |-> {}, op |-> Idle,
                 from |-> [o \in Ops |-> 0],
                 refused |-> {}, out |-> <<>>]
    /\ fetching = {} /\ agent = NoSession /\ wire = <<>> /\ troubles = 0

Trouble == troubles < MaxTroubles /\ troubles' = troubles + 1

\* The operations that hold an entry of `resources`, and the requests of one.
Bound(c) ==
    (IF c.op.sub \in {"preparing", "ready"} THEN {"sub"} ELSE {})
    \union (IF c.op.view = "open" THEN {"view"} ELSE {})
PendingOf(c, o) == {p \in c.pending : p.op = o}

-----------------------------------------------------------------------------
(* AgentTransport *)

\* disconnect(): the attempt is aborted, the socket's handlers removed, every
\* pending request rejected and every resource ended.
Disconnect(c) ==
    [c EXCEPT !.link = "off", !.attempt = 0, !.socket = 0, !.socks = @ \ {c.socket},
              !.pending = {}, !.out = <<>>, !.refused = {},
              !.op = [o \in Ops |-> IF @[o] = "idle" THEN "idle" ELSE "ended"]]

Message(kind, id, o) == [kind |-> kind, id |-> id, op |-> o]

\* control(): unlike a request it may use the last ids of a session; when it
\* cannot be sent the session ends.
Control(c, kind, id, o, full) ==
    IF c.link # "connected" THEN c
    ELSE IF full \/ c.counter >= MaxControls THEN Disconnect(c)
    ELSE [c EXCEPT !.counter = @ + 1, !.out = Append(@, Message(kind, id, o))]

\* request() that is rejected at once: the call fails; a close() keeps the
\* rejection as its result.
Rejected(c, kind, o) ==
    IF kind = "open" THEN [c EXCEPT !.op[o] = "ended"]
    ELSE IF kind = "close" THEN [c EXCEPT !.refused = @ \union {o}]
    ELSE c

Request(c, kind, o, full) ==
    IF \/ c.link # "connected"
       \/ Cardinality(c.pending) >= MaxPending
       \/ c.counter >= MaxRequests
    THEN Rejected(c, kind, o)
    ELSE LET id == c.counter + 1
             numbered == [c EXCEPT !.counter = id]
         IN  IF full THEN Rejected(numbered, kind, o)
             ELSE [numbered EXCEPT
                     !.pending = @ \union {[id |-> id, op |-> o, kind |-> kind, cancelled |-> FALSE]},
                     !.out = Append(@, Message(kind, id, o))]

\* cancel(): the caller is rejected now; the request stays pending for its
\* response, on a timer that ends the session.
Cancel(c, p, full) ==
    IF p.cancelled THEN c
    ELSE Control([c EXCEPT !.pending = (@ \ {p}) \union {[p EXCEPT !.cancelled = TRUE]},
                           !.op = IF p.kind = "open" THEN [@ EXCEPT ![p.op] = "ended"] ELSE @],
                 "cancel", p.id, p.op, full)

-----------------------------------------------------------------------------
(* MediaSession and Subscription *)

\* disconnected() of the media session; its "closed" event aborts a call that is
\* still negotiating, and so cancels its request.
EndView(c, full) ==
    IF c.op.view = "asked" THEN Cancel(c, CHOOSE p \in PendingOf(c, "view") : p.kind = "open", full)
    ELSE IF c.op.view = "idle" THEN c
    ELSE [c EXCEPT !.op.view = "ended"]

\* fail(): the agent is told as well when it knows the session.
FailView(c, full) ==
    IF c.op.view = "open" THEN Control(EndView(c, full), "close", 0, "view", full)
    ELSE EndView(c, full)

\* disconnected() of the subscription, and of its children.
EndSub(c, full) == EndView([c EXCEPT !.op.sub = "ended"], full)

\* A response to a pending request.  One that comes after the call was cancelled
\* gives back what it opened.
Receive(c, p, m, full) ==
    LET settled == [c EXCEPT !.pending = @ \ {p}]
    IN  IF p.kind # "open" THEN settled
        ELSE IF p.cancelled
             THEN IF m.ok THEN Control(settled, "close", 0, p.op, full) ELSE settled
        ELSE IF ~m.ok THEN [settled EXCEPT !.op[p.op] = "ended"]
        ELSE [settled EXCEPT !.op[p.op] = IF p.op = "sub" THEN "preparing" ELSE "open",
                             !.from[p.op] = m.session]

\* event() of the resource it is about.
Event(c, m, full) ==
    IF m.op \notin Bound(c) THEN c
    ELSE IF m.kind = "ready" THEN [c EXCEPT !.op.sub = "ready"]
    ELSE IF m.op = "sub" THEN EndSub(c, full)
    ELSE FailView(c, full)

\* onmessage belongs to one socket and is removed with it.
FromItsSocket(c, m) == c.link = "connected" /\ m.session = c.socket

OnMessage(c, m, full) ==
    IF ~FromItsSocket(c, m) THEN c
    ELSE IF m.kind # "response" THEN Event(c, m, full)
    ELSE IF \E p \in c.pending : p.id = m.id
         THEN Receive(c, CHOOSE p \in c.pending : p.id = m.id, m, full)
    ELSE c

-----------------------------------------------------------------------------
(* The steps.  A step that sends may find the socket's buffer full.         *)

Becomes(c) ==
    /\ client' = c
    /\ agent' = IF c.link = "connected" THEN agent ELSE NoSession

Buffer(full) == IF full THEN Trouble ELSE UNCHANGED troubles

Connect ==
    /\ client.link = "off" /\ client.gen < MaxSessions
    /\ LET g == client.gen + 1
       IN  /\ client' = [client EXCEPT !.link = "credential", !.attempt = g, !.gen = g,
                                       !.counter = 0, !.op = Idle]
           /\ fetching' = fetching \union {g}
    /\ UNCHANGED <<agent, wire, troubles>>

\* getCredential settles: an attempt that was aborted meanwhile opens no socket.
OfThisAttempt(c, g) == c.attempt = g

Credential(g) ==
    /\ g \in fetching /\ fetching' = fetching \ {g}
    /\ Becomes(IF OfThisAttempt(client, g)
               THEN [client EXCEPT !.link = "socket", !.socket = g, !.socks = @ \union {g}]
               ELSE client)
    /\ UNCHANGED <<wire, troubles>>

CredentialFails(g) ==
    /\ g \in fetching /\ fetching' = fetching \ {g} /\ Trouble
    /\ Becomes(IF client.attempt = g THEN Disconnect(client) ELSE client)
    /\ UNCHANGED wire

\* session.ready of the agent whose identity is the expected one.
Ready ==
    /\ client.link = "socket"
    /\ Becomes([client EXCEPT !.link = "connected"])
    /\ UNCHANGED <<fetching, wire, troubles>>

\* disconnect() by the application, the timer or the signal of connect(), a socket
\* that fails or closes, and a message that does not parse or names another agent.
Ends ==
    /\ client.link # "off" /\ Trouble
    /\ Becomes(Disconnect(client))
    /\ UNCHANGED <<fetching, wire>>

Call(c, full) == Becomes(c) /\ Buffer(full) /\ UNCHANGED <<fetching, wire>>

Subscribe(full) ==
    /\ client.link = "connected" /\ client.op.sub = "idle"
    /\ Call(Request([client EXCEPT !.op.sub = "asked"], "open", "sub", full), full)

\* The calls that open nothing: joinRoom, leaveRoom, listChannels, getChannel,
\* publishMessage, listMedia.
PlainCall(full) ==
    /\ client.link = "connected" /\ Trouble
    /\ Becomes(Request(client, "call", "none", full)) /\ UNCHANGED <<fetching, wire>>

\* watchMedia: the peer connection and its offer, then the request.
Watch ==
    /\ client.link = "connected" /\ client.op.sub = "ready" /\ client.op.view = "idle"
    /\ Call([client EXCEPT !.op.view = "offer"], FALSE)
Offer(full) ==
    /\ client.op.view = "offer"
    /\ Call(Request([client EXCEPT !.op.view = "asked"], "open", "view", full), full)

CloseSub(full) ==
    /\ client.op.sub \in {"preparing", "ready"}
    /\ LET c == EndSub(client, full)
       IN  Call(IF c.link = "connected" THEN Request(c, "close", "sub", full) ELSE c, full)

CloseView(full) ==
    /\ client.op.view = "open"
    /\ Call(Request(EndView(client, full), "close", "view", full), full)

\* The caller's signal, a failed offer, the media's connection or its timer.
ViewFails(full) ==
    /\ client.op.view \in {"offer", "asked", "open"} /\ Trouble
    /\ Becomes(FailView(client, full)) /\ UNCHANGED <<fetching, wire>>

\* 35 seconds without subscription.ready.
NotReady(full) ==
    /\ client.op.sub = "preparing" /\ Trouble
    /\ Becomes(Control(EndSub(client, full), "close", 0, "sub", full)) /\ UNCHANGED <<fetching, wire>>

\* The timer of a request, or its caller's signal.
RequestTimer(full) ==
    \E p \in client.pending :
        /\ ~p.cancelled
        /\ Call(Cancel(client, p, full), full)

\* 30 seconds after a cancellation without a response.
CancelTimer ==
    /\ \E p \in client.pending : p.cancelled
    /\ Call(Disconnect(client), FALSE)

Deliver(full) ==
    /\ wire # <<>> /\ wire' = Tail(wire)
    /\ Becomes(OnMessage(client, Head(wire), full))
    /\ Buffer(full) /\ UNCHANGED fetching

-----------------------------------------------------------------------------
(* External: the agent. *)

Response(id, ok) == [session |-> client.socket, kind |-> "response", id |-> id, ok |-> ok, op |-> "sub"]
EventOf(kind, o) == [session |-> client.socket, kind |-> kind, id |-> 0, ok |-> TRUE, op |-> o]
Without(held, o) == IF o = "sub" THEN {} ELSE held \ {o}

AgentTakes ==
    /\ client.out # <<>>
    /\ client' = [client EXCEPT !.out = Tail(@)]
    /\ LET m == Head(client.out)
           worked == {w \in agent.work : w.id = m.id}
       IN  \/ m.kind \in {"open", "call"} /\ agent' = [agent EXCEPT !.work = @ \union {m}] /\ UNCHANGED wire
           \/ /\ m.kind = "cancel" /\ agent' = [agent EXCEPT !.work = @ \ worked]
              /\ wire' = IF worked = {} THEN wire ELSE Append(wire, Response(m.id, FALSE))
           \/ /\ m.kind = "close" /\ agent' = [agent EXCEPT !.held = Without(@, m.op)]
              /\ wire' = IF m.id = 0 THEN wire ELSE Append(wire, Response(m.id, TRUE))
    /\ UNCHANGED <<fetching, troubles>>

AgentAnswers(ok) ==
    \E m \in agent.work :
        /\ m.op = "view" /\ "sub" \notin agent.held => ~ok
        /\ agent' = [agent EXCEPT !.work = @ \ {m},
                                  !.held = IF ok /\ m.kind = "open" THEN @ \union {m.op} ELSE @]
        /\ wire' = Append(wire, Response(m.id, ok))
        /\ UNCHANGED <<client, fetching, troubles>>

AgentReadies ==
    /\ "sub" \in agent.held /\ ~agent.readied
    /\ agent' = [agent EXCEPT !.readied = TRUE]
    /\ wire' = Append(wire, EventOf("ready", "sub"))
    /\ UNCHANGED <<client, fetching, troubles>>

AgentDrops(o) ==
    /\ o \in agent.held /\ Trouble
    /\ agent' = [agent EXCEPT !.held = Without(@, o)]
    /\ wire' = Append(wire, EventOf("error", o))
    /\ UNCHANGED <<client, fetching>>

Next ==
    \/ Connect \/ Ready \/ Ends \/ Watch \/ CancelTimer
    \/ \E g \in fetching : Credential(g) \/ CredentialFails(g)
    \/ \E full \in BOOLEAN : \/ PlainCall(full) \/ Subscribe(full) \/ Offer(full) \/ CloseSub(full)
                             \/ CloseView(full) \/ ViewFails(full) \/ NotReady(full) \/ RequestTimer(full) \/ Deliver(full)
    \/ AgentTakes \/ \E ok \in BOOLEAN : AgentAnswers(ok)
    \/ AgentReadies \/ \E o \in Ops : AgentDrops(o)

\* The timers fire.
Spec == Init /\ [][Next]_vars /\ WF_vars(RequestTimer(FALSE)) /\ WF_vars(CancelTimer)

-----------------------------------------------------------------------------
TypeOK ==
    /\ client.link \in {"off", "credential", "socket", "connected"}
    /\ client.gen \in 0 .. MaxSessions /\ client.counter \in 0 .. MaxControls
    /\ Cardinality(client.pending) <= MaxPending
    /\ client.op.sub \in {"idle", "asked", "preparing", "ready", "ended"}
    /\ client.op.view \in {"idle", "offer", "asked", "open", "ended"}
    /\ agent.held \subseteq Ops

\* However connect() and disconnect() follow each other while credentials are
\* fetched, the one open socket is the transport's own: none is leaked.
OneSocket == client.socks = {client.socket} \ {0}

\* Request ids begin again at 1 in every session; what a call is given still comes
\* from the session that it was made in.
OwnSession == \A o \in Bound(client) : client.from[o] = client.gen

\* A watched session is over as soon as its subscription is, at whatever point of
\* its negotiation that happens.
ViewEndsWithSubscription ==
    client.op.view \in {"offer", "asked", "open"} => client.op.sub = "ready"

\* When everything has been answered, the agent holds what the client has handles
\* for ("no abandoned media/subscription survives"), except a resource whose
\* close() was refused at a limit, and what depends on it.
Quiet ==
    /\ client.link = "connected" /\ client.pending = {} /\ client.out = <<>>
    /\ agent.work = {} /\ wire = <<>>
AgentAgrees ==
    Quiet => /\ Bound(client) \subseteq agent.held
             /\ \A o \in agent.held \ Bound(client) : client.refused \intersect {o, "sub"} # {}

\* Again and again: no request is pending; it is answered, or its timers end it or
\* the session.
NonePending == client.pending = {}
=============================================================================
