-------------------------- MODULE LifecycleControl --------------------------
(***************************************************************************)
(* The request layer of the TypeScript SDK: BeamTransferControl of         *)
(* src/sdks/typescript/src/nats-control.ts.  Every operation of the SDK is *)
(* a call of request(): up to three attempts that carry one request id,    *)
(* each with an auth token (one shared refresh for all the calls) over the *)
(* NATS connection (one shared connect for all the calls), while close()   *)
(* may come at any time.                                                   *)
(*                                                                         *)
(* The Transfer Runtime and the network are external: a request may be     *)
(* served late or never, a reply may be lost, the Runtime may restart (a   *)
(* new runtime_epoch, no token of the old one accepted) and serves one     *)
(* request id once.                                                        *)
(***************************************************************************)
EXTENDS Naturals, FiniteSets

CONSTANTS
    Calls,          \* calls of request()
    KeyOf,          \* [Calls -> keys]: equal for calls with one idempotencyKey
    Oversized,      \* calls whose envelope is above maxPayloadBytes
    MaxAttempts,    \* LIFECYCLE_REQUEST_MAX_ATTEMPTS
    MaxRestarts,    \* bound: restarts of the Runtime
    Weathers        \* bound: the sets of faults that may happen in one behaviour

VARIABLES
    pc,         \* where each call of request() stands
    attempt,    \* its attempt, from 1
    held,       \* the token its envelope carries
    reply,      \* the reply that reached its inbox and was not read yet
    token,      \* authToken
    aged,       \* authTokenExpiresAt is within AUTH_TOKEN_REFRESH_SAFETY_SECONDS
    auth,       \* authResolvePromise: where the shared refresh stands
    authAttempt,
    issued,     \* the token of the auth reply on its way
    nc,         \* this.nc
    connecting, \* connectionPromise # null
    closed,     \* this.closed
    closing,    \* where close() stands
    known,      \* runtimeEpochs.get(shard), 0 when there is none
    wire,       \* external: requests published and not served
    applied,    \* external: [key |-> the request ids served for it]
    epoch,      \* external: the Runtime's epoch
    weather,    \* the faults of this behaviour
    faults      \* history: faults so far, counted up to 2

\* Three attempts, as LIFECYCLE_REQUEST_MAX_ATTEMPTS, or more.
Limits == MaxAttempts \in Nat /\ MaxAttempts >= 3 /\ MaxRestarts \in Nat

callVars == <<pc, attempt, held, reply>>
tokenVars == <<token, aged, known>>
authVars == <<auth, authAttempt, issued>>
connVars == <<nc, connecting>>
closeVars == <<closed, closing>>
envVars == <<wire, applied, epoch, weather, faults>>
vars == <<callVars, tokenVars, authVars, connVars, closeVars, envVars>>

-----------------------------------------------------------------------------
Tokens == {"none", "good", "bad"}
Ended == {"ok", "refused", "failed", "closed", "tooLarge"}
CallStates == {"idle", "start", "auth", "conn", "sent", "sleep"} \union Ended
AuthStates == {"none", "start", "conn", "sent", "reply", "sleep"}

\* isRetryableLifecycleStatus: 408, 425, 429 and 5xx are "busy", 401 with
\* auth_token_expired is "expired", every other refusal is "denied".
ReplyKinds == {"ok", "expired", "busy", "denied"}
NoReply == [kind |-> "none", epoch |-> 0]

Keys == {KeyOf[c] : c \in Calls}

\* Mutant: every attempt draws a request id of its own.
RequestIdPerAttempt(c) == <<KeyOf[c], attempt[c]>>

\* requestId is drawn before the loop: from the idempotency key, else at random.
RequestId(c) == <<KeyOf[c], 1>>

Init ==
    /\ pc = [c \in Calls |-> "idle"]
    /\ attempt = [c \in Calls |-> 1]
    /\ held = [c \in Calls |-> "none"]
    /\ reply = [c \in Calls |-> NoReply]
    /\ token = "none" /\ aged = FALSE
    /\ auth = "none" /\ authAttempt = 1 /\ issued = "none"
    /\ nc = "null" /\ connecting = FALSE
    /\ closed = FALSE /\ closing = "no"
    /\ known = 0
    /\ wire = {} /\ applied = [k \in Keys |-> {}]
    /\ epoch = 1 /\ weather \in Weathers /\ faults = 0

Fault == faults' = IF faults < 2 THEN faults + 1 ELSE faults

\* What connection() gives a caller right away; "conn" awaits connectionPromise.
Connected == IF closed THEN "closed" ELSE IF nc = "open" THEN "sent" ELSE "conn"
Joined(state) == connecting' = (connecting \/ state = "conn")

\* The catch of an attempt: the next attempt after a delay, or the error.
AfterError(c, error) == IF attempt[c] < MaxAttempts THEN "sleep" ELSE error

\* if (this.nc?.isClosed()) this.nc = null
DropDead == nc' = IF nc = "dead" THEN "null" ELSE nc

TooLarge == IF "large" \in weather THEN Oversized ELSE {}

Published(c) == [call |-> c, attempt |-> attempt[c], token |-> held'[c],
                 id |-> RequestId(c)]

-----------------------------------------------------------------------------
(* A call of request(). *)

Request(c) ==
    /\ pc[c] = "idle"
    /\ pc' = [pc EXCEPT ![c] = "start"]
    /\ UNCHANGED <<envVars, tokenVars, authVars, connVars, closeVars, attempt, held,
                   reply>>

\* resolveAuthToken with a token in the cache, then the envelope, its size and
\* the connection.
AttemptCached(c) ==
    /\ pc[c] = "start" /\ token # "none" /\ ~aged
    /\ held' = [held EXCEPT ![c] = token]
    /\ IF c \in TooLarge
       THEN /\ pc' = [pc EXCEPT ![c] = "tooLarge"]
            /\ UNCHANGED <<connecting, wire>>
       ELSE /\ pc' = [pc EXCEPT ![c] = Connected]
            /\ Joined(Connected)
            /\ wire' = IF Connected = "sent" THEN wire \union {Published(c)} ELSE wire
    /\ UNCHANGED <<tokenVars, authVars, closeVars, attempt, reply, nc, applied,
                   epoch, weather, faults>>

\* resolveAuthToken without one: join the refresh, or begin it.
AttemptAuth(c) ==
    /\ pc[c] = "start" /\ (token = "none" \/ aged)
    /\ pc' = [pc EXCEPT ![c] = "auth"]
    /\ auth' = IF auth = "none" THEN "start" ELSE auth
    /\ authAttempt' = IF auth = "none" THEN 1 ELSE authAttempt
    /\ UNCHANGED <<envVars, tokenVars, connVars, closeVars, attempt, held, reply,
                   issued>>

Wake(c) ==
    /\ pc[c] = "sleep"
    /\ pc' = [pc EXCEPT ![c] = "start"]
    /\ attempt' = [attempt EXCEPT ![c] = @ + 1]
    /\ UNCHANGED <<envVars, tokenVars, authVars, connVars, closeVars, held, reply>>

\* requestTimeoutMs passed; the inbox of the attempt is gone.
Awaited(m) == pc[m.call] = "sent" /\ attempt[m.call] = m.attempt /\ nc = "open"
Timeout(c) ==
    /\ pc[c] = "sent"
    /\ \/ "silence" \in weather
       \/ reply[c] = NoReply /\ \A m \in wire : m.call = c => ~Awaited(m)
    /\ pc' = [pc EXCEPT ![c] = AfterError(c, "failed")]
    /\ reply' = [reply EXCEPT ![c] = NoReply]
    /\ DropDead
    /\ Fault
    /\ UNCHANGED <<tokenVars, authVars, closeVars, attempt, held, connecting, wire,
                   applied, epoch, weather>>

\* observeRuntimeEpoch: what a reply of another epoch leaves of the token.
EpochChanged(e) == known # 0 /\ known # e
TokenKept(c) ==
    IF EpochChanged(reply[c].epoch) THEN token' = "none" ELSE token' = token

\* this.authToken = null after auth_token_expired, when an attempt is left.
ClearExpired(c) ==
    IF attempt[c] < MaxAttempts THEN token' = "none" ELSE TokenKept(c)

Answered(c, kind) ==
    /\ pc[c] = "sent" /\ reply[c].kind = kind
    /\ known' = reply[c].epoch
    /\ reply' = [reply EXCEPT ![c] = NoReply]
    /\ UNCHANGED <<envVars, authVars, connVars, closeVars, attempt, held, aged>>

ReplyOk(c) ==
    /\ Answered(c, "ok")
    /\ TokenKept(c)
    /\ pc' = [pc EXCEPT ![c] = "ok"]

ReplyExpired(c) ==
    /\ Answered(c, "expired")
    /\ ClearExpired(c)
    /\ pc' = [pc EXCEPT ![c] = AfterError(c, "refused")]

ReplyBusy(c) ==
    /\ Answered(c, "busy")
    /\ TokenKept(c)
    /\ pc' = [pc EXCEPT ![c] = AfterError(c, "failed")]

ReplyDenied(c) ==
    /\ Answered(c, "denied")
    /\ TokenKept(c)
    /\ pc' = [pc EXCEPT ![c] = "failed"]

-----------------------------------------------------------------------------
(* resolveAuthTokenFresh, one for all the calls that await it. *)

AuthAttempt ==
    /\ auth = "start" /\ ~closed
    /\ auth' = Connected
    /\ Joined(Connected)
    /\ UNCHANGED <<envVars, callVars, tokenVars, closeVars, authAttempt, issued,
                   nc>>

\* Mutant: a failed refresh ends only the call that began it.
AuthEndsAlone(outcome) == auth' = "none" /\ pc' = pc

\* An error that is not retryable, or the last one, ends the calls or their attempt.
AuthEnds(outcome) ==
    /\ auth' = "none"
    /\ pc' = [c \in Calls |-> IF pc[c] = "auth" THEN outcome[c] ELSE pc[c]]

AuthClosed ==
    /\ auth = "start" /\ closed
    /\ AuthEnds([c \in Calls |-> "closed"])
    /\ UNCHANGED <<envVars, tokenVars, connVars, closeVars, attempt, held, reply,
                   authAttempt, issued>>

AuthError ==
    IF authAttempt < MaxAttempts
    THEN auth' = "sleep" /\ pc' = pc
    ELSE AuthEnds([c \in Calls |-> AfterError(c, "failed")])

AuthTimeout ==
    /\ auth \in {"sent", "reply"}
    /\ "silence" \in weather \/ nc # "open"
    /\ AuthError
    /\ DropDead
    /\ issued' = "none"
    /\ Fault
    /\ UNCHANGED <<tokenVars, closeVars, attempt, held, reply, authAttempt,
                   connecting, wire, applied, epoch, weather>>

AuthWake ==
    /\ auth = "sleep"
    /\ auth' = "start"
    /\ authAttempt' = authAttempt + 1
    /\ UNCHANGED <<envVars, callVars, tokenVars, connVars, closeVars, issued>>

\* External: the auth service answers with a token.
AuthServe ==
    /\ auth = "sent"
    /\ auth' = "reply" /\ issued' = "good"
    /\ UNCHANGED <<envVars, callVars, tokenVars, connVars, closeVars, authAttempt>>

\* The token is cached and every call that awaits it goes on with it.
AuthDone ==
    /\ auth = "reply"
    /\ auth' = "none" /\ issued' = "none"
    /\ token' = issued /\ aged' = FALSE
    /\ held' = [c \in Calls |-> IF pc[c] = "auth" THEN issued ELSE held[c]]
    /\ LET waiting == {c \in Calls : pc[c] = "auth"}
           going   == waiting \ TooLarge
       IN /\ pc' = [c \in Calls |-> IF c \in going THEN Connected
                                    ELSE IF c \in waiting THEN "tooLarge" ELSE pc[c]]
          /\ connecting' = (connecting \/ (going # {} /\ Connected = "conn"))
          /\ wire' = IF Connected = "sent"
                     THEN wire \union {Published(c) : c \in going} ELSE wire
    /\ UNCHANGED <<closeVars, attempt, reply, authAttempt, nc, known, applied,
                   epoch, weather, faults>>

\* parsed.ok is false, or there is no token: not retryable.
AuthRefused ==
    /\ auth = "sent" /\ "refusal" \in weather
    /\ AuthEnds([c \in Calls |-> "failed"])
    /\ UNCHANGED <<envVars, tokenVars, connVars, closeVars, attempt, held, reply,
                   authAttempt, issued>>

-----------------------------------------------------------------------------
(* connection() and close(). *)

\* connect() resolved.  A connection that lost the race with close() is drained
\* and every call that awaits it gets the error.
ConnectDone ==
    /\ connecting /\ ~closed
    /\ connecting' = FALSE
    /\ nc' = "open"
    /\ pc' = [c \in Calls |-> IF pc[c] = "conn" THEN "sent" ELSE pc[c]]
    /\ auth' = IF auth = "conn" THEN "sent" ELSE auth
    /\ held' = held
    /\ wire' = wire \union {Published(c) : c \in {d \in Calls : pc[d] = "conn"}}
    /\ UNCHANGED <<tokenVars, closeVars, attempt, reply, authAttempt, issued,
                   applied, epoch, weather, faults>>

ConnectLost ==
    /\ connecting /\ closed
    /\ connecting' = FALSE
    /\ auth' = IF auth = "conn" THEN "none" ELSE auth
    /\ pc' = [c \in Calls |->
                IF pc[c] = "conn" \/ (pc[c] = "auth" /\ auth = "conn")
                THEN "closed" ELSE pc[c]]
    /\ UNCHANGED <<envVars, tokenVars, closeVars, attempt, held, reply, authAttempt,
                   issued, nc>>

\* connect() was refused: the refresh and the calls that await it have an error.
ConnectFails ==
    /\ connecting /\ "connection" \in weather
    /\ connecting' = FALSE
    /\ LET authEnds == auth = "conn" /\ authAttempt = MaxAttempts
       IN /\ auth' = IF auth # "conn" THEN auth ELSE IF authEnds THEN "none" ELSE "sleep"
          /\ pc' = [c \in Calls |-> IF pc[c] = "conn" \/ (pc[c] = "auth" /\ authEnds)
                                    THEN AfterError(c, "failed") ELSE pc[c]]
    /\ DropDead
    /\ Fault
    /\ UNCHANGED <<tokenVars, closeVars, attempt, held, reply, authAttempt, issued,
                   wire, applied, epoch, weather>>

\* External: the connection ends for good; whoever awaits a reply times out.
ConnectionDies ==
    /\ nc = "open" /\ "connection" \in weather
    /\ nc' = "dead"
    /\ Fault
    /\ UNCHANGED <<callVars, tokenVars, authVars, closeVars, connecting, wire,
                   applied, epoch, weather>>

Close ==
    /\ closing = "no" /\ "close" \in weather
    /\ closed' = TRUE
    /\ closing' = "waiting"
    /\ UNCHANGED <<envVars, callVars, tokenVars, authVars, connVars>>

\* connectionPromise settled (or there was none): drop and drain the connection.
ConnectSettled == ~connecting
CloseDrains ==
    /\ closing = "waiting" /\ ConnectSettled
    /\ nc' = "null"
    /\ closing' = "done"
    /\ UNCHANGED <<envVars, callVars, tokenVars, authVars, connecting, closed>>

-----------------------------------------------------------------------------
(* The clock and the Runtime. *)

\* The token comes within AUTH_TOKEN_REFRESH_SAFETY_SECONDS of its expiry.
Age ==
    /\ token # "none" /\ ~aged /\ "age" \in weather
    /\ aged' = TRUE
    /\ UNCHANGED <<envVars, callVars, authVars, connVars, closeVars, token, known>>

Verdicts == {"ok"} \union (IF "busy" \in weather THEN {"busy"} ELSE {})
                   \union (IF "refusal" \in weather THEN {"denied"} ELSE {})

\* The Runtime serves a request, whether its sender still waits or not.
Serve(m) ==
    /\ m \in wire
    /\ wire' = wire \ {m}
    /\ \E kind \in IF m.token = "good" THEN Verdicts ELSE {"expired"} :
         /\ applied' = IF kind = "ok"
                       THEN [applied EXCEPT ![KeyOf[m.call]] = @ \union {m.id}]
                       ELSE applied
         /\ reply' = IF Awaited(m)
                     THEN [reply EXCEPT ![m.call] = [kind |-> kind, epoch |-> epoch]]
                     ELSE reply
         /\ IF kind = "busy" THEN Fault ELSE UNCHANGED faults
    /\ UNCHANGED <<tokenVars, authVars, connVars, closeVars, pc, attempt, held,
                   epoch, weather>>

Spoiled(t) == IF t = "good" THEN "bad" ELSE t

Restart ==
    /\ epoch <= MaxRestarts /\ "restart" \in weather
    /\ epoch' = epoch + 1
    /\ token' = Spoiled(token)
    /\ issued' = Spoiled(issued)
    /\ held' = [c \in Calls |-> Spoiled(held[c])]
    /\ wire' = {[m EXCEPT !.token = Spoiled(@)] : m \in wire}
    /\ Fault
    /\ UNCHANGED <<connVars, closeVars, pc, attempt, reply, aged, auth, authAttempt,
                   known, applied, weather>>

-----------------------------------------------------------------------------
CallStep(c) ==
    \/ AttemptCached(c) \/ AttemptAuth(c) \/ Wake(c) \/ Timeout(c)
    \/ ReplyOk(c) \/ ReplyExpired(c) \/ ReplyBusy(c) \/ ReplyDenied(c)

AuthStep ==
    AuthAttempt \/ AuthClosed \/ AuthTimeout \/ AuthWake \/ AuthDone \/ AuthRefused

ConnectionStep == ConnectDone \/ ConnectLost \/ ConnectFails

Next ==
    \/ \E c \in Calls : Request(c) \/ CallStep(c)
    \/ AuthStep \/ AuthServe
    \/ ConnectionStep \/ ConnectionDies
    \/ Close \/ CloseDrains
    \/ Age \/ Restart
    \/ \E m \in wire : Serve(m)

\* Continuations, timers and the timeouts of connect() and of requests run; the
\* Runtime is only relied on where no request is lost.
RuntimeAnswers == "silence" \notin weather /\ (AuthServe \/ \E m \in wire : Serve(m))
Fairness ==
    /\ WF_vars(RuntimeAnswers)
    /\ \A c \in Calls : WF_vars(CallStep(c))
    /\ WF_vars(AuthStep) /\ WF_vars(ConnectionStep) /\ WF_vars(CloseDrains)

Spec == Init /\ [][Next]_vars /\ Fairness

-----------------------------------------------------------------------------
(* Every call, the shared refresh and close() are in a state of the code, and *)
(* a call has made at most MaxAttempts attempts.                              *)
TypeOK ==
    /\ pc \in [Calls -> CallStates]
    /\ attempt \in [Calls -> 1..MaxAttempts]
    /\ held \in [Calls -> Tokens] /\ token \in Tokens /\ issued \in Tokens
    /\ aged \in BOOLEAN /\ connecting \in BOOLEAN /\ closed \in BOOLEAN
    /\ auth \in AuthStates /\ authAttempt \in 1..MaxAttempts
    /\ nc \in {"null", "open", "dead"} /\ closing \in {"no", "waiting", "done"}
    /\ epoch \in 1..(MaxRestarts + 1) /\ known \in 0..epoch /\ faults \in 0..2
    /\ \A c \in Calls : reply[c] = NoReply \/ reply[c].kind \in ReplyKinds

(* However often a request is retried after a timeout, served late, or asked *)
(* again by another call with its idempotency key, the Runtime applies it    *)
(* under one request id, so it takes effect once (nats-control.ts:454).      *)
OneEffectPerKey == \A k \in Keys : Cardinality(applied[k]) <= 1

(* One fault alone never makes a call fail with auth_token_expired, although *)
(* all calls share a cached token and a refresh that may hand out a token of *)
(* before the Runtime's restart: three attempts are just enough.             *)
RefusedTakesTwoFaults == (\E c \in Calls : pc[c] = "refused") => faults = 2

(* When close() has finished, no connection is open and none is being made,  *)
(* whichever of close() and connect() came first (nats-control.ts:658).      *)
ClosedForGood == closing = "done" => nc # "open" /\ ~connecting

(* Again and again: every call of request() has ended, with close(), without *)
(* any reply, and when it waited for a refresh or a connect of another one.  *)
CallsEnded == \A c \in Calls : pc[c] \in Ended \union {"idle"}

=============================================================================
