----------------------------- MODULE WebRequests -----------------------------
(***************************************************************************)
(* Control-plane calls of the Web SDK: HttpTransport.request of            *)
(* core/transport/http.ts, run by withRetry of core/retry/index.ts, with   *)
(* the tokens of CachingTokenProvider (core/auth/provider.ts, token.ts).   *)
(*                                                                         *)
(* Calls run concurrently and share one cached token and one mint.  The    *)
(* mint is made with the AbortSignal of the call that started it.  A       *)
(* response comes in two parts, its head, which the deadline and the       *)
(* signal cover, and its body, which they do not: dispose() runs as soon   *)
(* as fetch resolves.                                                      *)
(*                                                                         *)
(* External: the token endpoint, the control plane, which may revoke every *)
(* token issued so far, and the network.                                   *)
(***************************************************************************)
EXTENDS Naturals

CONSTANTS
    Calls,          \* calls of request()
    MaxAttempts,    \* maxAttempts of the transport
    MaxTroubles     \* bound: faults, aborts, revocations and expiries of one behaviour

VARIABLES
    pc,         \* where each call stands
    attempt,    \* failed attempts of it
    reminted,   \* retriedAfterAuthFailure
    held,       \* the mint it awaits, or the token it was sent with
    reply,      \* the status of the response whose body it reads
    token,      \* #token: its number, 0 when there is none
    age,        \* #token against now: see Ages
    inFlight,   \* #inFlight: the number of the mint, 0 when there is none
    minting,    \* external: mints at the token endpoint, with the caller's signal
    minted,     \* mints begun so far
    aborted,    \* calls whose signal fired
    revoked,    \* external: every token up to this number is refused
    sends,      \* history: [call |-> requests that left]
    troubles,
    rejected    \* history: the token of each call's first 401

callVars == <<pc, attempt, reminted, held, reply>>
authVars == <<token, age, inFlight, minting, minted>>
envVars == <<aborted, revoked, sends, troubles, rejected>>
vars == <<callVars, authVars, envVars>>

-----------------------------------------------------------------------------
\* isTokenStale and isTokenUsable: due for a refresh at 75% of its life, not
\* usable within 5 seconds of its expiry.
Ages == {"fresh", "stale", "unusable"}
Usable(a) == a \in {"fresh", "stale"}

Ended == {"ok", "garbled", "broken", "refused", "unauthorized", "exhausted", "aborted"}
Replies == {"none", "ok", "unauthorized", "busy", "denied"}

Init ==
    /\ pc = [c \in Calls |-> "idle"]
    /\ attempt = [c \in Calls |-> 0]
    /\ reminted = [c \in Calls |-> FALSE]
    /\ held = [c \in Calls |-> 0]
    /\ reply = [c \in Calls |-> "none"]
    /\ token = 0 /\ age = "fresh" /\ inFlight = 0 /\ minting = {} /\ minted = 0
    /\ aborted = {} /\ revoked = 0 /\ troubles = 0
    /\ sends = [c \in Calls |-> 0] /\ rejected = [c \in Calls |-> 0]

Trouble == troubles < MaxTroubles /\ troubles' = troubles + 1

-----------------------------------------------------------------------------
(* CachingTokenProvider *)

\* The fetch of an attempt; withDeadline on a signal that fired rejects it.
Sent(c) == IF c \in aborted THEN "aborted" ELSE "sent"

\* The requests that leave in a step that sets pc.
Counted ==
    sends' = [c \in Calls |->
                IF pc'[c] = "sent" /\ pc[c] # "sent" THEN sends[c] + 1 ELSE sends[c]]

\* Mutant: a cached token is returned whatever its age.
CachedAnyAge(cached, life) == cached # 0

\* The token getToken returns at once.
Cached(cached, life) ==
    cached # 0 /\ (life = "fresh" \/ (inFlight # 0 /\ life = "stale"))

\* getToken with the cache as it is: a token, the mint in flight or a mint begun
\* with this call's signal.
GetToken(c, cached, flight) ==
    IF Cached(cached, age)
    THEN /\ pc' = [pc EXCEPT ![c] = Sent(c)]
         /\ held' = [held EXCEPT ![c] = cached]
         /\ UNCHANGED <<minting, minted>> /\ inFlight' = flight
    ELSE /\ pc' = [pc EXCEPT ![c] = "token"]
         /\ IF flight # 0
            THEN held' = [held EXCEPT ![c] = flight]
                 /\ inFlight' = flight /\ UNCHANGED <<minting, minted>>
            ELSE /\ held' = [held EXCEPT ![c] = minted + 1]
                 /\ inFlight' = minted + 1 /\ minted' = minted + 1
                 /\ minting' = minting \union {[id |-> minted + 1, owner |-> c]}

\* Mutant: the mint in flight is forgotten as well.
InvalidateAll == [token |-> 0, inFlight |-> 0]

\* invalidate() forgets the token and keeps the mint in flight.
Invalidate == [token |-> 0, inFlight |-> inFlight]

\* The catch of withRetry: the next attempt after a delay, or the error.  delay
\* rejects at once on a signal that fired.
Caught(c, retryable, error, fired) ==
    IF ~retryable THEN error
    ELSE IF attempt[c] + 1 >= MaxAttempts THEN "exhausted"
    ELSE IF c \in fired THEN "aborted"
    ELSE "backoff"

Fails(c, retryable, error) ==
    /\ pc' = [pc EXCEPT ![c] = Caught(c, retryable, error, aborted)]
    /\ attempt' = [attempt EXCEPT ![c] = @ + 1]
    /\ reply' = [reply EXCEPT ![c] = "none"]

Waiting(mint) == {c \in Calls : pc[c] = "token" /\ held[c] = mint.id}

\* #refresh resolves: every caller of getToken goes on with the token.
MintServed(mint) ==
    /\ mint \in minting
    /\ minting' = minting \ {mint} /\ inFlight' = 0
    /\ token' = mint.id /\ age' = "fresh"
    /\ pc' = [c \in Calls |-> IF c \in Waiting(mint) THEN Sent(c) ELSE pc[c]]
    /\ Counted
    /\ UNCHANGED <<aborted, revoked, troubles, rejected, attempt, reminted, held, reply, minted>>

\* #refresh rejects, for every caller.
RefreshRejects(mint, retryable, fired) ==
    /\ minting' = minting \ {mint} /\ inFlight' = 0
    /\ pc' = [c \in Calls |->
                IF c \in Waiting(mint) THEN Caught(c, retryable, "refused", fired) ELSE pc[c]]
    /\ attempt' = [c \in Calls |-> IF c \in Waiting(mint) THEN attempt[c] + 1 ELSE attempt[c]]

\* The endpoint is unreachable or answers 5xx or 429 (retryable), or it refuses,
\* gives no token or an expired one (not retryable).
MintFails(mint, retryable) ==
    /\ mint \in minting
    /\ RefreshRejects(mint, retryable, aborted)
    /\ Trouble
    /\ UNCHANGED <<reminted, held, reply, token, age, minted, aborted, revoked, sends, rejected>>

\* now passes 75% of the token's life, or comes within 5 seconds of its end.
Age(next) ==
    /\ token # 0
    /\ \/ age = "fresh" /\ next \in {"stale", "unusable"}
       \/ age = "stale" /\ next = "unusable"
    /\ age' = next
    /\ Trouble
    /\ UNCHANGED <<callVars, token, inFlight, minting, minted, aborted, revoked, sends, rejected>>

-----------------------------------------------------------------------------
(* HttpTransport.request and withRetry *)

\* The head of withRetry's loop and the beginning of execute.
Attempt(c) ==
    /\ pc[c] \in {"idle", "backoff"}
    /\ IF c \in aborted
       THEN pc' = [pc EXCEPT ![c] = "aborted"] /\ UNCHANGED <<held, inFlight, minting, minted>>
       ELSE GetToken(c, token, inFlight)
    /\ Counted
    /\ UNCHANGED <<aborted, revoked, troubles, rejected, attempt, reminted, reply, token, age>>

\* The control plane serves the request and its response begins to arrive; it
\* answers 401 to a token it does not take.
Serve(c, status) ==
    /\ pc[c] = "sent"
    /\ (held[c] <= revoked) <=> (status = "unauthorized")
    /\ pc' = [pc EXCEPT ![c] = "body"]
    /\ reply' = [reply EXCEPT ![c] = status]
    /\ UNCHANGED <<authVars, envVars, attempt, reminted, held>>

\* fetch rejects or its response is lost, or the deadline wins the race: each is
\* retryable.
FetchFails(c) ==
    /\ pc[c] = "sent"
    /\ Fails(c, TRUE, "exhausted")
    /\ UNCHANGED <<envVars, authVars, reminted, held>>

Deadline(c) == FetchFails(c)

\* The response of a call, its body read: a result, a retryable or a final error.
BodyRead(c) ==
    /\ pc[c] = "body" /\ reply[c] \in {"ok", "busy", "denied"}
    /\ \/ /\ reply[c] = "ok"
          /\ pc' \in {[pc EXCEPT ![c] = "ok"], [pc EXCEPT ![c] = "garbled"]}
          /\ reply' = [reply EXCEPT ![c] = "none"] /\ UNCHANGED attempt
       \/ reply[c] = "busy" /\ Fails(c, TRUE, "exhausted")
       \/ reply[c] = "denied" /\ Fails(c, FALSE, "refused")
    /\ UNCHANGED <<envVars, authVars, reminted, held>>

\* response.text() rejects with an error that is no BeamError: no retry.
BodyBreaks(c) ==
    /\ pc[c] = "body" /\ reply[c] = "ok"
    /\ pc' = [pc EXCEPT ![c] = "broken"]
    /\ reply' = [reply EXCEPT ![c] = "none"]
    /\ UNCHANGED <<envVars, authVars, attempt, reminted, held>>

\* A 401: one new token for the call, whatever token the cache holds by now, and
\* the attempt is executed again.
BodyUnauthorized(c) ==
    /\ pc[c] = "body" /\ reply[c] = "unauthorized"
    /\ IF reminted[c]
       THEN /\ Fails(c, FALSE, "unauthorized")
            /\ UNCHANGED <<authVars, reminted, held, rejected, sends>>
       ELSE /\ reminted' = [reminted EXCEPT ![c] = TRUE]
            /\ rejected' = [rejected EXCEPT ![c] = held[c]]
            /\ token' = Invalidate.token
            /\ GetToken(c, Invalidate.token, Invalidate.inFlight)
            /\ reply' = [reply EXCEPT ![c] = "none"]
            /\ Counted
            /\ UNCHANGED <<attempt, age>>
    /\ UNCHANGED <<aborted, revoked, troubles>>

\* The caller's signal fires.  It ends the fetch and the delay of its call; it does
\* not reach the body of a response or the mint of another call.
Abort(c) ==
    /\ c \notin aborted /\ pc[c] \notin Ended
    /\ aborted' = aborted \union {c}
    /\ pc' = IF pc[c] \in {"sent", "backoff"} THEN [pc EXCEPT ![c] = "aborted"] ELSE pc
    /\ Trouble
    /\ UNCHANGED <<authVars, attempt, reminted, held, reply, revoked, sends, rejected>>

\* It ends the mint that the call owns: requestToken makes a retryable network error
\* of an abort of its fetch, a final one of an abort in the response's body, and the
\* function of callbackMinter rejects with what it likes, or goes on (Abort).
AbortMint(mint, retryable) ==
    /\ mint \in minting /\ mint.owner \notin aborted
    /\ aborted' = aborted \union {mint.owner}
    /\ RefreshRejects(mint, retryable, aborted')
    /\ Trouble
    /\ UNCHANGED <<reminted, held, reply, token, age, minted, revoked, sends, rejected>>

\* invalidateToken() of the client.
InvalidateToken ==
    /\ token # 0
    /\ token' = Invalidate.token /\ inFlight' = Invalidate.inFlight
    /\ Trouble
    /\ UNCHANGED <<callVars, age, minting, minted, aborted, revoked, sends, rejected>>

\* The control plane stops taking the tokens issued so far.
Revoke ==
    /\ revoked < minted
    /\ revoked' = minted
    /\ Trouble
    /\ UNCHANGED <<callVars, authVars, aborted, sends, rejected>>

Next ==
    \/ \E c \in Calls :
          \/ Attempt(c) \/ \E status \in Replies \ {"none"} : Serve(c, status)
          \/ Deadline(c) \/ BodyRead(c) \/ BodyBreaks(c) \/ BodyUnauthorized(c) \/ Abort(c)
    \/ \E mint \in minting :
          \/ MintServed(mint)
          \/ \E retryable \in BOOLEAN : MintFails(mint, retryable) \/ AbortMint(mint, retryable)
    \/ \E next \in Ages : Age(next)
    \/ InvalidateToken
    \/ Revoke

\* The timers of the SDK: the deadline of a fetch and the delay before a retry.
Timers(c) == Deadline(c) \/ (pc[c] = "backoff" /\ Attempt(c))

Spec == Init /\ [][Next]_vars /\ \A c \in Calls : WF_vars(Timers(c))

-----------------------------------------------------------------------------
\* Types, and attempts below the limit while a call runs.
TypeOK ==
    /\ pc \in [Calls -> {"idle", "token", "sent", "body", "backoff"} \union Ended]
    /\ \A c \in Calls : attempt[c] \in 0 .. MaxAttempts /\ (attempt[c] = MaxAttempts => pc[c] \in Ended)
    /\ reminted \in [Calls -> BOOLEAN]
    /\ held \in [Calls -> 0 .. minted]
    /\ reply \in [Calls -> Replies]
    /\ token \in 0 .. minted /\ age \in Ages /\ inFlight \in 0 .. minted
    /\ \A mint \in minting : mint.id \in 1 .. minted /\ mint.owner \in Calls
    /\ aborted \subseteq Calls /\ revoked \in 0 .. minted
    /\ rejected \in [Calls -> 0 .. minted] /\ troubles \in 0 .. MaxTroubles

\* Whatever mixture of failures, 401s, aborts and mints of other calls it meets, a
\* call sends at most MaxAttempts requests, and one more after a 401: the re-mint of
\* execute is not counted as an attempt, and its flag is of the call, not of the
\* attempt (http.ts: "One re-mint on 401").
RequestsBounded ==
    \A c \in Calls : sends[c] <= MaxAttempts + (IF reminted[c] THEN 1 ELSE 0)

\* provider.ts: "never letting two refreshes run at once", whatever invalidate()
\* and the other calls do meanwhile.
OneMintAtATime == \A mint, other \in minting : mint = other

\* A call that ends with a 401 was refused with two different tokens: its new
\* token is never the one that was just rejected.
UnauthorizedTakesTwoTokens ==
    \A c \in Calls : pc[c] = "unauthorized" => rejected[c] \notin {0, held[c]}

\* A call is aborted only by its own signal, although the mint it awaits may be
\* ended by the signal of another.
AbortedByItsOwn == \A c \in Calls : pc[c] = "aborted" => c \in aborted

\* No request leaves with a token that is about to expire.
SentWithUsableToken ==
    \A c \in Calls : pc[c] # "sent" /\ pc'[c] = "sent" => held'[c] = token' /\ Usable(age')

\* From some time on: every call that is not waiting for a mint or for a body,
\* which no deadline covers, has ended.
HeldByPeersOnly == \A c \in Calls : pc[c] \in Ended \union {"idle", "token", "body"}
=============================================================================
