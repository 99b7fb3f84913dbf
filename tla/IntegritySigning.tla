--------------------------- MODULE IntegritySigning ---------------------------
(***************************************************************************)
(* The signers that one client of src/sdks/typescript/src/client.ts keeps  *)
(* for a transfer: startProviderRouteRecoverySigner, stopRecoverySigner,   *)
(* and the grants of integrity audits, which the Transfer Runtime asks for *)
(* over NATS (serveIntegritySigner) and in status replies                  *)
(* (submitIntegrityAuditGrantsIfPresent).                                  *)
(*                                                                         *)
(* Several owners, that is calls of createTransfer or                      *)
(* resumeProviderTransfer for the same transfer, may start their signers   *)
(* at the same time.  A signing is a job: the promise in the grant cache.  *)
(***************************************************************************)
EXTENDS Naturals, FiniteSets

CONSTANTS
    Owners, Audits,
    Challenges,     \* pairs: the audit and the fingerprint of the challenge
    Callers,        \* calls of transferStatus whose reply holds a challenge
    Requests,       \* messages on the integrity_sign subject
    MaxGrants,      \* 1024 entries in integrityGrantCache
    MaxAwaiting,    \* 32 requests awaiting one subscription
    MaxJobs,        \* bound: signings
    Crowds,         \* bound: who asks in one behaviour: [caller or request |-> its challenge]
    MaxTroubles,    \* bound: failures, aborts, stops, grants that grow old
    None

VARIABLES
    pc,             \* where each owner's startProviderRouteRecoverySigner stands
    recovery,       \* owners whose route_recovery_sign subscription is active
    integrity,      \* owners whose integrity_sign subscription is active
    registered,     \* recoverySigners: the owner of the registration
    covers,         \* its stop() ends the integrity subscription too
    signer,         \* integrityAuditSigners: the owner whose configuration signs
    aborted,        \* owners whose signal is aborted
    job,            \* [job |-> challenge, owner that signs, state]
    cache,          \* integrityGrantCache: [audit |-> job], 0 if there is none
    submission,     \* integrityAuditSubmissions: [audit |-> job], 0 if there is none
    sending,        \* jobs whose grants are on their way: [job |-> how many requests]
    published,      \* external: jobs whose grants the Runtime accepted
    caller, request, pending, troubles

subscriptionVars == <<recovery, integrity, registered, covers, signer>>
grantVars == <<job, cache, submission, sending>>
vars == <<pc, subscriptionVars, aborted, grantVars, published, caller, request, pending, troubles>>

Jobs == 1..MaxJobs
Audit(ch) == ch[1]
NoChallenge == <<None, 0>>
NoJob == [challenge |-> NoChallenge, by |-> None, state |-> "none"]
Idle == [state |-> "idle", challenge |-> NoChallenge, job |-> 0, at |-> None]
Asks(x, crowd) ==
    IF x \in DOMAIN crowd THEN [Idle EXCEPT !.challenge = crowd[x]] ELSE [Idle EXCEPT !.state = "absent"]

Init ==
    /\ pc = [o \in Owners |-> "idle"] /\ aborted = {}
    /\ recovery = {} /\ integrity = {} /\ registered = None /\ covers = FALSE /\ signer = None
    /\ job = [i \in Jobs |-> NoJob]
    /\ cache = [a \in Audits |-> 0] /\ submission = [a \in Audits |-> 0]
    /\ sending = [i \in Jobs |-> 0] /\ published = {}
    /\ \E crowd \in Crowds :
          /\ caller = [c \in Callers |-> Asks(c, crowd)]
          /\ request = [r \in Requests |-> Asks(r, crowd)]
    /\ pending = [o \in Owners |-> 0]
    /\ troubles = 0

At(o, state) == pc' = [pc EXCEPT ![o] = state]
Trouble == troubles < MaxTroubles /\ troubles' = troubles + 1

-----------------------------------------------------------------------------
(* Installing and stopping a transfer's signers. *)

\* Mutant: the grants of a stopped signer stay cached.
KeepGrants == UNCHANGED <<cache, submission>>

\* stopRecoverySigner; the cache holds only grants of this transfer.
DropGrants ==
    /\ cache' = [a \in Audits |-> 0]
    /\ submission' = [a \in Audits |-> IF cache[a] # 0 THEN 0 ELSE submission[a]]

\* What is registered stops; `o' is registered in its place.
Replace(o, recoveries, integrities) ==
    /\ recovery' = (recovery \ {registered}) \union recoveries
    /\ integrity' = (IF covers THEN integrity \ {registered} ELSE integrity) \union integrities
    /\ registered' = o /\ covers' = FALSE /\ signer' = o
    /\ DropGrants

StopSigner == Replace(None, {}, {})

\* stopRecoverySigner(transferId, owner)
StopOwned(o) ==
    IF registered = o THEN StopSigner ELSE UNCHANGED <<subscriptionVars, cache, submission>>

\* The old signers stop, and the subscription for route recovery opens.
Start(o) ==
    /\ pc[o] = "idle" /\ o \notin aborted
    /\ At(o, "subscribing")
    /\ Replace(None, {o}, {})
    /\ UNCHANGED <<aborted, job, sending, published, caller, request, pending, troubles>>

\* It is flushed: whoever registered meanwhile is replaced.
Subscribed(o) ==
    /\ pc[o] = "subscribing"
    /\ IF o \in aborted
       THEN /\ recovery' = recovery \ {o} /\ At(o, "over")
            /\ UNCHANGED <<integrity, registered, covers, signer, cache, submission>>
       ELSE Replace(o, {o}, {o}) /\ At(o, "attaching")
    /\ UNCHANGED <<aborted, job, sending, published, caller, request, pending, troubles>>

\* There is no connection, or the flush rejects: the call fails with what it has opened.
SubscribeFails(o) ==
    /\ pc[o] = "subscribing" /\ Trouble
    /\ At(o, "failed")
    /\ recovery' \in {recovery, recovery \ {o}}
    /\ UNCHANGED <<integrity, registered, covers, signer, aborted, grantVars, published,
                   caller, request, pending>>

\* The integrity subscription is flushed.
Replaced(o) == registered # o

Attached(o) ==
    /\ pc[o] = "attaching"
    /\ IF o \in aborted \/ Replaced(o)
       THEN /\ recovery' = recovery \ {o} /\ integrity' = integrity \ {o}
            /\ UNCHANGED covers
       ELSE /\ covers' = TRUE
            /\ UNCHANGED <<recovery, integrity>>
    /\ At(o, "running")
    /\ UNCHANGED <<registered, signer, aborted, grantVars, published, caller, request, pending, troubles>>

\* It could not be had: route recovery is served without it.  When it is the flush that
\* rejects, the subscription is open and nobody has its stop().
AttachFails(o) ==
    /\ pc[o] = "attaching" /\ Trouble
    /\ \/ At(o, "running") /\ integrity' = integrity \ {o}
       \/ At(o, "half") /\ UNCHANGED integrity
    /\ IF o \in aborted /\ registered = o
       THEN /\ recovery' = recovery \ {o} /\ registered' = None /\ signer' = None
            /\ DropGrants
       ELSE UNCHANGED <<recovery, registered, signer, cache, submission>>
    /\ UNCHANGED <<covers, aborted, job, sending, published, caller, request, pending>>

\* The ownership signal; stopOwnedRecovery listens once the signers are installed.
Abort(o) ==
    /\ o \notin aborted /\ pc[o] # "over" /\ Trouble
    /\ aborted' = aborted \union {o}
    /\ IF pc[o] \in {"running", "half"} THEN StopOwned(o)
       ELSE UNCHANGED <<subscriptionVars, cache, submission>>
    /\ UNCHANGED <<pc, job, sending, published, caller, request, pending>>

\* cancelTransfer, close, a terminal status.
Stop ==
    /\ Trouble
    /\ StopSigner
    /\ UNCHANGED <<pc, aborted, job, sending, published, caller, request, pending>>

-----------------------------------------------------------------------------
(* signedIntegrityGrants: the grants of one challenge, shared and cached. *)

Entry(ch) == job[cache[Audit(ch)]]
Cached(ch) == cache[Audit(ch)] # 0
Changed(ch) == Cached(ch) /\ Entry(ch).challenge # ch

\* A pending signing never expires: expiresAt is Infinity until it settles.
Usable(ch) == Cached(ch) /\ Entry(ch).state \in {"signing", "fresh"}

Full == Cardinality({a \in Audits : cache[a] # 0}) >= MaxGrants
Refused(ch) ==
    \/ Changed(ch)
    \/ ~Usable(ch) /\ ((~Cached(ch) /\ Full) \/ signer = None)

Unused == {i \in Jobs : job[i] = NoJob}
NewJob == CHOOSE i \in Unused : \A k \in Unused : i <= k

\* The job whose payload the caller gets.
Granted(ch) == IF Usable(ch) THEN cache[Audit(ch)] ELSE NewJob
Obtain(ch) ==
    IF Usable(ch) THEN UNCHANGED <<job, cache>>
    ELSE /\ Unused # {}
         /\ job' = [job EXCEPT ![NewJob] = [challenge |-> ch, by |-> signer, state |-> "signing"]]
         /\ cache' = [cache EXCEPT ![Audit(ch)] = NewJob]

-----------------------------------------------------------------------------
(* transferStatus with a challenge. *)

Ends(c, i, how) == caller' = [caller EXCEPT ![c].state = how, ![c].job = i]

\* A submission of the grants that are cached is under way or done.
Submitted(ch) == submission[Audit(ch)] # 0 /\ Usable(ch)

\* Its promise is fulfilled: a submission that fails is taken out of the map.
Fulfilled(i) == sending[i] = 0

SubmitIfPresent(c) ==
    LET ch == caller[c].challenge IN
    /\ caller[c].state = "idle"
    /\ IF signer = None \/ Changed(ch) \/ (~Submitted(ch) /\ Refused(ch))
       THEN /\ Ends(c, 0, "error")
            /\ UNCHANGED grantVars
       ELSE IF Submitted(ch)
       THEN /\ Ends(c, submission[Audit(ch)],
               IF Fulfilled(submission[Audit(ch)]) THEN "done" ELSE "waiting")
            /\ UNCHANGED grantVars
       ELSE /\ Obtain(ch)
            /\ Ends(c, Granted(ch), "waiting")
            /\ submission' = [submission EXCEPT ![Audit(ch)] = Granted(ch)]
            /\ sending' = [sending EXCEPT ![Granted(ch)] = @ + 1]
    /\ UNCHANGED <<pc, subscriptionVars, aborted, published, request, pending, troubles>>

\* Every call that waits for the submission of job i ends.
CallersEnd(i, how) ==
    caller' = [c \in Callers |->
        IF caller[c].state = "waiting" /\ caller[c].job = i THEN [caller[c] EXCEPT !.state = how]
        ELSE caller[c]]
Forget(i) == submission' = [a \in Audits |-> IF submission[a] = i THEN 0 ELSE submission[a]]

\* transfer.integrity_audit_grants, with the idempotency key of the payload.
Submit(i, ok) ==
    /\ sending[i] > 0 /\ job[i].state \in {"fresh", "stale"}
    /\ sending' = [sending EXCEPT ![i] = @ - 1]
    /\ IF ok
       THEN /\ published' = published \union {i}
            /\ CallersEnd(i, "done")
            /\ UNCHANGED <<submission, troubles>>
       ELSE /\ Trouble
            /\ CallersEnd(i, "error")
            /\ Forget(i)
            /\ UNCHANGED published
    /\ UNCHANGED <<pc, subscriptionVars, aborted, job, cache, request, pending>>

-----------------------------------------------------------------------------
(* serveIntegritySigner: the callback of owner o's subscription. *)

Replied(r, o, i, how) == request' = [request EXCEPT ![r].state = how, ![r].job = i, ![r].at = o]
Awaiting(o) == {r \in Requests : request[r].state = "waiting" /\ request[r].at = o}

Conflict(o, ch) == pending[o] # 0 /\ job[pending[o]].challenge # ch

Message(r, o) ==
    LET ch == request[r].challenge IN
    /\ request[r].state = "idle" /\ o \in integrity
    /\ IF Cardinality(Awaiting(o)) >= MaxAwaiting \/ Conflict(o, ch)
       THEN Replied(r, o, 0, "retry") /\ UNCHANGED <<job, cache, submission, pending>>
       ELSE IF pending[o] # 0
       THEN Replied(r, o, pending[o], "waiting") /\ UNCHANGED <<job, cache, submission, pending>>
       ELSE IF o \in aborted \/ Refused(ch)
       THEN Replied(r, o, 0, "retry") /\ UNCHANGED <<job, cache, submission, pending>>
       ELSE IF Usable(ch) /\ Entry(ch).state = "fresh"
       THEN Replied(r, o, Granted(ch), "answered") /\ UNCHANGED <<job, cache, submission, pending>>
       ELSE /\ Obtain(ch)
            /\ Replied(r, o, Granted(ch), "waiting")
            /\ submission' = IF Usable(ch) THEN submission ELSE [submission EXCEPT ![Audit(ch)] = 0]
            /\ pending' = [pending EXCEPT ![o] = Granted(ch)]
    /\ UNCHANGED <<pc, subscriptionVars, aborted, sending, published, caller, troubles>>

\* buildProviderIntegrityAuditGrants settles; a stopped subscription does not respond.
Signed(i, ok) ==
    /\ job[i].state = "signing"
    /\ IF ok THEN UNCHANGED troubles ELSE Trouble
    /\ job' = [job EXCEPT ![i].state = IF ok THEN "fresh" ELSE "failed"]
    /\ pending' = [o \in Owners |-> IF pending[o] = i THEN 0 ELSE pending[o]]
    /\ request' = [r \in Requests |->
          IF request[r].state # "waiting" \/ request[r].job # i THEN request[r]
          ELSE [request[r] EXCEPT !.state =
                  IF ~ok THEN "retry" ELSE IF request[r].at \in integrity THEN "answered" ELSE "dropped"]]
    /\ IF ok
       THEN UNCHANGED <<cache, submission, sending, caller>>
       ELSE /\ cache' = [a \in Audits |-> IF cache[a] = i THEN 0 ELSE cache[a]]
            /\ sending' = [sending EXCEPT ![i] = 0]
            /\ CallersEnd(i, "error")
            /\ Forget(i)
    /\ UNCHANGED <<pc, subscriptionVars, aborted, published>>

\* Less than 30 seconds are left of a grant.
Age(i) ==
    /\ job[i].state = "fresh" /\ Trouble
    /\ job' = [job EXCEPT ![i].state = "stale"]
    /\ UNCHANGED <<pc, subscriptionVars, aborted, cache, submission, sending, published, caller, request, pending>>

-----------------------------------------------------------------------------
Settling == \E i \in Jobs : Signed(i, TRUE) \/ Submit(i, TRUE)

Next ==
    \/ \E o \in Owners : Start(o) \/ Subscribed(o) \/ SubscribeFails(o)
    \/ \E o \in Owners : Attached(o) \/ AttachFails(o) \/ Abort(o)
    \/ Stop
    \/ \E c \in Callers : SubmitIfPresent(c)
    \/ \E r \in Requests, o \in Owners : Message(r, o)
    \/ \E i \in Jobs, ok \in BOOLEAN : Signed(i, ok) \/ Submit(i, ok)
    \/ \E i \in Jobs : Age(i)

\* Signing and submitting settle: storage and the Runtime answer or time out.
Spec == Init /\ [][Next]_vars /\ WF_vars(Settling)

\* What the constants are: an audit's key is part of its challenge, and nobody is None.
Limits ==
    /\ IsFiniteSet(Audits) /\ IsFiniteSet(Requests)
    /\ {MaxGrants, MaxAwaiting, MaxJobs} \subseteq Nat
    /\ None \notin Owners
    /\ \A ch \in Challenges : Audit(ch) \in Audits
    /\ \A crowd \in Crowds : \A x \in DOMAIN crowd : crowd[x] \in Challenges

-----------------------------------------------------------------------------
\* Types; no more entries and no more waiting requests than the limits allow.
TypeOK ==
    /\ pc \in [Owners -> {"idle", "subscribing", "attaching", "running", "half", "failed",
                       "over"}]
    /\ aborted \subseteq Owners /\ recovery \subseteq Owners /\ integrity \subseteq Owners
    /\ registered \in Owners \union {None} /\ signer \in Owners \union {None}
    /\ job \in [Jobs -> [challenge : Challenges \union {NoChallenge}, by : Owners \union {None},
                         state : {"none", "signing", "fresh", "stale", "failed"}]]
    /\ Cardinality({a \in Audits : cache[a] # 0}) <= MaxGrants
    /\ \A o \in Owners : Cardinality(Awaiting(o)) <= MaxAwaiting
    /\ \A c \in Callers : caller[c].state \in {"absent", "idle", "waiting", "done", "error"}
    /\ \A r \in Requests : request[r].state \in {"absent", "idle", "waiting", "answered", "retry", "dropped"}

\* client.ts:1206-1224: of concurrent starts for one transfer only the registered
\* one keeps its subscriptions; a start that was replaced or aborted leaves none
\* behind for good.  One whose flush rejected does (nats-control.ts:340 and 393):
\* nothing but the end of the connection closes it.
NoSubscriptionLeft == \A o \in Owners :
    /\ o \in recovery => pc[o] \in {"subscribing", "failed"} \/ registered = o
    /\ o \in integrity => pc[o] \in {"attaching", "half"} \/ registered = o

\* client.ts:1449-1460: a cached grant was signed by the signer that is installed
\* now; replacing or stopping the owner leaves no grant of the former one.
GrantsOfTheSigner == \A a \in Audits : cache[a] # 0 => job[cache[a]].by = signer

\* client.ts:1360: status calls and NATS requests for one audit share the signing
\* that is under way, and its one submission.
SharedSigning ==
    /\ \A i, k \in Jobs :
          /\ job[i].state = "signing" /\ job[k].state = "signing" /\ job[i].by = job[k].by
          /\ Audit(job[i].challenge) = Audit(job[k].challenge)
          => i = k
    /\ \A i \in Jobs : sending[i] <= 1

\* client.ts:1325-1329, nats-control.ts:330: whoever is given grants, be it by the
\* status call that returns without an error or by a reply, has those of the very
\* challenge asked for, and the status call only once the Runtime accepted them.
OwnGrants ==
    /\ \A c \in Callers : caller[c].state = "done" =>
          caller[c].job \in published /\ job[caller[c].job].challenge = caller[c].challenge
    /\ \A r \in Requests : request[r].state = "answered" =>
          job[request[r].job].challenge = request[r].challenge

\* client.ts:1337, nats-control.ts:332-337: again and again, no status call and no
\* request waits, whoever stops or replaces the signer meanwhile.
NoCallerWaits == \A x \in Callers : caller[x].state # "waiting"
NoRequestWaits == \A r \in Requests : request[r].state # "waiting"

\* README.md:167 of the TypeScript SDK: aborting the ownership signal stops signing.
AbortedSignsNothing == \A o \in Owners : o \in aborted /\ pc[o] \in {"running", "over"} => signer # o
=============================================================================
