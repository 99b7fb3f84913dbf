---------------------------- MODULE MCTypeScriptSdk ----------------------------
(***************************************************************************)
(* The components of sdks/typescript for TLC, side by side: a behaviour is *)
(* one of one component.  The variables of RouteStream rest in its initial *)
(* state when it is not that one, and those of the others are Off.         *)
(***************************************************************************)
EXTENDS RouteStream, TLC

CONSTANTS Off, None

VARIABLES
    part,   \* the component that this behaviour is of
    lifecyclePc, attempt, held, reply, token, aged, auth, authAttempt, issued, nc,
    connecting, lifecycleClosed, closing, lifecycleKnown, wire, applied, epoch, weather,
    lifecycleFaults,
    recoveryClosed, recoveryAborted, recoveryRegistered, lease, disposed, requested,
    handled, epochSeen, loop, fg, recoverySigner, serving, runtimeEpoch, recoveryKnown,
    terminal,
    waitPc, seen, waiter, waitPending, broken, told, waitRegistered, waitClosed, staged,
    upload, commits, status,
    integrityPc, recovery, integrity, integrityRegistered, covers, integritySigner,
    integrityAborted, integrityJob, cache, submission, sending, published, caller,
    request, integrityPending, integrityTroubles,
    stagingPc, target, hub, partSize, stagingPlan, body, read, partBytes, etags,
    hashing, parts, committed, stagingTroubles,
    signingPlan, now, replaced, signingJob, leg, route, delivered, signingTroubles

\* The faults of a behaviour of LifecycleControl.
Weathers == {{"silence", "refusal"}, {"restart", "age"}, {"restart", "busy"},
             {"connection"}, {"close", "refusal"}, {"close", "busy"}, {"large"}}

\* Two challenges of one audit and one of another; who asks for which of them.
A == <<"a1", 1>>
A2 == <<"a1", 2>>
B == <<"a2", 1>>
Crowds == {"c1" :> A @@ "c2" :> A, "c1" :> A @@ "c2" :> A2, "c1" :> A @@ "c2" :> B,
           "c1" :> A @@ "r1" :> A, "r1" :> A @@ "r2" :> A2}

\* Plans of two sources, of one with more chunks than parts, and of three kinds.
Source(size, count, start) == [size |-> size, chunk_count |-> count, global_chunk_start |-> start]
Plans == {<<Source(3, 2, 0), Source(2, 1, 2)>>, <<Source(7, 4, 0)>>,
          <<Source(1, 1, 0), Source(1, 1, 1), Source(2, 1, 2)>>}

\* RouteStream: both destinations take multipart uploads.
MCMultipart == <<TRUE, TRUE>>

Lifecycle == INSTANCE LifecycleControl WITH
    Calls <- {"c1", "c2"}, KeyOf <- [c \in {"c1", "c2"} |-> "k"], Oversized <- {"c2"},
    MaxAttempts <- 3, MaxRestarts <- 1, Weathers <- Weathers, pc <- lifecyclePc,
    closed <- lifecycleClosed, known <- lifecycleKnown, faults <- lifecycleFaults
Recovery == INSTANCE RouteRecovery WITH
    Transfers <- {"t"}, Owners <- {"a"}, TransferOf <- [o \in {"a"} |-> "t"],
    Manual <- {}, Signals <- {"a"}, MaxEpoch <- 3, NoOwner <- None,
    closed <- recoveryClosed, aborted <- recoveryAborted,
    registered <- recoveryRegistered, signer <- recoverySigner, known <- recoveryKnown
Wait == INSTANCE TransferWait WITH
    Waits <- {"w1", "w2"}, Uploads <- 2, pc <- waitPc, pending <- waitPending,
    registered <- waitRegistered, closed <- waitClosed
Integrity == INSTANCE IntegritySigning WITH
    Owners <- {"o1", "o2"}, Audits <- {"a1", "a2"}, Challenges <- {A, A2, B},
    Callers <- {"c1", "c2"}, Requests <- {"r1", "r2"}, Crowds <- Crowds, MaxGrants <- 1,
    MaxAwaiting <- 1, MaxJobs <- 3, MaxTroubles <- 2, None <- None, pc <- integrityPc,
    registered <- integrityRegistered, signer <- integritySigner,
    aborted <- integrityAborted, job <- integrityJob, pending <- integrityPending,
    troubles <- integrityTroubles
Staging == INSTANCE HubStaging WITH
    Targets <- {1, 2}, Size <- 5, Lengths <- {4, 5, 6}, PartSizes <- {2, 3},
    PlanSizes <- 2..5, MaxTroubles <- 1, pc <- stagingPc, plan <- stagingPlan,
    troubles <- stagingTroubles
Signing == INSTANCE RouteSigning WITH
    Plans <- Plans, SourceKind <- <<"s3", "hippius", "huggingface">>,
    DestinationKind <- <<"s3", "huggingface">>, ChunkSize <- 2, MaxPart <- 3,
    PageSize <- 2, ExpiresIn <- 1, HubLife <- 1, Jobs <- {1}, MaxTime <- 2,
    MaxTroubles <- 1, plan <- signingPlan, job <- signingJob,
    troubles <- signingTroubles

\* The assumptions of the theorems about these components hold of these values.
ASSUME LimitsHold ==
    /\ Lifecycle!Limits /\ Integrity!Limits /\ Signing!Limits /\ Staging!Limits
    /\ \A p \in Plans : Signing!LaidOut(p)

lifecycleVars == <<lifecyclePc, attempt, held, reply, token, aged, auth, authAttempt,
    issued, nc, connecting, lifecycleClosed, closing, lifecycleKnown, wire, applied, epoch,
    weather, lifecycleFaults>>
recoveryVars == <<recoveryClosed, recoveryAborted, recoveryRegistered, lease, disposed,
    requested, handled, epochSeen, loop, fg, recoverySigner, serving, runtimeEpoch,
    recoveryKnown, terminal>>
waitVars == <<waitPc, seen, waiter, waitPending, broken, told, waitRegistered,
    waitClosed, staged, upload, commits, status>>
integrityVars == <<integrityPc, recovery, integrity, integrityRegistered, covers,
    integritySigner, integrityAborted, integrityJob, cache, submission, sending, published,
    caller, request, integrityPending, integrityTroubles>>
stagingVars == <<stagingPc, target, hub, partSize, stagingPlan, body, read, partBytes,
    etags, hashing, parts, committed, stagingTroubles>>
signingVars == <<signingPlan, now, replaced, signingJob, leg, route, delivered,
    signingTroubles>>
all == <<part, vars, lifecycleVars, recoveryVars, waitVars, integrityVars,
    stagingVars, signingVars>>

\* The variables of a component that does not run.
lifecycleOff ==
    /\ lifecyclePc = Off /\ attempt = Off /\ held = Off /\ reply = Off /\ token = Off
    /\ aged = Off /\ auth = Off /\ authAttempt = Off /\ issued = Off /\ nc = Off
    /\ connecting = Off /\ lifecycleClosed = Off /\ closing = Off
    /\ lifecycleKnown = Off /\ wire = Off /\ applied = Off /\ epoch = Off
    /\ weather = Off /\ lifecycleFaults = Off
recoveryOff ==
    /\ recoveryClosed = Off /\ recoveryAborted = Off /\ recoveryRegistered = Off
    /\ lease = Off /\ disposed = Off /\ requested = Off /\ handled = Off
    /\ epochSeen = Off /\ loop = Off /\ fg = Off /\ recoverySigner = Off
    /\ serving = Off /\ runtimeEpoch = Off /\ recoveryKnown = Off /\ terminal = Off
waitOff ==
    /\ waitPc = Off /\ seen = Off /\ waiter = Off /\ waitPending = Off /\ broken = Off
    /\ told = Off /\ waitRegistered = Off /\ waitClosed = Off /\ staged = Off
    /\ upload = Off /\ commits = Off /\ status = Off
integrityOff ==
    /\ integrityPc = Off /\ recovery = Off /\ integrity = Off
    /\ integrityRegistered = Off /\ covers = Off /\ integritySigner = Off
    /\ integrityAborted = Off /\ integrityJob = Off /\ cache = Off /\ submission = Off
    /\ sending = Off /\ published = Off /\ caller = Off /\ request = Off
    /\ integrityPending = Off /\ integrityTroubles = Off
stagingOff ==
    /\ stagingPc = Off /\ target = Off /\ hub = Off /\ partSize = Off
    /\ stagingPlan = Off /\ body = Off /\ read = Off /\ partBytes = Off /\ etags = Off
    /\ hashing = Off /\ parts = Off /\ committed = Off /\ stagingTroubles = Off
signingOff ==
    /\ signingPlan = Off /\ now = Off /\ replaced = Off /\ signingJob = Off /\ leg = Off
    /\ route = Off /\ delivered = Off /\ signingTroubles = Off
OthersOff ==
    /\ IF part = "lifecycle" THEN TRUE ELSE lifecycleOff
    /\ IF part = "recovery" THEN TRUE ELSE recoveryOff
    /\ IF part = "wait" THEN TRUE ELSE waitOff
    /\ IF part = "integrity" THEN TRUE ELSE integrityOff
    /\ IF part = "staging" THEN TRUE ELSE stagingOff
    /\ IF part = "signing" THEN TRUE ELSE signingOff
OthersStay ==
    /\ UNCHANGED part
    /\ IF part = "lifecycle" THEN TRUE ELSE UNCHANGED lifecycleVars
    /\ IF part = "recovery" THEN TRUE ELSE UNCHANGED recoveryVars
    /\ IF part = "wait" THEN TRUE ELSE UNCHANGED waitVars
    /\ IF part = "stream" THEN TRUE ELSE UNCHANGED vars
    /\ IF part = "integrity" THEN TRUE ELSE UNCHANGED integrityVars
    /\ IF part = "staging" THEN TRUE ELSE UNCHANGED stagingVars
    /\ IF part = "signing" THEN TRUE ELSE UNCHANGED signingVars

SdkInit ==
    /\ Init
    /\ \/ part = "lifecycle" /\ Lifecycle!Init
       \/ part = "recovery" /\ Recovery!Init
       \/ part = "wait" /\ Wait!Init
       \/ part = "stream"
       \/ part = "integrity" /\ Integrity!Init
       \/ part = "staging" /\ Staging!Init
       \/ part = "signing" /\ Signing!Init
    /\ OthersOff

SdkNext ==
    \/ part = "lifecycle" /\ OthersStay /\ Lifecycle!Next
    \/ part = "recovery" /\ OthersStay /\ Recovery!Next
    \/ part = "wait" /\ OthersStay /\ Wait!Next
    \/ part = "stream" /\ OthersStay /\ Next
    \/ part = "integrity" /\ OthersStay /\ Integrity!Next
    \/ part = "staging" /\ OthersStay /\ Staging!Next
    \/ part = "signing" /\ OthersStay /\ Signing!Next

SdkSpec ==
    /\ SdkInit /\ [][SdkNext]_all
    /\ WF_lifecycleVars(part = "lifecycle" /\ Lifecycle!RuntimeAnswers)
    /\ \A c \in {"c1", "c2"} : WF_lifecycleVars(part = "lifecycle" /\ Lifecycle!CallStep(c))
    /\ WF_lifecycleVars(part = "lifecycle" /\ Lifecycle!AuthStep)
    /\ WF_lifecycleVars(part = "lifecycle" /\ Lifecycle!ConnectionStep)
    /\ WF_lifecycleVars(part = "lifecycle" /\ Lifecycle!CloseDrains)
    /\ WF_recoveryVars(part = "recovery" /\ Recovery!LoopStep("a"))
    /\ WF_recoveryVars(part = "recovery" /\ Recovery!ForegroundStep("a"))
    /\ SF_recoveryVars(part = "recovery" /\ Recovery!ResumeServed("a"))
    /\ WF_recoveryVars(part = "recovery" /\ Recovery!ReplyObserved(runtimeEpoch))
    /\ \A w \in {"w1", "w2"} : WF_waitVars(part = "wait" /\ Wait!WaitStep(w))
    /\ WF_vars(part = "stream" /\ Step)
    /\ WF_integrityVars(part = "integrity" /\ Integrity!Settling)

-----------------------------------------------------------------------------
\* However often it is retried, a request takes effect under one request id, and one
\* fault alone never makes it fail with auth_token_expired; close() leaves no
\* connection and no wait behind, a wait that ended no subscription, and no Hub upload
\* is committed twice (nats-control.ts, request, connect, close; client.ts,
\* waitForTransfer).
ControlSound ==
    /\ part = "lifecycle" =>
          /\ Lifecycle!TypeOK
          /\ Lifecycle!OneEffectPerKey
          /\ Lifecycle!RefusedTakesTwoFaults
          /\ Lifecycle!ClosedForGood
    /\ part = "wait" =>
          /\ Wait!TypeOK
          /\ Wait!NoWaiterLeft
          /\ Wait!ClosedHasNoWait
          /\ Wait!CommittedOnce

\* Of concurrent starts only the registered one keeps its subscriptions, and one whose
\* flush failed leaves at most the subscription that it had opened; callers and
\* requests for one audit share one signing, by the signer installed now and of the
\* very challenge asked for (client.ts, signedIntegrityGrants).
GrantsSound ==
    /\ part = "integrity" =>
          /\ Integrity!TypeOK
          /\ Integrity!NoSubscriptionLeft
          /\ Integrity!GrantsOfTheSigner
          /\ Integrity!SharedSigning
          /\ Integrity!OwnGrants

\* Every byte has one place: chunks tile their sources, whatever is asked only planned
\* ranges are signed, listings hold each part, and however a body is cut the parts and
\* ETags are those that the Hub issued, so that an untroubled upload commits.  While a
\* route says that it is good both of its URLs are, and an overwritten source is never
\* read in place of the planned object (client.ts, materializePlanChunk;
\* huggingface.ts; provider-signing.ts, boundedGrantExpiry).
RoutesSound ==
    /\ part = "signing" =>
          /\ Signing!PlanTiles
          /\ Signing!SignedInPlace
          /\ Signing!PagesHoldParts
          /\ Signing!HonestExpiry
          /\ Signing!PlannedVersionOnly
    /\ part = "staging" =>
          /\ Staging!EtagsFollowParts
          /\ Staging!PartsAsIssued
          /\ Staging!QuietUploadCommits

\* After a Runtime restart the transfer of a settled call is resumed with the new
\* Runtime unless its lease is given up, and close() ends the background loop, unless
\* the caller's callback holds its call up (nats-control.ts, recoverLease).  Every
\* request() ends, every waitForTransfer once its transfer has ended or the control is
\* closed, every route stream, and no status call and no integrity request waits for
\* ever.
NothingHangs ==
    /\ []<>(part = "recovery" => Recovery!ResumedIfLeased("a"))
    /\ []<>(part = "recovery" => Recovery!IdleIfClosed("a"))
    /\ []<>(part = "lifecycle" => Lifecycle!CallsEnded)
    /\ []<>(part = "wait" => Wait!WaitsEnded)
    /\ <>[](part = "stream" => StreamEnded)
    /\ []<>(part = "integrity" => Integrity!NoCallerWaits)
    /\ []<>(part = "integrity" => Integrity!NoRequestWaits)

=============================================================================
