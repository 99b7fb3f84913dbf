--------------------------- MODULE RouteRecovery ---------------------------
(***************************************************************************)
(* Route recovery in the TypeScript SDK: BeamTransferControl (nats-        *)
(* control.ts) keeps one recovery lease per transfer and runs a background *)
(* loop that sends transfer.resume and replays the transfer's routes when  *)
(* the Runtime's epoch changes or the foreground call hands over; Beam-    *)
(* Client (client.ts) registers the lease, streams the routes in the fore- *)
(* ground, serves the recovery signer and cleans up.                       *)
(*                                                                         *)
(* An owner is one call of prepareProviderTransfer, resumeProviderTransfer *)
(* or attachSignedUrls; its lease object is its identity.  Two owners of   *)
(* one transfer are the situation the code fences: a replacement call made *)
(* while the first is still running.  The transfers of the model live on   *)
(* one shard.  JavaScript runs a callback to its next await without        *)
(* interruption, so an action is the code between two awaits.              *)
(***************************************************************************)
EXTENDS Integers

CONSTANTS
    Transfers,   \* transfer ids, all on one Runtime shard
    Owners,      \* calls that own a transfer's recovery, by lease identity
    TransferOf,  \* the transfer each owner works on
    Manual,      \* the owners that are attachSignedUrls calls
    Signals,     \* the provider calls that were given an ownership signal
    NoOwner,     \* absence of a map entry
    MaxEpoch     \* bound: Runtime epochs 1 .. MaxEpoch

ASSUME OwnerAssumption ==
    /\ NoOwner \notin Owners
    /\ TransferOf \in [Owners -> Transfers]
    /\ Manual \subseteq Owners
    /\ Signals \subseteq Owners \ Manual

ASSUME EpochAssumption == MaxEpoch \in Nat \ {0}

VARIABLES
    closed,       \* BeamTransferControl.closed
    aborted,      \* owners whose ownership signal has aborted
    registered,   \* owners whose lease was ever registered
    lease,        \* recoveryLeases: the owner registered for each transfer
    disposed,     \* owners whose disposeSecrets has run
    requested,    \* recoveryRequestedEpoch
    handled,      \* history: the request the lease's loop last completed
    epochSeen,    \* runtimeEpochs of the shard, 0 when none was observed
    loop,         \* recoveryOperations with each loop's local state
    fg,           \* where each owner's foreground call is
    signer,       \* BeamClient.recoverySigners: the owner of the entry
    serving,      \* owners whose route recovery subscription is active
    runtimeEpoch, \* external: the Runtime's current epoch
    known,        \* external: transfers the current epoch prepared or resumed
    terminal      \* external: transfers the Runtime has ended

controlVars == <<closed, lease, disposed, requested, handled, epochSeen>>
clientVars  == <<aborted, registered, fg, signer, serving>>
runtimeVars == <<runtimeEpoch, known, terminal>>
vars == <<controlVars, clientVars, runtimeVars, loop>>

Epochs == 1..MaxEpoch

\* What recoveryRequestedEpoch holds: nothing (0), an epoch, or the
\* `foreground:<uuid>` token of an owner, which asks at most once.
Requests == {0} \cup Epochs \cup Owners

Recoveries == {"terminal", "route_replay_required", "reconciling"}

LoopStates == [pc    : {"idle", "resume", "lock", "replay", "sleep"},
               epoch : Requests,              \* requestedEpoch read by the round
               reply : Recoveries \cup {"none"},
               at    : {0} \cup Epochs,       \* epoch that wrote the reply
               late  : BOOLEAN]               \* history: absorbed a hand-over

\* Foreground progress.  The initial route-stream lock is held from prepare
\* until the call settles: every state of LockedForeground.
LockedForeground ==
    {"signer", "integrity", "callback", "stream", "cleanup"}
ForegroundStates ==
    LockedForeground \cup {"idle", "prepared", "done", "failed"}

LoopAt(p, e) == [pc |-> p, epoch |-> e, reply |-> "none", at |-> 0, late |-> FALSE]

Idle == LoopAt("idle", 0)

\* A new round of the loop: it reads requestedEpoch and sends transfer.resume.
Round(e) == LoopAt("resume", e)

Init ==
    /\ closed = FALSE
    /\ aborted = {}
    /\ registered = {}
    /\ lease = [t \in Transfers |-> NoOwner]
    /\ disposed = {}
    /\ requested = [t \in Transfers |-> 0]
    /\ handled = [t \in Transfers |-> 0]
    /\ epochSeen = 0
    /\ loop = [o \in Owners |-> Idle]
    /\ fg = [o \in Owners |-> "idle"]
    /\ signer = [t \in Transfers |-> NoOwner]
    /\ serving = {}
    /\ runtimeEpoch = 1
    /\ known = {}
    /\ terminal = {}

-----------------------------------------------------------------------------
(* Lease map and recovery loops: the operations the handlers call.         *)

Owns(o) == ~closed /\ lease[TransferOf[o]] = o

\* recoverLease for the owners in S: an idle loop starts its first round, a
\* running one absorbs the call.
RecoverLease(loops, S, requests) ==
    [o \in Owners |-> IF o \in S /\ loops[o].pc = "idle"
                      THEN Round(requests[TransferOf[o]])
                      ELSE loops[o]]

\* Mutant: the release does not compare the owner.
ReleaseWhoever(t, o) ==
    /\ lease' = [lease EXCEPT ![t] = NoOwner]
    /\ requested' = [requested EXCEPT ![t] = 0]
    /\ handled' = [handled EXCEPT ![t] = 0]
    /\ disposed' = disposed \cup ({lease[t]} \ {NoOwner})

\* releaseRecoveryLease(t, owner): only while that lease is still registered.
ReleaseOwned(t, o) ==
    IF lease[t] = o
    THEN /\ lease' = [lease EXCEPT ![t] = NoOwner]
         /\ requested' = [requested EXCEPT ![t] = 0]
         /\ handled' = [handled EXCEPT ![t] = 0]
         /\ disposed' = disposed \cup {o}
    ELSE UNCHANGED <<lease, requested, handled, disposed>>

\* releaseRecoveryLease(t) without an owner: whoever is registered.
ReleaseAny(t) ==
    IF lease[t] # NoOwner
    THEN ReleaseOwned(t, lease[t])
    ELSE UNCHANGED <<lease, requested, handled, disposed>>

\* The body of continueRecoveryLease; a running loop absorbs the hand-over.
HandOver(o) ==
    /\ requested' = [requested EXCEPT ![TransferOf[o]] =
                         IF epochSeen # 0 THEN epochSeen ELSE o]
    /\ loop' = IF loop[o].pc = "idle"
               THEN RecoverLease(loop, {o}, requested')
               ELSE [loop EXCEPT ![o].late = TRUE]

\* continueRecoveryLease(t, owner).
ContinueRecovery(o) ==
    IF Owns(o) THEN HandOver(o) ELSE UNCHANGED <<requested, loop>>

\* observeRuntimeEpoch: every reply reports the epoch e that wrote it.
EpochChanged(e) == epochSeen # 0 /\ epochSeen # e

\* Mutant: the request is filed under another epoch counter.
RequestedAtTransportEpoch(e) ==
    [t \in Transfers |-> IF EpochChanged(e) /\ lease[t] # NoOwner
                         THEN e + MaxEpoch ELSE requested[t]]

RequestedAt(e) ==
    [t \in Transfers |-> IF EpochChanged(e) /\ lease[t] # NoOwner
                         THEN e ELSE requested[t]]

LoopsAt(e) ==
    IF EpochChanged(e)
    THEN RecoverLease(loop, {lease[t] : t \in Transfers}, RequestedAt(e))
    ELSE loop

\* Mutant: the finally does not start the replacement's loop.
LoopExitForgets(loops, requests, o) == [loops EXCEPT ![o] = Idle]

\* The finally of recoverLease for a loop that found its lease replaced: it is
\* forgotten and the replacement's loop is started.  It runs one microtask after the
\* loop's return; a request for recovery made by another microtask in between is not
\* modelled.
LoopExit(loops, requests, o) ==
    LET ended == [loops EXCEPT ![o] = Idle]
    IN  IF closed THEN ended
        ELSE RecoverLease(ended, {lease[TransferOf[o]]} \ {o}, requests)

\* A round is over: go again when a newer request arrived meanwhile.
RoundOver(loops, requests, o) ==
    LET t == TransferOf[o]
    IN  IF requests[t] # loops[o].epoch
        THEN /\ loop' = [loops EXCEPT ![o] = Round(requests[t])]
             /\ UNCHANGED handled
        ELSE /\ loop' = [loops EXCEPT ![o] = Idle]
             /\ handled' = [handled EXCEPT ![t] = loops[o].epoch]

\* The catch of recoverLease.
LoopError(o, retryable) ==
    \/ /\ ~Owns(o)
       /\ loop' = LoopExit(loop, requested, o)
       /\ UNCHANGED <<lease, requested, handled, disposed>>
    \/ /\ Owns(o) /\ ~retryable
       /\ loop' = [loop EXCEPT ![o] = Idle]
       /\ ReleaseOwned(TransferOf[o], o)
    \/ /\ Owns(o) /\ retryable
       /\ loop' = [loop EXCEPT ![o] = LoopAt("sleep", 0)]
       /\ UNCHANGED <<lease, requested, handled, disposed>>

\* Mutant: a replay does not wait for the foreground stream.
RouteStreamLockIgnored(o) == loop[o].pc # "replay"

\* routeStreamLock: an owner's foreground stream and its replays exclude
\* each other; the foreground takes the lock before the lease exists.
RouteStreamLockFree(o) ==
    fg[o] \notin LockedForeground /\ loop[o].pc # "replay"

-----------------------------------------------------------------------------
(* The recovery loop of an owner (recoverLease).                           *)

\* The Runtime handles transfer.resume and writes its reply.  request() sends
\* the same request again when a reply is lost, so this may repeat.
ResumeServed(o) ==
    /\ loop[o].pc = "resume"
    /\ ~closed
    /\ \E r \in Recoveries :
          /\ (r = "terminal") <=> (TransferOf[o] \in terminal)
          /\ loop' = [loop EXCEPT ![o] = [@ EXCEPT !.reply = r,
                                                 !.at = runtimeEpoch]]
    /\ known' = known \cup {TransferOf[o]}
    /\ UNCHANGED <<controlVars, clientVars, runtimeEpoch, terminal>>

\* transfer.resume fails: no answer, an error status, or a reply that is lost.
ResumeFailed(o) ==
    /\ loop[o].pc = "resume"
    /\ \E retryable \in BOOLEAN : LoopError(o, retryable)
    /\ UNCHANGED <<closed, epochSeen, clientVars, runtimeVars>>

\* The reply reaches request(), which observes its epoch; then the loop decides.
ReplyObservedBy(o) ==
    /\ loop[o].pc = "resume" /\ loop[o].reply # "none"
    /\ epochSeen' = loop[o].at

ReplyFenced(o) ==
    /\ ReplyObservedBy(o) /\ ~Owns(o)
    /\ requested' = RequestedAt(loop[o].at)
    /\ loop' = LoopExit(LoopsAt(loop[o].at), requested', o)
    /\ UNCHANGED <<closed, lease, disposed, handled, clientVars, runtimeVars>>

ReplyTerminal(o) ==
    /\ ReplyObservedBy(o) /\ Owns(o) /\ loop[o].reply = "terminal"
    /\ loop' = [LoopsAt(loop[o].at) EXCEPT ![o] = Idle]
    /\ lease' = [lease EXCEPT ![TransferOf[o]] = NoOwner]
    /\ requested' = [RequestedAt(loop[o].at) EXCEPT ![TransferOf[o]] = 0]
    /\ handled' = [handled EXCEPT ![TransferOf[o]] = 0]
    /\ disposed' = disposed \cup {o}
    /\ UNCHANGED <<closed, clientVars, runtimeVars>>

\* replayRoutes: stream at once when the lock is free, wait for it otherwise.
ReplyReplay(o) ==
    /\ ReplyObservedBy(o) /\ Owns(o)
    /\ loop[o].reply = "route_replay_required"
    /\ requested' = RequestedAt(loop[o].at)
    /\ loop' = [LoopsAt(loop[o].at) EXCEPT ![o] =
                   LoopAt(IF RouteStreamLockFree(o) /\ o \notin aborted
                          THEN "replay" ELSE "lock", loop[o].epoch)]
    /\ UNCHANGED <<closed, lease, disposed, handled, clientVars, runtimeVars>>

ReplyReconciling(o) ==
    /\ ReplyObservedBy(o) /\ Owns(o) /\ loop[o].reply = "reconciling"
    /\ requested' = RequestedAt(loop[o].at)
    /\ RoundOver(LoopsAt(loop[o].at), requested', o)
    /\ UNCHANGED <<closed, lease, disposed, clientVars, runtimeVars>>

\* The lock is handed to the waiting replay, which checks only the signal.
ReplayBegin(o) ==
    /\ loop[o].pc = "lock" /\ RouteStreamLockFree(o)
    /\ o \notin aborted
    /\ loop' = [loop EXCEPT ![o] = LoopAt("replay", loop[o].epoch)]
    /\ UNCHANGED <<controlVars, clientVars, runtimeVars>>

ReplayRefused(o) ==
    /\ loop[o].pc = "lock" /\ RouteStreamLockFree(o)
    /\ o \in aborted
    /\ \E retryable \in BOOLEAN : LoopError(o, retryable)
    /\ UNCHANGED <<closed, epochSeen, clientVars, runtimeVars>>

ReplayDone(o) ==
    /\ loop[o].pc = "replay"
    /\ \/ ~Owns(o) /\ loop' = LoopExit(loop, requested, o) /\ UNCHANGED handled
       \/ Owns(o) /\ RoundOver(loop, requested, o)
    /\ UNCHANGED <<closed, lease, disposed, requested, epochSeen,
                   clientVars, runtimeVars>>

\* stopRecoverySigner(t, owner): only the entry that owner installed.
StopSignerOwned(t, o) ==
    IF signer[t] = o
    THEN /\ signer' = [signer EXCEPT ![t] = NoOwner]
         /\ serving' = serving \ {o}
    ELSE UNCHANGED <<signer, serving>>

\* stopRecoverySigner(t) without an owner: whoever installed the entry.
StopSignerAny(t) ==
    /\ signer' = [signer EXCEPT ![t] = NoOwner]
    /\ serving' = serving \ {signer[t]}

\* The stream throws.  An aborted owner first stops what is still its own,
\* so the catch of recoverLease finds the lease gone.
ReplayFailed(o) ==
    /\ loop[o].pc = "replay"
    /\ \/ /\ o \in aborted
          /\ StopSignerOwned(TransferOf[o], o)
          /\ ReleaseOwned(TransferOf[o], o)
          /\ loop' = LoopExit(loop, requested, o)
       \/ /\ o \notin aborted
          /\ \E retryable \in BOOLEAN : LoopError(o, retryable)
          /\ UNCHANGED <<signer, serving>>
    /\ UNCHANGED <<closed, epochSeen, aborted, registered, fg,
                   runtimeVars>>

\* The back-off sleep ends: another round while the lease is still ours.
Wake(o) ==
    /\ loop[o].pc = "sleep"
    /\ IF Owns(o)
       THEN loop' = [loop EXCEPT ![o] = Round(requested[TransferOf[o]])]
       ELSE loop' = LoopExit(loop, requested, o)
    /\ UNCHANGED <<controlVars, clientVars, runtimeVars>>

LoopStep(o) ==
    \/ ResumeFailed(o)
    \/ ReplyFenced(o) \/ ReplyTerminal(o) \/ ReplyReplay(o)
    \/ ReplyReconciling(o)
    \/ ReplayBegin(o) \/ ReplayRefused(o) \/ ReplayDone(o) \/ ReplayFailed(o)
    \/ Wake(o)

-----------------------------------------------------------------------------
(* The foreground call of an owner (executeProviderTransfer).              *)

\* request(): the epoch of the Runtime that answered is observed.
ObserveRuntime ==
    /\ epochSeen' = runtimeEpoch
    /\ requested' = RequestedAt(runtimeEpoch)
    /\ loop' = LoopsAt(runtimeEpoch)

\* transfer.prepare is answered; the call takes its initial stream lock and
\* startProviderRouteRecoverySigner first stops whatever signer it finds.
Prepare(o) ==
    /\ fg[o] = "idle" /\ o \notin Manual /\ ~closed
    /\ ObserveRuntime
    /\ known' = known \cup {TransferOf[o]}
    /\ StopSignerAny(TransferOf[o])
    /\ fg' = [fg EXCEPT ![o] = "signer"]
    /\ UNCHANGED <<closed, lease, disposed, handled, aborted, registered,
                   runtimeEpoch, terminal>>

PrepareFailed(o) ==
    /\ fg[o] = "idle" /\ o \notin Manual
    /\ fg' = [fg EXCEPT ![o] = "failed"]
    /\ UNCHANGED <<controlVars, aborted, registered, signer, serving,
                   runtimeVars, loop>>

\* Mutant: the previous lease is replaced without disposing its secrets.
RegisterOverwrites(o) ==
    LET t == TransferOf[o]
    IN  IF closed
        THEN /\ fg' = [fg EXCEPT ![o] = "failed"]
             /\ UNCHANGED <<lease, disposed, registered, requested, loop>>
        ELSE /\ lease' = [lease EXCEPT ![t] = o]
             /\ registered' = registered \cup {o}
             /\ fg' = [fg EXCEPT ![o] = "stream"]
             /\ UNCHANGED <<disposed, requested, loop>>

\* registerRecoveryLease, which a closed control refuses, and the ownership
\* check behind it.  A signal that aborted earlier fires no listener any more,
\* so the call fails but leaves its lease to background recovery.
Register(o) ==
    LET t == TransferOf[o]
    IN  IF closed
        THEN /\ fg' = [fg EXCEPT ![o] = "failed"]
             /\ UNCHANGED <<lease, disposed, registered, requested, loop>>
        ELSE /\ lease' = [lease EXCEPT ![t] = o]
             /\ disposed' = disposed \cup ({lease[t]} \ {NoOwner, o})
             /\ registered' = registered \cup {o}
             /\ IF o \in aborted
                THEN HandOver(o) /\ fg' = [fg EXCEPT ![o] = "failed"]
                ELSE /\ fg' = [fg EXCEPT ![o] =
                                  IF o \in Manual THEN "stream" ELSE "callback"]
                     /\ UNCHANGED <<requested, loop>>

\* The route recovery subscription is up: it becomes the transfer's signer,
\* unless the signal aborted meanwhile.
SignerServed(o) ==
    /\ fg[o] = "signer"
    /\ IF o \in aborted
       THEN Register(o) /\ UNCHANGED <<signer, serving>>
       ELSE /\ signer' = [signer EXCEPT ![TransferOf[o]] = o]
            /\ serving' = (serving \ {signer[TransferOf[o]]})
                              \cup (IF closed THEN {} ELSE {o})
            /\ fg' = [fg EXCEPT ![o] = "integrity"]
            /\ UNCHANGED <<lease, disposed, registered, requested, loop>>
    /\ UNCHANGED <<closed, handled, epochSeen, aborted, runtimeVars>>

SignerFailed(o) ==
    /\ fg[o] = "signer"
    /\ fg' = [fg EXCEPT ![o] = "failed"]
    /\ UNCHANGED <<controlVars, aborted, registered, signer, serving,
                   runtimeVars, loop>>

\* The integrity subscription is up: if the signer is no longer ours both
\* subscriptions stop.
IntegrityServed(o) ==
    /\ fg[o] = "integrity"
    /\ IF o \in aborted \/ signer[TransferOf[o]] # o
       THEN serving' = serving \ {o}
       ELSE UNCHANGED serving
    /\ Register(o)
    /\ UNCHANGED <<closed, handled, epochSeen, aborted, signer, runtimeVars>>

\* The optional integrity subscription fails.
IntegrityFailed(o) ==
    /\ fg[o] = "integrity"
    /\ IF o \in aborted
       THEN StopSignerOwned(TransferOf[o], o)
       ELSE UNCHANGED <<signer, serving>>
    /\ Register(o)
    /\ UNCHANGED <<closed, handled, epochSeen, aborted, runtimeVars>>

\* prepareTransfer, the first half of the manual flow.
PrepareManual(o) ==
    /\ fg[o] = "idle" /\ o \in Manual /\ ~closed
    /\ ObserveRuntime
    /\ fg' = [fg EXCEPT ![o] = "prepared"]
    /\ known' = known \cup {TransferOf[o]}
    /\ UNCHANGED <<closed, lease, disposed, handled, aborted, registered,
                   signer, serving, runtimeEpoch, terminal>>

\* attachSignedUrls: no signer and no signal, the lease comes first.
AttachSignedUrls(o) ==
    /\ fg[o] = "prepared"
    /\ Register(o)
    /\ UNCHANGED <<closed, handled, epochSeen, aborted, signer, serving,
                   runtimeVars>>

\* onPrepared and throwIfCancelled have returned.
CallbackDone(o) ==
    /\ fg[o] = "callback"
    /\ fg' = [fg EXCEPT ![o] = IF o \in aborted THEN "failed" ELSE "stream"]
    /\ UNCHANGED <<controlVars, aborted, registered, signer, serving,
                   runtimeVars, loop>>

CallbackFailed(o) ==
    /\ fg[o] = "callback"
    /\ fg' = [fg EXCEPT ![o] = "failed"]
    /\ ContinueRecovery(o)
    /\ UNCHANGED <<closed, lease, disposed, handled, epochSeen, aborted,
                   registered, signer, serving, runtimeVars>>

\* The stream completes: a Runtime that lost the transfer would have answered
\* its requests with an error.
StreamDone(o) ==
    /\ fg[o] = "stream" /\ o \notin aborted
    /\ ~closed /\ TransferOf[o] \in known
    /\ ObserveRuntime
    /\ fg' = [fg EXCEPT ![o] = "done"]
    /\ UNCHANGED <<closed, lease, disposed, handled, aborted, registered,
                   signer, serving, runtimeVars>>

\* The caller cancels the foreground, or the Runtime answers with an error
\* that a replay can recover from.
StreamHandedOver(o) ==
    /\ fg[o] = "stream" /\ o \notin aborted
    /\ fg' = [fg EXCEPT ![o] = "failed"]
    /\ ContinueRecovery(o)
    /\ UNCHANGED <<closed, lease, disposed, handled, epochSeen, aborted,
                   registered, signer, serving, runtimeVars>>

StreamAborted(o) ==
    /\ fg[o] = "stream" /\ o \in aborted
    /\ fg' = [fg EXCEPT ![o] = "failed"]
    /\ StopSignerOwned(TransferOf[o], o)
    /\ ReleaseOwned(TransferOf[o], o)
    /\ UNCHANGED <<closed, epochSeen, aborted, registered,
                   runtimeVars, loop>>

\* Any other error: a manual call drops its lease, a provider call keeps it
\* while it cancels the transfer and aborts the uploads it created.
StreamFatal(o) ==
    /\ fg[o] = "stream" /\ o \notin aborted
    /\ IF o \in Manual
       THEN ReleaseOwned(TransferOf[o], o) /\ fg' = [fg EXCEPT ![o] = "failed"]
       ELSE /\ fg' = [fg EXCEPT ![o] = "cleanup"]
            /\ UNCHANGED <<lease, disposed, requested, handled>>
    /\ UNCHANGED <<closed, epochSeen, aborted, registered, signer, serving,
                   runtimeVars, loop>>

\* The cancellation of the cleanup takes effect in the Runtime, which need not
\* be the end of it: the uploads are aborted before or after.
CancelServed(o) ==
    /\ fg[o] = "cleanup"
    /\ terminal' = terminal \cup {TransferOf[o]}
    /\ UNCHANGED <<controlVars, clientVars, runtimeEpoch, known, loop>>

CleanupDone(o) ==
    /\ fg[o] = "cleanup"
    /\ fg' = [fg EXCEPT ![o] = "failed"]
    /\ ReleaseOwned(TransferOf[o], o)
    /\ UNCHANGED <<closed, epochSeen, aborted, registered, signer,
                   serving, runtimeVars, loop>>

\* Mutant: the abort listener stops the transfer's signer, whoever owns it.
AbortStopsSigner(o) ==
    /\ o \in Signals \ aborted /\ fg[o] # "idle"
    /\ aborted' = aborted \cup {o}
    /\ IF fg[o] \in {"signer", "integrity"}
       THEN UNCHANGED <<signer, serving, lease, requested, handled, disposed>>
       ELSE ReleaseAny(TransferOf[o]) /\ StopSignerAny(TransferOf[o])
    /\ UNCHANGED <<closed, epochSeen, registered, fg, runtimeVars, loop>>

\* The caller aborts the ownership signal (before the prepare is answered that
\* is PrepareFailed).  The listener is attached when the lease is registered
\* and detached when its secrets are disposed.
Abort(o) ==
    /\ o \in Signals \ aborted /\ fg[o] # "idle"
    /\ aborted' = aborted \cup {o}
    /\ IF fg[o] \in {"signer", "integrity"} \/ o \in disposed
       THEN UNCHANGED <<signer, serving, lease, requested, handled, disposed>>
       ELSE StopSignerOwned(TransferOf[o], o) /\ ReleaseOwned(TransferOf[o], o)
    /\ UNCHANGED <<closed, epochSeen, registered, fg, runtimeVars, loop>>

-----------------------------------------------------------------------------
(* Calls that name no owner, the Runtime and the transport.                *)

\* transferStatus reads a terminal status.
StatusTerminal(t) ==
    /\ ~closed /\ t \in terminal
    /\ ReleaseAny(t)
    /\ StopSignerAny(t)
    /\ UNCHANGED <<closed, epochSeen, aborted, registered, fg,
                   runtimeVars, loop>>

\* cancelTransfer, whatever the answer says.
CancelTransfer(t) ==
    /\ ~closed
    /\ ReleaseAny(t)
    /\ StopSignerAny(t)
    /\ terminal' \in {terminal, terminal \cup {t}}
    /\ UNCHANGED <<closed, epochSeen, aborted, registered, fg,
                   runtimeEpoch, known, loop>>

Close ==
    /\ ~closed
    /\ closed' = TRUE
    /\ disposed' = disposed \cup ({lease[t] : t \in Transfers} \ {NoOwner})
    /\ lease' = [t \in Transfers |-> NoOwner]
    /\ requested' = [t \in Transfers |-> 0]
    /\ handled' = [t \in Transfers |-> 0]
    /\ signer' = [t \in Transfers |-> NoOwner]
    /\ serving' = {}
    /\ UNCHANGED <<epochSeen, aborted, registered, fg, runtimeVars, loop>>

\* A lifecycle reply is observed.  Replies of the current epoch come at least
\* from pollRuntimeHello, every five seconds while a lease is registered; one
\* that an earlier epoch wrote may still arrive late.
ReplyObserved(e) ==
    /\ ~closed /\ e <= runtimeEpoch
    /\ \E t \in Transfers : lease[t] # NoOwner
    /\ epochSeen' = e
    /\ requested' = RequestedAt(e)
    /\ loop' = LoopsAt(e)
    /\ UNCHANGED <<closed, lease, disposed, handled, clientVars, runtimeVars>>

RuntimeRestart ==
    /\ runtimeEpoch < MaxEpoch
    /\ runtimeEpoch' = runtimeEpoch + 1
    /\ known' = {}
    /\ UNCHANGED <<controlVars, clientVars, terminal, loop>>

TransferFinishes(t) ==
    /\ t \in known \ terminal
    /\ terminal' = terminal \cup {t}
    /\ UNCHANGED <<controlVars, clientVars, runtimeEpoch, known,
                   loop>>

-----------------------------------------------------------------------------
\* What the SDK does by itself once a foreground call has been made.
ForegroundStep(o) ==
    \/ SignerServed(o) \/ SignerFailed(o)
    \/ IntegrityServed(o) \/ IntegrityFailed(o)
    \/ StreamDone(o) \/ StreamHandedOver(o) \/ StreamAborted(o)
    \/ StreamFatal(o) \/ CancelServed(o) \/ CleanupDone(o)

\* What the caller decides, its callbacks included.
CallerStep(o) ==
    \/ Prepare(o) \/ PrepareFailed(o)
    \/ PrepareManual(o) \/ AttachSignedUrls(o)
    \/ CallbackDone(o) \/ CallbackFailed(o)
    \/ Abort(o)

Next ==
    \/ \E o \in Owners : ResumeServed(o) \/ LoopStep(o)
                          \/ ForegroundStep(o) \/ CallerStep(o)
    \/ \E t \in Transfers : StatusTerminal(t) \/ CancelTransfer(t)
                              \/ TransferFinishes(t)
    \/ \E e \in Epochs : ReplyObserved(e)
    \/ Close \/ RuntimeRestart

Spec == Init /\ [][Next]_vars

\* A request ends by its answer or its timeout, a sleep by its timer: loop and
\* foreground steps are weakly fair.  Nats reconnects for ever, so a resume that
\* is sent again and again gets through once, and so does some reply of the
\* Runtime while a lease is held.
Fairness ==
    /\ \A o \in Owners : /\ WF_vars(LoopStep(o))
                          /\ WF_vars(ForegroundStep(o))
                          /\ SF_vars(ResumeServed(o))
    /\ WF_vars(ReplyObserved(runtimeEpoch))

FairSpec == Spec /\ Fairness

-----------------------------------------------------------------------------
(* Properties.                                                             *)

TypeOK ==
    /\ closed \in BOOLEAN
    /\ aborted \subseteq Owners
    /\ registered \subseteq Owners
    /\ lease \in [Transfers -> Owners \cup {NoOwner}]
    /\ disposed \subseteq Owners
    /\ requested \in [Transfers -> Requests]
    /\ handled \in [Transfers -> Requests]
    /\ epochSeen \in {0} \cup Epochs
    /\ loop \in [Owners -> LoopStates]
    /\ fg \in [Owners -> ForegroundStates]
    /\ signer \in [Transfers -> Owners \cup {NoOwner}]
    /\ serving \subseteq Owners
    /\ runtimeEpoch \in Epochs
    /\ known \subseteq Transfers
    /\ terminal \subseteq Transfers

\* A recovery that was asked for is never forgotten: while a lease is
\* registered and its loop does not run, either nothing is requested, or the
\* last request was completed, or the loop of an owner it replaced is still
\* running and will hand the recovery on (recoverLease's finally).
RequestedRecoveryCovered ==
    \A o \in Owners :
        LET t == TransferOf[o]
        IN  lease[t] = o /\ loop[o].pc = "idle" =>
                \/ requested[t] \in {0, handled[t]}
                \/ \E p \in Owners \ {o} : TransferOf[p] = t /\ loop[p].pc # "idle"

\* Credentials live exactly as long as their lease: every way a lease leaves
\* the map disposes its secrets, and none disposes those of a registered one.
SecretsFollowLease ==
    \A o \in registered : (o \in disposed) <=> (lease[TransferOf[o]] # o)

\* An owner never streams the same routes twice at once: its replay waits for
\* its foreground stream and the cleanup behind it.
OneStreamPerOwner ==
    \A o \in Owners : fg[o] \in LockedForeground => loop[o].pc # "replay"

\* The steps of an owner once its lease is registered.
SettledStep(o) ==
    \/ LoopStep(o) \/ Abort(o) \/ CallbackFailed(o)
    \/ StreamHandedOver(o) \/ StreamAborted(o) \/ StreamFatal(o)
    \/ CleanupDone(o)

\* No step of an owner, however late it comes, takes a lease that is not its
\* own out of the map or stops a signer that it did not install ("a fenced-off
\* owner can never release a replacement owner's lease").
FencedOwnerSparesReplacement ==
    [][\A o \in Owners, t \in Transfers :
          \/ lease'[t] # lease[t] /\ lease[t] # o
          \/ signer'[t] # signer[t] /\ signer[t] # o
          => ~SettledStep(o)]_vars

\* Again and again: the transfer of a settled call that holds its lease is one that
\* the Runtime knows, also after the Runtime was restarted.
ResumedIfLeased(o) ==
    lease[TransferOf[o]] = o /\ fg[o] = "done" => TransferOf[o] \in known

\* Eventually: after close() no background loop runs, but for one whose foreground
\* call is held up in a callback of the caller.
IdleIfClosed(o) == closed /\ fg[o] # "callback" => loop[o].pc = "idle"

-----------------------------------------------------------------------------
(* What the documentation says of owners and the code does not ensure.     *)

\* README of the SDK: "a fenced-off owner never replays into ... a replacement
\* owner registered for the same transfer".
FencedOwnerNeverReplays ==
    [][\A o \in Owners : ReplayBegin(o) =>
          lease[TransferOf[o]] \in {o, NoOwner}]_vars

\* README of the SDK: "Recovery leases, signers, and background resume/replay
\* are keyed by owner identity": the signer that answers for a transfer belongs
\* to its registered lease.
SignerBelongsToLease ==
    \A o \in Owners :
        lease[TransferOf[o]] = o /\ signer[TransferOf[o]] \in serving =>
            \/ signer[TransferOf[o]] = o
            \/ fg[signer[TransferOf[o]]] \in {"signer", "integrity"}

\* README of the SDK: aborting the signal "stops initial routes, multipart
\* creation, and recovery signing/replay".
AbortedOwnerHoldsNoLease ==
    \A o \in aborted : lease[TransferOf[o]] # o

\* Comment in executeProviderTransfer: releasing the lease earlier "scrubs
\* their scoped credentials before abortMultipartUpload can clean up".
CleanupKeepsCredentials ==
    \A o \in Owners : fg[o] = "cleanup" /\ ~closed => o \notin disposed

\* README: "foreground cancellation, deadline expiry, or a Runtime state-loss
\* response leaves background recovery active": a loop that absorbed the hand-
\* over of its foreground resumes or replays once more before it ends.
AbsorbedHandOverIsServed ==
    [][\A o \in Owners : loop[o].late /\ loop'[o].pc = "idle"
          => lease'[TransferOf[o]] # o]_vars

=============================================================================
