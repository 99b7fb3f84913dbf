----------------------------- MODULE RouteStream -----------------------------
(***************************************************************************)
(* One provider transfer of src/sdks/typescript/src/client.ts streaming    *)
(* its signed routes to the Transfer Runtime: streamPreparedRoutes, the    *)
(* RouteStreamSender it feeds, the multipart uploads it creates beside it  *)
(* (createMultipartGroupManifest), and what happens to the transfer and to *)
(* those uploads when the stream fails (cancelAndAbortProviderFailure).    *)
(*                                                                         *)
(* Signing routes, creating multipart groups and sending batches run       *)
(* concurrently; each may fail.  A recoverable failure is followed by a    *)
(* replay of the whole stream under a new route generation, with the       *)
(* uploads that exist.  Who owns the transfer is the subject of            *)
(* RouteRecovery; here the owner may be fenced off at any time: its signal *)
(* aborts, which also scrubs the credentials that it retained.             *)
(***************************************************************************)
EXTENDS Naturals, Sequences, FiniteSets

CONSTANTS
    ChunkCount,         \* chunks of the (one) source in the plan
    MultipartTo,        \* sequence over BOOLEAN: is destination d a multipart target
    SigningConcurrency, \* routeSigningConcurrency
    GroupConcurrency,   \* multipartControlConcurrency
    BatchRoutes,        \* ROUTE_STREAM_BATCH_ROUTES
    MessageRoutes,      \* routes that fit into one message (splitRoutesForPayload)
    MaxGenerations,     \* bound: streams, the first one and its replays
    MaxFaults           \* bound: calls that fail

\* A plan has destinations, and the limits are positive.
ASSUME RouteStreamAssumption ==
    /\ MultipartTo \in Seq(BOOLEAN) /\ MultipartTo # <<>>
    /\ ChunkCount \in Nat
    /\ {SigningConcurrency, GroupConcurrency, BatchRoutes, MessageRoutes,
        MaxGenerations} \subseteq Nat \ {0}
    /\ MaxFaults \in Nat

VARIABLES
    pc,         \* where streamPreparedRoutes stands
    gen,        \* the route generation that it streams, from 1
    next,       \* how many routes materializePlanChunks has yielded
    pending,    \* pendingRoutes: the routes being signed or signed
    settled,    \* of those: [route |-> "signed" or "failed"]
    group,      \* where each multipart group stands
    fresh,      \* groups whose upload this stream created
    uploads,    \* multipartUploads: groups with an upload id
    seenDeliveryIndices, \* of RouteStreamSender: the routes that were added
    batch,      \* RouteStreamSender.batch
    queue,      \* batches on sendTail, each [index, routes]
    batchIndex, \* batchIndex of the next batch
    sendError,  \* sendError # null
    cause,      \* the error that ends the stream
    aborting,   \* uploads that abortCreatedUploads still has to try
    sent,       \* uploads whose abort is on its way to the provider
    cleanupFailed,
    owned,      \* ~signal.aborted
    live,       \* external: [group |-> the uploads that exist at the provider]
    orphans,    \* external: of those, the ones whose upload id reached nobody
    cancelled,  \* the call has asked the Runtime to cancel the transfer
    acked,      \* external: groups whose manifest the Runtime has, this generation
    received,   \* external: batches the Runtime has, this generation
    completed,  \* external: the Runtime accepted the end of this generation
    faults

streamVars == <<next, pending, settled>>
groupVars == <<group, fresh, uploads, live, orphans, sent>>
sendVars == <<seenDeliveryIndices, batch, queue, batchIndex, sendError>>
runtimeVars == <<acked, received, completed, cancelled>>
cleanVars == <<aborting, cleanupFailed>>
vars == <<pc, gen, cause, owned, faults, streamVars, groupVars, sendVars, runtimeVars, cleanVars>>

-----------------------------------------------------------------------------
(* The plan: materializePlanChunk. *)

DestinationCount == Len(MultipartTo)
Routes == 0..(ChunkCount * DestinationCount - 1)
DeliveryIndex(chunk, destination) == chunk * DestinationCount + destination

\* The n-th route that the loops over chunks and destinations yield.
Yielded(n) == DeliveryIndex(n \div DestinationCount, n % DestinationCount)

\* The multipart group of a route is its destination (there is one source).
Groups == {d \in 0..(DestinationCount - 1) : MultipartTo[d + 1]}
GroupOf(route) == route % DestinationCount
IsDirectPut(route) == GroupOf(route) \notin Groups

\* splitRoutesForPayload: as many routes as fit into each message.
SplitRoutesForPayload(routes) ==
    LET count == (Len(routes) + MessageRoutes - 1) \div MessageRoutes
        upTo(i) == IF i = count THEN Len(routes) ELSE i * MessageRoutes
    IN [i \in 1..count |-> SubSeq(routes, (i - 1) * MessageRoutes + 1, upTo(i))]

GroupsDone == \A g \in Groups : group[g] \in {"ready", "failed"}
Faulty == faults < MaxFaults /\ faults' = faults + 1

-----------------------------------------------------------------------------
StreamReset ==
    /\ next' = 0 /\ pending' = {} /\ settled' = [r \in {} |-> "signed"]
    /\ group' = [g \in Groups |-> "queued"] /\ fresh' = {}
    /\ seenDeliveryIndices' = {} /\ batch' = <<>> /\ queue' = <<>> /\ batchIndex' = 0 /\ sendError' = FALSE
    /\ acked' = {} /\ received' = <<>> /\ completed' = FALSE

Init ==
    /\ pc = "begin" /\ gen = 1 /\ cause = "none" /\ owned = TRUE /\ faults = 0
    /\ next = 0 /\ pending = {} /\ settled = [r \in {} |-> "signed"]
    /\ group = [g \in Groups |-> "queued"] /\ fresh = {} /\ uploads = {}
    /\ live = [g \in Groups |-> 0] /\ orphans = [g \in Groups |-> 0] /\ sent = {}
    /\ seenDeliveryIndices = {} /\ batch = <<>> /\ queue = <<>> /\ batchIndex = 0 /\ sendError = FALSE
    /\ aborting = {} /\ cleanupFailed = FALSE
    /\ acked = {} /\ received = <<>> /\ completed = FALSE /\ cancelled = FALSE

\* The catch of streamPreparedRoutes begins.  It reads signal.aborted here, once; an
\* owner goes on with routeStream.abort(): sendError ??= route_stream_aborted.
Fail(error) ==
    /\ pc' = "failing"
    /\ cause' = IF owned THEN error ELSE "fenced"
    /\ sendError' = IF owned THEN TRUE ELSE sendError

ErrorKinds == {"recoverable", "fatal"}

\* routeStream.begin; the groups are set up only after it.
Begin ==
    /\ pc = "begin"
    /\ \/ /\ owned
          /\ pc' = "streaming"
          /\ UNCHANGED <<cause, group, sendError, faults>>
       \/ /\ IF owned THEN Faulty ELSE UNCHANGED faults
          /\ \E e \in ErrorKinds : Fail(e)
          /\ group' = [g \in Groups |-> "failed"]
    /\ UNCHANGED <<gen, owned, streamVars, fresh, uploads, live, orphans, sent,
                   seenDeliveryIndices, batch, queue, batchIndex, runtimeVars, cleanVars>>

-----------------------------------------------------------------------------
(* Signing: at most SigningConcurrency routes at a time, streamed as they settle. *)

Blocked == Cardinality(pending) >= SigningConcurrency \/ next = Cardinality(Routes)

StartRoute ==
    /\ pc = "streaming" /\ ~Blocked /\ owned
    /\ pending' = pending \union {Yielded(next)}
    /\ next' = next + 1
    /\ UNCHANGED <<pc, gen, cause, owned, faults, settled, groupVars, sendVars,
                   runtimeVars, cleanVars>>

\* The route's promise: its group's waiter, then signProviderRoute.
GroupReady(r) == group[GroupOf(r)] = "ready"
MaySign(r) == IF IsDirectPut(r) THEN TRUE ELSE GroupReady(r)

RouteSigned(r) ==
    /\ r \in pending \ DOMAIN settled /\ MaySign(r)
    /\ settled' = [s \in DOMAIN settled \union {r} |-> IF s = r THEN "signed" ELSE settled[s]]
    /\ UNCHANGED <<pc, gen, cause, owned, faults, next, pending, groupVars, sendVars,
                   runtimeVars, cleanVars>>

GroupRejects(r) == ~IsDirectPut(r) /\ group[GroupOf(r)] = "failed"

RouteFails(r) ==
    /\ r \in pending \ DOMAIN settled
    /\ \/ MaySign(r) /\ Faulty
       \/ GroupRejects(r) /\ UNCHANGED faults
    /\ settled' = [s \in DOMAIN settled \union {r} |-> IF s = r THEN "failed" ELSE settled[s]]
    /\ UNCHANGED <<pc, gen, cause, owned, next, pending, groupVars, sendVars,
                   runtimeVars, cleanVars>>

\* streamNextCompletedRoute: Promise.race over the pending routes, then addRoute.
TakeRoute(r) ==
    /\ pc = "streaming" /\ Blocked /\ r \in pending \intersect DOMAIN settled
    /\ pending' = pending \ {r}
    /\ settled' = [s \in DOMAIN settled \ {r} |-> settled[s]]
    /\ IF settled[r] = "failed" \/ ~owned \/ r \notin Routes
          \/ r \in seenDeliveryIndices
       THEN (\E e \in ErrorKinds : Fail(e)) /\ UNCHANGED <<seenDeliveryIndices, batch>>
       ELSE /\ seenDeliveryIndices' = seenDeliveryIndices \union {r}
            /\ batch' = Append(batch, r)
            /\ pc' = IF Len(batch) + 1 >= BatchRoutes THEN "flushing" ELSE pc
            /\ UNCHANGED <<cause, sendError>>
    /\ UNCHANGED <<gen, owned, faults, next, groupVars, queue, batchIndex, runtimeVars,
                   cleanVars>>

\* enqueueFlush: after sendTail, the batch goes out in messages that fit.
Numbered == [i \in 1..Len(SplitRoutesForPayload(batch)) |->
                [index |-> batchIndex + i - 1, routes |-> SplitRoutesForPayload(batch)[i]]]

Flush ==
    /\ pc \in {"flushing", "lastFlush"} /\ (queue = <<>> \/ batch = <<>>)
    /\ IF sendError /\ batch # <<>>
       THEN (\E e \in ErrorKinds : Fail(e)) /\ UNCHANGED <<batch, queue, batchIndex>>
       ELSE /\ queue' = queue \o Numbered
            /\ batchIndex' = batchIndex + Len(Numbered)
            /\ batch' = <<>>
            /\ pc' = IF pc = "flushing" THEN "streaming" ELSE "tail"
            /\ UNCHANGED <<cause, sendError>>
    /\ UNCHANGED <<gen, owned, faults, streamVars, groupVars, seenDeliveryIndices,
                   runtimeVars, cleanVars>>

\* Every route is streamed: await the manifest task, check, count, flush the rest.
AllStreamed ==
    /\ pc = "streaming" /\ next = Cardinality(Routes) /\ pending = {} /\ GroupsDone
    /\ IF /\ owned /\ \A g \in Groups : group[g] = "ready"
          /\ Cardinality(seenDeliveryIndices) = Cardinality(Routes)
       THEN pc' = "lastFlush" /\ UNCHANGED <<cause, sendError>>
       ELSE \E e \in ErrorKinds : Fail(e)
    /\ UNCHANGED <<gen, owned, faults, streamVars, groupVars, seenDeliveryIndices, batch,
                   queue, batchIndex, runtimeVars, cleanVars>>

\* Mutant: the end is announced while batches are still in the chain.
TailIgnored == TRUE
TailSent == queue = <<>>

Complete ==
    /\ pc = "tail" /\ TailSent
    /\ \/ /\ ~sendError
          /\ pc' = "done" /\ completed' = TRUE
          /\ UNCHANGED <<cause, sendError, faults>>
       \/ /\ ~sendError /\ Faulty
          /\ completed' \in BOOLEAN
          /\ \E e \in ErrorKinds : Fail(e)
       \/ /\ sendError
          /\ \E e \in ErrorKinds : Fail(e)
          /\ UNCHANGED <<completed, faults>>
    /\ UNCHANGED <<gen, owned, streamVars, groupVars, seenDeliveryIndices, batch,
                   queue, batchIndex, acked, received, cancelled, cleanVars>>

-----------------------------------------------------------------------------
(* sendTail: one batch after the other; none after one that failed. *)

SendBatch ==
    /\ queue # <<>>
    /\ queue' = Tail(queue)
    /\ \/ /\ ~sendError
          /\ received' = Append(received, Head(queue))
          /\ UNCHANGED <<sendError, faults>>
       \/ /\ ~sendError /\ Faulty
          /\ sendError' = TRUE
          /\ received' \in {received, Append(received, Head(queue))}
       \/ sendError /\ UNCHANGED <<sendError, received, faults>>
    /\ UNCHANGED <<pc, gen, cause, owned, streamVars, groupVars, seenDeliveryIndices,
                   batch, batchIndex, acked, completed, cancelled, cleanVars>>

-----------------------------------------------------------------------------
(* createMultipartGroupManifest: every group in turn, GroupConcurrency at a time, *)
(* to the end even when one of them failed.                                       *)

Active == {g \in Groups : group[g] \notin {"queued", "ready", "failed"}}
Started == pc \notin {"begin", "done", "ended"}

\* An upload of an earlier stream of this transfer is used again.
Retained(g) == g \in uploads

\* The group's turn: a retained upload, a CreateMultipartUpload, or throwIfAborted.
CreateGroup(g) ==
    /\ Started /\ group[g] = "queued" /\ Cardinality(Active) < GroupConcurrency
    /\ \A h \in Groups : h < g => group[h] # "queued"
    /\ group' = [group EXCEPT ![g] =
          IF ~owned THEN "failed" ELSE IF Retained(g) THEN "created" ELSE "creating"]
    /\ UNCHANGED <<pc, gen, cause, owned, faults, streamVars, fresh, uploads, live,
                   orphans, sent, sendVars, runtimeVars, cleanVars>>

\* The provider's reply: multipartUploads keeps the upload id.
UploadCreated(g) ==
    /\ Started /\ group[g] = "creating"
    /\ group' = [group EXCEPT ![g] = "created"]
    /\ fresh' = fresh \union {g}
    /\ uploads' = uploads \union {g}
    /\ live' = [live EXCEPT ![g] = @ + 1]
    /\ UNCHANGED <<pc, gen, cause, owned, faults, streamVars, orphans, sent, sendVars,
                   runtimeVars, cleanVars>>

\* The request fails, or its reply is lost after the provider made the upload; it is
\* tried again (maxAttempts of S3Client) or given up, as when the signal aborts it.
CreateFails(g) ==
    /\ Started /\ group[g] = "creating"
    /\ IF owned THEN Faulty ELSE UNCHANGED faults
    /\ \E made \in {0, 1} :
          /\ live' = [live EXCEPT ![g] = @ + made]
          /\ orphans' = [orphans EXCEPT ![g] = @ + made]
    /\ \/ group' = [group EXCEPT ![g] = "failed"]
       \/ owned /\ UNCHANGED group
    /\ UNCHANGED <<pc, gen, cause, owned, streamVars, fresh, uploads, sent, sendVars,
                   runtimeVars, cleanVars>>

\* Sign the manifest's URLs; onGroupReady announces it if the call still owns the transfer.
AnnounceGroup(g) ==
    /\ Started /\ group[g] = "created" /\ owned
    /\ group' = [group EXCEPT ![g] = "announcing"]
    /\ UNCHANGED <<pc, gen, cause, owned, faults, streamVars, fresh, uploads, live,
                   orphans, sent, sendVars, runtimeVars, cleanVars>>

GroupAcked(g) ==
    /\ Started /\ group[g] = "announcing"
    /\ group' = [group EXCEPT ![g] = "ready"]
    /\ acked' = acked \union {g}
    /\ UNCHANGED <<pc, gen, cause, owned, faults, streamVars, fresh, uploads, live,
                   orphans, sent, sendVars, received, completed, cancelled, cleanVars>>

\* Mutant: a fenced call aborts its uploads all the same.
AbortsAnyway(g) == g \in fresh

\* The setup failed: an upload that this stream created is aborted, unless the signal
\* has aborted by now.
AbortsUpload(g) == g \in fresh /\ owned

GroupFails(g) ==
    /\ Started /\ group[g] \in {"created", "announcing"}
    /\ IF owned THEN Faulty ELSE UNCHANGED faults
    /\ acked' \in {acked, IF group[g] = "announcing" THEN acked \union {g} ELSE acked}
    /\ group' = [group EXCEPT ![g] = IF AbortsUpload(g) THEN "undoing" ELSE "failed"]
    /\ sent' = IF AbortsUpload(g) THEN sent \union {g} ELSE sent
    /\ UNCHANGED <<pc, gen, cause, owned, streamVars, fresh, uploads, live, orphans,
                   sendVars, received, completed, cancelled, cleanVars>>

\* An abort that was sent: done, or failed, with the upload gone or not.  One that is
\* gone already is not found.
Known(g) == live[g] - orphans[g]
AbortDone(g) ==
    /\ Known(g) > 0
    /\ sent' = sent \ {g} /\ uploads' = uploads \ {g}
    /\ live' = [live EXCEPT ![g] = @ - 1]
AbortFails(g) ==
    /\ IF owned /\ Known(g) > 0 THEN Faulty ELSE UNCHANGED faults
    /\ sent' = sent \ {g} /\ UNCHANGED uploads
    /\ \E gone \in 0..Known(g) : live' = [live EXCEPT ![g] = @ - gone]

GroupUndone(g) ==
    /\ Started /\ group[g] = "undoing"
    /\ group' = [group EXCEPT ![g] = "failed"]
    /\ \/ AbortDone(g) /\ UNCHANGED faults
       \/ AbortFails(g)
    /\ UNCHANGED <<pc, gen, cause, owned, streamVars, fresh, orphans, sendVars,
                   runtimeVars, cleanVars>>

-----------------------------------------------------------------------------
(* The failure of a stream. *)

SettledSoon == queue = <<>> /\ pending \subseteq DOMAIN settled
SettledAll == SettledSoon /\ GroupsDone

\* Fenced off before the catch: only what is in the air is awaited.  Fenced off in it:
\* the lease is no longer registered, so that no recovery loop takes the stream up.
LeftAlone ==
    \/ cause = "fenced" /\ pending \subseteq DOMAIN settled /\ GroupsDone
    \/ ~owned /\ SettledAll /\ (cause = "recoverable" \/ gen > 1)

\* Ownership lost: nothing is cleaned up, the next owner resumes with the uploads.
Fenced ==
    /\ pc = "failing" /\ LeftAlone
    /\ pc' = "ended" /\ cause' = "fenced"
    /\ UNCHANGED <<gen, owned, faults, streamVars, groupVars, sendVars, runtimeVars, cleanVars>>

\* continueRecoveryLease: a recovery loop replays under a new route generation.
Replay ==
    /\ pc = "failing" /\ owned /\ cause = "recoverable" /\ SettledAll
    /\ gen < MaxGenerations
    /\ gen' = gen + 1
    /\ pc' = "begin" /\ cause' = "none"
    /\ StreamReset
    /\ UNCHANGED <<owned, faults, uploads, live, orphans, sent, cancelled, cleanVars>>

\* A replay failed for good: the recovery loop releases the lease.
Abandoned ==
    /\ pc = "failing" /\ owned /\ SettledAll
    /\ (cause = "fatal" /\ gen > 1) \/ (cause = "recoverable" /\ gen = MaxGenerations)
    /\ pc' = "ended" /\ cause' = "abandoned"
    /\ UNCHANGED <<gen, owned, faults, streamVars, groupVars, sendVars, runtimeVars, cleanVars>>

\* cancelAndAbortProviderFailure of the foreground call, for an error that the catch
\* found as an owner, whatever the signal did while the stream was awaited.
CleanUp ==
    /\ pc = "failing" /\ cause = "fatal" /\ gen = 1 /\ SettledAll
    /\ pc' = "cancelling" /\ cancelled' = TRUE
    /\ UNCHANGED <<gen, cause, owned, faults, streamVars, groupVars, sendVars, acked,
                   received, completed, cleanVars>>

\* requestTransferCancellation settles; every upload is aborted, also if it failed.
CancelSettles ==
    /\ pc = "cancelling"
    /\ pc' = "cleanup" /\ aborting' = uploads
    /\ UNCHANGED <<gen, cause, owned, faults, streamVars, groupVars, sendVars, runtimeVars,
                   cleanupFailed>>

\* abortCreatedUploads, cleanupConcurrency at a time.  Credentials that were scrubbed
\* are refused.
StartAbort(g) ==
    /\ pc = "cleanup" /\ g \in aborting /\ Cardinality(sent) < GroupConcurrency
    /\ aborting' = aborting \ {g}
    /\ sent' = IF owned THEN sent \union {g} ELSE sent
    /\ cleanupFailed' = (cleanupFailed \/ ~owned)
    /\ UNCHANGED <<pc, gen, cause, owned, faults, streamVars, group, fresh, uploads, live,
                   orphans, sendVars, runtimeVars>>

AbortUpload(g) ==
    /\ pc = "cleanup" /\ g \in sent
    /\ \/ AbortDone(g) /\ UNCHANGED <<cleanupFailed, faults>>
       \/ AbortFails(g) /\ cleanupFailed' = TRUE
    /\ UNCHANGED <<pc, gen, cause, owned, streamVars, group, fresh, orphans, sendVars,
                   runtimeVars, aborting>>

\* BeamProviderTransferError, with a cleanupError if an abort failed.
CleanedUp ==
    /\ pc = "cleanup" /\ aborting = {} /\ sent = {}
    /\ pc' = "ended" /\ cause' = "failed"
    /\ UNCHANGED <<gen, owned, faults, streamVars, groupVars, sendVars, runtimeVars, cleanVars>>

\* signal aborts: another process owns the transfer now (stopOwnedRecovery releases the
\* lease, which scrubs the credentials).
Fence ==
    /\ owned /\ pc \notin {"done", "ended"}
    /\ owned' = FALSE
    /\ UNCHANGED <<pc, gen, cause, faults, streamVars, groupVars, sendVars, runtimeVars, cleanVars>>

\* throwIfCancelled before the next chunk of a fenced call.
Refused ==
    /\ pc = "streaming" /\ ~Blocked /\ ~owned
    /\ Fail("fenced")
    /\ UNCHANGED <<gen, owned, faults, streamVars, groupVars, seenDeliveryIndices, batch,
                   queue, batchIndex, runtimeVars, cleanVars>>

-----------------------------------------------------------------------------
Step ==
    \/ Begin \/ StartRoute \/ Refused \/ Flush \/ AllStreamed \/ Complete \/ SendBatch
    \/ \E r \in pending : RouteSigned(r) \/ RouteFails(r) \/ TakeRoute(r)
    \/ \E g \in Groups : CreateGroup(g) \/ UploadCreated(g) \/ CreateFails(g)
    \/ \E g \in Groups : AnnounceGroup(g) \/ GroupAcked(g) \/ GroupFails(g) \/ GroupUndone(g)
    \/ Fenced \/ Replay \/ Abandoned \/ CleanUp \/ CancelSettles \/ CleanedUp
    \/ \E g \in Groups : StartAbort(g) \/ AbortUpload(g)

Next == Step \/ Fence

\* Every promise settles: requests are retried a bounded number of times.
Spec == Init /\ [][Next]_vars /\ WF_vars(Step)

-----------------------------------------------------------------------------
(* The stream's state is one the code can hold; no more routes are in the    *)
(* air than routeSigningConcurrency.                                         *)
TypeOK ==
    /\ pc \in {"begin", "streaming", "flushing", "lastFlush", "tail", "done", "failing",
               "cancelling", "cleanup", "ended"}
    /\ gen \in 1..MaxGenerations /\ owned \in BOOLEAN /\ faults \in 0..MaxFaults
    /\ cause \in {"none", "recoverable", "fatal", "fenced", "abandoned", "failed"}
    /\ next \in 0..Cardinality(Routes)
    /\ Cardinality(pending) <= SigningConcurrency /\ DOMAIN settled \subseteq pending
    /\ group \in [Groups -> {"queued", "creating", "created", "announcing", "ready",
                            "undoing", "failed"}]
    /\ uploads \subseteq Groups /\ fresh \subseteq Groups /\ acked \subseteq Groups
    /\ live \in [Groups -> Nat] /\ orphans \in [Groups -> Nat] /\ sent \subseteq Groups
    /\ Len(batch) <= BatchRoutes
    /\ \A i \in 1..Len(queue) : queue[i].index < batchIndex

(* When the Runtime accepted the end of a stream, it has every delivery      *)
(* index of the plan in exactly one place of one batch, and the manifest of  *)
(* every group, in whatever order the routes were signed and whatever was    *)
(* sent before.                                                              *)
Places == UNION {{<<i, j>> : j \in 1..Len(received[i].routes)} : i \in 1..Len(received)}
RouteAt(p) == received[p[1]].routes[p[2]]
CompleteIsWhole ==
    completed =>
        /\ {RouteAt(p) : p \in Places} = Routes
        /\ \A p, q \in Places : RouteAt(p) = RouteAt(q) => p = q
        /\ Groups \subseteq acked

(* Batches arrive in the order of their numbers, also before the end and     *)
(* after a failure: a batch that failed is followed by none.                 *)
BatchesInOrder == \A i \in 1..Len(received) : received[i].index = i - 1

(* No batch holds a route whose multipart group the Runtime was not told of. *)
RoutesFollowManifest ==
    \A i \in 1..Len(received) : \A j \in 1..Len(received[i].routes) :
        LET r == received[i].routes[j] IN IsDirectPut(r) \/ GroupOf(r) \in acked

(* Besides the uploads whose create reply was lost, a multipart group never  *)
(* has two at the provider, through failed setups and replays of the stream. *)
OneUploadPerGroup == \A g \in Groups : live[g] <= orphans[g] + 1

(* A call that ended with BeamProviderTransferError has left no upload whose *)
(* id it had at the provider without reporting it in cleanupError, although  *)
(* groups may still be created while the stream fails.  What it cannot       *)
(* report are the orphans: their ids reached nobody.                         *)
UploadsAccounted ==
    pc = "ended" /\ cause = "failed" =>
        \A g \in Groups : live[g] > orphans[g] => cleanupFailed /\ g \in uploads

(* A stream whose end was accepted has delivered every route once, batches   *)
(* in order and none before the manifest of its multipart group; a group     *)
(* never has two uploads that somebody knows of, and a call that failed      *)
(* reports what it knows to be left (client.ts, streamPreparedRoutes).       *)
StreamWhole ==
    /\ TypeOK
    /\ CompleteIsWhole
    /\ BatchesInOrder
    /\ RoutesFollowManifest
    /\ OneUploadPerGroup
    /\ UploadsAccounted

(* A call that lost its ownership starts no upload and no abort of one: what *)
(* it had sent before may still arrive, but what its replacement creates and *)
(* resumes is left alone (client.ts, streamPreparedRoutes).                  *)
FencedAbortsNothing ==
    [][~owned =>
        /\ sent' \subseteq sent
        /\ \A g \in Groups : live'[g] < live[g] => g \in sent
        /\ \A g \in Groups : live'[g] > live[g] => group[g] = "creating"
        /\ \A g \in Groups : group'[g] = "creating" => group[g] = "creating"]_vars

(* A fenced call cancels nothing: aborting the signal "does not cancel the   *)
(* transfer" (README.md of the SDK).  The code does, when the signal aborts  *)
(* after the catch of streamPreparedRoutes has read it.                      *)
FencedCancelsNothing == [][~owned => cancelled' = cancelled]_vars

(* Eventually: a stream has ended; the routes never wait for a group, nor    *)
(* the groups for a stream, that waits for them.                             *)
StreamEnded == pc \in {"done", "ended"}

=============================================================================
