# Formal specifications of the Beam SDK

This directory holds TLA+ models of the stateful parts of this repository, the
TLC configurations that check them, and theorems about them that TLAPS proves.
Paths below are relative to the repository.

## The system

Beam moves data between providers (S3-compatible buckets, Hugging Face, Rooms).
A *Transfer Runtime* orders a transfer's parts; the SDKs plan a transfer with
it, stream the transfer's routes over NATS, serve the signing requests the
Runtime makes for them, and bring a transfer back when the Runtime loses its
state. Around the SDKs stand a browser SDK with its token server, and the CRE
packages, which record what Beam reports in a smart contract.

| Component | State it keeps | Operations | Talks to | What makes it correct |
|---|---|---|---|---|
| Route recovery control, `sdks/typescript/src/nats-control.ts` | recovery leases, requested epochs, running loops, observed epochs, auth token, connection | register, release, continue, recoverLease, observeRuntimeEpoch, request with retry, waitForTransfer, close | Runtime over NATS; callbacks of the client | a requested recovery is not forgotten, a replaced owner leaves its replacement alone, credentials die with their lease, close ends every loop |
| Provider client, `client.ts` | recovery signers, stream locks, the progress of every call | prepare, attachSignedUrls, stream, replay, cancel, status, cleanup | the control; HTTP signers | one route stream per owner, an aborted or fenced call takes nothing with it that is not its own |
| Provider signing, Hugging Face (`provider-signing.ts`, `huggingface.ts`) | none beyond a call | sign, stage, hash, complete, commit | providers and the Hub over HTTP | a route is good for as long as it says, every byte has one place, ETags are those of the Hub's parts |
| Integrity signing, in `client.ts` and `nats-control.ts` | signers, cached grants, submissions | start, stop, serve a request, submit after a status reply | Runtime over NATS | grants are of the installed signer and of the challenge asked for, nobody waits for ever |
| Receipts contract, `packages/cre/contracts/evm/src/BeamTransferReceipts.sol` | open requests as array with positions, receipts, Room receipts, jobs, answers, requesters | request, cancel, report, administration | requesters; a forwarder that delivers reports | array and positions agree, the set is bounded, records are final, answers are backed by records, a repeated report is a no-op |
| Relay, `packages/cre/relay` | block cursor, listing cursors, uncommitted closes; charges at the website | deliver starts, sync the allowlist, read requests, list, look up, hold, report, commit, close | the contract, Beam, Studio, the website | a credit is held before anything goes out and charged only for what is on chain, no cursor passes what is unsettled, an answerable request is answered |
| Room bridge, `packages/cre/bridge` | requests, digests of reports, a state file | deliveries, polls, reports, two pumps, retention | the Room's host, the DON or the contract | an answer has evidence, what was acknowledged survives a restart, everyone is answered |
| CRE workflows, `packages/cre/workflows` | none between executions | on a log, by cron or over HTTP: look subjects up, write a report, attest; start a transfer | the contract, Beam's API, Studio, the bridge | what is recorded is what Beam shows, cron alone answers every open request in the end, no execution makes more calls than it may |
| Web SDK, `packages/web-sdk` | a token, transfer handles, event streams, room sessions, web agent, broadcasts | request, refresh, subscribe, reconnect, renegotiate, close | token server, Beam, browser media | events stay in order and bring the end, what is left or closed holds nothing it knows of, one refresh at a time, a page learns the end |
| Web SDK server, `packages/web-sdk-server` | a client, the open event streams | mint, verify, create, watch | Beam SDK | a withdrawn permission ends with its token, a stream's clean end is the transfer's, no polls for nobody |
| Go, Rust and Python SDKs | as the TypeScript SDK, with threads | as the TypeScript SDK | Runtime | as the TypeScript SDK |
| CLI, VS Code, Zapier, OpenAPI description, examples | none of their own | thin shells over the SDKs or HTTP | | |

### What is hard here

* *Callbacks and awaits.* JavaScript runs to its next `await`; leases, epochs
  and signers change between two awaits of one function. `recoverLease` reads
  a requested epoch, waits for a reply, a lock and a replay, and only then
  compares what it did with what is wanted now.
* *Two owners of one transfer.* A second call for a transfer replaces the
  lease of the first while the first still streams, replays, cleans up or
  listens to its abort signal.
* *Runtime restarts.* An epoch changes at any moment; replies of the older
  epoch may arrive after those of the newer one.
* *A hand-written set in storage.* `_open` and `_close` keep an array and a map
  of positions; `_answerRequest` closes keys from within report processing.
* *Reports in any order.* A receipt may come before its request, twice, or
  answer a request that asked for something else; a job may come with its
  receipts or after them.

* *Effects whose reply is lost.* The relay's charges, reports to the registry and
  deliveries may have taken effect although the call failed, and a transaction
  whose wait failed may be mined in a later pass, next to its repetition.
* *A pass over a changing world.* The relay reads the open requests in several
  calls, looks things up, pays and writes, and acts at the end on what it read at
  the beginning. It may crash between a mined report, the commit of its charge
  and the saved cursor.
* *Concurrency within one call.* A route stream signs chunks, creates multipart
  uploads and sends batches at once; each may fail, and what exists then has to
  be accounted for.
* *Shared promises.* A token refresh, a connection, a signing is awaited by many
  calls; the one that started it may be aborted, fail or be replaced.
* *`close()` and `leave()` at any await.* What a constructor or a connect still
  creates afterwards has to be released by somebody.
* *A window over a changing set.* The workflow's cron places its window by the
  number of open requests, reads it by one or two more calls, and keeps nothing of
  what it saw for its next execution, while requests are opened, answered and moved.
* *Exclusive cursors.* A cursor in milliseconds or blocks must neither pass what
  is not done nor stand still.

PROJECT.json lists each of these hazards at its line, with the properties that
cover it or the reason none does yet.

## Modules

```
RouteRecovery     <- MCRouteRecovery (TLC), RouteRecoveryProofs (TLAPS)
TransferReceipts  uses Outbox (abstract specification)
                  <- MCTransferReceipts (TLC), TransferReceiptsProofs (TLAPS)
ReceiptsRelay     composes with TransferReceipts
                  <- MCReceiptsRelay (TLC), ReceiptsRelayProofs (TLAPS)
RelayAllowlist    composes with TransferReceipts
                  <- MCRelay (TLC), RelayAllowlistProofs (TLAPS)
RelayStarts       <- MCRelay (TLC), RelayStartsProofs (TLAPS)
ReceiptsWorkflow  composes with TransferReceipts   <- MCRelay (TLC)
Bridge            <- MCBridge (TLC), BridgeProofs (TLAPS)
RouteStream       <- MCTypeScriptSdk (TLC), TypeScriptSdkProofs (TLAPS)
TransferWait, LifecycleControl, IntegritySigning, RouteSigning, HubStaging
                  <- MCTypeScriptSdk (TLC), TypeScriptSdkProofs (TLAPS), as instances of
                     both
WebTransferHandle <- MCWebSdk (TLC), WebSdkProofs (TLAPS)
WebRequests, WebTransfers, WebRoom, WebAgent, WebBroadcast, WebBroker
                  <- MCWebSdk (TLC), WebSdkProofs (TLAPS), as instances of both

MCRelay           RelayStarts, RelayAllowlist, ReceiptsRelay three times,
                  ReceiptsWorkflow three times
MCTypeScriptSdk   LifecycleControl, RouteRecovery, TransferWait, RouteStream,
                  IntegritySigning, HubStaging, RouteSigning
MCWebSdk          WebRequests, WebTransferHandle, WebRoom, WebAgent, WebBroker,
                  WebTransfers, WebBroadcast
MCIntegritySigning  one instance of IntegritySigning
MCRouteStream       one instance of RouteStream
```

MCRelay, MCTypeScriptSdk and MCWebSdk hold instances *side by side*: `part`
says which component a behaviour is of, its variables move by its own `Next`, and
the variables of the others are `Off` (those of the module it extends, their initial values) and stay
so. MCRelay extends RelayStarts, MCTypeScriptSdk extends RouteStream and MCWebSdk extends
WebTransferHandle, so that a run and a theorem state the same definitions. The states of such a module are
the sum of those of its instances and not their product: nothing is composed there
that does not share state, and a property of the module is the conjunction of the
named properties of its parts, each looked at only in the behaviours of its part.
What does interact is composed inside a module: control and client in
RouteRecovery, the relay and the contract, the workflows and the contract, `waitForTransfer` with control and Hub,
the browser with the broker.

### RouteRecovery

`BeamTransferControl` and the recovery side of `BeamClient`, together, because
neither can be judged alone: the control starts the loops, the client supplies
the replay, the signer and the credentials.

* `lease`, `requested`, `epochSeen`, `closed` are `recoveryLeases`,
  `recoveryRequestedEpoch`, `runtimeEpochs` of one shard and `closed`. `loop`
  holds, for each owner, the state of its `recoverLease` call: waiting for the
  reply to `transfer.resume` (`resume`), for the route-stream lock (`lock`), in
  `replayRoutes` (`replay`), in the delay after an error (`sleep`), or not
  running. `disposed` are the leases whose `disposeSecrets` ran.
* `fg` is where the foreground call stands (`executeProviderTransfer` and
  `streamPreparedRoutes`): signer set-up, integrity set-up, the `onPrepared`
  callback, the stream, the cleanup after a fatal error. `signer` and `serving`
  are `recoverySigners` and the live subscriptions. The stream lock needs no
  variable: the foreground holds it in the states of `LockedForeground`, a loop
  in `replay`.
* `runtimeEpoch`, `known`, `terminal` are the Runtime, which is not in this
  repository: it restarts, forgets transfers, finishes them, and answers
  `transfer.resume`. `handled`, `registered` and two fields of `loop` are
  history variables that only properties and proofs read.
* An *owner* is one call; its lease object is the identity that `owns` and
  `releaseRecoveryLease(id, owner)` compare. An owner works on one transfer.
* An action is the code between two awaits. `Register` stands for everything
  from the arrival of the signer's subscriptions to the next await, and so on.
  The `finally` of `recoverLease` (`LoopExit`) is part of every action that ends
  a loop; the one microtask between its `return` and its `finally`
  (nats-control.ts:775) is not a step of its own.

### TransferReceipts and Outbox

The contract. A transaction is one step; a report, which is one transaction
with many entries, is a run of steps with `section` not zero, one per entry, in
the order of `_processReport`, during which no other transaction runs. What
reverts changes nothing and so is no step: entries are those that pass their
checks. `open` is the record of `s_openKeys`, `s_openPosition` and
`s_openRequests`; `Opened` and `Closed` are `_open` and `_close` with their swap
and pop. A key is a tagged id: keccak256 is taken to be injective. Statuses are
`Completed` and everything else; levels are sets of claims without the
DON-attested bit, which is the same for every entry of a contract. Digests and
sizes, which are copied and never compared, are left out, and so is time.

`reported` is a history variable: the entries the current report has processed.

`Outbox` is what the set promises: a bounded set of questions; a question is
asked only if it is neither open nor settled, can be withdrawn, and is gone for
ever once settled. `AsOutbox` maps the listed keys to its open questions, and the
keys with a final answer to its settled ones.

### ReceiptsRelay

The pass of the relay in customers mode (`runReceipts`, `closeUnanswerable`),
together with the contract: `Contract` is `TransferReceipts` over the same
variables, so a mined report runs `RecordReceipt`, a mined cancel `CancelRequest`.

* `pc` and `pass` are the place and the local variables of the pass: `requests`,
  `offset` and `total` while it reads pages, `left` and `listed` while it lists,
  `pending`, `planned`, `batch`, `settled`, then `unanswerable` and `retries`.
  `cursor` is the file of listing cursors; `uncommitted` is
  `state.uncommittedCloses`, which a crash loses. A close is tried again in the next
  pass only while the website is unavailable; any other answer ends the debt
  (`RetryCommit`).
* `charge`, `finished` and `approved` are the website's charges, Beam's list and
  the registry. `Reserve` and `Commit` give each outcome of `reserveCharge` and
  `commitCharge`, a failed call with or without its effect.
* `sent` are the relay's transactions; the chain mines them in nonce order, an
  entry of a report at a time, and `mined` is what became of the last. A wait that
  fails leaves its transaction in `sent`.
* A transfer stands for a subject; an organization has one address. `cancelled`
  is a history variable.
* `AllAdded` (a list gone through with `addSubject`) and `Kept` (a list without some of its
  elements) are recursive functions over the length of the list, so that the proofs can
  reason about them.
* `Revoke` and `Disallow` are the revocation of an address and the
  `setRequester(false)` that follows; how the relay comes to send it is
  RelayAllowlist.

### RelayAllowlist

`syncAllowlist`: `registry` is what the pass read, `left` the addresses it has
still to look at, `doing` the change it sends, waits for and reports;
`allowlist` is what the registry knows of the contract. `Mine` is the contract's
`SetRequester`.

### RelayStarts

`runStarts`: `cursor` is the file with the next block, `upTo`, `next` and `logs` are
the locals `finalized`, `next` and the logs of the range not yet delivered, as a set of
positions in `Log` of which the least is delivered first.
`runs` and `refused` are what Studio made of the deliveries, by the idempotency
key of the request. `Unavailable` is a delivery that ends the pass, accepted or not.

### ReceiptsWorkflow

The workflows transfer-receipts and start-transfer, with the contract they serve.

* `run[e]` is the execution of the trigger `e` (log, cron, HTTP), with what it has
  read and gathered so far. Executions keep nothing between them; one of each
  trigger runs at a time. `slot` is the slot of the last cron trigger, modulo `Slots`.
* The variables of the contract have the names of TransferReceipts, whose actions
  are used for requests, cancels and the entries of a report.
* `beam` is what Beam shows of a transfer or publication: missing, running,
  terminal, or a publication that ran as a standard transfer (`bucket_only`).
* `onReconcile` is three steps: the count, the window, the part of it that wraps
  around; the contract may change between them. A lookup with its calls is one step.
  A call that fails, and nodes that do not agree, are a lookup without entries.
* `Throw` is an execution that ends with an error, wherever it stands: nothing is
  written, and nobody repeats it. A log comes late, again, or never.
* `OnTransferRequested` is start-transfer: every node posts, and Studio, which is
  external, runs one workflow per request id.

### Bridge

`bridge.ts`, `state.ts` and what `verify.ts` and `report.ts` decide. `requests`,
`reports` and `file` are the state in memory and in the file; `queue` are the
snapshots that the promise chain of `state.ts` has still to write, with who waits
for each, and `broken` that an earlier write failed, after which it rejects all.
`Delivery` and `Polled` are the host's calls; a report is begun, awaits the registry's
signers and is rejected or accepted (`BeginReport`, `ReadSigners`, `Accept`); a round of
the pump settles and drops what is over (`BeginRound`, which leaves in `todo` what the round has still to do), then forwards a batch to the
DON (`Forward`, `Forwarded`) or looks up each subject on the contract and requests it
there (`LookUp`, `OpenRequest`). `Restart` begins again from `file`. Deadlines are flags
(`forwarded = "due"`). Requests are dropped by age one at a time, the oldest first and while no
write is queued; several that are due go in several rounds. An id that is delivered again
after it was dropped would be a new request (bridge.ts:187), and is not modelled. The DON, its
registry of signers and the contract are external: a rotation of the signer set, an
answer of the contract at any time.

### LifecycleControl

`request()`, the token and the connection of `BeamTransferControl`. `pc`, `attempt`,
`held` are a call; `token`, `aged`, `known`, `auth` the cached token and the shared
refresh; `nc`, `connecting`, `closed`, `closing` connection and close. `wire` and
`applied` are the Runtime, which serves a request id once. `weather` is the set of
faults that a behaviour may meet, so that faults of different kinds are combined on
purpose and not all with all.

### TransferWait

`waitForTransfer`, its terminal waiter and `finalizeHuggingFaceUploads`, for several
calls that wait for one transfer. `registered` is `terminalWaitCancellations`;
`staged`, `upload` and `commits` are the transfer's Hub uploads.

### RouteStream

One `streamPreparedRoutes` with its `RouteStreamSender`: `pending` and `settled` are
the window of routes being signed, `group` the multipart groups, `batch` and `queue`
what the sender holds and what its promise chain has still to send,
`seenDeliveryIndices` the routes that were put into a batch, `aborting` what the cleanup of
`cancelAndAbortProviderFailure` has still to abort. `live` are the uploads that exist at the
provider, `acked`, `received`, `completed` what the Runtime has, `cancelled` whether the call
asked it to cancel. A replay is a new `gen` that retains uploads.

`owned` falls when the signal of the owner aborts, which may be at any await. What the code
asks of the signal it asks where the model does: before each chunk and each group, when a
route is taken, before a manifest and before the end is announced, before an upload whose setup
failed is aborted, and once, when the catch of `streamPreparedRoutes` begins (`Fail`,
client.ts:719). An owner that is fenced later, while
the catch awaits the routes, goes on to cancel the transfer and to abort the uploads it
has; only that its credentials are scrubbed by then makes these aborts fail
(`StartAbort`).

A create is a request and a reply: `CreateGroup`, then `UploadCreated` or `CreateFails`. The
provider may have made the upload whose create failed, at every attempt of the S3 client
(client.ts:2201); its id reached nobody. `orphans` counts those, beside the others in `live`.
An abort is likewise sent and then done, failed, or failed although the upload is gone (`sent`,
`GroupUndone`, `AbortUpload`).

Left out: `abortBeforeCancel`, the order for a failure before the begin request was attempted,
when the only uploads are those of a resumed transfer, which are not modelled; the error of the cancellation itself; and that
`multipartCleanupComplete` is true although an orphan is left.

### IntegritySigning

Signers and integrity grants of one transfer: `pc` is each owner's
`startProviderRouteRecoverySigner`, `recovery` and `integrity` its subscriptions,
`registered` and `signer` the maps that say whose count. A `job` is a promise in
`integrityGrantCache`; `submission` and `sending` are what status calls (`caller`)
share, `request` the messages on the subject. Either subscription may fail: before there is
one, or in the `flush()` after it (nats-control.ts:340 and 393), which leaves the
subscription and its callback (`SubscribeFails`, `AttachFails`). An owner whose integrity
subscription failed so runs on without knowing of it (`half`).

### HubStaging and RouteSigning

HubStaging follows a Hugging Face upload from the LFS batch reply (`hub`) over
BeamCore's `plan` and the comparison of the two, the hashing of the source in pieces
of any length (`read`, `partBytes`, `etags`) beside the transfer of the `parts`, to
the completion. Content is the positions of its bytes: an ETag is the interval that
was hashed.

RouteSigning is the arithmetic of a plan (global and source chunk, offset, size,
delivery index, part number, listing page) together with the signing of a route: a
`job` asks for a source grant, its `leg`s for each destination; `now` passes while a
provider is asked, and `says` is what the route advertises, `ends` when the URL ends.
Recovery requests and integrity audits may ask for any coordinates.

### The Web SDK

* *WebRequests*: `HttpTransport.request` under `withRetry`, with the cached `token`
  and the one mint `inFlight`. A mint carries the signal of the call that began it; aborted
  while it is fetched it fails as a network error that is tried again, in its body as
  a final one (`AbortMint`). `sends` is a history variable, the requests of each call.
* *WebTransferHandle*: `loop`, `attempt`, `lastId` are the event stream with its
  reconnector, `poll` is `#pollUntilTerminal`, `buffer` and `waiter` the progress
  iterator, `said` the last status told to listeners. There are two kinds of server. One
  that `resumes` is what `sse.ts` expects: it sends version n as event n and goes on after
  `Last-Event-ID`. The other is the repository's own broker: it numbers the events of
  a connection from 1 (`sequence`), does not read the header, sends the record there is and then
  those that its polls see, and reports a failed poll by an event that the page takes
  for a running transfer (`ReadError`). A record may come without progress (`bare`).
* *WebRoom*: `join` is where `connect()` stands, `leave` where `leave()` does;
  `peer`/`owned`, `known`/`slot`, `stream` are what they create and release; `running`,
  `pending`, `run` the renegotiation queue. A request can be aborted until its
  response begins. The event stream can be down, and come back, or refused for good
  (`StreamRefused`). It resumes after the last event only once it had one (`resumable`): what
  happened between the answer to the join and its first event may never be told
  (`unheard`).
* *WebAgent*: handlers call each other synchronously, so the client is one record
  and each handler a function of it; one subscription and one session that views it
  stand for the resources. The agent answers in any order.
* *WebBroker*: mint, verification and use of a token with three clocks, and an
  application that changes its mind about scopes. `HandleToken` is the answer of
  `authorize()`, `MintToken` the mint once the request's body has been read, as late as
  that may be (broker.ts:160-178 sets no limit): `granting` is the session between them.
* *WebTransfers*: `create` with retries against the broker and its upstream, and the
  event streams for which `watchTransfer` polls BeamCore: `handler` is where each
  generator stands, `frames` what it has enqueued.
* *WebBroadcast*: `publish`/`watch` from the endpoint to `close()`. The resource's address is read
  when the answer has been applied, so that only a call that got there has something to
  delete.

## Checks

Twelve runs: seven in which everything holds, five in which TLC finds that the code
does not do what a document says.

### RouteRecovery

| Run | Instance | Shows |
|---|---|---|
| RouteRecovery | a provider call with an ownership signal against an `attachSignedUrls` call, one transfer, two epochs | types; `RequestedRecoveryCovered`, `SecretsFollowLease`, `OneStreamPerOwner`, `FencedOwnerSparesReplacement` (also with a late abort) |
| TypeScriptSdk, part `recovery` | one provider call with a signal, three epochs, with fairness | `NothingHangs`: `ResumedIfLeased` and `IdleIfClosed`, each again and again |
| RouteRecoveryFence | two `attachSignedUrls` calls | violation: `FencedOwnerNeverReplays` |

Two owners are enough for every interleaving of *replaced* and *replacing*: the
code compares an owner only with the registered one. Two epochs give one
restart with late replies of the first epoch; the liveness run has three, so
that a second restart can hit the recovery from the first. One transfer, since
no state but `epochSeen` is shared between transfers and an observed epoch is
applied to each lease alike. The safety properties of RouteRecovery are also
proved for any number of owners of either kind.

Deadlock is not checked there: when the calls have settled and the control is
closed, the system rests.

*Fairness.* `FairSpec` assumes of each owner that its loop and its foreground go
on (`WF`): every request ends by its answer or by its timeout, every sleep by its
timer, and the code awaits nothing else. The exception is the caller's own
callback, which may never return and is not fair; `NothingHangs` says so. A
`transfer.resume` that is sent again and again is answered once (`SF`): the
connection reconnects without limit (`maxReconnectAttempts: -1`). A reply of the
current epoch is observed (`WF`): hello is polled on an interval. Restarts,
cancellation, abort and close are never fair.

### TransferReceipts

The run TransferReceipts has one request id, one transfer id, two Room keys, the
owner and a stranger who may become requester, at most two open requests and reports
of two entries. It shows types and bound, `OpenSetIndexed`, `AnswersBacked`,
`RepeatedReportIsNoOp`, `RecordsAreFinal`, `AnsweredInKind` and the refinement
`ImplementsOutbox`.

Four keys against a bound of two reach a full set and a key that moves into the
place of another. Two entries let one entry of a report undo the assumption of
another; a job needs an input and an output, hence two Room keys. Room keys are
interchangeable, hence the symmetry. The set with more places, where the key that
moves comes from further away, is what `OpenSetSound` and `ContractIsOutbox` prove
for every bound.

### The relay and the workflows

| Run | Instance | Shows |
|---|---|---|
| ReceiptsRelay | alice's t1, which is owed; the relay's t3, asked for by the relay as a receipt and by alice, whose key does not see it, as a start; her address may be revoked; two places in the open set; pages, batches and listings of one; two faults | `TypeOK`, `PaidFirst`, `ChargedForEffect`, `CursorPassesDone` |
| Relay, part `allowlist` | two addresses, two transactions on their way, two faults | `RegistryFollows`; `ApprovedAllowed` |
| Relay, part `starts` | five requests in five blocks, two in one block, an empty block, a kind without workflow; ranges of two; three faults | `BehindCursorAnswered`, `DeliveredInOrder`; `StartsAnswered` |
| Relay, part `served` | alice's t1, owed and asked for; the relay's t3, asked for as a receipt and as a start; one fault, with fairness | `PaidFirst`, `ChargedForEffect`; `NoAskOpen` again and again |
| Relay, part `listing` | three owed transfers of alice's, one unreadable, listings of two, three faults, nobody asks | `CursorPassesDone`; `OwedCharged` for good |
| Relay, part `closing` | two requests that are never answered, repeated and withdrawn at will, alice's address may be revoked, one fault | `PaidFirst`, `ChargedForEffect` for cancels |
| Relay, part `window` | workflows: cron alone, a Room delivery and two receipt requests, one of them for its publication; windows of two; no faults | `RecordsAreBeams`; `NothingAnswerableOpen` for good |
| Relay, part `job` | workflows: cron and logs, a job and a receipt request for its input; windows of one; one fault | `RecordsAreBeams` |
| Relay, part `push` | workflows: cron and HTTP, a transfer and a receipt request for it; a push that names it twice, an attestation, and one of two subjects, which is over the limit, published on chain or not; one fault | `RecordsAreBeams` |

The run Relay states what is of starts and allowlist by its own name, and groups the rest:
`RecordsFollow` is what must be so at any moment, with the
types and call limits of the workflows, `EveryoneIsServed` what must happen in the end.
Pages, batches and listings of one or two are the least with
a second page, report or listing; with one, each of them is full at every element.
`MaxSent` allows two transactions in flight: one of a failed wait and its repetition.
`Asks` says who may ask what: an organization only asks for what the part is about.
Two faults give a lost reply followed by a crash, three a fault in each range of
RelayStarts. `LastBlock` leaves a last range that is cut.

In the parts of the workflows each key is asked once, so that the set of open requests
stops changing; three requests with windows of two make a window wrap around, and
`Slots` is a multiple of every number of open requests, so that slots that are counted
modulo `Slots` place the windows where the unbounded ones would. `MaxSubjects` is the
least that the configuration allows for the batch and the routes of the part.

*Fairness.* The relay's loop goes on (`WF` of `RelayStep`: `main.ts` runs a pass,
sleeps and runs the next, whatever a pass throws; every call has a timeout) and
the chain mines what is sent (`WF` of `Mine`). The workflow's cron fires and its
executions go on (`WF` of `CronStep`: the schedule of workflow.ts:522); logs, pushes
and Beam itself are not fair. Crashes, revocations and requests
are never fair. Failures are bounded, so a liveness property says what happens
once they stop.

### Bridge

Two messages in five scenarios: in the CRE mode both about one Room publication,
about different subjects, or one published onchain; in the contract mode both about
one publication, or a transfer beside a message the policy refuses. A report comes
with signatures of the first signer set or, as `huge` (too large for a reply), of the
second; one fault per behaviour, which is a failed write, a failed call or a crash;
two closings. It shows `TypeOK`, `AnswersHaveEvidence` (a reply
carries f + 1 signatures of one set that the registry held, or is what the contract
did at or after the request),
`PollsSurviveRestart`, `SavedReplyIsFinal` and `EveryRequestAnswered`. Two messages
about one subject are what one report answers twice; a limit of one remembered digest
and of one attestation under way is reached by the second of each.

*Fairness.* Pump, writes and timers go on (`WF`): `main.ts` pumps in a loop that
catches errors and sleeps a second. Nothing else is fair; that a DON or a contract never answers is
covered by the attempts and the deadline, which end in a refusal.

### TypeScriptSdk

| Part | Instance | Properties of the module |
|---|---|---|
| `lifecycle` | two calls with one idempotency key, one of them oversized when the weather is `large`; three attempts; the weathers silence + refusal, restart + age, restart + busy, connection, close + refusal, close + busy, large | `OneEffectPerKey`, `RefusedTakesTwoFaults`, `ClosedForGood`; `CallsEnded` |
| `recovery` | as above | `ResumedIfLeased`, `IdleIfClosed` |
| `wait` | two calls, two Hub uploads | `NoWaiterLeft`, `ClosedHasNoWait`, `CommittedOnce`; `WaitsEnded` |
| `stream` | two chunks to two multipart destinations, windows of two, batches of three routes, messages of two, two generations, two faults | `CompleteIsWhole`, `BatchesInOrder`, `RoutesFollowManifest`, `OneUploadPerGroup`, `UploadsAccounted`, `FencedAbortsNothing`; `StreamEnded` |
| `integrity` | two owners; two callers and two requests in five crowds, with one challenge, two of one audit and two audits; one grant, one awaiting request; three signings, two troubles | `NoSubscriptionLeft`, `GrantsOfTheSigner`, `SharedSigning`, `OwnGrants`; `NoCallerWaits`, `NoRequestWaits` |
| `staging` | a source of five bytes that reads as four, five or six; parts of two or three; plans of two to five; two targets | `EtagsFollowParts`, `PartsAsIssued`, `QuietUploadCommits` |
| `signing` | plans of one to three sources, with a short last chunk and with more chunks than parts; three kinds of source, two of destination; two units of time | `HonestExpiry`, `PlannedVersionOnly`, `SignedInPlace`, `PlanTiles`, `PagesHoldParts` |

The run's properties group them, with the types of their parts: `ControlSound`
(lifecycle and wait), `StreamWhole`, `GrantsSound`, `RoutesSound` (signing and staging),
`FencedAbortsNothing`, and `NothingHangs` for all that must end or go on.
Windows, messages and caches hold one or two, the least at which they are full while
something else waits; of the four routes of the stream the first batch takes three, in two
messages, and leaves one for the flush at the end; a plan with an odd last chunk is what tells the last chunk
apart. Two calls suffice for what is shared: a third waits like the second.

*Fairness.* A step of the SDK that no peer can hold up is taken (`WF`): timers fire,
promise reactions run, and a request ends by its timeout. The Runtime answers in
`lifecycle` (`RuntimeAnswers`), as long as the weather lets it. In `stream` and
`integrity` the providers and the Runtime answer or fail: their calls go through
fetch and NATS requests with timeouts. A caller's own signer function is not fair in
RouteRecovery; in IntegritySigning it settles, see the remarks below. Aborts, closes,
restarts and faults are never fair.

### WebSdk

| Part | Instance | Properties of the module |
|---|---|---|
| `requests` | two calls, two attempts, two troubles | `RequestsBounded`, `OneMintAtATime`, `UnauthorizedTakesTwoTokens`, `AbortedByItsOwn`, `SentWithUsableToken`; `HeldByPeersOnly` |
| `handle` | three versions, two attempts, a buffer of one, two troubles, either kind of server | `EventsInOrder`, `IteratorEndsWithTheLast`, `StatusIsSaid`, `ClosedNeverSettles`, `ClosedConnectsNoMore`; `Settled` |
| `room` | three changes of the room, two troubles | `LeftIsClosed`, `PeerOpenOnlyByIceBody`, `SlotIsReleased`, `HealthyIsConnected`, `NoLostRenegotiation`; `Agreed` |
| `agent` | two pending requests, three requests and four controls in a session, two connects, two troubles | `OneSocket`, `OwnSession`, `ViewEndsWithSubscription`, `AgentAgrees`; `NonePending` |
| `broker` | two scopes, lifetimes of two (the default and the least) and three (the most, of nine asked for), one asked for that is refused, tolerance one, a verifier behind by one or ahead by two, a browser ahead by one, three units of time | `RevocationBound`, `UsableIsAccepted` |
| `transfers` | two event streams, four records of which one looks like the one before, two troubles | `CleanEndIsTerminal`, `NoPollForNobody`; `WatchesEnded`, `PageKnowsTheEnd` |
| `broadcast` | two troubles | `NoPeerLeft`, `SlotReleased` |

With the types of their parts, `CallsSound` groups the invariants of `requests`, `broker`
and `transfers`, `EventsComplete` those of `handle`, and `SessionsSound` those of `room`,
`broadcast` and `agent`; `ClosedIsQuiet` holds the action properties of `handle` and
`QuietOnceOver` the others; `WebProgresses` is what must happen in the end. Three versions give a first, a middle and a terminal one;
a buffer of one drops at the second value; two troubles are a failure during the
recovery from another. A time of three lets a body hold up a mint, the permission be withdrawn
meanwhile, and the token be used after that.

*Fairness.* Timers, the reconnector, polls and the broker's generators go on (`WF`).
In `requests` neither the token endpoint nor a body is fair, since the code has no
deadline for them: hence *held by peers only*. The transfer itself ends (`Advance`),
without which no handle can. In `room` a stream that is down is opened again and an event that is on its way
arrives; that the stream is refused is a trouble and not excluded, and `Agreed` does not speak of
a session whose stream was refused, or which was not told of a change that came before its stream opened.

Deadlock is checked in Relay and ReceiptsRelay, whose loops never end, and in TransferReceipts; everywhere else the system rests once the calls have ended.

### What the documents say and the code does not do

Five runs show it:

1. `FencedOwnerNeverReplays`: `replayRoutes` (client.ts:763) waits for the stream
   lock and then streams without looking whether its lease is still registered.
2. `RetriedCreateStartsOne`: the page keeps its idempotency key over retries, the
   broker neither reads nor forwards it (broker.ts:304), and a create whose reply was
   lost starts a second transfer.
3. `AbortedSignsNothing`: a signal that aborts while
   `startProviderRouteRecoverySigner` subscribes meets no listener yet (client.ts:787),
   and the signer stays installed.
4. `FencedCancelsNothing`: the catch of `streamPreparedRoutes` reads the signal once
   (client.ts:719), awaits what is under way and then cancels the transfer (737), whoever
   owns it by then; the SDK's README.md:167 says that aborting the signal "does not cancel the
   transfer or abort a replacement owner's uploads". What does hold is
   `FencedAbortsNothing`: no upload is aborted, since the credentials are gone.
5. `NothingReplayed`: the broker's event stream numbers events by connection and reads no
   `Last-Event-ID` (broker.ts:210), so that a connection made again repeats the last record and
   skips what passed meanwhile; sse.ts:4-6, and capability-matrix.md:14 with it, promise the
   opposite of "both sources".

The same modules state ten more. They are no runs of the project; TLC finds each
violated in the instance named. The instances of RouteRecovery, the first four, are
otherwise as RouteRecoveryFence.cfg; those of ReceiptsRelay have, but for what is named,
`RequestIds = {}`, `TransferIds = {t1}`, which is alice's, `Owed = {}`,
`Revocable = {}`, `Customers = {alice}`, `MaxFaults = 1`, and all else as in
ReceiptsRelay.cfg.

| Property | Instance | What happens |
|---|---|---|
| `SignerBelongsToLease` | `Owners = {a, b}`, `Manual = {}` | two overlapping calls install signer and lease in two steps with awaits between (client.ts:1109, 783-797); lease and signer end up with different owners |
| `AbortedOwnerHoldsNoLease` | `Owners = Signals = {a}`, `Manual = {}` | a signal that aborts before its listener is added (client.ts:787) is not seen when the lease is registered |
| `CleanupKeepsCredentials` | `Owners = {a}`, `Manual = {}`, `MaxEpoch = 1` | `cancelTransfer`, a terminal status or a replacing call disposes the credentials that a running cleanup needs (client.ts:746) |
| `AbsorbedHandOverIsServed` | `Owners = {a}`, `Manual = {}` | a hand-over that meets a loop which already read the same epoch is absorbed, and nothing more is resumed (nats-control.ts:721) |
| `SuccessIsPublished` | TransferWait, `Waits = {w1, w2}`, `Uploads = 2` | `finalizeHuggingFaceUploads` takes the uploads out of its map before it publishes them (client.ts:981), so that of two `waitForTransfer` calls one returns `completed` while the other still publishes or has failed to |
| `RevokedIsRemoved` | RelayAllowlist, `Addresses = {a1}`, `MaxSent = 2`, `MaxFaults = 1` | an address is removed only when the registry shows it as allowed (relay.ts:196); if the report of its allowing was lost and it is revoked before the next pass, it stays on the contract |
| `RecordedIsCharged` | `Asks`: alice for a receipt of t1, with `FairSpec` | a receipt that was asked for on chain is found only through its open request, which the report closes; when the commit fails (relay.ts:400) no later pass finds the subject, and its hold is never committed |
| `CursorPassesDone` | `Owed = TransferIds = {t1, t2}`, both complete at once, `Asks = {}` | of two transfers of one millisecond the cursor passes the one that the limit cut off (customers.ts:118) |
| `ReadWithOwnersKey` | `Owed = {t1}`, bob also in `Customers` and `Accounts`, `Asks`: bob for a receipt of t1 | bob's open request for alice's transfer takes the place of her listed one, which is looked up with bob's key (relay.ts:245) |
| `ClosesWhatIsCharged` | bob also in `Customers` and `Accounts`, `Asks`: both for a receipt of t1 | a request is withdrawn and asked again by another before the cancel is mined (relay.ts:451) |

### Remarks from modelling

Behaviour that no document speaks about, kept in the models as it is:

* client.ts: `recoveryMultipartUploadState` is checked at 1234 and used after an await
  at 1314; expired grants are never evicted from the cache of 1024 (1350); a submission
  goes on after the signer was stopped (1330); the last of two starts wins (1206);
  `partEtags` rejects without a handler while the stream runs (918); content that the
  Hub already has fails a plan instead of only being committed (948, 1032); batches in
  the chain are still sent after the ownership signal (719).
* client.ts:2201: a CreateMultipartUpload whose reply is lost leaves an upload of which nobody
  has the id, one at each attempt of the S3 client; no cleanup and no error names it.
* nats-control.ts:331: a signer function that never settles holds its place among the
  awaiting requests; a `flush()` that rejects (340, 393) leaves its subscription, and the
  callback goes on to answer, until the connection ends.
* Bridge: a second delivery is acknowledged while the save of the first is pending or
  has failed; after one failed write every later save fails (state.ts:26), until a
  restart.
* web-sdk: the deadline ends with the head of a response (http.ts:271); a late 401
  invalidates a newer token (http.ts:281), at the price of one more mint; each
  connection that opens resets the attempts, so that a stream which opens and breaks
  is retried without end (handle.ts:153, sse.ts:162); a `leave()` during the body of
  `/ice` leaves a peer connection open (session.ts:118); a close that meets the
  control limit is rejected and the rejection kept (resources.ts:86); the polls of a handle never
  emit `status`, since `refresh()` has set what `#apply` compares with (handle.ts:183, 228);
  a publish that fails after the relay's 201 sends no DELETE, also when the answer named the
  resource (broadcast/index.ts:140-155); a room whose event stream is refused, as when its
  token has expired, stays joined and hears nothing more (retry/index.ts:206,
  session.ts:235).
* web-sdk-server: a slow request body delays the mint beyond the time of `authorize()`'s
  answer without limit (broker.ts:160-178); `event: error` reaches the page as a
  running transfer without progress; a rejected `clientPromise` is kept for good.
* transfer-receipts: `start = (slot * batch) % total` (workflow.ts:216) is computed
  from the number of open requests of the moment, so that "every open request is
  checked at least once every ceil(open / batch) runs" (workflow.ts:198) is what it
  gives while the set stays the same; a set that changes between two runs moves the
  window, and may leave a request out for longer. `EveryoneIsServed` therefore speaks
  of a set that stops changing.
* transfer-receipts: a Room delivery request whose publication ran as a standard
  transfer is answered by nothing: the entry that closes names the Room receipt request
  of the publication (subjects.ts:264), and every later window that holds the request
  writes the same report again. A job with such an input stays open likewise, without
  a report.

## Proofs

Everything below holds for any sets of owners, transfers, ids, accounts, addresses,
signers and requests, any bounds and any number of faults, from the named `ASSUME`s:
`NoOwner`/`None` is none of the values (`OwnerAssumption`, `NoneAssumption`), limits are
natural numbers, those that the configuration wants positive positive
(`BoundsAssumption`, `LimitsAssumption`, `BoundAssumption`, `EpochAssumption`), the data of
an instance are functions of the right kind (`SubjectsAssumption`, `PartiesAssumption`,
`ScenariosAssumption`, `SubmissionsAssumption`, `SignersAssumption`: the registry holds at
least one finite set), a plan has destinations and the windows of its stream are positive
(`RouteStreamAssumption`), the limits of the Web SDK's handle are positive (`HandleAssumption`), those who wait for
a write of the bridge are told apart (`NamesAssumption`), and the contract's log is in the order of its blocks
(`LogAssumption`). TLC evaluates each of them in its runs. What the theorems about the
broker's tokens and streams assume of their numbers, that clocks and lifetimes are whole
seconds, that a tolerance is not negative, and that the terminal record differs from the one
before, is `Limits` of WebBroker and of WebTransfers; `Limits` of WebAgent wants natural numbers
and no fewer ids for controls than for requests (`transport.ts`: 4090 and 4000). `LimitsHold` of
MCWebSdk evaluates the three.
`Limits` of LifecycleControl wants three attempts, `LIFECYCLE_REQUEST_MAX_ATTEMPTS`, or more,
which is what `FaultsCounted` below needs. `Limits` of IntegritySigning wants finitely many audits
and requests, and challenges whose audits are among them; that of RouteSigning a positive chunk
and page size, providers of the three kinds, and plans whose sources have a size, a number of
chunks and a first chunk; that of HubStaging destinations counted from one, a body that is not
empty, which `huggingface.ts:119` refuses, and positive part sizes. `LaidOut`, for `PlanTiles`
alone, is the layout that BeamCore gives a plan: sources one after the other, each in chunks of the
chunk size. `LimitsHold` of MCTypeScriptSdk evaluates all of these.
`Limits` of RelayAllowlist says that its bounds are numbers and that the relay's own account and
`None` are nothing else's name; `LimitsHold` of MCRelay evaluates it.

**RouteRecoveryProofs.** The invariant is
`IInv == TypeOK /\ LeaseInv /\ SecretsFollowLease /\ OneStreamPerOwner /\
RequestedRecoveryCovered`. The three properties are not inductive alone: that a
replaced loop hands its recovery on in its `finally` needs that a registered
lease belongs to the transfer of its owner, that only registered owners have a
loop, and that an owner registers once; `LeaseInv` states these. One lemma per
group of actions shows what it does to loops, leases and requests
(`LoopExitEffect`, ...); `IInvNext` puts them together. Theorems: `TypeCorrect`,
`RecoveryCovered`, `SecretsLive`, `OneStream`, and from the same invariant the
action property `FencedOwnerSafe`.

**TransferReceiptsProofs.** `Indexed(o)` says of a value `o` of the open set what
`OpenSetIndexed` and its types say; `OpenedIndexed` and `ClosedIndexed` prove that
`_open` and `_close` keep it and change the membership of one key only, the second
by cases on the place of the key and of the key that moves. The invariant
`RInv` adds the types and that no settled key is open. Every action is then
shown to ask one question, withdraw one or settle a set of them (`StepEffect`),
from which follow `ReceiptsTypeCorrect`, `OpenSetSound` and the refinement
`ContractIsOutbox`; the latter also needs that the number of open questions is the
length of the array (`OpenKeysCounted`, by a bijection). `RecordsFinal` goes
through the actions once more. `AnswersSound` splits `AnswersBacked` into transfers,
Rooms, jobs and the mutual binding of a receipt and its request (`AnswersBackedParts`),
each of which an entry keeps or makes (`BackedNext`). `RedeliveryHarmless` is about
history: every entry the report has processed is settled (`ReportSettled`), which later
entries of the same report do not undo (`EntryStaysSettled`, `EntrySettles`), so that
answering it again changes nothing. `KindsRespected` shows of each entry that what
leaves the open set by it asked for what it answers.

**ReceiptsRelayProofs.** The relay composed with the contract. The world only moves one
way: what is held stays held, and likewise what is charged, recorded, cancelled or
finished (`Grown`); each step is shown to be of that kind and to keep
`RelayInv == Chain /\ WorldTypes /\ PassTypes /\ WorldInv /\ PassInv`. `Chain` is the
invariant of the contract, whose proof is used through an `INSTANCE` of
TransferReceiptsProofs; a step of the relay is a step of the contract or leaves it alone.
`WorldInv` says what `PaidFirst` and `ChargedForEffect` need of transactions that are
still on their way, `PassInv` what the pass knows at each place: the plan holds only what
is paid for and seen with its owner's key, a report that is awaited is mined or last in
the queue (`OnItsWay`), a request that is being closed is held, then cancelled. Since
transactions are mined in nonce order, the successful wait for the last one finds every
entry recorded. `Inv` adds that a listing holds transfers of its own organization
(`ListedOwn`). Theorems: `RelayInductive`, `TypeCorrect`, `NothingUnpaid`, `ChargesSound`.

`NothingLost` proves `CursorPassesDone` from `DistinctTimes`: no two transfers of an
organization complete in the same millisecond. The hypothesis is needed: without it TLC
finds the violation listed above. The invariant `CursorInv` adds that what a listing
leaves out is later than what it gives (`ListedFirst`), and that a cursor is not ahead of
what has finished (`CursorReached`), so that a transfer that finishes during the pass lies
after the cursor the pass will save. The model takes from Beam that transfers show up
in the order of their completion.

**RelayAllowlistProofs.** A decision of Beam is never taken back, so that what the pass
read may be old but not wrong. `AInv` says what follows for the changes on their way: only
revoked addresses are on their way off the contract (`RemovalsRevoked`), the change the
pass waits for is the last one sent (`ChangeTracked`), and an address shown as removed is
revoked and on no way back, neither in the queue nor in what the pass has still to do
(`RemovedForGood`). Theorems: `AllowlistInductive`, `TypeCorrect`, `RegistrySound`.

**RelayStartsProofs.** `SInv` adds to the properties where the pass stands: it scans
from the saved cursor to a block that was final when it began (`ScanInStep`), and what is
of the range and no longer in the work list is answered (`RestOfRange`). Theorems:
`StartsInductive`, `TypeCorrect`, `NoneLeftBehind`, `InOrder`.

**BridgeProofs.** `BInv == Typed /\ SnapshotsGood /\ Succession /\ Acknowledged /\
RoundSound`. A poll is answered from the file, so the invariant speaks of memory, file and
every snapshot in the queue between them: each is good, with distinct ids, evidence for
every reply and attempts within their limits (`SnapshotsGood`); each follows the earlier
ones, with nothing missing but what was dropped and no reply changed (`Succession`);
and a snapshot that an acknowledgement waits for has its request (`Acknowledged`).
`RoundSound` is what a round of the pump and a report that is being verified keep over
their awaits. Evidence is kept by what the world does meanwhile (`Onward`: a registry
that only gets newer, a contract whose closings only grow), so that `SoundStays` carries it
over every step. Theorems: `TypeCorrect`, `AnswersEvident`, `PollsRemembered`, and from the
same invariant the action property `RepliesFinal`.

**TypeScriptSdkProofs.** Six specifications, each with an invariant of its own.

* *The stream of routes*, for any number of chunks, of destinations of either kind, any
  windows and message sizes, any number of replays. `IInv == Typed /\ Numbering /\
  OnePlace /\ Announced /\ Ending /\ Uploads`. That a stream which announces its end has
  sent every route is a matter of where a route can be: each route that was seen is in the
  batch or in one place of one message, queued or received, never in two, and in none only
  when a message was given up (`OnePlace`); messages are numbered without a gap from the
  first received to the last cut (`Numbering`); and the end is announced only after the
  last flush, when every route was seen and every manifest acknowledged (`Ending`). A
  manifest is acknowledged before a route of its group is settled (`Announced`). `Uploads`
  follows an upload from its creation over the cleanup: besides the orphans at most one for
  a group, whose id the call has, and none left by a stream that failed unless its abort
  failed too. That splitting a batch loses
  and doubles nothing is shown of the pieces themselves, by their bounds. Theorems:
  `TypeCorrect`, `StreamIsWhole`, and the action property `FencedSpares`: an owner that is
  fenced, wherever it stands and whatever it still does, starts no upload and no abort.
* *The wait for the end of a transfer*, for any number of calls and of Hub uploads.
  `WaitInv == TypeOK /\ Waiting /\ Publishing /\ CommittedOnce`. A waiter is registered
  exactly while it is open, whatever of `close()`, the event and the timer comes first
  (`Waiting`). Whoever took the uploads out of the map is alone in finalizing them, and has
  still to commit those from its next one on (`Publishing`): a call that comes later finds
  none, also when the first one failed between two. Theorem: `WaitsAreClean`.
* *The requests to the Transfer Runtime*, for any number of calls, keys and restarts and
  three attempts or more. `ControlInv == ControlTyped /\ OneId /\ Closing /\
  FaultsCounted`. `OneId`: what is on the wire, however late, has the one request id of its
  key. `Closing`: `close()` waits for the connect it found, and a connect that finds the control
  closed drops its connection. `FaultsCounted` is why three attempts are just enough:
  before any fault no call has tried twice (`FirstTries`); after a restart alone two stale tokens
  are about, the cached one and the one that a refresh may still bring, each can spoil
  one attempt of a call, and nothing else makes a call try again (`OnceRestarted`);
  after another fault alone no token is stale (`Unspoiled`). A retry that a second fault
  causes is no longer counted. That `OnceRestarted` is kept follows every token, in the cache, in a
  call, on the wire and in a reply, over every step. Theorem: `ControlIsSound`.
* *The grants of an audit*, for any number of owners, challenges, requests and messages.
  `GrantsInv == SignersTyped /\ GrantsTyped /\ AskersTyped /\ Installed /\
  NoSubscriptionLeft /\ CacheHolds /\ SubmissionHolds /\ OneSigning /\ AnswersHold`. Who is
  registered signs, and its `stop()` covers a subscription as soon as that is attached
  (`Installed`). `NoSubscriptionLeft` excepts what a rejected `flush()` left. The cache
  holds grants of the installed signer only, under the audit they were signed for (`CacheHolds`), a submission is of grants in the cache
  (`SubmissionHolds`), and a signing that is under way is in the cache unless its signer was
  replaced (`OneSigning`), so that a second one for the same audit is never begun. Whoever
  waits, waits for a signing of its own challenge (`AnswersHold`), also when the entry it
  found has since been dropped. Theorem: `GrantsAreSound`.
* *The signing of routes*, for any plan, any jobs and any providers. `SigningInv ==
  SigningTyped /\ RouteInPlace /\ PlannedVersionOnly /\ JobInPlace, LegInPlace`: between the
  awaits of its two signatures a job keeps a range of its planned chunk, the bound it was
  given and what the URL it has says, and a leg the part of its job. From that, and from
  what a URL's end is for each provider (`ExpiryHonest`), comes `RoutesAreSound`. `PlansTile`
  is about the plan itself. That chunks cover a source and delivery indices number all
  coordinates would be inductions over the sources; least counterexamples take their place, and
  the number of coordinates is counted by an injection into an interval.
* *Staging for the Hub*, for any number of destinations, any sizes and any pieces of a
  body. `HubInv == HubTyped /\ PlanningHolds /\ PlanHolds /\ CommitHolds /\ QuietHolds /\
  EtagsFollowParts /\ UploadHolds, HashHolds`. While a body is hashed, the ETags so far are
  those of the whole parts read, and the rest is in the digest of the next one
  (`HashHolds`); that each piece keeps this is arithmetic of divisions (`PieceIs`). What is
  uploaded is a chunk of a plan that fits the Hub's (`PlanHolds`), and committed are the
  destinations before the next one (`CommitHolds`). Theorem: `StagingIsSound`.

The second and the third state the parts of `ControlSound`, the grants those of `GrantsSound`,
the last two those of `RoutesSound`.

**WebSdkProofs.** Seven specifications, each with an invariant of its own, for any number of
versions, calls, attempts, streams, records, sessions and scopes, any lifetimes and clocks.

* *The handle*, with servers of both kinds. `HandleInv == Typed /\ Resuming /\ Ahead /\
  EventsInOrder /\ Hearing /\ Closing /\ StatusIsSaid`. A server that resumes sends next what
  follows the last id (`Resuming`), so that a reconnection neither repeats nor omits an
  event; the broker sends nothing older than what it has sent (`Ahead`). The iterator drops
  from a full buffer, but never its newest value: what was heard last is at the end of the
  buffer or with the consumer (`Hearing`). A closed handle has only the connection it left
  open, which is aborted (`Closing`). Theorems: `EventsAreComplete`, `ClosedStaysQuiet`.
* *Calls and tokens.* `Minting` says that the mint in flight is the newest and the only one,
  and that whoever waits waits for it: a caller's abort ends its own mint for all of them at
  once. `Newer` follows the numbers of tokens: what a call was sent with is older than
  the mint in flight, and what it was refused with is older than the cache, the mint
  in flight and what it holds since. A late 401 that empties the cache of a newer token
  therefore never brings back an older one. `Tallied` counts what a call has sent against its
  attempts and its one re-mint (`Due`). Theorems: `CallsAreSound`, `SentUsable`.
* *Event streams of the broker.* `Told` bounds each stream by what its watch saw last, which
  is not the terminal record before the watch has ended, and says that a stream which is
  still read when it ends has told the end. Theorems: `CleanEnds`, `NobodyPolled`.
* *Broadcast.* `BroadcastInv` ties the peer connection, the resource and the DELETEs to the
  place of the call. Theorem: `BroadcastReleased`: no peer connection is left by a call that
  failed or was closed, one that was live releases a slot whose resource it knows unless
  its DELETE fails, and one that failed before that deletes nothing.
* *Room.* `RoomInv == RoomTyped /\ Leaving /\ Media /\ Place /\ Queued` and the invariants
  themselves. `Leaving` says where `connect()` was when `leave()` came and what neither does any more;
  `Media`, that a session which has been left keeps a peer connection only when that was made after the
  end of `leave()`; `Place`, that a participant the SFU still has is known to the session, asked
  for, being deleted, or left behind for one of the two reasons; `Queued`, that what is told
  after an offer was asked for waits for another run, when nothing went untold. Theorem: `RoomIsSound`.
* *Web agent.* `AgentInv` has three cases: nothing is left of a session (`Off`), an attempt of
  which nothing has been heard (`Begun`), or a session whose attempt and socket are the latest
  (`On` and `Session`). `Session` follows every request to its one place, which is the client's
  queue, the agent or an answer on its way (`Tracked`, `OnePlace`, `Answered`), ties a call under
  way to its request (`Asking`) and what was closed to its end (`Closed`), and accounts for every
  resource: what the agent holds or has dropped was granted once (`Granted`), what the client has
  or will have the agent holds, or the failure is on its way behind it (`Kept`), and what only
  the agent holds is on its way to the client or from it, or its close was refused
  (`Released`). The handlers of `transport.ts` and `resources.ts` call each other, so each function of the
  client has a lemma of its own: it takes a client that is `Fine`, with resources still to be
  closed, to one that owes less. Theorem: `AgentIsSound`.
* *The life of a token.* `BrokerInv`: a token is of the past, its lifetime within the limits,
  and a scope that its session no longer has was lost after `authorize()` granted it
  (`Honest`); so with a session whose token is not minted yet (`Issuing`). From that
  `LetIn` bounds how long a withdrawn permission is accepted, by the longest lifetime, the
  tolerance and the time for which the mint was held up, and `Accepted` shows that the
  browser's margin covers the drift it is allowed. Theorem: `WithdrawnInTime`.

Together they state the conjuncts of `CallsSound`, `EventsComplete`, `ClosedIsQuiet`,
`QuietOnceOver` and `SessionsSound`.

*Lemmas without a module of their own.* `LeastNat` takes a least counterexample, from
well-foundedness, in place of an induction, for which the library's theorems cannot be used
here; `Recursion` shows that a function given by recursion over numbers exists, and `StaysIn`
that its values stay in a set (ReceiptsRelayProofs). BridgeProofs and RelayStartsProofs need
only the least element of a set (`MinNat`).

*Only model-checked:* liveness and whatever needs `ENABLED`, which are out of reach of the
prover; and ReceiptsWorkflow, whose `RecordsAreBeams` is checked in three instances: what an
execution has read and what an earlier one wrote would have to be carried through the contract's
invariant. The conjuncts of `RecordsFollow` about listings and closings are instances of what
ReceiptsRelayProofs proves.

## Not modelled

* In the TypeScript SDK: the manual endpoint `signMultipartRecovery`, several shards
  (leases of different shards share no recovery state), codecs, subject names, option
  validation, telemetry, the signatures and the XML of providers. In RouteRecovery the
  request layer is one step that succeeds, fails, or fails in a way that may be
  retried; LifecycleControl is that layer.
* In the contract: the age of requests (`setStaleAfter`, `staleRequests`), the paged
  views, ownership transfer, the forwarder checks of the vendored base contract.
* In the bridge: codecs, the recovery of signers from signatures, configuration.
* In the Web SDK and its server: `BeamClient.close()`, URL building, error classes,
  wire formats, CORS and origins, the in-memory upstream, the Express adapter beyond
  its way to abort, the browser's media.
* In the relay: Room publications and jobs as subjects, with the closures and
  results they add to a report; a charge the website releases, which only it
  decides; the seven days a listing goes on after its switch went off; the
  validation of records; configuration and the sealed box. In RelayStarts a
  failing save of the cursor file is a crash.
* In the CRE workflows: secrets, configuration, the fields of Beam's replies, the
  encodings, headers and signatures; logs removed by a reorg; two executions of one
  trigger at a time. Consensus is the CRE runtime's.
* The Go, Rust and Python SDKs, as ports of the same protocol; the shells and
  user interfaces; vendored code.

## Plan

Done: RouteRecovery, TransferReceipts, the relay (its three passes, composed with the
contract) and Bridge with their proofs; the CRE workflows composed with the contract;
RouteStream; the request layer and `waitForTransfer`; integrity and route signing, Hub staging; the Web
SDK and its server.

Left, in this order:

1. RouteStream under RouteRecovery: the stream that RouteRecovery takes for one step,
   refined.
2. WebTransferHandle over WebTransfers: the handle on the broker's event streams step by step,
   with their polls, of which WebTransferHandle has what a connection sends.
3. Bridge over ReceiptsWorkflow: the attestations it asks for, answered by executions.

Theorem still worth proving: `RecordsAreBeams` of ReceiptsWorkflow over the contract's
invariant.
