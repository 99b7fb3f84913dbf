---------------------------- MODULE TransferWait ----------------------------
(***************************************************************************)
(* waitForTransfer of src/sdks/typescript/src/client.ts: the loop of       *)
(* status requests, the terminal event that cuts its delays short          *)
(* (openTerminalSignalWaiter of nats-control.ts), the Hub commit that a    *)
(* completed transfer still needs (finalizeHuggingFaceUploads), and        *)
(* close() of the control at any time.                                     *)
(*                                                                         *)
(* Delays are abstracted: a timer may fire at any time.  The Runtime's     *)
(* terminal event is delivered at most once to each subscription, and may  *)
(* be lost or malformed; the status request is authoritative.              *)
(***************************************************************************)
EXTENDS Naturals

CONSTANTS
    Waits,      \* calls of waitForTransfer, all for one transfer
    Uploads     \* how many Hub uploads the transfer staged (huggingFaceUploads)

VARIABLES
    pc,         \* where each call stands
    seen,       \* the status its last request returned
    waiter,     \* its terminal waiter: "none", "open" or "closed"
    pending,    \* an event waits in pending
    broken,     \* terminalError # null
    told,       \* the event was delivered to (or lost for) its subscription
    registered, \* terminalWaitCancellations
    closed,     \* this.closed of the control
    staged,     \* huggingFaceUploads has an entry for the transfer
    upload,     \* the upload that the call finalizes, from 1
    commits,    \* external: commits the Hub made of each upload
    status      \* external: the transfer's status

waiterVars == <<waiter, pending, broken, told, registered>>
hubVars == <<staged, upload, commits>>
vars == <<pc, seen, waiterVars, closed, hubVars, status>>

-----------------------------------------------------------------------------
Terminal == {"completed", "failed", "cancelled"}
Ended == {"completed", "failed", "cancelled", "timedOut", "error"}
Subscribed == {"flushing", "open"}

Init ==
    /\ pc = [w \in Waits |-> "idle"]
    /\ seen = [w \in Waits |-> "running"]
    /\ waiter = [w \in Waits |-> "none"]
    /\ pending = [w \in Waits |-> FALSE] /\ broken = [w \in Waits |-> FALSE]
    /\ told = [w \in Waits |-> FALSE]
    /\ registered = {} /\ closed = FALSE
    /\ staged = (Uploads > 0) /\ upload = [w \in Waits |-> 1]
    /\ commits = [i \in 1..Uploads |-> 0]
    /\ status = "running"

At(w, state) == pc' = [pc EXCEPT ![w] = state]

\* close() of a terminal waiter: unregistered, unsubscribed, settled with null.
CloseWaiter(w) ==
    /\ waiter' = [waiter EXCEPT ![w] = IF @ = "none" THEN @ ELSE "closed"]
    /\ registered' = registered \ {w}
    /\ UNCHANGED <<pending, broken, told>>

\* The finally of waitForTransfer.
Finally(w) == CloseWaiter(w)
End(w, outcome) == At(w, outcome) /\ Finally(w)

-----------------------------------------------------------------------------
(* Opening the terminal waiter. *)

Begin(w) ==
    /\ pc[w] = "idle"
    /\ At(w, "opening")
    /\ UNCHANGED <<seen, waiterVars, closed, hubVars, status>>

\* connection(), then subscribe.
Subscribe(w) ==
    /\ pc[w] = "opening" /\ ~closed
    /\ At(w, "flushing")
    /\ waiter' = [waiter EXCEPT ![w] = "flushing"]
    /\ UNCHANGED <<seen, pending, broken, told, registered, closed, hubVars, status>>

\* connection() failed or the control is closed: the status requests are enough.
OpenFails(w) ==
    /\ pc[w] = "opening"
    /\ At(w, "asking")
    /\ UNCHANGED <<seen, waiterVars, closed, hubVars, status>>

\* After nc.flush(): a control that closed meanwhile cancelled nobody's wait.
Register(w) ==
    IF closed
    THEN waiter' = [waiter EXCEPT ![w] = "closed"] /\ registered' = registered
    ELSE waiter' = [waiter EXCEPT ![w] = "open"] /\ registered' = registered \union {w}

Flushed(w) ==
    /\ pc[w] = "flushing"
    /\ Register(w)
    /\ At(w, "asking")
    /\ UNCHANGED <<seen, pending, broken, told, closed, hubVars, status>>

-----------------------------------------------------------------------------
(* The loop. *)

Status(w) ==
    /\ pc[w] = "asking" /\ ~closed
    /\ seen' = [seen EXCEPT ![w] = status]
    /\ At(w, "answered")
    /\ UNCHANGED <<waiterVars, closed, hubVars, status>>

\* transferStatus throws, as it always does on a closed control.
StatusFails(w) ==
    /\ pc[w] = "asking"
    /\ End(w, "error")
    /\ UNCHANGED <<seen, closed, hubVars, status>>

Failed(w) ==
    /\ pc[w] = "answered" /\ seen[w] \in {"failed", "cancelled"}
    /\ End(w, seen[w])
    /\ UNCHANGED <<seen, closed, hubVars, status>>

TimedOut(w) ==
    /\ pc[w] = "answered" /\ seen[w] = "running"
    /\ End(w, "timedOut")
    /\ UNCHANGED <<seen, closed, hubVars, status>>

\* wait() of the waiter: null when it is closed, its error when it is broken, the
\* pending event, else an active wait.  Without a waiter, a delay.
Wait(w) ==
    /\ pc[w] = "answered" /\ seen[w] = "running"
    /\ \/ /\ waiter[w] = "open" /\ ~broken[w] /\ pending[w]
          /\ At(w, "asking")
          /\ pending' = [pending EXCEPT ![w] = FALSE]
          /\ UNCHANGED <<waiter, broken, told, registered>>
       \/ /\ waiter[w] = "open" /\ ~broken[w] /\ ~pending[w]
          /\ At(w, "waiting")
          /\ UNCHANGED waiterVars
       \/ /\ waiter[w] = "open" /\ broken[w]
          /\ At(w, "sleeping")
          /\ CloseWaiter(w)
       \/ /\ waiter[w] # "open"
          /\ At(w, IF waiter[w] = "closed" /\ closed THEN "asking" ELSE "sleeping")
          /\ UNCHANGED waiterVars
    /\ UNCHANGED <<seen, closed, hubVars, status>>

Timer(w) ==
    /\ pc[w] \in {"waiting", "sleeping"}
    /\ At(w, "asking")
    /\ UNCHANGED <<seen, waiterVars, closed, hubVars, status>>

-----------------------------------------------------------------------------
(* finalizeHuggingFaceUploads: the entry is deleted before the first await. *)

TakeStaged == staged' = FALSE

Finalize(w) ==
    /\ pc[w] = "answered" /\ seen[w] = "completed" /\ staged
    /\ TakeStaged
    /\ At(w, "finalizing")
    /\ UNCHANGED <<seen, waiterVars, closed, upload, commits, status>>

NothingToFinalize(w) ==
    /\ pc[w] = "answered" /\ seen[w] = "completed" /\ ~staged
    /\ End(w, "completed")
    /\ UNCHANGED <<seen, closed, hubVars, status>>

\* Completion, verification and commit of one upload.
PublishedLast(w) == upload[w] = Uploads
Publish(w) ==
    /\ pc[w] = "finalizing"
    /\ commits' = [commits EXCEPT ![upload[w]] = @ + 1]
    /\ upload' = [upload EXCEPT ![w] = @ + 1]
    /\ IF PublishedLast(w)
       THEN staged' = FALSE /\ End(w, "completed")
       ELSE staged' = staged /\ pc' = pc /\ UNCHANGED waiterVars
    /\ UNCHANGED <<seen, closed, status>>

\* An ETag, the completion, the verification or the commit fails.
PublishFails(w) ==
    /\ pc[w] = "finalizing"
    /\ End(w, "error")
    /\ UNCHANGED <<seen, closed, hubVars, status>>

-----------------------------------------------------------------------------
(* The control and the Runtime. *)

\* BeamTransferControl.close(): every registered waiter is cancelled.
Close ==
    /\ ~closed
    /\ closed' = TRUE
    /\ waiter' = [w \in Waits |-> IF w \in registered THEN "closed" ELSE waiter[w]]
    /\ pc' = [w \in Waits |-> IF w \in registered /\ pc[w] = "waiting" THEN "asking"
                              ELSE pc[w]]
    /\ registered' = {}
    /\ UNCHANGED <<seen, pending, broken, told, hubVars, status>>

TransferEnds ==
    /\ status = "running"
    /\ status' \in Terminal
    /\ UNCHANGED <<pc, seen, waiterVars, closed, hubVars>>

\* The subscription's callback with an event that parseTerminalEvent accepts.
Event(w) ==
    /\ status \in Terminal /\ waiter[w] \in Subscribed /\ ~told[w] /\ ~broken[w]
    /\ told' = [told EXCEPT ![w] = TRUE]
    /\ IF pc[w] = "waiting"
       THEN At(w, "asking") /\ UNCHANGED pending
       ELSE pending' = [pending EXCEPT ![w] = TRUE] /\ pc' = pc
    /\ UNCHANGED <<seen, waiter, broken, registered, closed, hubVars, status>>

\* The callback with an error, or with an event that does not parse: an active
\* wait is rejected, and waitForTransfer goes on without the waiter.
BadEvent(w) ==
    /\ waiter[w] \in Subscribed /\ ~told[w] /\ ~broken[w]
    /\ broken' = [broken EXCEPT ![w] = TRUE]
    /\ IF pc[w] = "waiting"
       THEN /\ At(w, "sleeping")
            /\ waiter' = [waiter EXCEPT ![w] = "closed"]
            /\ registered' = registered \ {w}
       ELSE pc' = pc /\ UNCHANGED <<waiter, registered>>
    /\ UNCHANGED <<seen, pending, told, closed, hubVars, status>>

EventLost(w) ==
    /\ status \in Terminal /\ ~told[w]
    /\ told' = [told EXCEPT ![w] = TRUE]
    /\ UNCHANGED <<pc, seen, waiter, pending, broken, registered, closed, hubVars, status>>

-----------------------------------------------------------------------------
WaitStep(w) ==
    \/ Subscribe(w) \/ OpenFails(w) \/ Flushed(w)
    \/ Status(w) \/ StatusFails(w) \/ Failed(w) \/ TimedOut(w) \/ Wait(w) \/ Timer(w)
    \/ Finalize(w) \/ NothingToFinalize(w) \/ Publish(w) \/ PublishFails(w)

Next ==
    \/ \E w \in Waits : Begin(w) \/ WaitStep(w) \/ Event(w) \/ BadEvent(w) \/ EventLost(w)
    \/ Close \/ TransferEnds

\* The continuations and timers of a call run.
Spec == Init /\ [][Next]_vars /\ \A w \in Waits : WF_vars(WaitStep(w))

-----------------------------------------------------------------------------
(* Calls, waiters and uploads are in the states the code has, and no upload  *)
(* is finalized past the last one.                                           *)
TypeOK ==
    /\ pc \in [Waits -> Ended \union {"idle", "opening", "flushing", "asking", "answered",
                                      "waiting", "sleeping", "finalizing"}]
    /\ seen \in [Waits -> Terminal \union {"running"}] /\ status \in Terminal \union {"running"}
    /\ waiter \in [Waits -> {"none", "flushing", "open", "closed"}]
    /\ pending \in [Waits -> BOOLEAN] /\ broken \in [Waits -> BOOLEAN]
    /\ told \in [Waits -> BOOLEAN] /\ registered \subseteq Waits
    /\ closed \in BOOLEAN /\ staged \in BOOLEAN
    /\ upload \in [Waits -> 1..(Uploads + 1)] /\ commits \in [1..Uploads -> Nat]
    /\ \A w \in Waits : pc[w] = "finalizing" => upload[w] <= Uploads

(* A call that has ended, in whichever way, has left no subscription and no  *)
(* cancellation behind (client.ts:1546).                                     *)
NoWaiterLeft ==
    \A w \in Waits : pc[w] \in Ended => waiter[w] \notin Subscribed /\ w \notin registered

(* A closed control has no wait that only its timer could end: also not one  *)
(* whose subscription was being flushed during close() (nats-control.ts:563).*)
ClosedHasNoWait ==
    closed => /\ registered = {}
              /\ \A w \in Waits : ~(pc[w] = "waiting" /\ waiter[w] = "open")

(* Two calls that see the transfer complete, or one call after another, never *)
(* commit a Hub upload twice (client.ts:981).                                 *)
CommittedOnce == \A i \in 1..Uploads : commits[i] <= 1

(* Again and again: when the transfer has ended, or the control is closed,   *)
(* every call has ended, although the terminal event may be lost or          *)
(* malformed, or come before the subscription and between a status and the   *)
(* wait that follows it.                                                     *)
WaitsEnded ==
    \/ status = "running" /\ ~closed
    \/ \A w \in Waits : pc[w] \in Ended \union {"idle"}

(* What client.ts:1509 says of a completed transfer: "The parts have landed;  *)
(* publish them as a Hub commit before reporting success."                    *)
SuccessIsPublished ==
    (\E w \in Waits : pc[w] = "completed") => \A i \in 1..Uploads : commits[i] > 0

=============================================================================
