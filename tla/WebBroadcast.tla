---------------------------- MODULE WebBroadcast ----------------------------
(***************************************************************************)
(* beam.broadcast of src/packages/web-sdk/src/broadcast/index.ts: publish  *)
(* and watch resolve an endpoint, exchange SDP with the relay over WHIP or *)
(* WHEP and give a BroadcastConnection whose close() releases the relay's  *)
(* slot.  Any step may fail; the caller's signal may abort any of them.    *)
(***************************************************************************)
EXTENDS Naturals

CONSTANT MaxTroubles    \* bound: failures and aborts

VARIABLES
    call,       \* where publish() or watch() stands
    peer,       \* the RTCPeerConnection: "none", "open" or "closed"
    resource,   \* #resourceUrl # undefined
    closing,    \* close(): "no", "deleting" or "done"
    deletes,    \* DELETEs sent
    slot,       \* external: the relay holds a slot
    located,    \* external: its answer has a Location
    troubles

vars == <<call, peer, resource, closing, deletes, slot, located, troubles>>

Init ==
    /\ call = "idle" /\ peer = "none" /\ resource = FALSE /\ closing = "no"
    /\ deletes = 0 /\ slot = FALSE /\ located = FALSE /\ troubles = 0

Trouble == troubles < MaxTroubles /\ troubles' = troubles + 1

-----------------------------------------------------------------------------
\* publish and watch differ in the endpoint and the tracks; with an explicit url no
\* room is looked up.
Begin ==
    /\ call = "idle"
    /\ call' = "resolving"
    /\ UNCHANGED <<peer, resource, closing, deletes, slot, located, troubles>>

\* #resolveEndpoint done: the peer and its connection are made.
Resolved ==
    /\ call = "resolving"
    /\ call' = "offering" /\ peer' = "open"
    /\ UNCHANGED <<resource, closing, deletes, slot, located, troubles>>

\* exchangeSdp: the offer and its candidates, the POST, the answer's body and its SDP.
Gathered ==
    /\ call = "offering"
    /\ call' = "posted"
    /\ UNCHANGED <<peer, resource, closing, deletes, slot, located, troubles>>

\* External: the relay takes the offer, and its answer gets here or not.
RelayAnswers(heard) ==
    /\ call = "posted" /\ ~slot
    /\ slot' = TRUE /\ located' \in BOOLEAN
    /\ call' = IF heard THEN "body" ELSE call
    /\ UNCHANGED <<peer, resource, closing, deletes, troubles>>

Answered ==
    /\ call = "body"
    /\ call' = "remote"
    /\ UNCHANGED <<peer, resource, closing, deletes, slot, located, troubles>>

\* setRemoteDescription, then setResourceUrl with the Location if there is one.
Live ==
    /\ call = "remote"
    /\ call' = "live" /\ resource' = located
    /\ UNCHANGED <<peer, closing, deletes, slot, located, troubles>>

\* close(), once: the peer, then a DELETE of the resource.
CloseNow ==
    /\ closing' = IF resource THEN "deleting" ELSE "done"
    /\ peer' = "closed" /\ resource' = FALSE

\* An error or an abort: before there is a peer it is thrown, else close() comes first.
Caught == IF peer = "open" THEN CloseNow ELSE UNCHANGED <<closing, peer, resource>>

Fails ==
    /\ call \in {"resolving", "offering", "posted", "body", "remote"} /\ Trouble
    /\ call' = "failed"
    /\ Caught
    /\ UNCHANGED <<deletes, slot, located>>

Closed == closing # "no"

Close ==
    /\ call = "live" /\ ~Closed
    /\ CloseNow
    /\ UNCHANGED <<call, deletes, slot, located, troubles>>

\* The DELETE reaches the relay, or fails: then it is only logged.
Delete(served) ==
    /\ closing = "deleting"
    /\ closing' = "done" /\ deletes' = deletes + 1
    /\ slot' = IF served THEN FALSE ELSE slot
    /\ IF served THEN UNCHANGED troubles ELSE Trouble
    /\ UNCHANGED <<call, peer, resource, located>>

-----------------------------------------------------------------------------
Next ==
    \/ Begin \/ Resolved \/ Gathered \/ Answered \/ Live \/ Fails \/ Close
    \/ RelayAnswers(TRUE) \/ RelayAnswers(FALSE) \/ Delete(TRUE) \/ Delete(FALSE)

Spec == Init /\ [][Next]_vars

-----------------------------------------------------------------------------
(* A call that failed at any step has left no open peer connection, and so   *)
(* has a connection that is closed.                                          *)
NoPeerLeft == call = "failed" \/ closing # "no" => peer # "open"

(* A connection that was live and is closed has released the relay's slot,   *)
(* unless the code could not know the resource (no Location) or its DELETE   *)
(* failed; nothing is deleted twice.  A call that failed deletes nothing:    *)
(* the resource is set only after setRemoteDescription and the Location      *)
(* header is read only then, so a publish or a watch that fails between the  *)
(* relay's 201 and there leaves its slot to the relay's lease, even where    *)
(* the answer it has names the resource (index.ts:140-155).                  *)
SlotReleased ==
    /\ deletes <= 1
    /\ call = "live" /\ closing = "done" /\ slot => ~located \/ troubles > 0
    /\ call = "failed" => deletes = 0

=============================================================================
