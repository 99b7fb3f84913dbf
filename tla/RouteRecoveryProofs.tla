------------------------ MODULE RouteRecoveryProofs ------------------------
(***************************************************************************)
(* Proofs about RouteRecovery, for any set of transfers and owners and any *)
(* number of Runtime epochs.                                               *)
(***************************************************************************)
EXTENDS RouteRecovery, TLAPS

LoopMap == [Owners -> LoopStates]
RequestMap == [Transfers -> Requests]

\* The records a loop can be in.
LEMMA LoopRecords ==
    /\ Idle \in LoopStates
    /\ \A e \in Requests : Round(e) \in LoopStates
    /\ \A e \in Requests : \A p \in {"lock", "replay", "sleep"} :
          LoopAt(p, e) \in LoopStates
    /\ \A l \in LoopStates :
          /\ [l EXCEPT !.late = TRUE] \in LoopStates
          /\ \A r \in Recoveries, e \in Epochs :
                [l EXCEPT !.reply = r, !.at = e] \in LoopStates
  BY DEF Idle, Round, LoopAt, LoopStates, Requests, Recoveries

\* recoverLease keeps the map of loops well formed.
LEMMA RecoverLeaseType ==
    ASSUME NEW loops \in LoopMap, NEW S, NEW requests \in RequestMap
    PROVE  RecoverLease(loops, S, requests) \in LoopMap
  BY LoopRecords, OwnerAssumption DEF RecoverLease, LoopMap, RequestMap

\* An observed reply keeps the requests and the loops well formed.
LEMMA ObserveType ==
    ASSUME TypeOK, NEW e \in {0} \cup Epochs
    PROVE  RequestedAt(e) \in RequestMap /\ LoopsAt(e) \in LoopMap
  <1>1. RequestedAt(e) \in RequestMap
    BY DEF RequestedAt, RequestMap, Requests, TypeOK
  <1>2. loop \in LoopMap
    BY DEF TypeOK, LoopMap
  <1>3. QED
    BY <1>1, <1>2, RecoverLeaseType DEF LoopsAt

\* The end of a loop keeps the loops well formed.
LEMMA LoopExitType ==
    ASSUME NEW loops \in LoopMap, NEW requests \in RequestMap, NEW o \in Owners
    PROVE  LoopExit(loops, requests, o) \in LoopMap
  <1>1. [loops EXCEPT ![o] = Idle] \in LoopMap
    BY LoopRecords DEF LoopMap
  <1>2. QED
    BY <1>1, RecoverLeaseType DEF LoopExit

\* A release keeps the types of the lease maps.
LEMMA ReleaseType ==
    ASSUME TypeOK, NEW t \in Transfers, NEW o \in Owners, ReleaseOwned(t, o)
    PROVE  /\ lease' \in [Transfers -> Owners \cup {NoOwner}]
           /\ disposed' \subseteq Owners
           /\ requested' \in [Transfers -> Requests]
           /\ handled' \in [Transfers -> Requests]
  BY DEF ReleaseOwned, TypeOK, Requests

\* The end of a recovery round keeps the types of loops and leases.
LEMMA RoundOverType ==
    ASSUME TypeOK, NEW loops \in LoopMap, NEW requests \in RequestMap,
           NEW o \in Owners, RoundOver(loops, requests, o)
    PROVE  loop' \in LoopMap /\ handled' \in RequestMap
  <1>1. TransferOf[o] \in Transfers /\ loops[o].epoch \in Requests
        /\ requests[TransferOf[o]] \in Requests
    BY OwnerAssumption DEF LoopMap, LoopStates, RequestMap
  <1>2. handled \in RequestMap
    BY DEF TypeOK, RequestMap
  <1>3. QED
    BY <1>1, <1>2, LoopRecords DEF RoundOver, LoopMap, RequestMap

\* Stopping a signer keeps the types of the signer map.
LEMMA SignerType ==
    ASSUME TypeOK, NEW t \in Transfers, NEW o \in Owners,
           StopSignerOwned(t, o) \/ StopSignerAny(t)
    PROVE  /\ signer' \in [Transfers -> Owners \cup {NoOwner}]
           /\ serving' \subseteq Owners
  BY DEF StopSignerOwned, StopSignerAny, TypeOK

\* A hand-over keeps the types of requests and loops.
LEMMA HandOverType ==
    ASSUME TypeOK, NEW o \in Owners, HandOver(o)
    PROVE  requested' \in RequestMap /\ loop' \in LoopMap
  <1>1. requested' \in RequestMap
    BY OwnerAssumption DEF HandOver, RequestMap, Requests, TypeOK
  <1>2. loop \in LoopMap
    BY DEF TypeOK, LoopMap
  <1>3. RecoverLease(loop, {o}, requested') \in LoopMap
    BY <1>1, <1>2, RecoverLeaseType
  <1>4. [loop EXCEPT ![o].late = TRUE] \in LoopMap
    BY <1>2, LoopRecords DEF LoopMap
  <1>5. QED
    BY <1>1, <1>3, <1>4 DEF HandOver

\* A failed round keeps the types of loops and leases.
LEMMA LoopErrorType ==
    ASSUME TypeOK, NEW o \in Owners, NEW retryable, LoopError(o, retryable)
    PROVE  /\ lease' \in [Transfers -> Owners \cup {NoOwner}]
           /\ disposed' \subseteq Owners
           /\ requested' \in RequestMap
           /\ handled' \in RequestMap
           /\ loop' \in LoopMap
  <1>0. /\ TransferOf[o] \in Transfers /\ loop \in LoopMap
        /\ requested \in RequestMap /\ handled \in RequestMap
    BY OwnerAssumption DEF TypeOK, LoopMap, RequestMap
  <1>1. CASE ~Owns(o)
    BY <1>0, <1>1, LoopExitType DEF LoopError, TypeOK
  <1>2. CASE Owns(o) /\ ~retryable
    <2>1. loop' \in LoopMap
      BY <1>0, <1>2, LoopRecords DEF LoopError, LoopMap
    <2>2. ReleaseOwned(TransferOf[o], o)
      BY <1>2 DEF LoopError
    <2>3. QED
      BY <1>0, <2>1, <2>2, ReleaseType DEF RequestMap
  <1>3. CASE Owns(o) /\ retryable
    <2>1. LoopAt("sleep", 0) \in LoopStates
      BY LoopRecords DEF Requests
    <2>2. QED
      BY <1>0, <1>3, <2>1 DEF LoopError, LoopMap, TypeOK
  <1>4. QED
    BY <1>1, <1>2, <1>3 DEF LoopError

\* Registering a lease keeps the types of the lease maps.
LEMMA RegisterType ==
    ASSUME TypeOK, NEW o \in Owners, Register(o)
    PROVE  /\ lease' \in [Transfers -> Owners \cup {NoOwner}]
           /\ disposed' \subseteq Owners
           /\ registered' \subseteq Owners
           /\ requested' \in RequestMap
           /\ loop' \in LoopMap
           /\ fg' \in [Owners -> ForegroundStates]
  <1>1. requested' \in RequestMap /\ loop' \in LoopMap
    BY HandOverType DEF Register, TypeOK, RequestMap, LoopMap
  <1>2. fg' \in [Owners -> ForegroundStates]
    BY DEF Register, TypeOK, ForegroundStates, LockedForeground
  <1>3. QED
    BY <1>1, <1>2, OwnerAssumption DEF Register, TypeOK

-----------------------------------------------------------------------------

\* Every loop step preserves the types.
LEMMA LoopStepType ==
    ASSUME TypeOK, NEW o \in Owners, ResumeServed(o) \/ LoopStep(o)
    PROVE  TypeOK'
  <1>0. /\ TransferOf[o] \in Transfers /\ loop \in LoopMap
        /\ requested \in RequestMap /\ handled \in RequestMap
        /\ loop[o].at \in {0} \cup Epochs
    BY OwnerAssumption DEF TypeOK, LoopMap, RequestMap, LoopStates
  <1>a. /\ RequestedAt(loop[o].at) \in RequestMap
        /\ LoopsAt(loop[o].at) \in LoopMap
    BY <1>0, ObserveType
  <1>1. CASE ResumeServed(o)
    <2>1. loop' \in LoopMap
      <3>1. PICK r \in Recoveries :
               loop' = [loop EXCEPT ![o] = [@ EXCEPT !.reply = r,
                                                     !.at = runtimeEpoch]]
        BY <1>1 DEF ResumeServed
      <3>2. loop[o] \in LoopStates /\ runtimeEpoch \in Epochs
        BY DEF TypeOK
      <3>3. [loop[o] EXCEPT !.reply = r, !.at = runtimeEpoch] \in LoopStates
        BY <3>2, LoopRecords
      <3>4. QED
        BY <1>0, <3>1, <3>3 DEF LoopMap
    <2>2. QED
      BY <1>0, <1>1, <2>1
      DEF ResumeServed, controlVars, clientVars, TypeOK, LoopMap
  <1>2. CASE ResumeFailed(o)
    BY <1>2, LoopErrorType
    DEF ResumeFailed, clientVars, runtimeVars, TypeOK, LoopMap, RequestMap
  <1>3. CASE ReplyFenced(o)
    BY <1>0, <1>a, <1>3, LoopExitType
    DEF ReplyFenced, ReplyObservedBy, clientVars, runtimeVars, TypeOK, LoopMap,
        RequestMap
  <1>4. CASE ReplyTerminal(o)
    <2>1. loop' \in LoopMap /\ requested' \in RequestMap /\ handled' \in RequestMap
      BY <1>0, <1>a, <1>4, LoopRecords
      DEF ReplyTerminal, LoopMap, RequestMap, Requests
    <2>2. QED
      BY <1>0, <1>4, <2>1
      DEF ReplyTerminal, ReplyObservedBy, clientVars, runtimeVars, TypeOK,
          LoopMap, RequestMap
  <1>5. CASE ReplyReplay(o)
    <2>1. loop' \in LoopMap
      <3>1. loop[o].epoch \in Requests
        BY <1>0 DEF LoopMap, LoopStates
      <3>2. QED
        BY <1>a, <1>5, <3>1, LoopRecords DEF ReplyReplay, LoopMap
    <2>2. QED
      BY <1>0, <1>a, <1>5, <2>1
      DEF ReplyReplay, ReplyObservedBy, clientVars, runtimeVars, TypeOK,
          LoopMap, RequestMap
  <1>6. CASE ReplyReconciling(o)
    BY <1>0, <1>a, <1>6, RoundOverType
    DEF ReplyReconciling, ReplyObservedBy, clientVars, runtimeVars, TypeOK,
        LoopMap, RequestMap
  <1>7. CASE ReplayBegin(o)
    <2>1. loop' \in LoopMap
      <3>1. loop[o].epoch \in Requests
        BY <1>0 DEF LoopMap, LoopStates
      <3>2. LoopAt("replay", loop[o].epoch) \in LoopStates
        BY <3>1, LoopRecords
      <3>3. QED
        BY <1>0, <1>7, <3>2 DEF ReplayBegin, LoopMap
    <2>2. QED
      BY <1>7, <2>1
      DEF ReplayBegin, controlVars, clientVars, runtimeVars, TypeOK, LoopMap
  <1>8. CASE ReplayRefused(o)
    BY <1>8, LoopErrorType
    DEF ReplayRefused, clientVars, runtimeVars, TypeOK, LoopMap, RequestMap
  <1>9. CASE ReplayDone(o)
    <2>1. loop' \in LoopMap /\ handled' \in RequestMap
      BY <1>0, <1>9, RoundOverType, LoopExitType DEF ReplayDone
    <2>2. QED
      BY <1>9, <2>1
      DEF ReplayDone, clientVars, runtimeVars, TypeOK, LoopMap, RequestMap
  <1>10. CASE ReplayFailed(o)
    <2>1. CASE o \in aborted
      <3>1. loop' \in LoopMap
        BY <1>0, <1>10, <2>1, LoopExitType DEF ReplayFailed
      <3>2. /\ StopSignerOwned(TransferOf[o], o)
            /\ ReleaseOwned(TransferOf[o], o)
        BY <1>10, <2>1 DEF ReplayFailed
      <3>3. QED
        BY <1>0, <1>10, <3>1, <3>2, ReleaseType, SignerType
        DEF ReplayFailed, runtimeVars, TypeOK, LoopMap
    <2>2. CASE o \notin aborted
      BY <1>10, <2>2, LoopErrorType
      DEF ReplayFailed, runtimeVars, TypeOK, LoopMap, RequestMap
    <2>3. QED
      BY <2>1, <2>2
  <1>11. CASE Wake(o)
    <2>1. loop' \in LoopMap
      <3>1. Round(requested[TransferOf[o]]) \in LoopStates
        BY <1>0, LoopRecords DEF RequestMap
      <3>2. [loop EXCEPT ![o] = Round(requested[TransferOf[o]])] \in LoopMap
        BY <1>0, <3>1 DEF LoopMap
      <3>3. QED
        BY <1>0, <1>11, <3>2, LoopExitType DEF Wake
    <2>2. QED
      BY <1>11, <2>1
      DEF Wake, controlVars, clientVars, runtimeVars, TypeOK, LoopMap
  <1>12. QED
    BY <1>1, <1>2, <1>3, <1>4, <1>5, <1>6, <1>7, <1>8, <1>9, <1>10, <1>11
    DEF LoopStep

\* Every step of a foreground call preserves the types.
LEMMA ForegroundStepType ==
    ASSUME TypeOK, NEW o \in Owners, ForegroundStep(o) \/ CallerStep(o)
    PROVE  TypeOK'
  <1>0. TransferOf[o] \in Transfers
    BY OwnerAssumption
  <1>a. ASSUME ObserveRuntime
        PROVE  /\ requested' \in RequestMap /\ loop' \in LoopMap
               /\ epochSeen' \in {0} \cup Epochs
    BY <1>a, ObserveType DEF ObserveRuntime, TypeOK
  <1>b. ASSUME ContinueRecovery(o)
        PROVE  requested' \in RequestMap /\ loop' \in LoopMap
    BY <1>b, HandOverType DEF ContinueRecovery, TypeOK, RequestMap, LoopMap
  <1>1. CASE Prepare(o)
    BY <1>0, <1>1, <1>a, SignerType
    DEF Prepare, controlVars, clientVars, runtimeVars, TypeOK, ForegroundStates,
        LockedForeground, LoopMap, RequestMap
  <1>2. CASE PrepareFailed(o)
    BY <1>0, <1>2
    DEF PrepareFailed, controlVars, clientVars, runtimeVars, TypeOK, ForegroundStates,
        LockedForeground, LoopMap, RequestMap
  <1>3. CASE SignerServed(o)
    BY <1>0, <1>3, RegisterType
    DEF SignerServed, controlVars, clientVars, runtimeVars, TypeOK, ForegroundStates,
        LockedForeground, LoopMap, RequestMap
  <1>4. CASE SignerFailed(o)
    BY <1>0, <1>4
    DEF SignerFailed, controlVars, clientVars, runtimeVars, TypeOK, ForegroundStates,
        LockedForeground, LoopMap, RequestMap
  <1>5. CASE IntegrityServed(o)
    BY <1>0, <1>5, RegisterType
    DEF IntegrityServed, controlVars, clientVars, runtimeVars, TypeOK, ForegroundStates,
        LockedForeground, LoopMap, RequestMap
  <1>6. CASE IntegrityFailed(o)
    BY <1>0, <1>6, RegisterType, SignerType
    DEF IntegrityFailed, controlVars, clientVars, runtimeVars, TypeOK, ForegroundStates,
        LockedForeground, LoopMap, RequestMap
  <1>7. CASE PrepareManual(o)
    BY <1>0, <1>7, <1>a
    DEF PrepareManual, controlVars, clientVars, runtimeVars, TypeOK, ForegroundStates,
        LockedForeground, LoopMap, RequestMap
  <1>8. CASE AttachSignedUrls(o)
    BY <1>0, <1>8, RegisterType
    DEF AttachSignedUrls, controlVars, clientVars, runtimeVars, TypeOK, ForegroundStates,
        LockedForeground, LoopMap, RequestMap
  <1>9. CASE CallbackDone(o)
    BY <1>0, <1>9
    DEF CallbackDone, controlVars, clientVars, runtimeVars, TypeOK, ForegroundStates,
        LockedForeground, LoopMap, RequestMap
  <1>10. CASE CallbackFailed(o)
    BY <1>0, <1>10, <1>b
    DEF CallbackFailed, controlVars, clientVars, runtimeVars, TypeOK, ForegroundStates,
        LockedForeground, LoopMap, RequestMap
  <1>11. CASE StreamDone(o)
    BY <1>0, <1>11, <1>a
    DEF StreamDone, controlVars, clientVars, runtimeVars, TypeOK, ForegroundStates,
        LockedForeground, LoopMap, RequestMap
  <1>12. CASE StreamHandedOver(o)
    BY <1>0, <1>12, <1>b
    DEF StreamHandedOver, controlVars, clientVars, runtimeVars, TypeOK, ForegroundStates,
        LockedForeground, LoopMap, RequestMap
  <1>13. CASE StreamAborted(o)
    BY <1>0, <1>13, SignerType, ReleaseType
    DEF StreamAborted, controlVars, clientVars, runtimeVars, TypeOK, ForegroundStates,
        LockedForeground, LoopMap, RequestMap
  <1>14. CASE StreamFatal(o)
    BY <1>0, <1>14, ReleaseType
    DEF StreamFatal, controlVars, clientVars, runtimeVars, TypeOK, ForegroundStates,
        LockedForeground, LoopMap, RequestMap
  <1>15. CASE CancelServed(o)
    BY <1>0, <1>15
    DEF CancelServed, controlVars, clientVars, runtimeVars, TypeOK, ForegroundStates,
        LockedForeground, LoopMap, RequestMap
  <1>16. CASE CleanupDone(o)
    BY <1>0, <1>16, ReleaseType
    DEF CleanupDone, controlVars, clientVars, runtimeVars, TypeOK, ForegroundStates,
        LockedForeground, LoopMap, RequestMap
  <1>17. CASE Abort(o)
    BY <1>0, <1>17, OwnerAssumption, SignerType, ReleaseType
    DEF Abort, controlVars, clientVars, runtimeVars, TypeOK, ForegroundStates,
        LockedForeground, LoopMap, RequestMap
  <1>18. QED
    BY <1>1, <1>2, <1>3, <1>4, <1>5, <1>6, <1>7, <1>8, <1>9, <1>10, <1>11, <1>12, <1>13, <1>14, <1>15, <1>16, <1>17 DEF ForegroundStep, CallerStep

\* Every step that names no owner preserves the types.
LEMMA OtherStepType ==
    ASSUME TypeOK,
           \/ \E t \in Transfers : StatusTerminal(t) \/ CancelTransfer(t)
                                     \/ TransferFinishes(t)
           \/ \E e \in Epochs : ReplyObserved(e)
           \/ Close \/ RuntimeRestart
    PROVE  TypeOK'
  <1>1. ASSUME NEW t \in Transfers, ReleaseAny(t)
        PROVE  /\ lease' \in [Transfers -> Owners \cup {NoOwner}]
               /\ disposed' \subseteq Owners
               /\ requested' \in [Transfers -> Requests]
               /\ handled' \in [Transfers -> Requests]
    BY <1>1, ReleaseType DEF ReleaseAny, TypeOK
  <1>2. ASSUME NEW t \in Transfers, StopSignerAny(t)
        PROVE  /\ signer' \in [Transfers -> Owners \cup {NoOwner}]
               /\ serving' \subseteq Owners
    BY <1>2 DEF StopSignerAny, TypeOK
  <1>3. ASSUME NEW t \in Transfers, StatusTerminal(t) PROVE TypeOK'
    BY <1>1, <1>2, <1>3 DEF StatusTerminal, runtimeVars, TypeOK
  <1>4. ASSUME NEW t \in Transfers, CancelTransfer(t) PROVE TypeOK'
    BY <1>1, <1>2, <1>4 DEF CancelTransfer, TypeOK
  <1>5. ASSUME NEW t \in Transfers, TransferFinishes(t) PROVE TypeOK'
    BY <1>5 DEF TransferFinishes, controlVars, clientVars, TypeOK
  <1>6. ASSUME NEW e \in Epochs, ReplyObserved(e) PROVE TypeOK'
    BY <1>6, ObserveType
    DEF ReplyObserved, clientVars, runtimeVars, TypeOK, RequestMap, LoopMap
  <1>7. CASE Close
    BY <1>7 DEF Close, runtimeVars, TypeOK, Requests
  <1>8. CASE RuntimeRestart
    BY <1>8, EpochAssumption
    DEF RuntimeRestart, controlVars, clientVars, TypeOK, Epochs
  <1>9. QED
    BY <1>3, <1>4, <1>5, <1>6, <1>7, <1>8

\* The initial state is well typed.
LEMMA InitType == Init => TypeOK
  <1>1. Idle \in LoopStates
    BY LoopRecords
  <1>2. 1 \in Epochs /\ 0 \in Requests /\ "idle" \in ForegroundStates
    BY EpochAssumption DEF Epochs, Requests, ForegroundStates
  <1>3. QED
    BY <1>1, <1>2 DEF Init, TypeOK

\* Every step keeps the types.
LEMMA NextType == TypeOK /\ [Next]_vars => TypeOK'
  <1>1. ASSUME TypeOK, Next PROVE TypeOK'
    BY <1>1, LoopStepType, ForegroundStepType, OtherStepType DEF Next
  <1>2. ASSUME TypeOK, UNCHANGED vars PROVE TypeOK'
    BY <1>2 DEF vars, controlVars, clientVars, runtimeVars, TypeOK
  <1>3. QED
    BY <1>1, <1>2

\* Type correctness of the recovery state: every handler of the control and the
\* client keeps the maps, sets and loop records well formed.
THEOREM TypeCorrect == Spec => []TypeOK
  BY InitType, NextType, PTL DEF Spec

-----------------------------------------------------------------------------
(* The inductive invariant.                                                *)

\* The lease map, the requests, the loops and the credentials agree: a lease
\* belongs to a registered owner of its transfer, only a leased transfer has a
\* request, only a registered owner has a loop, and a call registers once.
LeaseInv ==
    /\ \A t \in Transfers : lease[t] # NoOwner =>
          TransferOf[lease[t]] = t /\ lease[t] \in registered
    /\ \A t \in Transfers : lease[t] = NoOwner => requested[t] = 0
    /\ closed => \A t \in Transfers : lease[t] = NoOwner
    /\ \A o \in Owners : loop[o].pc # "idle" => o \in registered
    /\ \A o \in Owners : fg[o] \in {"idle", "prepared", "signer", "integrity"}
                            => o \notin registered
    /\ disposed \subseteq registered

IInv == TypeOK /\ LeaseInv /\ SecretsFollowLease /\ OneStreamPerOwner
            /\ RequestedRecoveryCovered

\* What recoverLease does to the program counter of a loop.
LEMMA RecoverLeasePc ==
    ASSUME NEW loops \in LoopMap, NEW S, NEW requests, NEW p \in Owners
    PROVE  RecoverLease(loops, S, requests)[p].pc =
               IF p \in S /\ loops[p].pc = "idle" THEN "resume" ELSE loops[p].pc
  BY DEF RecoverLease, Round, LoopAt

\* What an observed reply does to it.
LEMMA ObservePc ==
    ASSUME TypeOK, NEW e, NEW p \in Owners
    PROVE  LoopsAt(e)[p].pc =
               IF EpochChanged(e) /\ (\E t \in Transfers : lease[t] = p)
                                  /\ loop[p].pc = "idle"
               THEN "resume" ELSE loop[p].pc
  <1>1. loop \in LoopMap
    BY DEF TypeOK, LoopMap
  <1>2. QED
    BY <1>1, RecoverLeasePc DEF LoopsAt

\* What the end of owner o's loop does to it.
LEMMA LoopExitPc ==
    ASSUME NEW loops \in LoopMap, NEW requests, NEW o \in Owners, NEW p \in Owners
    PROVE  LoopExit(loops, requests, o)[p].pc =
               IF p = o THEN "idle"
               ELSE IF ~closed /\ p = lease[TransferOf[o]] /\ loops[p].pc = "idle"
                    THEN "resume" ELSE loops[p].pc
  <1> DEFINE ended == [loops EXCEPT ![o] = Idle]
  <1>1. ended \in LoopMap
    BY LoopRecords DEF LoopMap
  <1>2. ended[p].pc = IF p = o THEN "idle" ELSE loops[p].pc
    BY DEF LoopMap, Idle, LoopAt
  <1>3. LoopExit(loops, requests, o) =
          IF closed THEN ended
          ELSE RecoverLease(ended, {lease[TransferOf[o]]} \ {o}, requests)
    BY DEF LoopExit
  <1> HIDE DEF ended
  <1>4. RecoverLease(ended, {lease[TransferOf[o]]} \ {o}, requests)[p].pc =
          IF p \in {lease[TransferOf[o]]} \ {o} /\ ended[p].pc = "idle"
          THEN "resume" ELSE ended[p].pc
    BY <1>1, RecoverLeasePc
  <1>5. QED
    BY <1>2, <1>3, <1>4

\* What the end of a round does to it.
LEMMA RoundOverPc ==
    ASSUME NEW loops \in LoopMap, NEW requests, NEW o \in Owners,
           RoundOver(loops, requests, o), NEW p \in Owners
    PROVE  /\ p # o => loop'[p] = loops[p]
           /\ loop'[o].pc \in {"idle", "resume"}
           /\ loop'[o].pc = "idle" => requests[TransferOf[o]] = loops[o].epoch
  BY DEF RoundOver, Round, Idle, LoopAt, LoopMap

\* What a hand-over does to it.
LEMMA HandOverPc ==
    ASSUME TypeOK, NEW o \in Owners, HandOver(o), NEW p \in Owners
    PROVE  loop'[p].pc = IF p = o /\ loop[p].pc = "idle" THEN "resume"
                         ELSE loop[p].pc
  <1>1. loop \in LoopMap
    BY DEF TypeOK, LoopMap
  <1>2. CASE loop[o].pc = "idle"
    BY <1>1, <1>2, RecoverLeasePc DEF HandOver
  <1>3. CASE loop[o].pc # "idle"
    <2>1. loop[o] \in LoopStates
      BY DEF TypeOK
    <2>2. [loop[o] EXCEPT !.late = TRUE].pc = loop[o].pc
      BY <2>1 DEF LoopStates
    <2>3. QED
      BY <1>1, <1>3, <2>2 DEF HandOver, LoopMap
  <1>4. QED
    BY <1>2, <1>3

-----------------------------------------------------------------------------
(* Every step but a registration only gives leases up.                     *)

Early == {"idle", "prepared", "signer", "integrity"}

\* What such a step may do: leases stay or go, together with their requests and
\* their secrets; loops belong to registered owners; a request that is left
\* without a loop is completed or some other loop covers it; a replay starts
\* only while its owner's foreground does not hold the lock.
KeepsOrReleases ==
    /\ registered' = registered
    /\ \A t \in Transfers : lease'[t] \in {lease[t], NoOwner}
    /\ \A t \in Transfers : lease'[t] = NoOwner => requested'[t] = 0
    /\ closed' => \A t \in Transfers : lease'[t] = NoOwner
    /\ \A p \in Owners : p \in disposed' <=>
          \/ p \in disposed
          \/ lease[TransferOf[p]] = p /\ lease'[TransferOf[p]] # p
    /\ \A p \in Owners : loop'[p].pc # "idle" => p \in registered
    /\ \A p \in Owners : fg'[p] \in Early => fg[p] \in Early
    /\ \A t \in Transfers : lease'[t] # NoOwner =>
          \/ requested'[t] \in {0, handled'[t]}
          \/ loop'[lease'[t]].pc # "idle"
          \/ requested'[t] = requested[t] /\ handled'[t] = handled[t]
    /\ \A p \in Owners : loop[p].pc # "idle" =>
          LET t == TransferOf[p]
          IN  \/ loop'[p].pc # "idle"
              \/ lease'[t] = NoOwner
              \/ loop'[lease'[t]].pc # "idle"
              \/ requested'[t] \in {0, handled'[t]}
    /\ \A p \in Owners : fg'[p] \in LockedForeground =>
          fg[p] \in LockedForeground \/ fg[p] \in Early
    /\ \A p \in Owners : loop'[p].pc = "replay" =>
          loop[p].pc = "replay" \/ fg'[p] \notin LockedForeground

\* Such a step preserves the invariant.
LEMMA KeepsOrReleasesPreserves ==
    ASSUME IInv, TypeOK', KeepsOrReleases
    PROVE  IInv'
  <1> USE DEF IInv
  <1>1. LeaseInv'
    BY OwnerAssumption DEF KeepsOrReleases, LeaseInv, TypeOK, Early, SecretsFollowLease
  <1>2. SecretsFollowLease'
    BY OwnerAssumption DEF KeepsOrReleases, LeaseInv, TypeOK, SecretsFollowLease
  <1>3. OneStreamPerOwner'
    BY DEF KeepsOrReleases, OneStreamPerOwner, LeaseInv, Early, TypeOK
  <1>4. RequestedRecoveryCovered'
    <2> SUFFICES ASSUME NEW o \in Owners,
                        lease'[TransferOf[o]] = o, loop'[o].pc = "idle",
                        requested'[TransferOf[o]] \notin {0, handled'[TransferOf[o]]}
                 PROVE  \E p \in Owners \ {o} : /\ TransferOf[p] = TransferOf[o]
                                                /\ loop'[p].pc # "idle"
      BY DEF RequestedRecoveryCovered
    <2>1. TransferOf[o] \in Transfers /\ o # NoOwner
      BY OwnerAssumption
    <2>2. lease[TransferOf[o]] = o
      BY <2>1 DEF KeepsOrReleases
    <2>3. /\ requested'[TransferOf[o]] = requested[TransferOf[o]]
          /\ handled'[TransferOf[o]] = handled[TransferOf[o]]
      BY <2>1 DEF KeepsOrReleases
    <2>4. loop[o].pc = "idle"
      BY <2>1 DEF KeepsOrReleases
    <2>5. PICK p \in Owners \ {o} : /\ TransferOf[p] = TransferOf[o]
                                    /\ loop[p].pc # "idle"
      BY <2>2, <2>3, <2>4 DEF RequestedRecoveryCovered
    <2>6. loop'[p].pc # "idle"
      BY <2>1, <2>5 DEF KeepsOrReleases
    <2>7. QED
      BY <2>5, <2>6
  <1>5. QED
    BY <1>1, <1>2, <1>3, <1>4

\* registerRecoveryLease preserves the invariant: the new owner has no loop yet
\* and takes over the request of the owner it replaces, whose secrets go.
LEMMA RegisterPreserves ==
    ASSUME IInv, TypeOK', NEW o \in Owners, Register(o), closed' = closed,
           handled' = handled, fg[o] \in {"prepared", "signer", "integrity"}
    PROVE  IInv'
  <1> USE DEF IInv
  <1>0. /\ TransferOf[o] \in Transfers /\ o # NoOwner
        /\ o \notin registered /\ loop[o].pc = "idle" /\ o \notin disposed
    BY OwnerAssumption DEF LeaseInv
  <1>a. \A p \in Owners : loop'[p].pc =
          IF p = o /\ ~closed /\ o \in aborted THEN "resume" ELSE loop[p].pc
    <2>1. CASE ~closed /\ o \in aborted
      BY <1>0, <2>1, HandOverPc DEF Register
    <2>2. CASE ~(~closed /\ o \in aborted)
      BY <2>2 DEF Register
    <2>3. QED
      BY <2>1, <2>2
  <1>b. /\ requested' \in [Transfers -> Requests]
        /\ \A t \in Transfers : t # TransferOf[o] => requested'[t] = requested[t]
    BY DEF Register, HandOver, TypeOK
  <1>c. CASE closed
    <2>1. /\ UNCHANGED <<lease, disposed, registered, requested>>
          /\ fg' = [fg EXCEPT ![o] = "failed"]
      BY <1>c DEF Register
    <2>2. KeepsOrReleases
      BY <1>0, <1>a, <1>c, <2>1
      DEF KeepsOrReleases, LeaseInv, Early, TypeOK, LockedForeground
    <2>3. QED
      BY <2>2, KeepsOrReleasesPreserves
  <1>d. CASE ~closed
    <2>0. /\ lease' = [lease EXCEPT ![TransferOf[o]] = o]
          /\ disposed' = disposed \cup ({lease[TransferOf[o]]} \ {NoOwner, o})
          /\ registered' = registered \cup {o}
          /\ fg' \in {[fg EXCEPT ![o] = "failed"], [fg EXCEPT ![o] = "stream"],
                      [fg EXCEPT ![o] = "callback"]}
      BY <1>d DEF Register
    <2>1. LeaseInv'
      BY <1>0, <1>a, <1>b, <1>d, <2>0, OwnerAssumption DEF LeaseInv, TypeOK
    <2>2. SecretsFollowLease'
      BY <1>0, <2>0, OwnerAssumption DEF SecretsFollowLease, LeaseInv, TypeOK
    <2>3. OneStreamPerOwner'
      BY <1>0, <1>a, <2>0 DEF OneStreamPerOwner, TypeOK, LockedForeground
    <2>4. RequestedRecoveryCovered'
      <3> SUFFICES ASSUME NEW q \in Owners,
                          lease'[TransferOf[q]] = q, loop'[q].pc = "idle",
                          requested'[TransferOf[q]] \notin
                              {0, handled'[TransferOf[q]]}
                   PROVE  \E p \in Owners \ {q} : /\ TransferOf[p] = TransferOf[q]
                                                  /\ loop'[p].pc # "idle"
        BY DEF RequestedRecoveryCovered
      <3>1. CASE TransferOf[q] # TransferOf[o]
        <4>1. /\ lease[TransferOf[q]] = q /\ loop[q].pc = "idle"
              /\ requested'[TransferOf[q]] = requested[TransferOf[q]]
          BY <1>0, <1>a, <1>b, <2>0, <3>1, OwnerAssumption DEF TypeOK
        <4>2. PICK p \in Owners \ {q} : /\ TransferOf[p] = TransferOf[q]
                                        /\ loop[p].pc # "idle"
          BY <4>1 DEF RequestedRecoveryCovered
        <4>3. QED
          BY <1>a, <4>2
      <3>2. CASE TransferOf[q] = TransferOf[o]
        <4>1. q = o
          BY <1>0, <2>0, <3>2 DEF TypeOK
        <4>2. o \notin aborted
          BY <1>a, <1>d, <4>1
        <4>3. requested' = requested
          BY <1>d, <4>2 DEF Register
        <4>4. lease[TransferOf[o]] # NoOwner
          BY <1>0, <4>1, <4>3 DEF LeaseInv
        <4>5. PICK r \in Owners : r = lease[TransferOf[o]]
          BY <1>0, <4>4 DEF TypeOK
        <4>6. TransferOf[r] = TransferOf[o] /\ r # o
          BY <1>0, <4>4, <4>5 DEF LeaseInv
        <4>7. CASE loop[r].pc # "idle"
          BY <1>a, <4>1, <4>6, <4>7
        <4>8. CASE loop[r].pc = "idle"
          <5>1. PICK p \in Owners \ {r} : /\ TransferOf[p] = TransferOf[r]
                                          /\ loop[p].pc # "idle"
            BY <4>1, <4>3, <4>5, <4>6, <4>8 DEF RequestedRecoveryCovered
          <5>2. QED
            BY <1>0, <1>a, <4>1, <4>6, <5>1
        <4>9. QED
          BY <4>7, <4>8
      <3>3. QED
        BY <3>1, <3>2
    <2>5. QED
      BY <2>1, <2>2, <2>3, <2>4
  <1>e. QED
    BY <1>c, <1>d

\* What a release does: the lease goes with its request and its secrets.
Releases ==
    /\ \A u \in Transfers : lease'[u] \in {lease[u], NoOwner}
    /\ \A u \in Transfers : lease'[u] = NoOwner => requested'[u] = 0
    /\ closed' => \A u \in Transfers : lease'[u] = NoOwner
    /\ \A p \in Owners : p \in disposed' <=>
          \/ p \in disposed
          \/ lease[TransferOf[p]] = p /\ lease'[TransferOf[p]] # p
    /\ \A u \in Transfers : lease'[u] # NoOwner =>
          requested'[u] = requested[u] /\ handled'[u] = handled[u]

\* A release by owner and a release of whatever is registered.
LEMMA ReleaseEffect ==
    ASSUME IInv, NEW t \in Transfers, NEW o \in Owners,
           ReleaseOwned(t, o) \/ ReleaseAny(t), closed' = closed
    PROVE  Releases
  <1> USE DEF Releases
  <1>1. PICK q \in Owners : ReleaseOwned(t, q) \/ UNCHANGED <<lease, requested, handled, disposed>>
    BY DEF ReleaseAny, IInv, TypeOK
  <1>2. CASE UNCHANGED <<lease, requested, handled, disposed>>
    BY <1>2 DEF IInv, LeaseInv
  <1>3. CASE ReleaseOwned(t, q)
    BY <1>3, OwnerAssumption DEF ReleaseOwned, IInv, LeaseInv, TypeOK
  <1>4. QED
    BY <1>1, <1>2, <1>3

\* The loops after a reply was observed, or as they were.
Observed(loops, requests) ==
    /\ loops \in LoopMap
    /\ \A t \in Transfers :
          \/ requests[t] = requested[t]
          \/ lease[t] # NoOwner /\ loops[lease[t]].pc # "idle"
    /\ \A p \in Owners : /\ loop[p].pc # "idle" => loops[p].pc = loop[p].pc
                         /\ loops[p].pc # "idle" => p \in registered
                         /\ loops[p].pc = "replay" => loop[p].pc = "replay"

\* The invariant says of the current state what Observed says of a reply's.
LEMMA ObservedNow == IInv => Observed(loop, requested)
  BY DEF IInv, TypeOK, LeaseInv, Observed, LoopMap

\* A fenced loop ends: the loop of the owner that replaced it runs.
LEMMA LoopExitEffect ==
    ASSUME IInv, NEW o \in Owners, ~Owns(o), loop[o].pc # "idle",
           NEW loops, Observed(loops, requested'),
           loop' = LoopExit(loops, requested', o),
           UNCHANGED <<closed, lease, handled, disposed, registered, fg>>
    PROVE  KeepsOrReleases
  <1> USE DEF IInv
  <1>0. /\ TransferOf[o] \in Transfers /\ loops \in LoopMap /\ o \in registered
        /\ lease[TransferOf[o]] \in Owners \cup {NoOwner}
    BY OwnerAssumption DEF TypeOK, Observed, LeaseInv
  <1>1. \A p \in Owners : loop'[p].pc =
          IF p = o THEN "idle"
          ELSE IF ~closed /\ p = lease[TransferOf[o]] /\ loops[p].pc = "idle"
               THEN "resume" ELSE loops[p].pc
    BY <1>0, LoopExitPc
  <1>2. lease[TransferOf[o]] # NoOwner =>
          /\ lease[TransferOf[o]] \in Owners \ {o}
          /\ loop'[lease[TransferOf[o]]].pc # "idle"
    BY <1>0, <1>1 DEF Owns, LeaseInv
  <1>3. \A t \in Transfers : lease[t] # NoOwner =>
          lease[t] \in Owners \ {o} /\ TransferOf[lease[t]] = t
    BY <1>0, <1>2, OwnerAssumption DEF TypeOK, LeaseInv
  <1>4. \A p \in Owners : loop'[p].pc # "idle" => p \in registered
    BY <1>0, <1>1, OwnerAssumption DEF LeaseInv, Observed
  <1>5. \A t \in Transfers : lease'[t] # NoOwner =>
          \/ loop'[lease'[t]].pc # "idle"
          \/ requested'[t] = requested[t] /\ handled'[t] = handled[t]
    BY <1>1, <1>3 DEF Observed
  <1>6. \A p \in Owners : loop[p].pc # "idle" =>
          \/ loop'[p].pc # "idle"
          \/ lease'[TransferOf[p]] = NoOwner
          \/ loop'[lease'[TransferOf[p]]].pc # "idle"
    BY <1>1, <1>2 DEF Observed
  <1>7. \A t \in Transfers : lease'[t] = NoOwner => requested'[t] = 0
    BY DEF LeaseInv, Observed
  <1>8. \A p \in Owners : loop'[p].pc = "replay" => loop[p].pc = "replay"
    BY <1>1 DEF Observed
  <1>9. QED
    BY <1>4, <1>5, <1>6, <1>7, <1>8 DEF KeepsOrReleases, LeaseInv, TypeOK, Early, LockedForeground

\* The catch of recoverLease only gives the owner's lease up.
LEMMA LoopErrorEffect ==
    ASSUME IInv, NEW o \in Owners, NEW retryable, LoopError(o, retryable),
           loop[o].pc # "idle", UNCHANGED <<closed, registered, fg>>
    PROVE  KeepsOrReleases
  <1> USE DEF IInv
  <1>0. /\ TransferOf[o] \in Transfers /\ loop \in LoopMap /\ o # NoOwner
        /\ o \in registered
    BY OwnerAssumption DEF TypeOK, LoopMap, LeaseInv
  <1>1. CASE ~Owns(o)
    <2>1. /\ UNCHANGED <<lease, requested, handled, disposed>>
          /\ loop' = LoopExit(loop, requested', o)
      BY <1>1 DEF LoopError
    <2>2. Observed(loop, requested')
      BY <2>1, ObservedNow
    <2>3. QED
      BY <1>1, <2>1, <2>2, LoopExitEffect
  <1>2. CASE Owns(o) /\ ~retryable
    <2>1. \A p \in Owners : loop'[p].pc = IF p = o THEN "idle" ELSE loop[p].pc
      BY <1>0, <1>2 DEF LoopError, LoopMap, Idle, LoopAt
    <2>2. ReleaseOwned(TransferOf[o], o)
      BY <1>2 DEF LoopError
    <2>3. lease'[TransferOf[o]] = NoOwner
      BY <1>0, <1>2, <2>2 DEF ReleaseOwned, Owns, TypeOK
    <2>4. Releases
      BY <1>0, <2>2, ReleaseEffect
    <2>5. \A t \in Transfers : lease'[t] # NoOwner => lease'[t] \in Owners \ {o}
      BY <1>0, <2>3, <2>4, OwnerAssumption DEF Releases, TypeOK, LeaseInv
    <2>6. QED
      BY <1>0, <2>1, <2>3, <2>4, <2>5 DEF Releases, KeepsOrReleases, LeaseInv, TypeOK, Early, LockedForeground
  <1>3. CASE Owns(o) /\ retryable
    <2>1. \A p \in Owners : loop'[p].pc = IF p = o THEN "sleep" ELSE loop[p].pc
      BY <1>0, <1>3 DEF LoopError, LoopMap, LoopAt
    <2>2. UNCHANGED <<lease, requested, handled, disposed>>
      BY <1>3 DEF LoopError
    <2>3. QED
      BY <1>0, <2>1, <2>2 DEF KeepsOrReleases, LeaseInv, TypeOK, Early, LockedForeground
  <1>4. QED
    BY <1>1, <1>2, <1>3 DEF LoopError

\* An observed reply only adds requests and starts the loops they need.
LEMMA ObserveEffect ==
    ASSUME IInv, NEW e \in {0} \cup Epochs
    PROVE  Observed(LoopsAt(e), RequestedAt(e))
  <1>1. \A p \in Owners : LoopsAt(e)[p].pc =
               IF EpochChanged(e) /\ (\E t \in Transfers : lease[t] = p)
                                  /\ loop[p].pc = "idle"
               THEN "resume" ELSE loop[p].pc
    BY ObservePc DEF IInv
  <1>2. \A t \in Transfers : lease[t] # NoOwner => lease[t] \in Owners
    BY DEF IInv, TypeOK
  <1>3. LoopsAt(e) \in LoopMap
    BY ObserveType DEF IInv
  <1>4. \A t \in Transfers :
          \/ RequestedAt(e)[t] = requested[t]
          \/ lease[t] # NoOwner /\ LoopsAt(e)[lease[t]].pc # "idle"
    BY <1>1, <1>2 DEF RequestedAt
  <1>5. \A p \in Owners : LoopsAt(e)[p].pc # "idle" => p \in registered
    BY <1>1, OwnerAssumption DEF IInv, LeaseInv
  <1>6. QED
    BY <1>1, <1>3, <1>4, <1>5 DEF Observed

\* A step that leaves the leases alone and only starts loops of observed
\* requests, or none.
LEMMA ObservedStep ==
    ASSUME IInv, Observed(loop', requested'),
           UNCHANGED <<closed, lease, handled, disposed, registered>>,
           \A p \in Owners : fg'[p] \in Early => fg[p] \in Early,
           \A p \in Owners : fg'[p] \in LockedForeground =>
                 fg[p] \in LockedForeground \/ fg[p] \in Early
    PROVE  KeepsOrReleases
  <1>1. \A t \in Transfers : lease'[t] = NoOwner => requested'[t] = 0
    BY DEF IInv, LeaseInv, Observed
  <1>2. QED
    BY <1>1 DEF KeepsOrReleases, IInv, LeaseInv, Observed

\* A step that leaves leases and loops alone.
LEMMA QuietStep ==
    ASSUME IInv, UNCHANGED <<closed, lease, handled, disposed, registered,
                             requested, loop>>,
           \A p \in Owners : fg'[p] \in Early => fg[p] \in Early,
           \A p \in Owners : fg'[p] \in LockedForeground =>
                 fg[p] \in LockedForeground \/ fg[p] \in Early
    PROVE  KeepsOrReleases
  <1>1. Observed(loop', requested')
    BY ObservedNow
  <1>2. QED
    BY <1>1, ObservedStep

\* A step that releases and leaves the loops alone.
LEMMA ReleaseStep ==
    ASSUME IInv, Releases, UNCHANGED <<registered, loop>>,
           \A p \in Owners : fg'[p] \in Early => fg[p] \in Early,
           \A p \in Owners : fg'[p] \in LockedForeground =>
                 fg[p] \in LockedForeground \/ fg[p] \in Early
    PROVE  KeepsOrReleases
  BY DEF KeepsOrReleases, Releases, IInv, LeaseInv

\* The loop's own steps.
LEMMA LoopStepSafe ==
    ASSUME IInv, NEW o \in Owners, ResumeServed(o) \/ LoopStep(o)
    PROVE  KeepsOrReleases
  <1> USE DEF IInv
  <1>0. /\ TransferOf[o] \in Transfers /\ o # NoOwner /\ loop \in LoopMap
        /\ loop[o] \in LoopStates /\ loop[o].at \in {0} \cup Epochs
        /\ \A t \in Transfers : lease[t] # NoOwner => lease[t] \in Owners
    BY OwnerAssumption DEF TypeOK, LoopMap, LoopStates
  <1>a. Observed(LoopsAt(loop[o].at), RequestedAt(loop[o].at))
    BY <1>0, ObserveEffect
  <1>b. Observed(loop, requested)
    BY ObservedNow
  <1>c. loop[o].pc # "idle" => o \in registered
    BY DEF LeaseInv
  <1>1. CASE ResumeServed(o)
    <2>1. PICK r \in Recoveries :
            loop' = [loop EXCEPT ![o] = [@ EXCEPT !.reply = r, !.at = runtimeEpoch]]
      BY <1>1 DEF ResumeServed
    <2>2. [loop[o] EXCEPT !.reply = r, !.at = runtimeEpoch].pc = loop[o].pc
      BY <1>0 DEF LoopStates
    <2>3. \A p \in Owners : loop'[p].pc = loop[p].pc
      BY <1>0, <2>1, <2>2 DEF LoopMap
    <2>4. UNCHANGED <<closed, lease, handled, disposed, registered, requested, fg>>
      BY <1>1 DEF ResumeServed, controlVars, clientVars
    <2>5. QED
      BY <2>3, <2>4 DEF KeepsOrReleases, LeaseInv
  <1>2. CASE ResumeFailed(o)
    BY <1>2, LoopErrorEffect DEF ResumeFailed, clientVars
  <1>3. CASE ReplyFenced(o)
    <2>1. /\ UNCHANGED <<closed, lease, handled, disposed, registered, fg>>
          /\ requested' = RequestedAt(loop[o].at)
          /\ loop' = LoopExit(LoopsAt(loop[o].at), requested', o)
          /\ ~Owns(o) /\ loop[o].pc # "idle"
      BY <1>3 DEF ReplyFenced, ReplyObservedBy, clientVars
    <2>2. Observed(LoopsAt(loop[o].at), requested')
      BY <1>a, <2>1
    <2>3. QED
      BY <2>1, <2>2, LoopExitEffect
  <1>4. CASE ReplyTerminal(o)
    <2>0. /\ Owns(o) /\ loop[o].pc = "resume" /\ UNCHANGED <<closed, registered, fg>>
          /\ lease' = [lease EXCEPT ![TransferOf[o]] = NoOwner]
          /\ requested' = [RequestedAt(loop[o].at) EXCEPT ![TransferOf[o]] = 0]
          /\ handled' = [handled EXCEPT ![TransferOf[o]] = 0]
          /\ disposed' = disposed \cup {o}
      BY <1>4 DEF ReplyTerminal, ReplyObservedBy, clientVars
    <2>1. \A p \in Owners : loop'[p].pc =
            IF p = o THEN "idle" ELSE LoopsAt(loop[o].at)[p].pc
      BY <1>4, <1>a DEF ReplyTerminal, Observed, LoopMap, Idle, LoopAt
    <2>2. RequestedAt(loop[o].at) \in [Transfers -> Requests]
      BY <1>0, ObserveType DEF RequestMap
    <2>3. \A t \in Transfers :
            /\ t = TransferOf[o] => lease'[t] = NoOwner /\ requested'[t] = 0
            /\ t # TransferOf[o] => /\ lease'[t] = lease[t]
                                    /\ lease[t] # o
                                    /\ handled'[t] = handled[t]
                                    /\ requested'[t] = RequestedAt(loop[o].at)[t]
      BY <1>0, <2>0, <2>2 DEF TypeOK, LeaseInv, Owns
    <2>4. \A p \in Owners : p \in disposed' <=>
            \/ p \in disposed
            \/ lease[TransferOf[p]] = p /\ lease'[TransferOf[p]] # p
      BY <1>0, <2>0, <2>3, OwnerAssumption DEF Owns
    <2>5. \A t \in Transfers : lease'[t] # NoOwner =>
            \/ loop'[lease'[t]].pc # "idle"
            \/ requested'[t] = requested[t] /\ handled'[t] = handled[t]
      BY <1>0, <1>a, <2>1, <2>3 DEF Observed
    <2>6. \A p \in Owners : loop[p].pc # "idle" =>
            loop'[p].pc # "idle" \/ lease'[TransferOf[p]] = NoOwner
      BY <1>0, <1>a, <2>1, <2>3 DEF Observed
    <2>7. /\ \A t \in Transfers : lease'[t] = NoOwner => requested'[t] = 0
          /\ \A t \in Transfers : lease'[t] \in {lease[t], NoOwner}
          /\ ~closed
      BY <1>a, <2>0, <2>3 DEF Observed, LeaseInv, Owns
    <2>8. \A p \in Owners : /\ loop'[p].pc # "idle" => p \in registered
                            /\ loop'[p].pc = "replay" => loop[p].pc = "replay"
      BY <1>a, <2>1 DEF Observed
    <2>9. QED
      BY <2>0, <2>4, <2>5, <2>6, <2>7, <2>8 DEF KeepsOrReleases
  <1>5. CASE ReplyReplay(o)
    <2>0. /\ Owns(o) /\ loop[o].pc = "resume"
          /\ UNCHANGED <<closed, lease, handled, disposed, registered, fg>>
          /\ requested' = RequestedAt(loop[o].at)
      BY <1>5 DEF ReplyReplay, ReplyObservedBy, clientVars
    <2>1. \A p \in Owners \ {o} : loop'[p] = LoopsAt(loop[o].at)[p]
      BY <1>5, <1>a DEF ReplyReplay, Observed, LoopMap
    <2>2. loop'[o].pc = "lock" \/ (loop'[o].pc = "replay" /\ RouteStreamLockFree(o))
      BY <1>5, <1>a DEF ReplyReplay, Observed, LoopMap, LoopAt
    <2>3. \A t \in Transfers : lease'[t] = NoOwner => requested'[t] = 0
      BY <1>a, <2>0 DEF LeaseInv, Observed
    <2>4. \A t \in Transfers : lease'[t] # NoOwner =>
            \/ loop'[lease'[t]].pc # "idle"
            \/ requested'[t] = requested[t] /\ handled'[t] = handled[t]
      BY <1>0, <1>a, <2>0, <2>1, <2>2 DEF Observed
    <2>5. \A p \in Owners : loop[p].pc # "idle" => loop'[p].pc # "idle"
      BY <1>a, <2>1, <2>2 DEF Observed
    <2>6. \A p \in Owners :
            /\ loop'[p].pc # "idle" => p \in registered
            /\ loop'[p].pc = "replay" =>
                  loop[p].pc = "replay" \/ fg'[p] \notin LockedForeground
      BY <1>a, <1>c, <2>0, <2>1, <2>2 DEF Observed, RouteStreamLockFree
    <2>7. /\ ~closed'
          /\ \A p \in Owners : p \in disposed' <=>
                \/ p \in disposed
                \/ lease[TransferOf[p]] = p /\ lease'[TransferOf[p]] # p
      BY <2>0 DEF Owns
    <2>8. QED
      BY <2>0, <2>3, <2>4, <2>5, <2>6, <2>7 DEF KeepsOrReleases
  <1>6. CASE ReplyReconciling(o)
    <2>0. /\ Owns(o) /\ loop[o].pc = "resume"
          /\ UNCHANGED <<closed, lease, disposed, registered, fg>>
          /\ requested' = RequestedAt(loop[o].at)
          /\ RoundOver(LoopsAt(loop[o].at), requested', o)
      BY <1>6 DEF ReplyReconciling, ReplyObservedBy, clientVars
    <2>1. /\ \A p \in Owners \ {o} : loop'[p] = LoopsAt(loop[o].at)[p]
          /\ loop'[o].pc \in {"idle", "resume"}
      BY <1>a, <2>0, RoundOverPc DEF Observed
    <2>2. /\ \A t \in Transfers \ {TransferOf[o]} : handled'[t] = handled[t]
          /\ loop'[o].pc = "idle" =>
                handled'[TransferOf[o]] = requested'[TransferOf[o]]
      BY <1>0, <1>a, <2>0 DEF RoundOver, Observed, LoopMap, Round, LoopAt, TypeOK
    <2>3. /\ \A t \in Transfers : lease'[t] = NoOwner => requested'[t] = 0
          /\ \A t \in Transfers \ {TransferOf[o]} : lease[t] # o
          /\ lease[TransferOf[o]] = o
      BY <1>0, <1>a, <2>0 DEF LeaseInv, Observed, Owns
    <2>4. \A t \in Transfers : lease'[t] # NoOwner =>
            \/ requested'[t] \in {0, handled'[t]}
            \/ loop'[lease'[t]].pc # "idle"
            \/ requested'[t] = requested[t] /\ handled'[t] = handled[t]
      <3> SUFFICES ASSUME NEW t \in Transfers, lease'[t] # NoOwner
                   PROVE  \/ requested'[t] \in {0, handled'[t]}
                          \/ loop'[lease'[t]].pc # "idle"
                          \/ requested'[t] = requested[t] /\ handled'[t] = handled[t]
        OBVIOUS
      <3>1. CASE t = TransferOf[o]
        BY <2>0, <2>1, <2>2, <2>3, <3>1
      <3>2. CASE t # TransferOf[o]
        BY <1>0, <1>a, <2>0, <2>1, <2>2, <2>3, <3>2 DEF Observed
      <3>3. QED
        BY <3>1, <3>2
    <2>5. \A p \in Owners : loop[p].pc # "idle" =>
            \/ loop'[p].pc # "idle"
            \/ requested'[TransferOf[p]] \in {0, handled'[TransferOf[p]]}
      BY <1>a, <2>0, <2>1, <2>2 DEF Observed
    <2>6. \A p \in Owners : /\ loop'[p].pc # "idle" => p \in registered
                            /\ loop'[p].pc = "replay" => loop[p].pc = "replay"
      BY <1>a, <1>c, <2>0, <2>1 DEF Observed
    <2>7. /\ ~closed'
          /\ \A p \in Owners : p \in disposed' <=>
                \/ p \in disposed
                \/ lease[TransferOf[p]] = p /\ lease'[TransferOf[p]] # p
      BY <2>0 DEF Owns
    <2>8. QED
      BY <2>0, <2>3, <2>4, <2>5, <2>6, <2>7 DEF KeepsOrReleases
  <1>7. CASE ReplayBegin(o)
    <2>1. \A p \in Owners : loop'[p].pc = IF p = o THEN "replay" ELSE loop[p].pc
      BY <1>0, <1>7 DEF ReplayBegin, LoopMap, LoopAt
    <2>2. /\ UNCHANGED <<closed, lease, handled, disposed, registered, requested, fg>>
          /\ loop[o].pc # "idle" /\ fg[o] \notin LockedForeground
      BY <1>7 DEF ReplayBegin, RouteStreamLockFree, controlVars, clientVars
    <2>3. QED
      BY <2>1, <2>2 DEF KeepsOrReleases, LeaseInv
  <1>8. CASE ReplayRefused(o)
    BY <1>8, LoopErrorEffect DEF ReplayRefused, clientVars
  <1>9. CASE ReplayDone(o)
    <2>0. /\ UNCHANGED <<closed, lease, disposed, registered, requested, fg>>
          /\ loop[o].pc = "replay"
      BY <1>9 DEF ReplayDone, clientVars
    <2>1. CASE ~Owns(o)
      <3>1. loop' = LoopExit(loop, requested', o) /\ UNCHANGED handled
        BY <1>9, <2>0, <2>1 DEF ReplayDone
      <3>2. Observed(loop, requested')
        BY <1>b, <2>0
      <3>3. QED
        BY <2>0, <2>1, <3>1, <3>2, LoopExitEffect
    <2>2. CASE Owns(o)
      <3>0. RoundOver(loop, requested, o)
        BY <1>9, <2>2 DEF ReplayDone
      <3>1. /\ \A p \in Owners \ {o} : loop'[p] = loop[p]
            /\ loop'[o].pc \in {"idle", "resume"}
        BY <1>0, <3>0, RoundOverPc
      <3>2. /\ \A t \in Transfers \ {TransferOf[o]} : handled'[t] = handled[t]
            /\ loop'[o].pc = "idle" =>
                  handled'[TransferOf[o]] = requested'[TransferOf[o]]
        BY <1>0, <2>0, <3>0 DEF RoundOver, LoopMap, Round, LoopAt, TypeOK
      <3>3. /\ \A t \in Transfers \ {TransferOf[o]} : lease[t] # o
            /\ lease[TransferOf[o]] = o
        BY <1>0, <2>2 DEF LeaseInv, Owns
      <3>4. QED
        BY <1>0, <1>c, <2>0, <3>1, <3>2, <3>3 DEF KeepsOrReleases, LeaseInv
    <2>3. QED
      BY <2>1, <2>2
  <1>10. CASE ReplayFailed(o)
    <2>0. /\ UNCHANGED <<closed, registered, fg>> /\ loop[o].pc = "replay"
      BY <1>10 DEF ReplayFailed
    <2>1. CASE o \in aborted
      <3>0. /\ ReleaseOwned(TransferOf[o], o)
            /\ loop' = LoopExit(loop, requested, o)
        BY <1>10, <2>1 DEF ReplayFailed
      <3>1. CASE Owns(o)
        <4>1. Releases
          BY <1>0, <2>0, <3>0, ReleaseEffect
        <4>2. lease'[TransferOf[o]] = NoOwner
          BY <1>0, <3>0, <3>1 DEF ReleaseOwned, Owns, TypeOK
        <4>3. \A p \in Owners : loop'[p].pc = IF p = o THEN "idle" ELSE loop[p].pc
          BY <1>0, <3>0, <3>1, LoopExitPc DEF Owns
        <4>4. \A t \in Transfers : lease'[t] # NoOwner => lease'[t] \in Owners \ {o}
          BY <1>0, <4>1, <4>2 DEF Releases, LeaseInv
        <4>5. QED
          BY <1>0, <1>c, <2>0, <4>1, <4>2, <4>3, <4>4
          DEF KeepsOrReleases, Releases, LeaseInv
      <3>2. CASE ~Owns(o)
        <4>1. UNCHANGED <<lease, requested, handled, disposed>>
          BY <1>0, <3>0, <3>2 DEF ReleaseOwned, Owns, LeaseInv
        <4>2. Observed(loop, requested')
          BY <1>b, <4>1
        <4>3. QED
          BY <2>0, <3>0, <3>2, <4>1, <4>2, LoopExitEffect
      <3>3. QED
        BY <3>1, <3>2
    <2>2. CASE o \notin aborted
      BY <1>10, <2>0, <2>2, LoopErrorEffect DEF ReplayFailed
    <2>3. QED
      BY <2>1, <2>2
  <1>11. CASE Wake(o)
    <2>0. /\ UNCHANGED <<closed, lease, handled, disposed, registered, requested, fg>>
          /\ loop[o].pc = "sleep"
      BY <1>11 DEF Wake, controlVars, clientVars
    <2>1. CASE Owns(o)
      <3>1. \A p \in Owners : loop'[p].pc = IF p = o THEN "resume" ELSE loop[p].pc
        BY <1>0, <1>11, <2>1 DEF Wake, LoopMap, Round, LoopAt
      <3>2. QED
        BY <2>0, <3>1 DEF KeepsOrReleases, LeaseInv
    <2>2. CASE ~Owns(o)
      <3>1. loop' = LoopExit(loop, requested', o)
        BY <1>11, <2>0, <2>2 DEF Wake
      <3>2. Observed(loop, requested')
        BY <1>b, <2>0
      <3>3. QED
        BY <2>0, <2>2, <3>1, <3>2, LoopExitEffect
    <2>3. QED
      BY <2>1, <2>2
  <1>12. QED
    BY <1>1, <1>2, <1>3, <1>4, <1>5, <1>6, <1>7, <1>8, <1>9, <1>10, <1>11
    DEF LoopStep

\* The foreground's and the caller's steps.
LEMMA ForegroundStepSafe ==
    ASSUME IInv, TypeOK', NEW o \in Owners, ForegroundStep(o) \/ CallerStep(o)
    PROVE  IInv'
  <1> USE DEF IInv
  <1>0. /\ TransferOf[o] \in Transfers /\ o # NoOwner /\ loop \in LoopMap
        /\ fg \in [Owners -> ForegroundStates] /\ runtimeEpoch \in {0} \cup Epochs
    BY OwnerAssumption DEF TypeOK, LoopMap
  <1>a. ASSUME KeepsOrReleases PROVE IInv'
    BY <1>a, KeepsOrReleasesPreserves
  <1>b. ASSUME Register(o), UNCHANGED <<closed, handled>>,
               fg[o] \in {"prepared", "signer", "integrity"}
        PROVE  IInv'
    BY <1>b, RegisterPreserves
  <1>c. ASSUME NEW s, fg' = [fg EXCEPT ![o] = s], s \notin Early \/ fg[o] \in Early,
               s \notin LockedForeground \/ fg[o] \in LockedForeground \cup Early
        PROVE  /\ \A p \in Owners : fg'[p] \in Early => fg[p] \in Early
               /\ \A p \in Owners : fg'[p] \in LockedForeground =>
                     fg[p] \in LockedForeground \/ fg[p] \in Early
    BY <1>0, <1>c
  <1>d. ASSUME UNCHANGED fg
        PROVE  /\ \A p \in Owners : fg'[p] \in Early => fg[p] \in Early
               /\ \A p \in Owners : fg'[p] \in LockedForeground =>
                     fg[p] \in LockedForeground \/ fg[p] \in Early
    BY <1>d
  <1>e. ASSUME ObserveRuntime PROVE Observed(loop', requested')
    BY <1>0, <1>e, ObserveEffect DEF ObserveRuntime
  <1>f. ASSUME ContinueRecovery(o) PROVE Observed(loop', requested')
    <2>1. CASE ~Owns(o)
      BY <1>f, <2>1, ObservedNow DEF ContinueRecovery
    <2>2. CASE Owns(o)
      <3>0. HandOver(o)
        BY <1>f, <2>2 DEF ContinueRecovery
      <3>1. \A p \in Owners : loop'[p].pc =
              IF p = o /\ loop[p].pc = "idle" THEN "resume" ELSE loop[p].pc
        BY <3>0, HandOverPc
      <3>2. \A t \in Transfers : requested'[t] = requested[t] \/ t = TransferOf[o]
        BY <1>0, <3>0 DEF HandOver, TypeOK
      <3>3. loop' \in LoopMap
        BY DEF TypeOK, LoopMap
      <3>4. lease[TransferOf[o]] = o /\ o \in registered
        BY <1>0, <2>2 DEF Owns, LeaseInv
      <3>5. QED
        BY <1>0, <3>1, <3>2, <3>3, <3>4 DEF Observed, LeaseInv
    <2>3. QED
      BY <2>1, <2>2
  <1>1. CASE SignerServed(o)
    <2>1. CASE o \in aborted
      BY <1>1, <1>b, <2>1 DEF SignerServed
    <2>2. CASE o \notin aborted
      <3>1. /\ fg[o] = "signer" /\ fg' = [fg EXCEPT ![o] = "integrity"]
            /\ UNCHANGED <<closed, lease, handled, disposed, registered, requested, loop>>
        BY <1>1, <2>2 DEF SignerServed
      <3>2. QED
        BY <1>a, <1>c, <3>1, QuietStep DEF Early
    <2>3. QED
      BY <2>1, <2>2
  <1>2. CASE SignerFailed(o)
    BY <1>2, <1>a, <1>c, QuietStep DEF SignerFailed, Early, LockedForeground, controlVars
  <1>3. CASE IntegrityServed(o)
    BY <1>3, <1>b DEF IntegrityServed
  <1>4. CASE IntegrityFailed(o)
    BY <1>4, <1>b DEF IntegrityFailed
  <1>5. CASE StreamDone(o)
    BY <1>5, <1>a, <1>c, <1>e, ObservedStep DEF StreamDone, Early, LockedForeground
  <1>6. CASE StreamHandedOver(o)
    BY <1>6, <1>a, <1>c, <1>f, ObservedStep DEF StreamHandedOver, Early, LockedForeground
  <1>7. CASE StreamAborted(o)
    <2>1. Releases
      BY <1>0, <1>7, ReleaseEffect DEF StreamAborted
    <2>2. QED
      BY <1>7, <1>a, <1>c, <2>1, ReleaseStep DEF StreamAborted, Early, LockedForeground
  <1>8. CASE StreamFatal(o)
    <2>1. CASE o \in Manual
      <3>1. Releases
        BY <1>0, <1>8, <2>1, ReleaseEffect DEF StreamFatal
      <3>2. QED
        BY <1>8, <1>a, <1>c, <2>1, <3>1, ReleaseStep
        DEF StreamFatal, Early, LockedForeground
    <2>2. CASE o \notin Manual
      BY <1>8, <1>a, <1>c, <2>2, QuietStep DEF StreamFatal, Early, LockedForeground
    <2>3. QED
      BY <2>1, <2>2
  <1>9. CASE CancelServed(o)
    BY <1>9, <1>a, <1>d, QuietStep DEF CancelServed, controlVars, clientVars
  <1>10. CASE CleanupDone(o)
    <2>1. Releases
      BY <1>0, <1>10, ReleaseEffect DEF CleanupDone
    <2>2. QED
      BY <1>10, <1>a, <1>c, <2>1, ReleaseStep DEF CleanupDone, Early, LockedForeground
  <1>11. CASE Prepare(o)
    BY <1>11, <1>a, <1>c, <1>e, ObservedStep DEF Prepare, Early, LockedForeground
  <1>12. CASE PrepareFailed(o)
    BY <1>12, <1>a, <1>c, QuietStep DEF PrepareFailed, Early, LockedForeground, controlVars
  <1>13. CASE PrepareManual(o)
    BY <1>13, <1>a, <1>c, <1>e, ObservedStep DEF PrepareManual, Early, LockedForeground
  <1>14. CASE AttachSignedUrls(o)
    BY <1>14, <1>b DEF AttachSignedUrls
  <1>15. CASE CallbackDone(o)
    BY <1>15, <1>a, <1>c, QuietStep DEF CallbackDone, Early, LockedForeground, controlVars
  <1>16. CASE CallbackFailed(o)
    BY <1>16, <1>a, <1>c, <1>f, ObservedStep DEF CallbackFailed, Early, LockedForeground
  <1>17. CASE Abort(o)
    <2>1. CASE fg[o] \in {"signer", "integrity"} \/ o \in disposed
      BY <1>17, <1>a, <1>d, <2>1, QuietStep DEF Abort
    <2>2. CASE ~(fg[o] \in {"signer", "integrity"} \/ o \in disposed)
      <3>1. Releases
        BY <1>0, <1>17, <2>2, ReleaseEffect DEF Abort
      <3>2. QED
        BY <1>17, <1>a, <1>d, <3>1, ReleaseStep DEF Abort
    <2>3. QED
      BY <2>1, <2>2
  <1>18. QED
    BY <1>1, <1>2, <1>3, <1>4, <1>5, <1>6, <1>7, <1>8, <1>9, <1>10, <1>11,
       <1>12, <1>13, <1>14, <1>15, <1>16, <1>17 DEF ForegroundStep, CallerStep

\* Calls that name no owner, replies and the Runtime.
LEMMA OtherStepSafe ==
    ASSUME IInv,
           \/ \E t \in Transfers : StatusTerminal(t) \/ CancelTransfer(t)
                                     \/ TransferFinishes(t)
           \/ \E e \in Epochs : ReplyObserved(e)
           \/ Close \/ RuntimeRestart
    PROVE  KeepsOrReleases
  <1> USE DEF IInv
  <1>1. ASSUME NEW t \in Transfers, StatusTerminal(t) \/ CancelTransfer(t)
        PROVE  KeepsOrReleases
    <2>0. /\ ReleaseAny(t) /\ UNCHANGED <<closed, registered, fg, loop>>
      BY <1>1 DEF StatusTerminal, CancelTransfer
    <2>1. CASE Owners = {}
      <3>1. UNCHANGED <<lease, requested, handled, disposed>>
        BY <2>0, <2>1 DEF ReleaseAny, TypeOK
      <3>2. QED
        BY <2>0, <3>1, QuietStep
    <2>2. CASE Owners # {}
      <3>1. PICK o \in Owners : TRUE
        BY <2>2
      <3>2. Releases
        BY <2>0, ReleaseEffect
      <3>3. QED
        BY <2>0, <3>2, ReleaseStep
    <2>3. QED
      BY <2>1, <2>2
  <1>2. ASSUME NEW t \in Transfers, TransferFinishes(t) PROVE KeepsOrReleases
    BY <1>2, QuietStep DEF TransferFinishes, controlVars, clientVars
  <1>3. ASSUME NEW e \in Epochs, ReplyObserved(e) PROVE KeepsOrReleases
    <2>1. Observed(loop', requested')
      BY <1>3, ObserveEffect DEF ReplyObserved
    <2>2. QED
      BY <1>3, <2>1, ObservedStep DEF ReplyObserved, clientVars
  <1>4. CASE Close
    <2>1. Releases
      BY <1>4, OwnerAssumption DEF Close, Releases, TypeOK, LeaseInv
    <2>2. QED
      BY <1>4, <2>1, ReleaseStep DEF Close
  <1>5. CASE RuntimeRestart
    BY <1>5, QuietStep DEF RuntimeRestart, controlVars, clientVars
  <1>6. QED
    BY <1>1, <1>2, <1>3, <1>4, <1>5

\* The invariant holds initially.
LEMMA IInvInit == Init => IInv
  BY OwnerAssumption, EpochAssumption, InitType
  DEF Init, IInv, LeaseInv, SecretsFollowLease, OneStreamPerOwner,
      RequestedRecoveryCovered, Idle, LoopAt, LockedForeground

\* Every step preserves the invariant.
LEMMA IInvNext == IInv /\ [Next]_vars => IInv'
  <1> SUFFICES ASSUME IInv, [Next]_vars PROVE IInv'
    OBVIOUS
  <1>0. TypeOK'
    BY NextType DEF IInv
  <1>1. CASE UNCHANGED vars
    BY <1>1, <1>0, QuietStep, KeepsOrReleasesPreserves
    DEF vars, controlVars, clientVars
  <1>2. ASSUME NEW o \in Owners, ResumeServed(o) \/ LoopStep(o) PROVE IInv'
    BY <1>0, <1>2, LoopStepSafe, KeepsOrReleasesPreserves
  <1>3. ASSUME NEW o \in Owners, ForegroundStep(o) \/ CallerStep(o) PROVE IInv'
    BY <1>0, <1>3, ForegroundStepSafe
  <1>4. CASE \/ \E t \in Transfers : StatusTerminal(t) \/ CancelTransfer(t)
                                       \/ TransferFinishes(t)
             \/ \E e \in Epochs : ReplyObserved(e)
             \/ Close \/ RuntimeRestart
    BY <1>0, <1>4, OtherStepSafe, KeepsOrReleasesPreserves
  <1>5. QED
    BY <1>1, <1>2, <1>3, <1>4 DEF Next

\* IInv is an invariant of the recovery control and its clients.
THEOREM Inductive == Spec => []IInv
  BY IInvInit, IInvNext, PTL DEF Spec

\* No requested recovery is forgotten, whatever owners replace each other and
\* however the Runtime's epochs are observed.
THEOREM RecoveryCovered == Spec => []RequestedRecoveryCovered
  <1>1. IInv => RequestedRecoveryCovered
    BY DEF IInv
  <1>2. QED
    BY <1>1, Inductive, PTL

\* Credentials are disposed exactly when their lease leaves the map.
THEOREM SecretsLive == Spec => []SecretsFollowLease
  <1>1. IInv => SecretsFollowLease
    BY DEF IInv
  <1>2. QED
    BY <1>1, Inductive, PTL

\* The route-stream lock keeps an owner's replay out of its foreground stream.
THEOREM OneStream == Spec => []OneStreamPerOwner
  <1>1. IInv => OneStreamPerOwner
    BY DEF IInv
  <1>2. QED
    BY <1>1, Inductive, PTL

\* An owner's late steps never release another owner's lease and never stop
\* another owner's signer.
THEOREM FencedOwnerSafe == Spec => FencedOwnerSparesReplacement
  <1> DEFINE Spares == \A o \in Owners, t \in Transfers :
                          \/ lease'[t] # lease[t] /\ lease[t] # o
                          \/ signer'[t] # signer[t] /\ signer[t] # o
                          => ~SettledStep(o)
  <1>1. TypeOK => Spares
    <2> SUFFICES ASSUME TypeOK, NEW o \in Owners, SettledStep(o), NEW t \in Transfers
                 PROVE  /\ lease'[t] = lease[t] \/ lease[t] = o
                        /\ signer'[t] = signer[t] \/ signer[t] = o
      OBVIOUS
    <2>0. TransferOf[o] \in Transfers
      BY OwnerAssumption
    <2>1. \/ UNCHANGED lease
          \/ ReleaseOwned(TransferOf[o], o)
          \/ Owns(o) /\ lease' = [lease EXCEPT ![TransferOf[o]] = NoOwner]
      BY DEF SettledStep, LoopStep, ResumeFailed, ReplyFenced, ReplyTerminal,
             ReplyReplay, ReplyReconciling, ReplayBegin, ReplayRefused,
             ReplayDone, ReplayFailed, Wake, LoopError, Abort, CallbackFailed,
             StreamHandedOver, StreamAborted, StreamFatal, CleanupDone,
             controlVars
    <2>2. UNCHANGED signer \/ StopSignerOwned(TransferOf[o], o)
      BY DEF SettledStep, LoopStep, ResumeFailed, ReplyFenced, ReplyTerminal,
             ReplyReplay, ReplyReconciling, ReplayBegin, ReplayRefused,
             ReplayDone, ReplayFailed, Wake, Abort, CallbackFailed,
             StreamHandedOver, StreamAborted, StreamFatal, CleanupDone,
             clientVars
    <2>3. lease'[t] = lease[t] \/ lease[t] = o
      BY <2>0, <2>1 DEF ReleaseOwned, Owns, TypeOK
    <2>4. signer'[t] = signer[t] \/ signer[t] = o
      BY <2>0, <2>2 DEF StopSignerOwned, TypeOK
    <2>5. QED
      BY <2>3, <2>4
  <1>2. QED
    BY <1>1, TypeCorrect, PTL DEF FencedOwnerSparesReplacement

=============================================================================
