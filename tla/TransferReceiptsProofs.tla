----------------------- MODULE TransferReceiptsProofs -----------------------
(***************************************************************************)
(* Proofs about TransferReceipts, for any sets of ids and accounts and any *)
(* bounds.                                                                 *)
(***************************************************************************)
EXTENDS TransferReceipts, FiniteSetTheorems, TLAPS

\* A well formed open-request set: OpenSetIndexed of o, and its types.
Indexed(o) ==
    /\ o \in OpenSets /\ Len(o.keys) <= MaxOpenRequests
    /\ \A i \in 1..Len(o.keys) : o.position[o.keys[i]] = i
    /\ \A key \in Keys : o.position[key] # 0 =>
          /\ o.position[key] \in 1..Len(o.keys)
          /\ o.keys[o.position[key]] = key
    /\ \A key \in Keys : /\ o.position[key] # 0 <=> o.request[key] # None
                         /\ o.position[key] # 0 => o.request[key].kind = key[1]

\* _open adds its key and nothing else.
LEMMA OpenedIndexed ==
    ASSUME NEW o, Indexed(o), NEW key \in Keys, o.position[key] = 0,
           Len(o.keys) < MaxOpenRequests,
           NEW request \in OpenRequests, request.kind = key[1]
    PROVE  /\ Indexed(Opened(o, key, request))
           /\ \A k \in Keys : Opened(o, key, request).position[k] # 0 <=>
                                 k = key \/ o.position[k] # 0
  <1> DEFINE n == Opened(o, key, request)
  <1>0. /\ o.keys \in Seq(Keys) /\ Len(o.keys) \in Nat
        /\ o.position \in [Keys -> 0..MaxOpenRequests]
        /\ o.request \in [Keys -> OpenRequests \cup {None}]
        /\ None \notin OpenRequests /\ MaxOpenRequests \in Nat
    BY NoneAssumption, BoundAssumption DEF Indexed, OpenSets
  <1>1. /\ n.keys = Append(o.keys, key)
        /\ n.position = [o.position EXCEPT ![key] = Len(o.keys) + 1]
        /\ n.request = [o.request EXCEPT ![key] = request]
        /\ n = [keys |-> n.keys, position |-> n.position, request |-> n.request]
    BY DEF Opened
  <1> HIDE DEF n
  <1>2. /\ n.keys \in Seq(Keys) /\ Len(n.keys) = Len(o.keys) + 1
        /\ \A i \in 1..Len(o.keys) : n.keys[i] = o.keys[i]
        /\ n.keys[Len(o.keys) + 1] = key
    BY <1>0, <1>1
  <1>3. \A i \in 1..Len(o.keys) : o.keys[i] \in Keys
    BY <1>0
  <1>4. n.position \in [Keys -> 0..MaxOpenRequests]
    BY <1>0, <1>1
  <1>5. n.request \in [Keys -> OpenRequests \cup {None}]
    BY <1>0, <1>1
  <1>6. n \in OpenSets
    BY <1>1, <1>2, <1>4, <1>5 DEF OpenSets
  <1>7. \A i \in 1..Len(n.keys) : n.position[n.keys[i]] = i
    BY <1>0, <1>1, <1>2, <1>3 DEF Indexed
  <1>8. \A k \in Keys : n.position[k] # 0 <=> k = key \/ o.position[k] # 0
    BY <1>0, <1>1
  <1>9. \A k \in Keys : n.position[k] # 0 =>
          n.position[k] \in 1..Len(n.keys) /\ n.keys[n.position[k]] = k
    BY <1>0, <1>1, <1>2 DEF Indexed
  <1>10. \A k \in Keys : /\ n.position[k] # 0 <=> n.request[k] # None
                         /\ n.position[k] # 0 => n.request[k].kind = k[1]
    BY <1>0, <1>1 DEF Indexed
  <1>11. Len(n.keys) <= MaxOpenRequests
    BY <1>0, <1>2
  <1>12. QED
    BY <1>6, <1>7, <1>8, <1>9, <1>10, <1>11 DEF Indexed, n

\* _close removes its key and nothing else, whichever place the key has.
LEMMA ClosedIndexed ==
    ASSUME NEW o, Indexed(o), NEW key \in Keys
    PROVE  /\ Indexed(Closed(o, key))
           /\ \A k \in Keys : Closed(o, key).position[k] # 0 <=>
                                 k # key /\ o.position[k] # 0
           /\ \A k \in Keys \ {key} : Closed(o, key).request[k] = o.request[k]
  <1>1. CASE o.position[key] = 0
    <2>1. Closed(o, key) = o
      BY <1>1 DEF Closed
    <2>2. QED
      BY <1>1, <2>1
  <1>2. CASE o.position[key] # 0
    <2> DEFINE n == Closed(o, key)
               last == Len(o.keys)
               place == o.position[key]
    <2>0. /\ o.keys \in Seq(Keys) /\ last \in Nat
          /\ o.position \in [Keys -> 0..MaxOpenRequests]
          /\ o.request \in [Keys -> OpenRequests \cup {None}]
          /\ None \notin OpenRequests /\ MaxOpenRequests \in Nat
          /\ last <= MaxOpenRequests
      BY NoneAssumption, BoundAssumption DEF Indexed, OpenSets
    <2>1. place \in 1..last /\ o.keys[place] = key
      BY <1>2 DEF Indexed
    <2>2. /\ n.keys = [i \in 1..(last - 1) |->
                         IF i = place THEN o.keys[last] ELSE o.keys[i]]
          /\ n.position = [k \in Keys |-> IF k = key THEN 0
                                          ELSE IF k = o.keys[last] THEN place
                                          ELSE o.position[k]]
          /\ n.request = [o.request EXCEPT ![key] = None]
          /\ n = [keys |-> n.keys, position |-> n.position, request |-> n.request]
      BY <1>2 DEF Closed
    <2>3. /\ \A i \in 1..last : o.keys[i] \in Keys /\ o.position[o.keys[i]] = i
          /\ \A k \in Keys : o.position[k] # 0 =>
                o.position[k] \in 1..last /\ o.keys[o.position[k]] = k
      BY <2>0 DEF Indexed
    <2> HIDE DEF n, last, place
    <2>4. last - 1 \in Nat /\ last \in 1..last
      BY <2>0, <2>1
    <2>5. n.keys \in Seq(Keys) /\ Len(n.keys) = last - 1
      <3>1. n.keys \in [1..(last - 1) -> Keys]
        BY <2>2, <2>3, <2>4
      <3>2. PICK m \in Nat : m = last - 1
        BY <2>4
      <3>3. n.keys \in [1..m -> Keys]
        BY <3>1, <3>2
      <3>4. n.keys \in Seq(Keys) /\ Len(n.keys) = m
        BY <3>3
      <3>5. QED
        BY <3>2, <3>4
    <2>6. n.position \in [Keys -> 0..MaxOpenRequests]
      BY <2>0, <2>1, <2>2
    <2>7. n.request \in [Keys -> OpenRequests \cup {None}]
      BY <2>0, <2>2
    <2>8. n \in OpenSets
      BY <2>2, <2>5, <2>6, <2>7 DEF OpenSets
    <2>9. \A k \in Keys : n.position[k] # 0 <=> k # key /\ o.position[k] # 0
      <3>1. o.position[o.keys[last]] # 0 /\ place # 0
        BY <2>1, <2>3, <2>4
      <3>2. QED
        BY <2>2, <3>1
    <2>10. \A i \in 1..(last - 1) :
             /\ i = place => n.keys[i] = o.keys[last]
             /\ i # place => n.keys[i] = o.keys[i]
             /\ n.keys[i] \in Keys \ {key}
             /\ n.position[n.keys[i]] = i
      <3> SUFFICES ASSUME NEW i \in 1..(last - 1)
                   PROVE  /\ i = place => n.keys[i] = o.keys[last]
                          /\ i # place => n.keys[i] = o.keys[i]
                          /\ n.keys[i] \in Keys \ {key}
                          /\ n.position[n.keys[i]] = i
        OBVIOUS
      <3>0. i \in 1..last /\ i # last
        BY <2>0
      <3>1. CASE i = place
        <4>1. n.keys[i] = o.keys[last] /\ o.keys[last] \in Keys
          BY <2>2, <2>3, <2>4, <3>1
        <4>2. o.keys[last] # key
          BY <2>1, <2>3, <2>4, <3>0, <3>1
        <4>3. QED
          BY <2>2, <3>1, <4>1, <4>2
      <3>2. CASE i # place
        <4>1. n.keys[i] = o.keys[i] /\ o.keys[i] \in Keys
          BY <2>2, <2>3, <3>0, <3>2
        <4>2. o.keys[i] # key /\ o.keys[i] # o.keys[last]
          BY <2>1, <2>3, <2>4, <3>0, <3>2
        <4>3. n.position[o.keys[i]] = o.position[o.keys[i]]
          BY <2>2, <4>1, <4>2
        <4>4. QED
          BY <2>3, <3>0, <3>2, <4>1, <4>2, <4>3
      <3>3. QED
        BY <3>1, <3>2
    <2>11. \A k \in Keys : n.position[k] # 0 =>
             n.position[k] \in 1..(last - 1) /\ n.keys[n.position[k]] = k
      <3> SUFFICES ASSUME NEW k \in Keys, n.position[k] # 0
                   PROVE  n.position[k] \in 1..(last - 1) /\ n.keys[n.position[k]] = k
        OBVIOUS
      <3>0. k # key /\ o.position[k] \in 1..last /\ o.keys[o.position[k]] = k
        BY <2>3, <2>9
      <3>1. CASE k = o.keys[last]
        <4>1. n.position[k] = place /\ place # last
          BY <2>1, <2>2, <3>0, <3>1
        <4>2. place \in 1..(last - 1)
          BY <2>0, <2>1, <4>1
        <4>3. QED
          BY <2>10, <3>1, <4>1, <4>2
      <3>2. CASE k # o.keys[last]
        <4>1. n.position[k] = o.position[k] /\ o.position[k] # last /\ o.position[k] # place
          BY <2>1, <2>2, <3>0, <3>2
        <4>2. o.position[k] \in 1..(last - 1)
          BY <2>0, <3>0, <4>1
        <4>3. QED
          BY <2>10, <3>0, <4>1, <4>2
      <3>3. QED
        BY <3>1, <3>2
    <2>12. \A k \in Keys \ {key} : n.request[k] = o.request[k]
      BY <2>0, <2>2
    <2>13. \A k \in Keys : /\ n.position[k] # 0 <=> n.request[k] # None
                           /\ n.position[k] # 0 => n.request[k].kind = k[1]
      BY <2>0, <2>2, <2>9, <2>12 DEF Indexed
    <2>14. Len(n.keys) <= MaxOpenRequests
      BY <2>0, <2>5
    <2>15. QED
      BY <2>5, <2>8, <2>9, <2>10, <2>11, <2>12, <2>13, <2>14 DEF Indexed, n
  <1>3. QED
    BY <1>1, <1>2

-----------------------------------------------------------------------------
(* Keys and the questions they settle.                                     *)

\* The three kinds of keys do not collide.
LEMMA KeyShapes ==
    /\ \A r \in RequestIds : /\ transferRequestKey(r) \in Keys
                             /\ transferRequestKey(r)[1] = "Transfer"
    /\ \A t \in TransferIds : /\ receiptRequestKey(t) \in Keys
                              /\ receiptRequestKey(t)[1] = "Receipt"
    /\ \A k \in RoomKeys : /\ roomRequestKey(k) \in Keys
                           /\ roomRequestKey(k)[1] = "RoomReceipt"
    /\ \A r, q \in RequestIds : transferRequestKey(r) = transferRequestKey(q) => r = q
    /\ \A t, u \in TransferIds : receiptRequestKey(t) = receiptRequestKey(u) => t = u
    /\ \A k, j \in RoomKeys : roomRequestKey(k) = roomRequestKey(j) => k = j
    /\ \A key \in Keys : \/ \E r \in RequestIds : key = transferRequestKey(r)
                         \/ \E t \in TransferIds : key = receiptRequestKey(t)
                         \/ \E k \in RoomKeys : key = roomRequestKey(k)
  BY DEF Keys, transferRequestKey, receiptRequestKey, roomRequestKey

\* Which keys are settled, by kind.
SettledShape ==
    /\ SettledKeys \subseteq Keys
    /\ \A r \in RequestIds : transferRequestKey(r) \in SettledKeys <=> IsAnswered(r)
    /\ \A t \in TransferIds : receiptRequestKey(t) \in SettledKeys <=> receipts[t] # None
    /\ \A k \in RoomKeys : roomRequestKey(k) \in SettledKeys <=> roomReceipts[k] # None

\* The shape of the settled keys, now and after a step.
LEMMA SettledNow == SettledShape /\ SettledShape'
  <1>1. SettledShape
    BY DEF SettledShape, SettledKeys, Keys, transferRequestKey, receiptRequestKey,
           roomRequestKey
  <1>2. SettledShape'
    BY DEF SettledShape, SettledKeys, Keys, transferRequestKey, receiptRequestKey,
           roomRequestKey
  <1>3. QED
    BY <1>1, <1>2

LedgerType ==
    /\ receipts \in [TransferIds -> Receipts \cup {None}]
    /\ roomReceipts \in [RoomKeys -> RoomReceipts \cup {None}]
    /\ transferIdForRequest \in [RequestIds -> TransferIds \cup {None}]
    /\ roomKeyForRequest \in [RequestIds -> RoomKeys \cup {None}]
    /\ jobs \in [RequestIds -> JobResults \cup {None}]
    /\ requesters \subseteq Accounts
    /\ section \in 0..4

\* The inductive invariant: the set is well formed and no settled question is
\* open.
RInv ==
    /\ Indexed(open)
    /\ LedgerType
    /\ \A key \in SettledKeys : ~IsOpen(key)

\* The invariant implies the types and the consistency of the open set.
LEMMA TypesOfRInv == RInv => TypeOK /\ OpenSetIndexed
  BY DEF RInv, Indexed, LedgerType, TypeOK, OpenSetIndexed, IsOpen

\* What a step does to the questions.
Asks(key) ==
    /\ key \notin SettledKeys /\ ~IsOpen(key) /\ Len(open.keys) < MaxOpenRequests
    /\ UNCHANGED SettledKeys
    /\ \A k \in Keys : IsOpen(k)' <=> k = key \/ IsOpen(k)

Withdraws(key) ==
    /\ IsOpen(key)
    /\ UNCHANGED SettledKeys
    /\ \A k \in Keys : IsOpen(k)' <=> k # key /\ IsOpen(k)

Settles(S) ==
    /\ SettledKeys' = SettledKeys \cup S
    /\ \A k \in Keys : IsOpen(k)' <=> k \notin S /\ IsOpen(k)

QuestionStep ==
    \/ \E key \in Keys : Asks(key) \/ Withdraws(key)
    \/ \E S \in SUBSET Keys : Settles(S)

\* Opening a request that is neither open nor settled asks its question.
LEMMA OpenEffect ==
    ASSUME RInv, NEW a \in Accounts, NEW key \in Keys, NEW kind,
           NEW transferKind \in TransferKinds \cup {None},
           kind = key[1], key \notin SettledKeys, Open(a, key, kind, transferKind)
    PROVE  Indexed(open)' /\ LedgerType' /\ QuestionStep
  <1> DEFINE request == [kind |-> kind, transferKind |-> transferKind, requester |-> a]
  <1>1. request \in OpenRequests /\ request.kind = key[1]
    BY KeyShapes DEF OpenRequests
  <1> HIDE DEF request
  <1>2. /\ ~IsOpen(key) /\ Len(open.keys) < MaxOpenRequests
        /\ open' = Opened(open, key, request)
        /\ UNCHANGED <<ledger, requesters>> /\ section' = 0
    BY DEF Open, Transaction, request
  <1>3. /\ Indexed(Opened(open, key, request))
        /\ \A k \in Keys : Opened(open, key, request).position[k] # 0 <=>
                              k = key \/ open.position[k] # 0
    BY <1>1, <1>2, OpenedIndexed DEF RInv, IsOpen
  <1>4. Indexed(open') /\ (Indexed(open)' <=> Indexed(open'))
    BY <1>2, <1>3 DEF Indexed
  <1>5. \A k \in Keys : IsOpen(k)' <=> k = key \/ IsOpen(k)
    BY <1>2, <1>3 DEF IsOpen
  <1>6. UNCHANGED SettledKeys
    BY <1>2 DEF SettledKeys, IsAnswered, ledger
  <1>7. Asks(key)
    BY <1>2, <1>5, <1>6 DEF Asks
  <1>8. LedgerType'
    BY <1>2 DEF RInv, LedgerType, ledger
  <1>9. QED
    BY <1>4, <1>7, <1>8 DEF QuestionStep

\* A requester's transaction asks one question or withdraws one.
LEMMA RequesterEffect ==
    ASSUME RInv, NEW a \in Accounts, RequesterStep(a)
    PROVE  Indexed(open)' /\ LedgerType' /\ QuestionStep
  <1>1. ASSUME NEW r \in RequestIds, NEW kind \in TransferKinds, RequestTransfer(a, r, kind)
        PROVE  Indexed(open)' /\ LedgerType' /\ QuestionStep
    BY <1>1, OpenEffect, KeyShapes, SettledNow DEF RequestTransfer, SettledShape
  <1>2. ASSUME NEW t \in TransferIds, RequestReceipt(a, t)
        PROVE  Indexed(open)' /\ LedgerType' /\ QuestionStep
    BY <1>2, OpenEffect, KeyShapes, SettledNow DEF RequestReceipt, SettledShape
  <1>3. ASSUME NEW k \in RoomKeys, RequestRoomReceipt(a, k)
        PROVE  Indexed(open)' /\ LedgerType' /\ QuestionStep
    BY <1>3, OpenEffect, KeyShapes, SettledNow DEF RequestRoomReceipt, SettledShape
  <1>4. ASSUME NEW key \in Keys, CancelRequest(a, key)
        PROVE  Indexed(open)' /\ LedgerType' /\ QuestionStep
    <2>1. /\ IsOpen(key) /\ open' = Closed(open, key)
          /\ UNCHANGED <<ledger, requesters>> /\ section' = 0
      BY <1>4 DEF CancelRequest, Transaction
    <2>2. /\ Indexed(Closed(open, key))
          /\ \A k \in Keys : Closed(open, key).position[k] # 0 <=>
                                k # key /\ open.position[k] # 0
      BY ClosedIndexed DEF RInv
    <2>3. Indexed(open)'
      BY <2>1, <2>2 DEF Indexed
    <2>4. UNCHANGED SettledKeys
      BY <2>1 DEF SettledKeys, IsAnswered, ledger
    <2>5. Withdraws(key)
      BY <2>1, <2>2, <2>4 DEF Withdraws, IsOpen
    <2>6. LedgerType'
      BY <2>1 DEF RInv, LedgerType, ledger
    <2>7. QED
      BY <2>3, <2>5, <2>6 DEF QuestionStep
  <1>5. QED
    BY <1>1, <1>2, <1>3, <1>4 DEF RequesterStep

\* _answerRequest closes the request it answers, if it is open.
LEMMA AfterAnswerEffect ==
    ASSUME RInv, NEW r \in RequestIds \cup {None}, NEW kind
    PROVE  /\ Indexed(AfterAnswer(r, kind))
           /\ \A k \in Keys : AfterAnswer(r, kind).position[k] # 0 <=>
                 IsOpen(k) /\ ~(Answers(r, kind) /\ k = transferRequestKey(r))
  <1>1. CASE Answers(r, kind)
    <2>1. r \in RequestIds /\ transferRequestKey(r) \in Keys
      BY <1>1, KeyShapes DEF Answers
    <2>2. QED
      BY <1>1, <2>1, ClosedIndexed DEF AfterAnswer, RInv, IsOpen
  <1>2. CASE ~Answers(r, kind)
    BY <1>2 DEF AfterAnswer, RInv, IsOpen
  <1>3. QED
    BY <1>1, <1>2

\* A step that settles S and closes its questions, stated key by key.
LEMMA SettlesByShape ==
    ASSUME RInv, NEW S \in SUBSET Keys,
           \A r \in RequestIds : IsAnswered(r)' <=>
               IsAnswered(r) \/ transferRequestKey(r) \in S,
           \A t \in TransferIds : (receipts'[t] # None) <=>
               receipts[t] # None \/ receiptRequestKey(t) \in S,
           \A k \in RoomKeys : (roomReceipts'[k] # None) <=>
               roomReceipts[k] # None \/ roomRequestKey(k) \in S,
           \A k \in Keys : IsOpen(k)' <=> k \notin S /\ IsOpen(k)
    PROVE  QuestionStep
  <1>1. \A key \in Keys : key \in SettledKeys' <=> key \in SettledKeys \/ key \in S
    <2> TAKE key \in Keys
    <2>1. CASE \E r \in RequestIds : key = transferRequestKey(r)
      BY <2>1, SettledNow DEF SettledShape
    <2>2. CASE \E t \in TransferIds : key = receiptRequestKey(t)
      BY <2>2, SettledNow DEF SettledShape
    <2>3. CASE \E k \in RoomKeys : key = roomRequestKey(k)
      BY <2>3, SettledNow DEF SettledShape
    <2>4. QED
      BY <2>1, <2>2, <2>3, KeyShapes
  <1>2. SettledKeys \subseteq Keys /\ SettledKeys' \subseteq Keys
    BY SettledNow DEF SettledShape
  <1>3. SettledKeys' = SettledKeys \cup S
    BY <1>1, <1>2
  <1>4. QED
    BY <1>3 DEF QuestionStep, Settles

\* The sections of a report number from one to four.
LEMMA SectionType ==
    ASSUME NEW s \in 1..4, NEW e, ReportEntry(s, e)
    PROVE  section' = s /\ section' \in 0..4 /\ UNCHANGED requesters
  BY DEF ReportEntry

\* _recordReceipt settles the transfer and the request it answers.
LEMMA RecordReceiptEffect ==
    ASSUME RInv, NEW e \in StandardEntries, RecordReceipt(e)
    PROVE  Indexed(open)' /\ LedgerType' /\ QuestionStep
  <1> DEFINE t == e.transferId
             r == e.requestId
             answers == Answers(r, "Standard")
             after == AfterAnswer(r, "Standard")
             S == (IF answers THEN {transferRequestKey(r)} ELSE {})
                      \cup {receiptRequestKey(t)}
  <1>0. /\ t \in TransferIds /\ r \in RequestIds \cup {None} /\ e.status \in Statuses
        /\ answers => r \in RequestIds /\ ~IsAnswered(r)
        /\ None \notin TransferIds /\ None \notin RequestIds /\ None \notin Receipts
    BY NoneAssumption DEF StandardEntries, Answers
  <1>1. S \in SUBSET Keys /\ receiptRequestKey(t) \in Keys
    BY <1>0, KeyShapes
  <1>2. /\ Indexed(after)
        /\ \A k \in Keys : after.position[k] # 0 <=>
              IsOpen(k) /\ ~(answers /\ k = transferRequestKey(r))
    BY <1>0, AfterAnswerEffect
  <1>3. /\ Indexed(open')
        /\ \A k \in Keys : open'.position[k] # 0 <=> k \notin S /\ IsOpen(k)
    <2>1. CASE receipts[t] # None
      <3>1. open' = after
        BY <2>1 DEF RecordReceipt
      <3>2. ~IsOpen(receiptRequestKey(t))
        BY <1>0, <2>1, SettledNow DEF SettledShape, RInv
      <3>3. QED
        BY <1>2, <3>1, <3>2
    <2>2. CASE receipts[t] = None
      <3>1. open' = Closed(after, receiptRequestKey(t))
        BY <2>2 DEF RecordReceipt
      <3>2. /\ Indexed(Closed(after, receiptRequestKey(t)))
            /\ \A k \in Keys : Closed(after, receiptRequestKey(t)).position[k] # 0 <=>
                  k # receiptRequestKey(t) /\ after.position[k] # 0
        BY <1>1, <1>2, ClosedIndexed
      <3>3. QED
        BY <1>2, <3>1, <3>2
    <2>3. QED
      BY <2>1, <2>2
  <1>4. Indexed(open)'
    BY <1>3 DEF Indexed
  <1>5. UNCHANGED <<roomReceipts, roomKeyForRequest, jobs>>
    BY DEF RecordReceipt
  <1>6. /\ transferIdForRequest' =
              IF answers THEN [transferIdForRequest EXCEPT ![r] = t]
              ELSE transferIdForRequest
        /\ transferIdForRequest' \in [RequestIds -> TransferIds \cup {None}]
    BY <1>0 DEF RecordReceipt, RInv, LedgerType
  <1>7. /\ receipts' \in [TransferIds -> Receipts \cup {None}]
        /\ \A u \in TransferIds : (receipts'[u] # None) <=> receipts[u] # None \/ u = t
    <2>1. \E q \in RequestIds \cup {None}, st \in Statuses :
             receipts' \in {receipts, [receipts EXCEPT ![t] = [requestId |-> q, status |-> st]]}
             /\ (receipts' = receipts => receipts[t] # None)
      <3>1. CASE receipts[t] = None
        <4>1. receipts' = [receipts EXCEPT ![t] =
                 [requestId |-> IF answers THEN r ELSE None, status |-> e.status]]
          BY <3>1 DEF RecordReceipt
        <4>2. [requestId |-> IF answers THEN r ELSE None, status |-> e.status] \in Receipts
          BY <1>0 DEF Receipts
        <4>3. receipts'[t] # None
          BY <1>0, <4>1, <4>2 DEF RInv, LedgerType
        <4>4. QED
          BY <1>0, <3>1, <4>1, <4>3
      <3>2. CASE receipts[t] # None
        <4>1. receipts[t] \in Receipts
          BY <1>0, <3>2 DEF RInv, LedgerType
        <4>2. receipts[t].status \in Statuses
          BY <4>1 DEF Receipts
        <4>3. receipts' \in {receipts, [receipts EXCEPT ![t] =
                 [requestId |-> r, status |-> receipts[t].status]]}
          BY <3>2 DEF RecordReceipt
        <4>4. QED
          BY <1>0, <3>2, <4>2, <4>3
      <3>3. QED
        BY <3>1, <3>2
    <2>2. \A q \in RequestIds \cup {None}, st \in Statuses :
             [requestId |-> q, status |-> st] \in Receipts
      BY DEF Receipts
    <2>3. QED
      BY <1>0, <2>1, <2>2 DEF RInv, LedgerType
  <1>8. \A q \in RequestIds : IsAnswered(q)' <=> IsAnswered(q) \/ transferRequestKey(q) \in S
    <2>1. \A q \in RequestIds : transferRequestKey(q) \in S <=> answers /\ q = r
      BY <1>0, KeyShapes
    <2>2. QED
      BY <1>0, <1>5, <1>6, <2>1 DEF IsAnswered, RInv, LedgerType
  <1>9. \A u \in TransferIds : (receipts'[u] # None) <=>
           receipts[u] # None \/ receiptRequestKey(u) \in S
    BY <1>0, <1>7, KeyShapes
  <1>10. \A k \in RoomKeys : (roomReceipts'[k] # None) <=>
           roomReceipts[k] # None \/ roomRequestKey(k) \in S
    BY <1>0, <1>5, KeyShapes
  <1>11. \A k \in Keys : IsOpen(k)' <=> k \notin S /\ IsOpen(k)
    BY <1>3 DEF IsOpen
  <1>12. QuestionStep
    BY <1>1, <1>8, <1>9, <1>10, <1>11, SettlesByShape
  <1>13. section' \in 0..4 /\ UNCHANGED requesters
    BY SectionType DEF RecordReceipt
  <1>14. LedgerType'
    BY <1>5, <1>6, <1>7, <1>13 DEF RInv, LedgerType
  <1>15. QED
    BY <1>4, <1>12, <1>14


\* _recordRoomReceipt settles the Room key and the request it answers.
LEMMA RecordRoomReceiptEffect ==
    ASSUME RInv, NEW e \in RoomEntries, RecordRoomReceipt(e)
    PROVE  Indexed(open)' /\ LedgerType' /\ QuestionStep
  <1> DEFINE m == e.roomKey
             r == e.requestId
             answers == Answers(r, "RoomDelivery")
             after == AfterAnswer(r, "RoomDelivery")
             S == (IF answers THEN {transferRequestKey(r)} ELSE {})
                      \cup {roomRequestKey(m)}
             receipt == [status |-> e.status, level |-> e.level]
  <1>0. /\ m \in RoomKeys /\ r \in RequestIds \cup {None}
        /\ answers => r \in RequestIds /\ ~IsAnswered(r)
        /\ None \notin RoomKeys /\ None \notin RequestIds /\ None \notin RoomReceipts
    BY NoneAssumption DEF RoomEntries, Answers
  <1>1. S \in SUBSET Keys /\ roomRequestKey(m) \in Keys
    BY <1>0, KeyShapes
  <1>2. /\ Indexed(after)
        /\ \A k \in Keys : after.position[k] # 0 <=>
              IsOpen(k) /\ ~(answers /\ k = transferRequestKey(r))
    BY <1>0, AfterAnswerEffect
  <1>3. /\ Indexed(open')
        /\ \A k \in Keys : open'.position[k] # 0 <=> k \notin S /\ IsOpen(k)
    <2>1. CASE roomReceipts[m] # None
      <3>1. open' = after
        BY <2>1 DEF RecordRoomReceipt
      <3>2. ~IsOpen(roomRequestKey(m))
        BY <1>0, <2>1, SettledNow DEF SettledShape, RInv
      <3>3. QED
        BY <1>2, <3>1, <3>2
    <2>2. CASE roomReceipts[m] = None
      <3>1. open' = Closed(after, roomRequestKey(m))
        BY <2>2 DEF RecordRoomReceipt
      <3>2. /\ Indexed(Closed(after, roomRequestKey(m)))
            /\ \A k \in Keys : Closed(after, roomRequestKey(m)).position[k] # 0 <=>
                  k # roomRequestKey(m) /\ after.position[k] # 0
        BY <1>1, <1>2, ClosedIndexed
      <3>3. QED
        BY <1>2, <3>1, <3>2
    <2>3. QED
      BY <2>1, <2>2
  <1>4. Indexed(open)'
    BY <1>3 DEF Indexed
  <1>5. UNCHANGED <<receipts, transferIdForRequest, jobs>>
    BY DEF RecordRoomReceipt
  <1>6. /\ roomKeyForRequest' =
              IF answers THEN [roomKeyForRequest EXCEPT ![r] = m] ELSE roomKeyForRequest
        /\ roomKeyForRequest' \in [RequestIds -> RoomKeys \cup {None}]
    BY <1>0 DEF RecordRoomReceipt, RInv, LedgerType
  <1>7. /\ roomReceipts' \in [RoomKeys -> RoomReceipts \cup {None}]
        /\ \A j \in RoomKeys : (roomReceipts'[j] # None) <=> roomReceipts[j] # None \/ j = m
    <2>1. receipt \in RoomReceipts
      BY DEF RoomReceipts, RoomEntries, Claims
    <2>2. roomReceipts' = IF roomReceipts[m] # None THEN roomReceipts
                          ELSE [roomReceipts EXCEPT ![m] = receipt]
      BY DEF RecordRoomReceipt
    <2>3. QED
      BY <1>0, <2>1, <2>2 DEF RInv, LedgerType
  <1>8. \A q \in RequestIds : IsAnswered(q)' <=> IsAnswered(q) \/ transferRequestKey(q) \in S
    <2>1. \A q \in RequestIds : transferRequestKey(q) \in S <=> answers /\ q = r
      BY <1>0, KeyShapes
    <2>2. QED
      BY <1>0, <1>5, <1>6, <2>1 DEF IsAnswered, RInv, LedgerType
  <1>9. \A u \in TransferIds : (receipts'[u] # None) <=>
           receipts[u] # None \/ receiptRequestKey(u) \in S
    BY <1>0, <1>5, KeyShapes
  <1>10. \A k \in RoomKeys : (roomReceipts'[k] # None) <=>
           roomReceipts[k] # None \/ roomRequestKey(k) \in S
    BY <1>0, <1>7, KeyShapes
  <1>11. \A k \in Keys : IsOpen(k)' <=> k \notin S /\ IsOpen(k)
    BY <1>3 DEF IsOpen
  <1>12. QuestionStep
    BY <1>1, <1>8, <1>9, <1>10, <1>11, SettlesByShape
  <1>13. section' \in 0..4 /\ UNCHANGED requesters
    BY SectionType DEF RecordRoomReceipt
  <1>14. LedgerType'
    BY <1>5, <1>6, <1>7, <1>13 DEF RInv, LedgerType
  <1>15. QED
    BY <1>4, <1>12, <1>14

\* A step that leaves the set and the ledger alone settles nothing.
LEMMA IdleEffect ==
    ASSUME RInv, UNCHANGED <<open, ledger>>, requesters' \subseteq Accounts,
           section' \in 0..4
    PROVE  Indexed(open)' /\ LedgerType' /\ QuestionStep
  <1>1. Indexed(open)' /\ LedgerType'
    BY DEF RInv, Indexed, LedgerType, ledger
  <1>2. SettledKeys' = SettledKeys \cup {}
    BY DEF SettledKeys, IsAnswered, ledger
  <1>3. \A k \in Keys : IsOpen(k)' <=> k \notin {} /\ IsOpen(k)
    BY DEF IsOpen
  <1>4. Settles({})
    BY <1>2, <1>3 DEF Settles
  <1>5. QED
    BY <1>1, <1>4 DEF QuestionStep

\* _closeRequest withdraws an open Room receipt request or does nothing.
LEMMA CloseRequestEffect ==
    ASSUME RInv, NEW key \in Keys, CloseRequest(key)
    PROVE  Indexed(open)' /\ LedgerType' /\ QuestionStep
  <1>1. /\ section' \in 0..4 /\ UNCHANGED requesters /\ UNCHANGED ledger
        /\ requesters' \subseteq Accounts
    BY SectionType DEF CloseRequest, RInv, LedgerType
  <1>2. CASE open' = open
    BY <1>1, <1>2, IdleEffect DEF ledger
  <1>3. CASE IsOpen(key) /\ open' = Closed(open, key)
    <2>1. /\ Indexed(Closed(open, key))
          /\ \A k \in Keys : Closed(open, key).position[k] # 0 <=>
                                k # key /\ open.position[k] # 0
      BY ClosedIndexed DEF RInv
    <2>2. Indexed(open)'
      BY <1>3, <2>1 DEF Indexed
    <2>3. UNCHANGED SettledKeys
      BY <1>1 DEF SettledKeys, IsAnswered, ledger
    <2>4. Withdraws(key)
      BY <1>3, <2>1, <2>3 DEF Withdraws, IsOpen
    <2>5. LedgerType'
      BY <1>1 DEF RInv, LedgerType, ledger
    <2>6. QED
      BY <2>2, <2>4, <2>5 DEF QuestionStep
  <1>4. QED
    BY <1>2, <1>3 DEF CloseRequest

\* _recordJob settles the request it answers.
LEMMA RecordJobEffect ==
    ASSUME RInv, NEW e \in JobEntries, RecordJob(e)
    PROVE  Indexed(open)' /\ LedgerType' /\ QuestionStep
  <1> DEFINE r == e.requestId
             answers == Answers(r, "Job")
             after == AfterAnswer(r, "Job")
             S == IF answers THEN {transferRequestKey(r)} ELSE {}
             input == roomReceipts[e.input]
             output == roomReceipts[e.output]
             job == [input |-> e.input, output |-> e.output,
                     status |-> IF input.status = "Completed"
                                THEN output.status ELSE input.status,
                     level |-> input.level \cap output.level]
  <1>0. /\ r \in RequestIds /\ e.input \in RoomKeys /\ e.output \in RoomKeys
        /\ answers => ~IsAnswered(r)
        /\ None \notin JobResults
    BY NoneAssumption DEF JobEntries, Answers
  <1>1. S \in SUBSET Keys
    BY <1>0, KeyShapes
  <1>2. /\ Indexed(after)
        /\ \A k \in Keys : after.position[k] # 0 <=>
              IsOpen(k) /\ ~(answers /\ k = transferRequestKey(r))
    BY <1>0, AfterAnswerEffect
  <1>3. open' = after
    BY DEF RecordJob
  <1>4. Indexed(open)' /\ \A k \in Keys : IsOpen(k)' <=> k \notin S /\ IsOpen(k)
    BY <1>2, <1>3 DEF Indexed, IsOpen
  <1>5. UNCHANGED <<receipts, roomReceipts, transferIdForRequest, roomKeyForRequest>>
    BY DEF RecordJob
  <1>6. job \in JobResults
    <2>1. input \in RoomReceipts /\ output \in RoomReceipts
      BY <1>0 DEF RecordJob, RInv, LedgerType
    <2>2. /\ input.status \in Statuses /\ output.status \in Statuses
          /\ input.level \cap output.level \in SUBSET Claims
      BY <2>1 DEF RoomReceipts
    <2>3. QED
      BY <1>0, <2>2 DEF JobResults
  <1>7. jobs' = IF answers THEN [jobs EXCEPT ![r] = job] ELSE jobs
    BY DEF RecordJob
  <1> HIDE DEF job
  <1>8. /\ jobs' \in [RequestIds -> JobResults \cup {None}]
        /\ \A q \in RequestIds : (jobs'[q] # None) <=> jobs[q] # None \/ (answers /\ q = r)
    BY <1>0, <1>6, <1>7 DEF RInv, LedgerType
  <1>9. \A q \in RequestIds : IsAnswered(q)' <=> IsAnswered(q) \/ transferRequestKey(q) \in S
    <2>1. \A q \in RequestIds : transferRequestKey(q) \in S <=> answers /\ q = r
      BY <1>0, KeyShapes
    <2>2. QED
      BY <1>0, <1>5, <1>8, <2>1 DEF IsAnswered
  <1>10. /\ \A u \in TransferIds : receiptRequestKey(u) \notin S
         /\ \A k \in RoomKeys : roomRequestKey(k) \notin S
    BY <1>0, KeyShapes
  <1>11. QuestionStep
    BY <1>1, <1>4, <1>5, <1>9, <1>10, SettlesByShape
  <1>12. section' \in 0..4 /\ UNCHANGED requesters
    BY SectionType DEF RecordJob
  <1>13. LedgerType'
    BY <1>5, <1>8, <1>12 DEF RInv, LedgerType
  <1>14. QED
    BY <1>4, <1>11, <1>13

-----------------------------------------------------------------------------
(* The invariant and the refinement.                                       *)

\* Every step asks one question, withdraws one, or settles some.
LEMMA StepEffect ==
    ASSUME RInv, [Next]_vars
    PROVE  Indexed(open)' /\ LedgerType' /\ QuestionStep
  <1>1. ASSUME NEW a \in Accounts, RequesterStep(a)
        PROVE  Indexed(open)' /\ LedgerType' /\ QuestionStep
    BY <1>1, RequesterEffect
  <1>2. ASSUME NEW a \in Accounts, NEW allowed \in BOOLEAN, SetRequester(a, allowed)
        PROVE  Indexed(open)' /\ LedgerType' /\ QuestionStep
    <2>1. /\ UNCHANGED <<open, ledger>> /\ section' \in 0..4
          /\ requesters' \subseteq Accounts
      BY <1>2 DEF SetRequester, Transaction, RInv, LedgerType
    <2>2. QED
      BY <2>1, IdleEffect
  <1>3. CASE ReportStep
    BY <1>3, RecordReceiptEffect, RecordRoomReceiptEffect, CloseRequestEffect,
       RecordJobEffect DEF ReportStep
  <1>4. CASE EndReport
    <2>1. /\ UNCHANGED <<open, ledger>> /\ section' \in 0..4
          /\ requesters' \subseteq Accounts
      BY <1>4 DEF EndReport, RInv, LedgerType
    <2>2. QED
      BY <2>1, IdleEffect
  <1>5. CASE UNCHANGED vars
    <2>1. /\ UNCHANGED <<open, ledger>> /\ section' \in 0..4
          /\ requesters' \subseteq Accounts
      BY <1>5 DEF vars, RInv, LedgerType
    <2>2. QED
      BY <2>1, IdleEffect
  <1>6. QED
    BY <1>1, <1>2, <1>3, <1>4, <1>5 DEF Next

\* A contract that holds nothing yet, whoever may ask it.
NothingYet ==
    /\ open = [keys |-> <<>>, position |-> [k \in Keys |-> 0],
               request |-> [k \in Keys |-> None]]
    /\ receipts = [t \in TransferIds |-> None]
    /\ roomReceipts = [k \in RoomKeys |-> None]
    /\ transferIdForRequest = [r \in RequestIds |-> None]
    /\ roomKeyForRequest = [r \in RequestIds |-> None]
    /\ jobs = [r \in RequestIds |-> None]
    /\ requesters \subseteq Accounts
    /\ section = 0 /\ reported = {}

\* A contract that holds nothing yet has the invariant.
LEMMA RInvEmpty == NothingYet => RInv
  <1> SUFFICES ASSUME NothingYet PROVE RInv
    OBVIOUS
  <1>1. /\ open.keys = <<>> /\ open.position = [k \in Keys |-> 0]
        /\ open.request = [k \in Keys |-> None]
        /\ open = [keys |-> open.keys, position |-> open.position,
                   request |-> open.request]
    BY DEF NothingYet
  <1>2. Indexed(open)
    <2>1. open.keys \in Seq(Keys) /\ Len(open.keys) = 0
      BY <1>1
    <2>2. open \in OpenSets
      <3>1. open.position \in [Keys -> 0..MaxOpenRequests]
        BY <1>1, BoundAssumption
      <3>2. open.request \in [Keys -> OpenRequests \cup {None}]
        BY <1>1
      <3>3. QED
        BY <1>1, <2>1, <3>1, <3>2 DEF OpenSets
    <2>3. \A key \in Keys : open.position[key] = 0 /\ open.request[key] = None
      BY <1>1
    <2>4. Len(open.keys) <= MaxOpenRequests /\ 1..Len(open.keys) = {}
      BY <2>1, BoundAssumption
    <2>5. QED
      BY <2>2, <2>3, <2>4 DEF Indexed
  <1>3. LedgerType
    BY DEF NothingYet, LedgerType
  <1>4. SettledKeys \subseteq Keys /\ \A key \in Keys : ~IsOpen(key)
    BY <1>1, SettledNow DEF IsOpen, SettledShape
  <1>5. QED
    BY <1>2, <1>3, <1>4 DEF RInv

\* The invariant holds of the deployed contract.
LEMMA RInvInit == Init => RInv
  BY RInvEmpty DEF Init, NothingYet

\* Every step preserves it.
LEMMA RInvNext == RInv /\ [Next]_vars => RInv'
  <1> SUFFICES ASSUME RInv, [Next]_vars PROVE RInv'
    OBVIOUS
  <1>1. Indexed(open)' /\ LedgerType' /\ QuestionStep
    BY StepEffect
  <1>2. SettledKeys \subseteq Keys /\ SettledKeys' \subseteq Keys
    BY SettledNow DEF SettledShape
  <1>3. \A key \in SettledKeys' : ~IsOpen(key)'
    <2>1. CASE \E key \in Keys : Asks(key) \/ Withdraws(key)
      BY <1>2, <2>1 DEF Asks, Withdraws, RInv
    <2>2. CASE \E S \in SUBSET Keys : Settles(S)
      BY <1>2, <2>2 DEF Settles, RInv
    <2>3. QED
      BY <1>1, <2>1, <2>2 DEF QuestionStep
  <1>4. QED
    BY <1>1, <1>3 DEF RInv

\* RInv is an invariant of the contract.
THEOREM ReceiptsInductive == Spec => []RInv
  BY RInvInit, RInvNext, PTL DEF Spec

\* Every reachable state has its types, and the set never outgrows
\* MAX_OPEN_REQUESTS.
THEOREM ReceiptsTypeCorrect == Spec => []TypeOK
  BY ReceiptsInductive, TypesOfRInv, PTL

\* Keys and positions index each other after any sequence of _open and _close.
THEOREM OpenSetSound == Spec => []OpenSetIndexed
  BY ReceiptsInductive, TypesOfRInv, PTL

\* The listed keys are the open ones, each listed once.
LEMMA OpenKeysCounted ==
    ASSUME NEW o, Indexed(o)
    PROVE  LET listed == {o.keys[i] : i \in 1..Len(o.keys)}
           IN  /\ listed = {key \in Keys : o.position[key] # 0}
               /\ Cardinality(listed) = Len(o.keys)
  <1> DEFINE listed == {o.keys[i] : i \in 1..Len(o.keys)}
             f == [i \in 1..Len(o.keys) |-> o.keys[i]]
  <1>1. o.keys \in Seq(Keys) /\ Len(o.keys) \in Nat
    BY DEF Indexed, OpenSets
  <1>2. \A i \in 1..Len(o.keys) : o.keys[i] \in Keys /\ o.position[o.keys[i]] = i
    BY <1>1 DEF Indexed
  <1>3. listed = {key \in Keys : o.position[key] # 0}
    BY <1>1, <1>2 DEF Indexed
  <1>4. f \in Bijection(1..Len(o.keys), listed)
    <2>1. f \in [1..Len(o.keys) -> listed]
      OBVIOUS
    <2>2. \A i, j \in 1..Len(o.keys) : f[i] = f[j] => i = j
      BY <1>2
    <2>3. \A k \in listed : \E i \in 1..Len(o.keys) : f[i] = k
      OBVIOUS
    <2>4. QED
      BY <2>1, <2>2, <2>3 DEF Bijection, Injection, Surjection, IsInjective
  <1>5. Cardinality(listed) = Len(o.keys)
    <2>1. ExistsBijection(1..Len(o.keys), listed)
      BY <1>4 DEF ExistsBijection
    <2> HIDE DEF listed
    <2>2. QED
      BY <1>1, <2>1, FS_CountingElements
  <1>6. QED
    BY <1>3, <1>5

\* A step of the contract is a step of the outbox.
LEMMA OutboxStep ==
    ASSUME RInv, [Next]_vars
    PROVE  [AsOutbox!OutboxNext]_<<OpenKeys, SettledKeys>>
  <1>1. Indexed(open) /\ Indexed(open') /\ QuestionStep
    BY StepEffect DEF RInv, Indexed
  <1>2. /\ OpenKeys = {key \in Keys : IsOpen(key)}
        /\ Cardinality(OpenKeys) = Len(open.keys)
    BY <1>1, OpenKeysCounted DEF OpenKeys, IsOpen
  <1>3. OpenKeys' = {key \in Keys : IsOpen(key)'}
    BY <1>1, OpenKeysCounted DEF OpenKeys, IsOpen
  <1>4. ASSUME NEW key \in Keys, Asks(key)
        PROVE  AsOutbox!Ask(key)
    <2>1. AsOutbox!Cardinality(OpenKeys) = Cardinality(OpenKeys)
      BY DEF AsOutbox!Cardinality, Cardinality
    <2>2. AsOutbox!Cardinality(OpenKeys) < MaxOpenRequests
      BY <1>2, <1>4, <2>1 DEF Asks
    <2>3. OpenKeys' = OpenKeys \cup {key} /\ key \notin OpenKeys \cup SettledKeys
      BY <1>2, <1>3, <1>4 DEF Asks
    <2>4. QED
      BY <1>4, <2>2, <2>3 DEF Asks, AsOutbox!Ask
  <1>5. ASSUME NEW key \in Keys, Withdraws(key)
        PROVE  AsOutbox!Withdraw(key)
    BY <1>2, <1>3, <1>5 DEF Withdraws, AsOutbox!Withdraw
  <1>6. ASSUME NEW S \in SUBSET Keys, Settles(S)
        PROVE  AsOutbox!Settle(S)
    BY <1>2, <1>3, <1>6 DEF Settles, AsOutbox!Settle
  <1>7. QED
    BY <1>1, <1>4, <1>5, <1>6 DEF QuestionStep, AsOutbox!OutboxNext

\* The contract implements the bounded outbox: swap-and-pop never loses or
\* repeats an open request, and a settled one is never opened again.
THEOREM ContractIsOutbox == Spec => ImplementsOutbox
  <1>1. Init => AsOutbox!OutboxInit
    <2> SUFFICES ASSUME Init PROVE AsOutbox!OutboxInit
      OBVIOUS
    <2>1. Len(open.keys) = 0 /\ 1..Len(open.keys) = {}
      BY DEF Init
    <2>2. OpenKeys = {}
      BY <2>1 DEF OpenKeys
    <2>3. SettledKeys = {}
      BY DEF Init, SettledKeys, IsAnswered
    <2>4. QED
      BY <2>2, <2>3 DEF AsOutbox!OutboxInit
  <1>2. RInv /\ [Next]_vars => [AsOutbox!OutboxNext]_<<OpenKeys, SettledKeys>>
    BY OutboxStep
  <1>3. QED
    BY <1>1, <1>2, ReceiptsInductive, PTL
    DEF Spec, ImplementsOutbox, AsOutbox!OutboxSpec

-----------------------------------------------------------------------------
(* Records and answers.                                                    *)

\* A step that leaves the ledger alone overwrites nothing.
LEMMA IdleKeeps == ASSUME UNCHANGED ledger PROVE KeepsRecords
  BY DEF KeepsRecords, ledger

\* No step overwrites a receipt or an answer.
LEMMA StepKeeps ==
    ASSUME RInv, [Next]_vars
    PROVE  KeepsRecords
  <1>0. LedgerType
    BY DEF RInv
  <1>1. ASSUME NEW e \in StandardEntries, RecordReceipt(e)
        PROVE  KeepsRecords
    <2> DEFINE t == e.transferId
               r == e.requestId
               answers == Answers(r, "Standard")
    <2>1. t \in TransferIds /\ UNCHANGED <<roomReceipts, roomKeyForRequest, jobs>>
      BY <1>1 DEF StandardEntries, RecordReceipt
    <2>2. \A q \in RequestIds : IsAnswered(q) => transferIdForRequest'[q] = transferIdForRequest[q]
      <3>1. transferIdForRequest' = IF answers THEN [transferIdForRequest EXCEPT ![r] = t]
                                    ELSE transferIdForRequest
        BY <1>1 DEF RecordReceipt
      <3>2. answers => ~IsAnswered(r)
        BY DEF Answers
      <3>3. QED
        BY <1>0, <3>1, <3>2 DEF LedgerType
    <2>3. \A u \in TransferIds : receipts[u] # None =>
             /\ receipts'[u] # None /\ receipts'[u].status = receipts[u].status
             /\ receipts[u].requestId \in {None, receipts'[u].requestId}
      <3> SUFFICES ASSUME NEW u \in TransferIds, receipts[u] # None
                   PROVE  /\ receipts'[u] # None /\ receipts'[u].status = receipts[u].status
                          /\ receipts[u].requestId \in {None, receipts'[u].requestId}
        OBVIOUS
      <3>1. CASE receipts'[u] = receipts[u]
        BY <3>1
      <3>2. CASE receipts'[u] # receipts[u]
        <4>1. /\ u = t /\ receipts[t].requestId = None /\ answers
              /\ receipts' = [receipts EXCEPT ![t] = [requestId |-> r,
                                                     status |-> receipts[t].status]]
          BY <1>0, <1>1, <2>1, <3>2 DEF RecordReceipt, LedgerType
        <4>2. receipts'[u] = [requestId |-> r, status |-> receipts[u].status]
          BY <1>0, <4>1 DEF LedgerType
        <4>3. receipts[u] \in Receipts /\ r \in RequestIds
          BY <1>0, <1>1, <4>1 DEF LedgerType, Answers, StandardEntries
        <4>4. receipts'[u] \in Receipts
          BY <4>2, <4>3 DEF Receipts
        <4>5. receipts'[u] # None
          BY <4>4, NoneAssumption
        <4>6. QED
          BY <4>1, <4>2, <4>5
      <3>3. QED
        BY <3>1, <3>2
    <2>4. QED
      BY <2>1, <2>2, <2>3 DEF KeepsRecords
  <1>2. ASSUME NEW e \in RoomEntries, RecordRoomReceipt(e)
        PROVE  KeepsRecords
    <2> DEFINE m == e.roomKey
               r == e.requestId
               answers == Answers(r, "RoomDelivery")
    <2>1. UNCHANGED <<receipts, transferIdForRequest, jobs>>
      BY <1>2 DEF RecordRoomReceipt
    <2>2. \A q \in RequestIds : IsAnswered(q) => roomKeyForRequest'[q] = roomKeyForRequest[q]
      <3>1. roomKeyForRequest' = IF answers THEN [roomKeyForRequest EXCEPT ![r] = m]
                                 ELSE roomKeyForRequest
        BY <1>2 DEF RecordRoomReceipt
      <3>2. answers => ~IsAnswered(r)
        BY DEF Answers
      <3>3. QED
        BY <1>0, <3>1, <3>2 DEF LedgerType
    <2>3. \A k \in RoomKeys : roomReceipts[k] # None => roomReceipts'[k] = roomReceipts[k]
      BY <1>0, <1>2 DEF RecordRoomReceipt, LedgerType
    <2>4. QED
      BY <2>1, <2>2, <2>3 DEF KeepsRecords
  <1>3. ASSUME NEW e \in JobEntries, RecordJob(e)
        PROVE  KeepsRecords
    <2>1. UNCHANGED <<receipts, roomReceipts, transferIdForRequest, roomKeyForRequest>>
      BY <1>3 DEF RecordJob
    <2>2. \A q \in RequestIds : IsAnswered(q) => jobs'[q] = jobs[q]
      <3>1. \/ jobs' = jobs
            \/ \E job : jobs' = [jobs EXCEPT ![e.requestId] = job] /\ ~IsAnswered(e.requestId)
        BY <1>3 DEF RecordJob, Answers
      <3>2. QED
        BY <1>0, <3>1 DEF LedgerType
    <2>3. QED
      BY <2>1, <2>2 DEF KeepsRecords
  <1>4. ASSUME NEW key \in Keys, CloseRequest(key)
        PROVE  KeepsRecords
    BY <1>4, IdleKeeps DEF CloseRequest
  <1>5. ASSUME NEW a \in Accounts, RequesterStep(a)
        PROVE  KeepsRecords
    <2>1. UNCHANGED ledger
      BY <1>5 DEF RequesterStep, RequestTransfer, RequestReceipt, RequestRoomReceipt,
                  CancelRequest, Open
    <2>2. QED
      BY <2>1, IdleKeeps
  <1>6. ASSUME NEW a \in Accounts, NEW allowed \in BOOLEAN, SetRequester(a, allowed)
        PROVE  KeepsRecords
    BY <1>6, IdleKeeps DEF SetRequester
  <1>7. CASE EndReport \/ UNCHANGED vars
    BY <1>7, IdleKeeps DEF EndReport, vars
  <1>8. QED
    BY <1>1, <1>2, <1>3, <1>4, <1>5, <1>6, <1>7 DEF Next, ReportStep

\* A recorded receipt and the answer of a request are never overwritten,
\* whatever reports arrive and however often.
THEOREM RecordsFinal == Spec => RecordsAreFinal
  <1>1. RInv /\ [Next]_vars => [KeepsRecords]_vars
    BY StepKeeps
  <1>2. QED
    BY <1>1, ReceiptsInductive, PTL DEF Spec, RecordsAreFinal

-----------------------------------------------------------------------------
(* What answers rest on.                                                   *)

\* _recordReceipt leaves the other receipts alone, records its own, and writes
\* a request into it only when it answers that request.
LEMMA ReceiptWritten ==
    ASSUME LedgerType, NEW e \in StandardEntries, RecordReceipt(e)
    PROVE  LET t == e.transferId
           IN  /\ \A u \in TransferIds \ {t} : receipts'[u] = receipts[u]
               /\ receipts'[t] # None
               /\ \/ receipts[t] # None /\ receipts'[t] = receipts[t]
                  \/ receipts'[t].requestId = None
                  \/ /\ Answers(e.requestId, "Standard")
                     /\ receipts'[t].requestId = e.requestId
  <1> DEFINE t == e.transferId
             r == e.requestId
             answers == Answers(r, "Standard")
  <1>0. /\ t \in TransferIds /\ r \in RequestIds \cup {None} /\ e.status \in Statuses
        /\ None \notin Receipts /\ receipts \in [TransferIds -> Receipts \cup {None}]
    BY NoneAssumption DEF StandardEntries, LedgerType
  <1>1. CASE receipts[t] = None
    <2> DEFINE new == [requestId |-> IF answers THEN r ELSE None, status |-> e.status]
    <2>1. receipts' = [receipts EXCEPT ![t] = new]
      BY <1>1 DEF RecordReceipt
    <2>2. new \in Receipts /\ new.requestId = IF answers THEN r ELSE None
      BY <1>0 DEF Receipts
    <2> HIDE DEF new
    <2>3. receipts'[t] = new /\ \A u \in TransferIds \ {t} : receipts'[u] = receipts[u]
      BY <1>0, <2>1
    <2>4. QED
      BY <1>0, <2>2, <2>3
  <1>2. CASE receipts[t] # None /\ receipts' = receipts
    BY <1>2
  <1>3. CASE /\ receipts[t] # None /\ answers
             /\ receipts' = [receipts EXCEPT ![t] = [requestId |-> r,
                                                    status |-> receipts[t].status]]
    <2>1. receipts[t].status \in Statuses
      BY <1>0, <1>3 DEF Receipts
    <2>2. receipts'[t] = [requestId |-> r, status |-> receipts[t].status]
      BY <1>0, <1>3
    <2>3. receipts'[t] \in Receipts
      BY <1>0, <2>1, <2>2 DEF Receipts
    <2>4. receipts'[t].requestId = r
      BY <2>2
    <2>5. \A u \in TransferIds \ {t} : receipts'[u] = receipts[u]
      BY <1>0, <1>3
    <2>6. QED
      BY <1>0, <1>3, <2>3, <2>4, <2>5
  <1>4. QED
    BY <1>1, <1>2, <1>3 DEF RecordReceipt

\* AnswersBacked, its parts by the map they start from.
TransfersBacked ==
    \A r \in RequestIds : transferIdForRequest[r] # None =>
        receipts[transferIdForRequest[r]] # None

RoomsBacked ==
    \A r \in RequestIds : roomKeyForRequest[r] # None =>
        roomReceipts[roomKeyForRequest[r]] # None

JobBacked(j) ==
    /\ roomReceipts[j.input] # None /\ roomReceipts[j.output] # None
    /\ j.status = "Completed" <=> /\ roomReceipts[j.input].status = "Completed"
                                  /\ roomReceipts[j.output].status = "Completed"
    /\ j.level \subseteq roomReceipts[j.input].level \cap roomReceipts[j.output].level

JobsBacked == \A r \in RequestIds : jobs[r] # None => JobBacked(jobs[r])

BindingsMutual ==
    \A t \in TransferIds : receipts[t] # None /\ receipts[t].requestId # None =>
        transferIdForRequest[receipts[t].requestId] = t

\* What backs the answers, one kind at a time.
LEMMA AnswersBackedParts ==
    AnswersBacked <=> TransfersBacked /\ RoomsBacked /\ JobsBacked /\ BindingsMutual
  BY DEF AnswersBacked, TransfersBacked, RoomsBacked, JobsBacked, JobBacked, BindingsMutual

\* A backed job stays backed: the receipts it was derived from are final.
LEMMA JobStaysBacked ==
    ASSUME LedgerType, KeepsRecords, NEW j \in JobResults, JobBacked(j)
    PROVE  JobBacked(j)'
  <1>1. j.input \in RoomKeys /\ j.output \in RoomKeys
    BY DEF JobResults
  <1>2. /\ roomReceipts'[j.input] = roomReceipts[j.input]
        /\ roomReceipts'[j.output] = roomReceipts[j.output]
    BY <1>1 DEF JobBacked, KeepsRecords
  <1>3. QED
    BY <1>2 DEF JobBacked

\* A step that adds no answer and touches no receipt keeps every answer backed.
LEMMA IdleBacked ==
    ASSUME AnswersBacked, UNCHANGED ledger PROVE AnswersBacked'
  BY DEF AnswersBacked, ledger

\* Every step keeps the answers backed.
LEMMA BackedNext ==
    ASSUME RInv, AnswersBacked, [Next]_vars
    PROVE  AnswersBacked'
  <1>0. /\ LedgerType /\ LedgerType' /\ KeepsRecords
        /\ TransfersBacked /\ RoomsBacked /\ JobsBacked /\ BindingsMutual
        /\ None \notin TransferIds /\ None \notin RoomKeys /\ None \notin RequestIds
        /\ None \notin JobResults /\ None \notin Receipts
    BY StepEffect, StepKeeps, AnswersBackedParts, NoneAssumption DEF RInv
  <1>1. ASSUME NEW e \in StandardEntries, RecordReceipt(e)
        PROVE  AnswersBacked'
    <2> DEFINE t == e.transferId
               r == e.requestId
               answers == Answers(r, "Standard")
    <2>1. /\ t \in TransferIds /\ (answers => r \in RequestIds /\ ~IsAnswered(r))
          /\ UNCHANGED <<roomReceipts, roomKeyForRequest, jobs>>
      BY <1>1 DEF StandardEntries, RecordReceipt, Answers
    <2>2. transferIdForRequest' = IF answers THEN [transferIdForRequest EXCEPT ![r] = t]
                                  ELSE transferIdForRequest
      BY <1>1 DEF RecordReceipt
    <2>3. /\ \A u \in TransferIds \ {t} : receipts'[u] = receipts[u]
          /\ receipts'[t] # None
          /\ \/ receipts[t] # None /\ receipts'[t] = receipts[t]
             \/ receipts'[t].requestId = None
             \/ answers /\ receipts'[t].requestId = r
      BY <1>0, <1>1, ReceiptWritten
    <2>4. TransfersBacked'
      <3> SUFFICES ASSUME NEW q \in RequestIds, transferIdForRequest'[q] # None
                   PROVE  receipts'[transferIdForRequest'[q]] # None
        BY DEF TransfersBacked
      <3>1. CASE transferIdForRequest'[q] = t
        BY <2>3, <3>1
      <3>2. CASE transferIdForRequest'[q] # t
        <4>1. transferIdForRequest'[q] = transferIdForRequest[q]
          BY <1>0, <2>1, <2>2, <3>2 DEF LedgerType
        <4>2. transferIdForRequest[q] \in TransferIds \ {t}
          BY <1>0, <3>2, <4>1 DEF LedgerType
        <4>3. QED
          BY <1>0, <2>3, <4>1, <4>2 DEF TransfersBacked
      <3>3. QED
        BY <3>1, <3>2
    <2>5. BindingsMutual'
      <3> SUFFICES ASSUME NEW u \in TransferIds, receipts'[u] # None,
                          receipts'[u].requestId # None
                   PROVE  transferIdForRequest'[receipts'[u].requestId] = u
        BY DEF BindingsMutual
      <3>1. CASE receipts[u] # None /\ receipts'[u] = receipts[u]
        <4> DEFINE q == receipts[u].requestId
        <4>1. q \in RequestIds
          BY <1>0, <3>1 DEF LedgerType, Receipts
        <4>2. transferIdForRequest[q] = u /\ IsAnswered(q)
          BY <1>0, <3>1 DEF BindingsMutual, IsAnswered
        <4>3. transferIdForRequest'[q] = transferIdForRequest[q]
          BY <1>0, <4>1, <4>2 DEF KeepsRecords
        <4>4. QED
          BY <3>1, <4>2, <4>3
      <3>2. CASE ~(receipts[u] # None /\ receipts'[u] = receipts[u])
        <4>1. u = t /\ answers /\ receipts'[u].requestId = r
          BY <2>3, <3>2
        <4>2. QED
          BY <1>0, <2>1, <2>2, <4>1 DEF LedgerType
      <3>3. QED
        BY <3>1, <3>2
    <2>6. RoomsBacked' /\ JobsBacked'
      BY <1>0, <2>1 DEF RoomsBacked, JobsBacked, JobBacked
    <2>7. QED
      BY <2>4, <2>5, <2>6 DEF AnswersBacked, TransfersBacked, RoomsBacked, JobsBacked,
                              JobBacked, BindingsMutual
  <1>2. ASSUME NEW e \in RoomEntries, RecordRoomReceipt(e)
        PROVE  AnswersBacked'
    <2> DEFINE m == e.roomKey
               r == e.requestId
               answers == Answers(r, "RoomDelivery")
    <2>1. /\ m \in RoomKeys /\ (answers => r \in RequestIds)
          /\ UNCHANGED <<receipts, transferIdForRequest, jobs>>
      BY <1>2 DEF RoomEntries, RecordRoomReceipt, Answers
    <2>2. roomKeyForRequest' = IF answers THEN [roomKeyForRequest EXCEPT ![r] = m]
                               ELSE roomKeyForRequest
      BY <1>2 DEF RecordRoomReceipt
    <2>3. roomReceipts'[m] # None
      <3>1. [status |-> e.status, level |-> e.level] \in RoomReceipts
        BY DEF RoomReceipts, RoomEntries, Claims
      <3>2. [status |-> e.status, level |-> e.level] # None
        BY <3>1, NoneAssumption
      <3>3. QED
        BY <1>0, <1>2, <2>1, <3>2 DEF RecordRoomReceipt, LedgerType
    <2>4. RoomsBacked'
      <3> SUFFICES ASSUME NEW q \in RequestIds, roomKeyForRequest'[q] # None
                   PROVE  roomReceipts'[roomKeyForRequest'[q]] # None
        BY DEF RoomsBacked
      <3>1. CASE roomKeyForRequest'[q] = m
        BY <2>3, <3>1
      <3>2. CASE roomKeyForRequest'[q] # m
        <4>1. /\ roomKeyForRequest'[q] = roomKeyForRequest[q]
              /\ roomKeyForRequest[q] \in RoomKeys
          BY <1>0, <2>1, <2>2, <3>2 DEF LedgerType
        <4>2. QED
          BY <1>0, <4>1 DEF RoomsBacked, KeepsRecords
      <3>3. QED
        BY <3>1, <3>2
    <2>5. TransfersBacked' /\ BindingsMutual'
      BY <1>0, <2>1 DEF TransfersBacked, BindingsMutual
    <2>6. JobsBacked'
      <3> SUFFICES ASSUME NEW q \in RequestIds, jobs[q] # None
                   PROVE  JobBacked(jobs[q])'
        BY <2>1 DEF JobsBacked, JobBacked
      <3>1. jobs[q] \in JobResults /\ JobBacked(jobs[q])
        BY <1>0 DEF JobsBacked, LedgerType
      <3>2. \A j \in JobResults : JobBacked(j) => JobBacked(j)'
        BY <1>0, JobStaysBacked
      <3>3. QED
        BY <2>1, <3>1, <3>2 DEF JobBacked
    <2>7. QED
      BY <2>4, <2>5, <2>6 DEF AnswersBacked, TransfersBacked, RoomsBacked, JobsBacked,
                              JobBacked, BindingsMutual
  <1>3. ASSUME NEW e \in JobEntries, RecordJob(e)
        PROVE  AnswersBacked'
    <2> DEFINE r == e.requestId
               input == roomReceipts[e.input]
               output == roomReceipts[e.output]
               job == [input |-> e.input, output |-> e.output,
                       status |-> IF input.status = "Completed"
                                  THEN output.status ELSE input.status,
                       level |-> input.level \cap output.level]
    <2>1. /\ r \in RequestIds /\ e.input \in RoomKeys /\ e.output \in RoomKeys
          /\ input # None /\ output # None
          /\ UNCHANGED <<receipts, roomReceipts, transferIdForRequest, roomKeyForRequest>>
          /\ jobs' = [jobs EXCEPT ![r] = job] \/ jobs' = jobs
      BY <1>3 DEF JobEntries, RecordJob
    <2>2. JobBacked(job)
      BY <2>1 DEF JobBacked
    <2> HIDE DEF job
    <2>3. JobsBacked'
      <3> SUFFICES ASSUME NEW q \in RequestIds, jobs'[q] # None
                   PROVE  JobBacked(jobs'[q])
        BY <2>1 DEF JobsBacked, JobBacked
      <3>1. jobs'[q] = job \/ jobs'[q] = jobs[q]
        BY <1>0, <2>1 DEF LedgerType
      <3>2. QED
        BY <1>0, <2>2, <3>1 DEF JobsBacked
    <2>4. TransfersBacked' /\ RoomsBacked' /\ BindingsMutual'
      BY <1>0, <2>1 DEF TransfersBacked, RoomsBacked, BindingsMutual
    <2>5. QED
      BY <2>3, <2>4 DEF AnswersBacked, TransfersBacked, RoomsBacked, JobsBacked,
                        JobBacked, BindingsMutual
  <1>4. CASE UNCHANGED ledger
    BY <1>4, IdleBacked
  <1>5. (\E a \in Accounts : RequesterStep(a)) => UNCHANGED ledger
    BY DEF RequesterStep, RequestTransfer, RequestReceipt, RequestRoomReceipt,
           CancelRequest, Open
  <1>6. \/ \E e \in StandardEntries : RecordReceipt(e)
        \/ \E e \in RoomEntries : RecordRoomReceipt(e)
        \/ \E e \in JobEntries : RecordJob(e)
        \/ UNCHANGED ledger
    BY <1>5 DEF Next, ReportStep, SetRequester, EndReport, CloseRequest, vars
  <1>7. QED
    BY <1>1, <1>2, <1>3, <1>4, <1>6

\* Whatever the contract answers is backed by the receipts it points to, and
\* stays so: a request and its receipt name each other, and a job says what
\* its two Room receipts say.
THEOREM AnswersSound == Spec => []AnswersBacked
  <1>1. Init => AnswersBacked
    BY DEF Init, AnswersBacked
  <1>2. RInv /\ AnswersBacked /\ [Next]_vars => AnswersBacked'
    BY BackedNext
  <1>3. QED
    BY <1>1, <1>2, ReceiptsInductive, PTL DEF Spec

-----------------------------------------------------------------------------
(* Within a report.                                                        *)

\* What a report may do to the open requests: it opens and changes none, and
\* takes a transfer request off the set only by answering it.
OnlyAnswers ==
    /\ \A k \in Keys : IsOpen(k)' => IsOpen(k) /\ open'.request[k] = open.request[k]
    /\ \A r \in RequestIds : IsOpen(transferRequestKey(r)) =>
          IsOpen(transferRequestKey(r))' \/ IsAnswered(r)'

\* _answerRequest changes no request that it leaves open.
LEMMA AfterAnswerKeeps ==
    ASSUME RInv, NEW r \in RequestIds \cup {None}, NEW kind, NEW k \in Keys,
           AfterAnswer(r, kind).position[k] # 0
    PROVE  AfterAnswer(r, kind).request[k] = open.request[k]
  <1>1. CASE Answers(r, kind)
    <2>1. transferRequestKey(r) \in Keys
      BY <1>1, KeyShapes DEF Answers
    <2>2. k # transferRequestKey(r)
      BY <1>1, AfterAnswerEffect
    <2>3. QED
      BY <1>1, <2>1, <2>2, ClosedIndexed DEF AfterAnswer, RInv
  <1>2. CASE ~Answers(r, kind)
    BY <1>2 DEF AfterAnswer
  <1>3. QED
    BY <1>1, <1>2

\* A step that answers r, if it may, and closes other, of another kind than
\* Transfer, only answers.
LEMMA ClosingOnlyAnswers ==
    ASSUME RInv, NEW r \in RequestIds \cup {None}, NEW kind, NEW other \in Keys,
           other[1] # "Transfer",
           open' \in {AfterAnswer(r, kind), Closed(AfterAnswer(r, kind), other)},
           Answers(r, kind) => IsAnswered(r)'
    PROVE  OnlyAnswers
  <1> DEFINE after == AfterAnswer(r, kind)
  <1>1. /\ Indexed(after)
        /\ \A k \in Keys : after.position[k] # 0 <=>
              IsOpen(k) /\ ~(Answers(r, kind) /\ k = transferRequestKey(r))
    BY AfterAnswerEffect
  <1>2. \A k \in Keys : after.position[k] # 0 => after.request[k] = open.request[k]
    BY AfterAnswerKeeps
  <1>3. /\ \A k \in Keys : Closed(after, other).position[k] # 0 <=>
              k # other /\ after.position[k] # 0
        /\ \A k \in Keys \ {other} : Closed(after, other).request[k] = after.request[k]
    BY <1>1, ClosedIndexed
  <1> HIDE DEF after
  <1>4. open' = after \/ open' = Closed(after, other)
    BY DEF after
  <1>5. \A k \in Keys : IsOpen(k)' => IsOpen(k) /\ open'.request[k] = open.request[k]
    BY <1>1, <1>2, <1>3, <1>4 DEF IsOpen
  <1>6. ASSUME NEW q \in RequestIds, IsOpen(transferRequestKey(q)),
               ~IsOpen(transferRequestKey(q))'
        PROVE  IsAnswered(q)'
    <2>1. transferRequestKey(q) \in Keys /\ transferRequestKey(q) # other
      BY KeyShapes
    <2>2. Answers(r, kind) /\ transferRequestKey(q) = transferRequestKey(r)
      BY <1>1, <1>3, <1>4, <1>6, <2>1 DEF IsOpen
    <2>3. r = q
      BY <2>2, KeyShapes DEF Answers
    <2>4. QED
      BY <2>2, <2>3
  <1>7. QED
    BY <1>5, <1>6 DEF OnlyAnswers

\* Each entry of a report, and its end, only answers.
LEMMA ReportOnlyAnswers ==
    ASSUME RInv, ReportStep \/ EndReport
    PROVE  OnlyAnswers
  <1>0. LedgerType /\ None \notin TransferIds /\ None \notin RoomKeys /\ None \notin JobResults
    BY NoneAssumption DEF RInv
  <1>1. ASSUME NEW e \in StandardEntries, RecordReceipt(e)
        PROVE  OnlyAnswers
    <2> DEFINE r == e.requestId
               other == receiptRequestKey(e.transferId)
    <2>1. /\ r \in RequestIds \cup {None} /\ other \in Keys /\ other[1] # "Transfer"
          /\ e.transferId \in TransferIds
      BY KeyShapes DEF StandardEntries
    <2>2. open' \in {AfterAnswer(r, "Standard"), Closed(AfterAnswer(r, "Standard"), other)}
      BY <1>1 DEF RecordReceipt
    <2>3. Answers(r, "Standard") => IsAnswered(r)'
      BY <1>0, <1>1, <2>1 DEF RecordReceipt, Answers, IsAnswered, LedgerType
    <2> HIDE DEF r, other
    <2>4. QED
      BY <2>1, <2>2, <2>3, ClosingOnlyAnswers
  <1>2. ASSUME NEW e \in RoomEntries, RecordRoomReceipt(e)
        PROVE  OnlyAnswers
    <2> DEFINE r == e.requestId
               other == roomRequestKey(e.roomKey)
    <2>1. /\ r \in RequestIds \cup {None} /\ other \in Keys /\ other[1] # "Transfer"
          /\ e.roomKey \in RoomKeys
      BY KeyShapes DEF RoomEntries
    <2>2. open' \in {AfterAnswer(r, "RoomDelivery"),
                     Closed(AfterAnswer(r, "RoomDelivery"), other)}
      BY <1>2 DEF RecordRoomReceipt
    <2>3. Answers(r, "RoomDelivery") => IsAnswered(r)'
      BY <1>0, <1>2, <2>1 DEF RecordRoomReceipt, Answers, IsAnswered, LedgerType
    <2> HIDE DEF r, other
    <2>4. QED
      BY <2>1, <2>2, <2>3, ClosingOnlyAnswers
  <1>3. ASSUME NEW key \in Keys, CloseRequest(key)
        PROVE  OnlyAnswers
    <2>1. /\ \A k \in Keys : Closed(open, key).position[k] # 0 <=>
                                k # key /\ open.position[k] # 0
          /\ \A k \in Keys \ {key} : Closed(open, key).request[k] = open.request[k]
      BY ClosedIndexed DEF RInv
    <2>2. open' = open \/ (key[1] = "RoomReceipt" /\ open' = Closed(open, key))
      BY <1>3 DEF CloseRequest, RInv, Indexed, IsOpen
    <2>3. QED
      BY <2>1, <2>2, KeyShapes DEF OnlyAnswers, IsOpen
  <1>4. ASSUME NEW e \in JobEntries, RecordJob(e)
        PROVE  OnlyAnswers
    <2> DEFINE r == e.requestId
               other == roomRequestKey(e.input)
    <2>1. r \in RequestIds /\ other \in Keys /\ other[1] # "Transfer"
      BY KeyShapes DEF JobEntries
    <2>2. open' = AfterAnswer(r, "Job")
      BY <1>4 DEF RecordJob
    <2>3. Answers(r, "Job") => IsAnswered(r)'
      <3> DEFINE input == roomReceipts[e.input]
                 output == roomReceipts[e.output]
                 job == [input |-> e.input, output |-> e.output,
                         status |-> IF input.status = "Completed"
                                    THEN output.status ELSE input.status,
                         level |-> input.level \cap output.level]
      <3>1. Answers(r, "Job") => jobs' = [jobs EXCEPT ![r] = job]
        BY <1>4 DEF RecordJob
      <3>2. input \in RoomReceipts /\ output \in RoomReceipts
        BY <1>0, <1>4 DEF RecordJob, LedgerType, JobEntries
      <3>3. /\ input.status \in Statuses /\ output.status \in Statuses
            /\ input.level \cap output.level \in SUBSET Claims
        BY <3>2 DEF RoomReceipts
      <3>4. job \in JobResults
        BY <3>3 DEF JobResults, JobEntries
      <3> HIDE DEF job
      <3>5. QED
        BY <1>0, <2>1, <3>1, <3>4 DEF IsAnswered, LedgerType
    <2> HIDE DEF r, other
    <2>4. QED
      BY <2>1, <2>2, <2>3, ClosingOnlyAnswers
  <1>5. CASE EndReport
    BY <1>5 DEF EndReport, OnlyAnswers, IsOpen
  <1>6. QED
    BY <1>1, <1>2, <1>3, <1>4, <1>5 DEF ReportStep

\* Within a report a request that a kind of receipt cannot answer stays so.
LEMMA UnansweringStays ==
    ASSUME RInv, KeepsRecords, LedgerType', OnlyAnswers,
           NEW r \in RequestIds \cup {None}, NEW kind, ~Answers(r, kind)
    PROVE  ~Answers(r, kind)'
  <1>1. CASE r = None
    BY <1>1 DEF Answers
  <1>2. CASE r # None /\ IsAnswered(r)
    <2>1. r \in RequestIds
      BY <1>2
    <2>2. IsAnswered(r)'
      BY <1>2, <2>1 DEF KeepsRecords, IsAnswered
    <2>3. QED
      BY <2>2 DEF Answers
  <1>3. CASE r # None /\ ~IsAnswered(r)
    <2> DEFINE key == transferRequestKey(r)
    <2>1. r \in RequestIds /\ key \in Keys
      BY <1>3, KeyShapes
    <2>2. IsOpen(key) /\ open.request[key].transferKind # kind
      BY <1>3 DEF Answers
    <2>3. CASE IsAnswered(r)'
      BY <2>3 DEF Answers
    <2>4. CASE ~IsAnswered(r)'
      <3>1. IsOpen(key)' /\ open'.request[key] = open.request[key]
        BY <2>1, <2>2, <2>4 DEF OnlyAnswers
      <3>2. QED
        BY <2>2, <3>1 DEF Answers
    <2>5. QED
      BY <2>3, <2>4
  <1>4. QED
    BY <1>1, <1>2, <1>3

\* The entries a section of a report has.
EntryOf(s, e) ==
    \/ s = 1 /\ e[1] \in TransferIds /\ e[2] \in RequestIds \cup {None}
    \/ s = 2 /\ e[1] \in RoomKeys /\ e[2] \in RequestIds \cup {None}
    \/ s = 3 /\ e \in Keys
    \/ s = 4 /\ e \in RequestIds

\* RepeatedReportIsNoOp with the types of the entries.
ReportSettled == \A p \in reported : EntryOf(p[1], p[2]) /\ EntrySettled(p[1], p[2])

\* What an entry has settled, the rest of its report leaves settled.
LEMMA EntryStaysSettled ==
    ASSUME RInv, KeepsRecords, LedgerType', OnlyAnswers, NEW s, NEW e,
           EntryOf(s, e), EntrySettled(s, e)
    PROVE  EntrySettled(s, e)'
  <1>1. CASE s = 1
    <2>1. ~Answers(e[2], "Standard") /\ receipts[e[1]] # None
      BY <1>1 DEF EntrySettled
    <2>2. e[1] \in TransferIds /\ e[2] \in RequestIds \cup {None}
      BY <1>1 DEF EntryOf
    <2>3. ~Answers(e[2], "Standard")'
      BY <2>1, <2>2, UnansweringStays
    <2>4. receipts'[e[1]] # None
      BY <2>1, <2>2 DEF KeepsRecords
    <2>5. QED
      BY <1>1, <2>3, <2>4 DEF EntrySettled
  <1>2. CASE s = 2
    <2>1. ~Answers(e[2], "RoomDelivery") /\ roomReceipts[e[1]] # None
      BY <1>2 DEF EntrySettled
    <2>2. e[1] \in RoomKeys /\ e[2] \in RequestIds \cup {None}
      BY <1>2 DEF EntryOf
    <2>3. ~Answers(e[2], "RoomDelivery")'
      BY <2>1, <2>2, UnansweringStays
    <2>4. roomReceipts'[e[1]] # None
      BY <2>1, <2>2 DEF KeepsRecords
    <2>5. QED
      BY <1>2, <2>3, <2>4 DEF EntrySettled
  <1>3. CASE s = 3
    <2>1. e \in Keys /\ (IsOpen(e) => open.request[e].kind # "RoomReceipt")
      BY <1>3 DEF EntrySettled, EntryOf
    <2>2. IsOpen(e)' => open'.request[e].kind # "RoomReceipt"
      BY <2>1 DEF OnlyAnswers
    <2>3. QED
      BY <1>3, <2>2 DEF EntrySettled
  <1>4. CASE s = 4
    <2>1. e \in RequestIds \cup {None} /\ ~Answers(e, "Job")
      BY <1>4 DEF EntrySettled, EntryOf
    <2>2. ~Answers(e, "Job")'
      BY <2>1, UnansweringStays
    <2>3. QED
      BY <1>4, <2>2 DEF EntrySettled
  <1>5. QED
    BY <1>1, <1>2, <1>3, <1>4 DEF EntrySettled

\* An entry settles itself.
LEMMA EntrySettles ==
    ASSUME RInv, ReportStep
    PROVE  \E s \in 1..4 : \E e : /\ ReportEntry(s, e)
                                  /\ EntryOf(s, e) /\ EntrySettled(s, e)'
  <1>0. /\ LedgerType /\ None \notin TransferIds /\ None \notin RoomKeys
        /\ None \notin JobResults /\ OnlyAnswers /\ LedgerType' /\ KeepsRecords
    BY NoneAssumption, ReportOnlyAnswers, StepEffect, StepKeeps DEF RInv, Next
  <1>1. ASSUME NEW e \in StandardEntries, RecordReceipt(e)
        PROVE  LET p == <<e.transferId, e.requestId>>
               IN  ReportEntry(1, p) /\ EntryOf(1, p) /\ EntrySettled(1, p)'
    <2> DEFINE r == e.requestId
    <2>1. e.transferId \in TransferIds /\ r \in RequestIds \cup {None}
      BY DEF StandardEntries
    <2>2. receipts'[e.transferId] # None
      BY <1>0, <1>1, ReceiptWritten
    <2>3. CASE ~Answers(r, "Standard")
      <3>1. ~Answers(r, "Standard")'
        BY <1>0, <2>1, <2>3, UnansweringStays
      <3>2. QED
        BY <1>1, <2>1, <2>2, <3>1 DEF RecordReceipt, EntryOf, EntrySettled
    <2>4. CASE Answers(r, "Standard")
      <3>1. IsAnswered(r)'
        BY <1>0, <1>1, <2>1, <2>4 DEF RecordReceipt, Answers, IsAnswered, LedgerType
      <3>2. ~Answers(r, "Standard")'
        BY <3>1 DEF Answers
      <3>3. QED
        BY <1>1, <2>1, <2>2, <3>2 DEF RecordReceipt, EntryOf, EntrySettled
    <2>5. QED
      BY <2>3, <2>4
  <1>2. ASSUME NEW e \in RoomEntries, RecordRoomReceipt(e)
        PROVE  LET p == <<e.roomKey, e.requestId>>
               IN  ReportEntry(2, p) /\ EntryOf(2, p) /\ EntrySettled(2, p)'
    <2> DEFINE r == e.requestId
    <2>1. e.roomKey \in RoomKeys /\ r \in RequestIds \cup {None}
      BY DEF RoomEntries
    <2>2. roomReceipts'[e.roomKey] # None
      <3>1. [status |-> e.status, level |-> e.level] \in RoomReceipts
        BY DEF RoomReceipts, RoomEntries, Claims
      <3>2. [status |-> e.status, level |-> e.level] # None
        BY <3>1, NoneAssumption
      <3>3. QED
        BY <1>0, <1>2, <2>1, <3>2 DEF RecordRoomReceipt, LedgerType
    <2>3. CASE ~Answers(r, "RoomDelivery")
      <3>1. ~Answers(r, "RoomDelivery")'
        BY <1>0, <2>1, <2>3, UnansweringStays
      <3>2. QED
        BY <1>2, <2>1, <2>2, <3>1 DEF RecordRoomReceipt, EntryOf, EntrySettled
    <2>4. CASE Answers(r, "RoomDelivery")
      <3>1. IsAnswered(r)'
        BY <1>0, <1>2, <2>1, <2>4 DEF RecordRoomReceipt, Answers, IsAnswered, LedgerType
      <3>2. ~Answers(r, "RoomDelivery")'
        BY <3>1 DEF Answers
      <3>3. QED
        BY <1>2, <2>1, <2>2, <3>2 DEF RecordRoomReceipt, EntryOf, EntrySettled
    <2>5. QED
      BY <2>3, <2>4
  <1>3. ASSUME NEW key \in Keys, CloseRequest(key)
        PROVE  ReportEntry(3, key) /\ EntryOf(3, key) /\ EntrySettled(3, key)'
    <2>1. Closed(open, key).position[key] = 0
      BY ClosedIndexed DEF RInv
    <2>2. IsOpen(key)' => open'.request[key].kind # "RoomReceipt"
      BY <1>3, <2>1 DEF CloseRequest, IsOpen
    <2>3. QED
      BY <1>3, <2>2 DEF CloseRequest, EntryOf, EntrySettled
  <1>4. ASSUME NEW e \in JobEntries, RecordJob(e)
        PROVE  LET r == e.requestId
               IN  ReportEntry(4, r) /\ EntryOf(4, r) /\ EntrySettled(4, r)'
    <2> DEFINE r == e.requestId
    <2>1. r \in RequestIds /\ transferRequestKey(r) \in Keys
      BY KeyShapes DEF JobEntries
    <2>2. CASE ~Answers(r, "Job")
      <3>1. ~Answers(r, "Job")'
        BY <1>0, <2>1, <2>2, UnansweringStays
      <3>2. QED
        BY <1>4, <2>1, <3>1 DEF RecordJob, EntryOf, EntrySettled
    <2>3. CASE Answers(r, "Job")
      <3>1. IsAnswered(r)'
        <4> DEFINE input == roomReceipts[e.input]
                   output == roomReceipts[e.output]
                   job == [input |-> e.input, output |-> e.output,
                           status |-> IF input.status = "Completed"
                                      THEN output.status ELSE input.status,
                           level |-> input.level \cap output.level]
        <4>1. jobs' = [jobs EXCEPT ![r] = job]
          BY <1>4, <2>3 DEF RecordJob
        <4> HIDE DEF job
        <4>2. jobs'[r] = job /\ jobs'[r] \in JobResults \cup {None}
          BY <1>0, <2>1, <4>1 DEF LedgerType
        <4>3. job # None
          <5>1. input \in RoomReceipts /\ output \in RoomReceipts
            BY <1>0, <1>4 DEF RecordJob, LedgerType, JobEntries
          <5>2. /\ input.status \in Statuses /\ output.status \in Statuses
                /\ input.level \cap output.level \in SUBSET Claims
            BY <5>1 DEF RoomReceipts
          <5>3. job \in JobResults
            BY <5>2 DEF JobResults, JobEntries, job
          <5>4. QED
            BY <1>0, <5>3
        <4>4. QED
          BY <4>2, <4>3 DEF IsAnswered
      <3>2. ~Answers(r, "Job")'
        BY <3>1 DEF Answers
      <3>3. QED
        BY <1>4, <2>1, <3>2 DEF RecordJob, EntryOf, EntrySettled
    <2>4. QED
      BY <2>2, <2>3
  <1>5. QED
    <2>1. 1 \in 1..4 /\ 2 \in 1..4 /\ 3 \in 1..4 /\ 4 \in 1..4
      OBVIOUS
    <2>2. QED
      BY <1>1, <1>2, <1>3, <1>4, <2>1 DEF ReportStep

\* Every step keeps what a report has processed settled.
LEMMA ReportSettledNext ==
    ASSUME RInv, ReportSettled, [Next]_vars
    PROVE  ReportSettled'
  <1>0. KeepsRecords /\ LedgerType'
    BY StepEffect, StepKeeps
  <1>1. CASE reported' = {}
    BY <1>1 DEF ReportSettled
  <1>2. CASE ReportStep
    <2>1. OnlyAnswers
      BY <1>2, ReportOnlyAnswers
    <2>2a. PICK s \in 1..4 : \E e : ReportEntry(s, e) /\ EntryOf(s, e) /\ EntrySettled(s, e)'
      BY <1>2, EntrySettles
    <2>2. PICK e : ReportEntry(s, e) /\ EntryOf(s, e) /\ EntrySettled(s, e)'
      BY <2>2a
    <2> SUFFICES ASSUME NEW p \in reported'
                 PROVE  EntryOf(p[1], p[2]) /\ EntrySettled(p[1], p[2])'
      BY DEF ReportSettled, EntryOf, EntrySettled
    <2>3. CASE p = <<s, e>>
      BY <2>2, <2>3
    <2>4. CASE p \in reported
      BY <1>0, <2>1, <2>4, EntryStaysSettled DEF ReportSettled
    <2>5. QED
      BY <2>2, <2>3, <2>4 DEF ReportEntry
  <1>3. CASE EndReport
    BY <1>3 DEF EndReport, ledger, ReportSettled, EntryOf, EntrySettled, Answers,
                IsAnswered, IsOpen
  <1>4. CASE UNCHANGED vars
    BY <1>4 DEF vars, ledger, ReportSettled, EntryOf, EntrySettled, Answers,
                IsAnswered, IsOpen
  <1>5. ASSUME NEW a \in Accounts, RequesterStep(a)
        PROVE  reported' = {}
    BY <1>5 DEF RequesterStep, RequestTransfer, RequestReceipt, RequestRoomReceipt,
                CancelRequest, Open, Transaction
  <1>6. QED
    BY <1>1, <1>2, <1>3, <1>4, <1>5 DEF Next, SetRequester, Transaction

\* A report delivered twice is a no-op the second time: no entry it processed
\* has anything left to do, whatever entries came between.
THEOREM RedeliveryHarmless == Spec => []RepeatedReportIsNoOp
  <1>1. Init => ReportSettled
    BY DEF Init, ReportSettled
  <1>2. RInv /\ ReportSettled /\ [Next]_vars => ReportSettled'
    BY ReportSettledNext
  <1>3. ReportSettled => RepeatedReportIsNoOp
    BY DEF ReportSettled, RepeatedReportIsNoOp
  <1>4. QED
    BY <1>1, <1>2, <1>3, ReceiptsInductive, PTL DEF Spec

\* A report that finds a request open answers it in its own kind.
LEMMA OpenAnsweredInKind ==
    ASSUME RInv, ReportStep, NEW r \in RequestIds, IsOpen(transferRequestKey(r))
    PROVE  LET kind == open.request[transferRequestKey(r)].transferKind
           IN  /\ transferIdForRequest'[r] = None \/ kind = "Standard"
               /\ roomKeyForRequest'[r] = None \/ kind = "RoomDelivery"
               /\ jobs'[r] = None \/ kind = "Job"
  <1>0. /\ LedgerType /\ ~IsAnswered(r)
    BY SettledNow, KeyShapes DEF RInv, SettledShape
  <1>1. /\ transferIdForRequest[r] = None /\ roomKeyForRequest[r] = None
        /\ jobs[r] = None
    BY <1>0 DEF IsAnswered
  <1>2. ASSUME NEW e \in StandardEntries, RecordReceipt(e)
        PROVE  /\ UNCHANGED <<roomKeyForRequest, jobs>>
               /\ transferIdForRequest'[r] # None => Answers(r, "Standard")
    <2>1. transferIdForRequest' =
             IF Answers(e.requestId, "Standard")
             THEN [transferIdForRequest EXCEPT ![e.requestId] = e.transferId]
             ELSE transferIdForRequest
      BY <1>2 DEF RecordReceipt
    <2>2. QED
      BY <1>0, <1>1, <1>2, <2>1 DEF RecordReceipt, LedgerType
  <1>3. ASSUME NEW e \in RoomEntries, RecordRoomReceipt(e)
        PROVE  /\ UNCHANGED <<transferIdForRequest, jobs>>
               /\ roomKeyForRequest'[r] # None => Answers(r, "RoomDelivery")
    <2>1. roomKeyForRequest' =
             IF Answers(e.requestId, "RoomDelivery")
             THEN [roomKeyForRequest EXCEPT ![e.requestId] = e.roomKey]
             ELSE roomKeyForRequest
      BY <1>3 DEF RecordRoomReceipt
    <2>2. QED
      BY <1>0, <1>1, <1>3, <2>1 DEF RecordRoomReceipt, LedgerType
  <1>4. ASSUME NEW e \in JobEntries, RecordJob(e)
        PROVE  /\ UNCHANGED <<transferIdForRequest, roomKeyForRequest>>
               /\ jobs'[r] # None => Answers(r, "Job")
    <2>1. \/ jobs' = jobs
          \/ /\ Answers(e.requestId, "Job")
             /\ \E job : jobs' = [jobs EXCEPT ![e.requestId] = job]
      BY <1>4 DEF RecordJob
    <2>2. QED
      BY <1>0, <1>1, <1>4, <2>1 DEF RecordJob, LedgerType
  <1>5. ASSUME NEW key \in Keys, CloseRequest(key)
        PROVE  UNCHANGED <<transferIdForRequest, roomKeyForRequest, jobs>>
    BY <1>5 DEF CloseRequest, ledger
  <1>6. ASSUME NEW kind, Answers(r, kind)
        PROVE  open.request[transferRequestKey(r)].transferKind = kind
    BY <1>6 DEF Answers
  <1>7. QED
    BY <1>1, <1>2, <1>3, <1>4, <1>5, <1>6 DEF ReportStep

\* While a request is open no report binds it to an answer of another kind,
\* or takes it off the set without an answer.
THEOREM KindsRespected == Spec => AnsweredInKind
  <1> DEFINE InKind ==
        \A r \in RequestIds :
           LET key  == transferRequestKey(r)
               kind == open.request[key].transferKind
           IN  IsOpen(key) /\ section' # 0 =>
                 /\ transferIdForRequest'[r] = None \/ kind = "Standard"
                 /\ roomKeyForRequest'[r] = None \/ kind = "RoomDelivery"
                 /\ jobs'[r] = None \/ kind = "Job"
                 /\ open'.position[key] # 0 \/ IsAnswered(r)'
  <1>1. ASSUME RInv, Next
        PROVE  InKind
    <2>1. CASE section' = 0
      BY <2>1
    <2>2. CASE ReportStep
      BY <1>1, <2>2, OpenAnsweredInKind, ReportOnlyAnswers DEF OnlyAnswers, IsOpen
    <2>3. (\E a \in Accounts : RequesterStep(a)) => section' = 0
      BY DEF RequesterStep, RequestTransfer, RequestReceipt, RequestRoomReceipt,
             CancelRequest, Open, Transaction
    <2>4. section' = 0 \/ ReportStep
      BY <1>1, <2>3 DEF Next, SetRequester, EndReport, Transaction
    <2>5. QED
      BY <2>1, <2>2, <2>4
  <1>2. RInv /\ [Next]_vars => [InKind]_vars
    BY <1>1
  <1>3. QED
    BY <1>2, ReceiptsInductive, PTL DEF Spec, AnsweredInKind

=============================================================================
