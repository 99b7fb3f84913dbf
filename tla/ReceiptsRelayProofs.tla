-------------------------- MODULE ReceiptsRelayProofs --------------------------
(***************************************************************************)
(* Proofs about ReceiptsRelay, for any requests, transfers, organizations, *)
(* page and batch sizes, and any number of lost calls, crashes and         *)
(* transactions that are mined after their wait has failed: types, nothing *)
(* is written before its credit is held, nothing is charged before it is   *)
(* on chain, and, where no two transfers of an organization complete at    *)
(* one time, no cursor passes what is not done.                            *)
(*                                                                         *)
(* What is held, charged, recorded, cancelled or finished stays so, by a   *)
(* lemma about each step.  The invariant says for every place of the pass, *)
(* and for every transaction, which of these facts it goes by; such a fact *)
(* is then not lost by what happens between two steps of the pass.  That   *)
(* the contract keeps its own invariant is taken from its proofs.          *)
(***************************************************************************)
EXTENDS ReceiptsRelay, Integers, Sequences, WellFoundedInduction, NaturalsInduction,
        FiniteSetTheorems, SequenceTheorems, TLAPS

ContractProofs == INSTANCE TransferReceiptsProofs WITH
    RoomKeys <- {}, Owner <- RelayAccount, MaxEntries <- BatchSize,
    roomReceipts <- [k \in {} |-> None],
    roomKeyForRequest <- [r \in RequestIds |-> None],
    jobs <- [r \in RequestIds |-> None]

-----------------------------------------------------------------------------
(* Least and greatest numbers, and recursion. *)

LessThan == {p \in Nat \X Nat : p[1] < p[2]}

\* Every nonempty set of numbers has a least element.
LEMMA LeastNat ==
    ASSUME NEW T, T \in SUBSET Nat, T # {}
    PROVE  \E m \in T : \A k \in T : m <= k
<1>1. IsWellFoundedOn(LessThan, Nat)  BY NatLessThanWellFounded DEF OpToRel, LessThan
<1>2. PICK m \in T : \A y \in T : ~ (<<y, m>> \in LessThan)  BY <1>1, WFMin
<1>3. ASSUME NEW k \in T PROVE m <= k
  <2>1. <<k, m>> \in Nat \X Nat /\ k \in Nat /\ m \in Nat  OBVIOUS
  <2>2. ~ (<<k, m>>[1] < <<k, m>>[2])  BY <1>2, <2>1 DEF LessThan
  <2>3. QED BY <2>1, <2>2
<1>4. QED BY <1>3

\* The minimum of a nonempty set of numbers is its least element.
LEMMA MinNat ==
    ASSUME NEW T, T \in SUBSET Nat, T # {}
    PROVE  Min(T) \in T /\ \A k \in T : Min(T) <= k
<1>1. \E m \in T : \A k \in T : m <= k  BY LeastNat
<1>2. QED BY <1>1 DEF Min

\* What every step of a sequence of values keeps, all of them have.
LEMMA StaysIn ==
    ASSUME NEW n \in Nat, NEW S, NEW h, h[0] \in S,
           \A i \in 1..n : h[i - 1] \in S => h[i] \in S
    PROVE  \A i \in 0..n : h[i] \in S
<1> DEFINE T == {i \in 0..n : h[i] \notin S}
<1>1. T \in SUBSET Nat  OBVIOUS
<1>2. SUFFICES ASSUME T # {} PROVE FALSE  OBVIOUS
<1>3. PICK m \in T : \A k \in T : m <= k
  <2> HIDE DEF T
  <2>1. QED BY <1>1, <1>2, LeastNat
<1>4. m \in 1..n /\ m - 1 \in 0..n /\ ~ (m <= m - 1)  BY <1>3
<1>5. h[m - 1] \in S  BY <1>3, <1>4
<1>6. QED BY <1>3, <1>4, <1>5

\* The largest element of a nonempty finite set of numbers is its maximum.
LEMMA MaxNat ==
    ASSUME NEW T, T \in SUBSET Nat, T # {}, IsFiniteSet(T)
    PROVE  Max(T) \in T /\ \A k \in T : k <= Max(T)
<1>1. PICK n \in Nat : \E f : f \in Surjection(1..n, T)
  <2>1. PICK n \in Nat : ExistsSurjection(1..n, T)  BY FS_NatSurjection
  <2>2. QED BY <2>1 DEF ExistsSurjection
<1>2. PICK f : f \in [1..n -> T] /\ \A t \in T : \E i \in 1..n : f[i] = t
  BY <1>1 DEF Surjection
<1> DEFINE B == {i \in 0..n : \E b \in Nat : \A j \in 1..i : f[j] <= b}
<1>3. \A i \in 0..n : i \in B
  <2> DEFINE C == {i \in 0..n : i \notin B}
  <2>1. C \in SUBSET Nat  OBVIOUS
  <2>2. SUFFICES ASSUME C # {} PROVE FALSE  OBVIOUS
  <2>3. PICK m \in C : \A k \in C : m <= k
    <3> HIDE DEF C
    <3>1. QED BY <2>1, <2>2, LeastNat
  <2>4. 0 \in B  OBVIOUS
  <2>5. m \in 1..n /\ m - 1 \in 0..n /\ ~ (m <= m - 1)  BY <2>3, <2>4
  <2>6. m - 1 \in B
    <3> HIDE DEF B
    <3>1. m - 1 \notin C  BY <2>3, <2>5
    <3>2. QED BY <2>5, <3>1
  <2>7. PICK b \in Nat : \A j \in 1..(m - 1) : f[j] <= b  BY <2>6
  <2>8. f[m] \in Nat  BY <1>2, <2>5
  <2>9. PICK c \in Nat : b <= c /\ f[m] <= c
    <3>1. CASE b <= f[m]  BY <2>8, <3>1
    <3>2. CASE f[m] <= b  BY <2>8, <3>2
    <3>3. QED BY <2>8, <3>1, <3>2
  <2>10. \A j \in 1..m : f[j] <= c
    <3> TAKE j \in 1..m
    <3>0. j \in 1..n /\ f[j] \in T  BY <1>2, <2>5
    <3>1. f[j] \in Nat  BY <3>0
    <3>2. j = m \/ j \in 1..(m - 1)  BY <2>5
    <3>3. QED BY <2>7, <2>8, <2>9, <3>1, <3>2
  <2>11. m \in B  BY <2>5, <2>9, <2>10
  <2>12. QED BY <2>3, <2>11
<1> DEFINE U == {b \in Nat : \A t \in T : t <= b}
<1>4. U # {}
  <2>1. PICK b \in Nat : \A j \in 1..n : f[j] <= b  BY <1>3
  <2>2. \A t \in T : t <= b  BY <1>2, <2>1
  <2>3. QED BY <2>2
<1>5. PICK m \in U : \A k \in U : m <= k
  <2>1. U \in SUBSET Nat  OBVIOUS
  <2> HIDE DEF U
  <2>2. QED BY <1>4, <2>1, LeastNat
<1>6. m \in T
  <2> SUFFICES ASSUME m \notin T PROVE FALSE  OBVIOUS
  <2>1. PICK t \in T : TRUE  OBVIOUS
  <2>2. t \in Nat /\ t <= m /\ t # m /\ m \in Nat  BY <1>5, <2>1
  <2>3. m - 1 \in Nat  BY <2>2
  <2>4. \A u \in T : u <= m - 1
    <3> TAKE u \in T
    <3>1. u \in Nat /\ u <= m /\ u # m  BY <1>5
    <3>2. QED BY <2>2, <3>1
  <2>5. ~ (m <= m - 1)  BY <2>2
  <2>6. QED BY <1>5, <2>3, <2>4, <2>5
<1>7. \A k \in T : k <= m  BY <1>5
<1>8. \E x \in T : \A y \in T : x >= y
  <2>1. \A y \in T : m >= y  BY <1>5
  <2>2. QED BY <1>6, <2>1
<1>9. PICK x : x = Max(T)  OBVIOUS
<1>10. x \in T /\ \A y \in T : x >= y  BY <1>8, <1>9 DEF Max
<1>11. \A y \in T : y <= x
  <2> TAKE y \in T
  <2>1. y \in Nat /\ x \in Nat /\ x >= y  BY <1>10
  <2>2. QED BY <2>1
<1>12. QED BY <1>9, <1>10, <1>11

\* f is the sequence of values that g makes from x.
Solves(f, x, g, n) == f[0] = x /\ \A i \in 1..n : f[i] = g[<<i, f[i - 1]>>]

\* Primitive recursion: there is such a sequence.
LEMMA Recursion ==
    ASSUME NEW n \in Nat, NEW S, NEW x \in S, NEW g \in [(1..n) \X S -> S]
    PROVE  \E f \in [0..n -> S] : Solves(f, x, g, n)
<1> DEFINE T == {k \in 0..n : \A f \in [0..k -> S] : ~Solves(f, x, g, k)}
<1>1. T = {}
  <2>1. SUFFICES ASSUME T # {} PROVE FALSE  OBVIOUS
  <2>2. T \in SUBSET Nat  OBVIOUS
  <2>3. PICK k \in T : \A m \in T : k <= m
    <3> HIDE DEF T
    <3>1. QED BY <2>1, <2>2, LeastNat
  <2>4. k # 0
    <3>1. [i \in 0..0 |-> x] \in [0..0 -> S] /\ Solves([i \in 0..0 |-> x], x, g, 0)
      BY DEF Solves
    <3>2. QED BY <2>3, <3>1
  <2>5. k - 1 \in 0..n /\ k - 1 \notin T /\ k \in 1..n
    <3>1. k - 1 \in 0..n /\ k \in 1..n /\ ~ (k <= k - 1)  BY <2>3, <2>4
    <3> HIDE DEF T
    <3>2. QED BY <2>3, <3>1
  <2>6. PICK f \in [0..(k - 1) -> S] : Solves(f, x, g, k - 1)  BY <2>5
  <2> DEFINE h == [i \in 0..k |-> IF i = k THEN g[<<k, f[k - 1]>>] ELSE f[i]]
  <2>7. f[k - 1] \in S /\ g[<<k, f[k - 1]>>] \in S  BY <2>5
  <2>8. h \in [0..k -> S]  BY <2>5, <2>7
  <2>9. Solves(h, x, g, k)
    <3>1. h[0] = x  BY <2>5, <2>6 DEF Solves
    <3>2. ASSUME NEW i \in 1..k PROVE h[i] = g[<<i, h[i - 1]>>]
      <4>1. CASE i = k
        <5>1. i \in 0..k /\ i - 1 \in 0..k /\ i - 1 # k  BY <2>5
        <5>2. h[i] = g[<<i, f[i - 1]>>] /\ h[i - 1] = f[i - 1]  BY <4>1, <5>1
        <5>3. QED BY <5>2
      <4>2. CASE i # k
        <5>1. i \in 1..(k - 1) /\ i \in 0..k /\ i - 1 \in 0..k /\ i - 1 # k  BY <2>5, <4>2
        <5>2. h[i] = f[i] /\ h[i - 1] = f[i - 1]  BY <4>2, <5>1
        <5>3. QED BY <2>6, <5>1, <5>2 DEF Solves
      <4>3. QED BY <4>1, <4>2
    <3>3. QED BY <3>1, <3>2 DEF Solves
  <2>10. QED BY <2>3, <2>8, <2>9
<1>2. n \notin T /\ n \in 0..n  BY <1>1
<1>3. QED BY <1>2

-----------------------------------------------------------------------------
(* The contract and its proofs are two instances of one module: their      *)
(* definitions are the same.                                               *)

\* The keys of the two instances are the same.
LEMMA SameKeys ==
    /\ Contract!Keys = ContractProofs!Keys
    /\ \A r : Contract!transferRequestKey(r) = ContractProofs!transferRequestKey(r)
    /\ \A t : Contract!receiptRequestKey(t) = ContractProofs!receiptRequestKey(t)
BY DEF Contract!Keys, ContractProofs!Keys, Contract!transferRequestKey,
   ContractProofs!transferRequestKey, Contract!receiptRequestKey,
   ContractProofs!receiptRequestKey, Contract!roomRequestKey, ContractProofs!roomRequestKey

\* The records of the two instances are the same.
LEMMA SameRecords ==
    /\ Contract!TransferKinds = ContractProofs!TransferKinds
    /\ Contract!OpenRequests = ContractProofs!OpenRequests
    /\ Contract!Receipts = ContractProofs!Receipts
    /\ Contract!RoomReceipts = ContractProofs!RoomReceipts
    /\ Contract!JobResults = ContractProofs!JobResults
BY DEF Contract!TransferKinds, ContractProofs!TransferKinds, Contract!OpenRequests,
   ContractProofs!OpenRequests, Contract!Receipts, ContractProofs!Receipts,
   Contract!RoomReceipts, ContractProofs!RoomReceipts, Contract!JobResults,
   ContractProofs!JobResults, Contract!Statuses, ContractProofs!Statuses,
   Contract!Claims, ContractProofs!Claims

\* The type invariants of the two instances are the same.
LEMMA SameTypeOK == Contract!TypeOK <=> ContractProofs!TypeOK
BY SameKeys, SameRecords
   DEF Contract!TypeOK, ContractProofs!TypeOK, Contract!OpenSets, ContractProofs!OpenSets

\* The operations of the two instances are the same.
LEMMA SameSteps ==
    /\ \A key : Contract!IsOpen(key) <=> ContractProofs!IsOpen(key)
    /\ \A o, key : Contract!Closed(o, key) = ContractProofs!Closed(o, key)
    /\ \A r, kind : Contract!Answers(r, kind) <=> ContractProofs!Answers(r, kind)
    /\ \A r, kind : Contract!AfterAnswer(r, kind) = ContractProofs!AfterAnswer(r, kind)
    /\ \A s, e : Contract!ReportEntry(s, e) <=> ContractProofs!ReportEntry(s, e)
    /\ Contract!Transaction <=> ContractProofs!Transaction
<1>1. \A key : Contract!IsOpen(key) <=> ContractProofs!IsOpen(key)
  BY DEF Contract!IsOpen, ContractProofs!IsOpen
<1>2. \A o, key : Contract!Closed(o, key) = ContractProofs!Closed(o, key)
  BY SameKeys DEF Contract!Closed, ContractProofs!Closed
<1>3. \A r, kind : Contract!Answers(r, kind) <=> ContractProofs!Answers(r, kind)
  BY <1>1, SameKeys DEF Contract!Answers, ContractProofs!Answers, Contract!IsAnswered,
     ContractProofs!IsAnswered
<1>4. \A r, kind : Contract!AfterAnswer(r, kind) = ContractProofs!AfterAnswer(r, kind)
  BY <1>2, <1>3, SameKeys DEF Contract!AfterAnswer, ContractProofs!AfterAnswer
<1>5. \A s, e : Contract!ReportEntry(s, e) <=> ContractProofs!ReportEntry(s, e)
  BY DEF Contract!ReportEntry, ContractProofs!ReportEntry, Contract!Cardinality,
     ContractProofs!Cardinality
<1>6. Contract!Transaction <=> ContractProofs!Transaction
  BY DEF Contract!Transaction, ContractProofs!Transaction
<1>7. QED BY <1>1, <1>2, <1>3, <1>4, <1>5, <1>6

\* What the relay assumes is what the contract's proofs assume.
LEMMA ContractAssumptions ==
    /\ RelayAccount \in Accounts
    /\ MaxOpenRequests \in Nat /\ BatchSize \in Nat
    /\ None \notin RequestIds \cup TransferIds \cup {} \cup ContractProofs!TransferKinds
    /\ None \notin ContractProofs!OpenRequests \cup ContractProofs!Receipts
                     \cup ContractProofs!RoomReceipts \cup ContractProofs!JobResults
BY PartiesAssumption, LimitsAssumption, NoneAssumption, SameRecords

\* The contract's invariant, and what it says of the types.
Chain == ContractProofs!RInv

\* What the contract's invariant says of types.
LEMMA ChainTypes ==
    ASSUME Chain
    PROVE  /\ Contract!TypeOK
           /\ open.keys \in Seq(Contract!Keys)
           /\ receipts \in [TransferIds -> Contract!Receipts \cup {None}]
           /\ \A i \in DOMAIN open.keys : open.request[open.keys[i]] \in Contract!OpenRequests
<1>1. ContractProofs!TypeOK /\ ContractProofs!OpenSetIndexed
  BY ContractAssumptions, ContractProofs!TypesOfRInv DEF Chain
<1>2. Contract!TypeOK  BY <1>1, SameTypeOK
<1>3. /\ open.keys \in Seq(Contract!Keys)
      /\ open.request \in [Contract!Keys -> Contract!OpenRequests \cup {None}]
      /\ receipts \in [TransferIds -> Contract!Receipts \cup {None}]
  BY <1>2 DEF Contract!TypeOK, Contract!OpenSets
<1>4. ASSUME NEW i \in DOMAIN open.keys
      PROVE  open.request[open.keys[i]] \in Contract!OpenRequests
  <2>1. i \in 1..Len(open.keys) /\ i # 0 /\ open.keys[i] \in Contract!Keys  BY <1>3
  <2>2. ContractProofs!IsOpen(open.keys[i])
    BY <1>1, <2>1 DEF ContractProofs!OpenSetIndexed, ContractProofs!IsOpen
  <2>3. open.request[open.keys[i]] # None
    BY <1>1, <2>1, <2>2, SameKeys DEF ContractProofs!OpenSetIndexed
  <2>4. QED BY <1>3, <2>1, <2>3
<1>5. QED BY <1>2, <1>3, <1>4

\* A step of the contract keeps its invariant.
LEMMA ChainStep ==
    ASSUME Chain, [ContractProofs!Next]_(ContractProofs!vars)
    PROVE  Chain' /\ ContractProofs!KeepsRecords
<1>1. Chain'  BY ContractAssumptions, ContractProofs!RInvNext DEF Chain
<1>2. ContractProofs!KeepsRecords
  BY ContractAssumptions, ContractProofs!StepKeeps DEF Chain
<1>3. QED BY <1>1, <1>2

-----------------------------------------------------------------------------
(* What becomes of a step of the contract in the relay.                    *)

\* No step of the contract unmakes a record.
RecordsStay == \A t \in TransferIds : receipts[t] # None => receipts'[t] # None

\* A step that leaves the contract alone keeps its invariant.
LEMMA ChainRests ==
    ASSUME Chain, UNCHANGED chain
    PROVE  Chain'
<1>1. UNCHANGED ContractProofs!vars
  BY DEF chain, ContractProofs!vars, ContractProofs!ledger
<1>2. QED BY <1>1, ChainStep

\* An entry of a report records its receipt and nothing else.
LEMMA RecordStep ==
    ASSUME Chain, NEW item \in Items,
           Contract!RecordReceipt([transferId |-> item.transfer,
                                   requestId |-> item.requestId, status |-> "Completed"])
    PROVE  /\ Chain' /\ RecordsStay
           /\ receipts'[item.transfer] # None
           /\ \A t \in TransferIds : receipts'[t] # None =>
                 receipts[t] # None \/ t = item.transfer
<1> DEFINE e == [transferId |-> item.transfer, requestId |-> item.requestId,
                 status |-> "Completed"]
<1>1. /\ item.transfer \in TransferIds /\ item.requestId \in RequestIds \cup {None}
      /\ e.transferId = item.transfer /\ e.requestId = item.requestId
      /\ e.status = "Completed"
  BY DEF Items
<1>2. e \in ContractProofs!StandardEntries
  BY <1>1 DEF ContractProofs!StandardEntries, ContractProofs!Statuses
<1> HIDE DEF e
<1>3. Contract!RecordReceipt(e)  BY DEF e
<1>4. ContractProofs!RecordReceipt(e)
  BY <1>3, SameSteps, SameKeys, Zenon DEF Contract!RecordReceipt, ContractProofs!RecordReceipt
<1>5. ContractProofs!Next
  BY <1>2, <1>4 DEF ContractProofs!Next, ContractProofs!ReportStep
<1>6. Chain' /\ ContractProofs!KeepsRecords  BY <1>5, ChainStep
<1>7. RecordsStay  BY <1>6 DEF ContractProofs!KeepsRecords, RecordsStay
<1>8. receipts \in [TransferIds -> Contract!Receipts \cup {None}]  BY ChainTypes
<1>9. PICK r \in Contract!Receipts :
         \/ receipts' = receipts /\ receipts[e.transferId] # None
         \/ receipts' = [receipts EXCEPT ![e.transferId] = r]
  <2>1. PICK q : q = (IF Contract!Answers(e.requestId, "Standard") THEN e.requestId ELSE None)
    OBVIOUS
  <2>2. q \in RequestIds \cup {None}  BY <1>1, <2>1
  <2>3. CASE receipts[e.transferId] # None
    <3>1. receipts[e.transferId].status \in Contract!Statuses
      BY <1>1, <1>8, <2>3 DEF Contract!Receipts
    <3>2. [requestId |-> e.requestId, status |-> receipts[e.transferId].status] \in Contract!Receipts
      BY <1>1, <3>1 DEF Contract!Receipts
    <3>3. \/ receipts' = receipts
          \/ receipts' = [receipts EXCEPT ![e.transferId] =
                [requestId |-> e.requestId, status |-> receipts[e.transferId].status]]
      BY <1>3, <2>3 DEF Contract!RecordReceipt
    <3>4. QED BY <2>3, <3>2, <3>3
  <2>4. CASE receipts[e.transferId] = None
    <3>1. receipts' = [receipts EXCEPT ![e.transferId] = [requestId |-> q, status |-> e.status]]
      BY <1>3, <2>1, <2>4 DEF Contract!RecordReceipt
    <3>2. [requestId |-> q, status |-> e.status] \in Contract!Receipts
      BY <1>1, <2>2 DEF Contract!Receipts, Contract!Statuses
    <3>3. QED BY <3>1, <3>2
  <2>5. QED BY <2>3, <2>4
<1>10. None \notin Contract!Receipts  BY NoneAssumption
<1>11. receipts'[item.transfer] # None
  BY <1>1, <1>8, <1>9, <1>10
<1>12. \A t \in TransferIds : receipts'[t] # None => receipts[t] # None \/ t = item.transfer
  BY <1>1, <1>8, <1>9
<1>13. QED BY <1>6, <1>7, <1>11, <1>12

\* The end of a report records nothing.
LEMMA EndReportStep ==
    ASSUME Chain, Contract!EndReport
    PROVE  Chain' /\ UNCHANGED receipts
<1>1. ContractProofs!EndReport /\ UNCHANGED receipts
  BY DEF Contract!EndReport, ContractProofs!EndReport, ContractProofs!ledger, Contract!ledger
<1>2. QED BY <1>1, ChainStep DEF ContractProofs!Next

\* A cancel records nothing.
LEMMA CancelStep ==
    ASSUME Chain, NEW a \in Accounts, NEW key \in Contract!Keys, Contract!CancelRequest(a, key)
    PROVE  Chain' /\ UNCHANGED receipts
<1>1. ContractProofs!CancelRequest(a, key) /\ UNCHANGED receipts
  BY SameSteps DEF Contract!CancelRequest, ContractProofs!CancelRequest,
     ContractProofs!ledger, Contract!ledger
<1>2. ContractProofs!Next
  BY <1>1, SameKeys DEF ContractProofs!Next, ContractProofs!RequesterStep
<1>3. QED BY <1>1, <1>2, ChainStep

\* A request records nothing.
LEMMA AskStep ==
    ASSUME Chain, NEW a \in Accounts, NEW key \in Contract!Keys, Ask(a, key)
    PROVE  Chain' /\ UNCHANGED receipts
<1>1. /\ \A t, k, x, y : Contract!Open(t, k, x, y) <=> ContractProofs!Open(t, k, x, y)
      /\ \A t, k, x, y : Contract!Open(t, k, x, y) => UNCHANGED receipts
  <2>1. \A o, k, q : Contract!Opened(o, k, q) = ContractProofs!Opened(o, k, q)
    BY DEF Contract!Opened, ContractProofs!Opened
  <2>2. \A t : Contract!OnlyRequester(t) <=> ContractProofs!OnlyRequester(t)
    BY DEF Contract!OnlyRequester, ContractProofs!OnlyRequester
  <2>3. QED
    BY <2>1, <2>2, SameSteps DEF Contract!Open, ContractProofs!Open, Contract!ledger,
       ContractProofs!ledger
<1>2. \/ \E r \in RequestIds : key = Contract!transferRequestKey(r)
      \/ \E t \in TransferIds : key = Contract!receiptRequestKey(t)
  BY DEF Contract!Keys
<1>3. CASE key[1] = "Receipt" /\ Contract!RequestReceipt(a, key[2])
  <2>1. key[2] \in TransferIds
    BY <1>2, <1>3 DEF Contract!transferRequestKey, Contract!receiptRequestKey
  <2>2. ContractProofs!RequestReceipt(a, key[2]) /\ UNCHANGED receipts
    BY <1>1, <1>3, SameKeys DEF Contract!RequestReceipt, ContractProofs!RequestReceipt
  <2>3. ContractProofs!Next
    BY <2>1, <2>2 DEF ContractProofs!Next, ContractProofs!RequesterStep
  <2>4. QED BY <2>2, <2>3, ChainStep
<1>4. CASE key[1] = "Transfer" /\ Contract!RequestTransfer(a, key[2], "Standard")
  <2>1. key[2] \in RequestIds
    BY <1>2, <1>4 DEF Contract!transferRequestKey, Contract!receiptRequestKey
  <2>2. ContractProofs!RequestTransfer(a, key[2], "Standard") /\ UNCHANGED receipts
    BY <1>1, <1>4, SameKeys DEF Contract!RequestTransfer, ContractProofs!RequestTransfer,
       Contract!IsAnswered, ContractProofs!IsAnswered
  <2>3. ContractProofs!Next
    BY <2>1, <2>2 DEF ContractProofs!Next, ContractProofs!RequesterStep,
       ContractProofs!TransferKinds
  <2>4. QED BY <2>2, <2>3, ChainStep
<1>5. QED BY <1>3, <1>4 DEF Ask

\* Taking a requester off the list records nothing.
LEMMA DisallowStep ==
    ASSUME Chain, NEW c \in Customers, Contract!SetRequester(c, FALSE)
    PROVE  Chain' /\ UNCHANGED receipts
<1>1. ContractProofs!SetRequester(c, FALSE) /\ UNCHANGED receipts
  BY SameSteps DEF Contract!SetRequester, ContractProofs!SetRequester, Contract!ledger,
     ContractProofs!ledger
<1>2. c \in Accounts  BY PartiesAssumption
<1>3. ContractProofs!Next  BY <1>1, <1>2 DEF ContractProofs!Next
<1>4. QED BY <1>1, <1>3, ChainStep

-----------------------------------------------------------------------------
(* The work lists.                                                         *)

\* Kept gives what of the sequence is in the set.
LEMMA KeptFacts ==
    ASSUME NEW Q, NEW s \in Seq(Q), NEW S
    PROVE  Kept(s, S) \in Seq(Q \cap S)
<1> DEFINE n == Len(s)
           U == Seq(Q \cap S)
           Step(i, t) == IF s[i] \in S THEN Append(t, s[i]) ELSE t
           g == [p \in (1..n) \X U |-> Step(p[1], p[2])]
           Is(f) == f = [i \in 0..n |-> IF i = 0 THEN <<>>
                            ELSE IF s[i] \in S THEN Append(f[i - 1], s[i]) ELSE f[i - 1]]
<1>1. n \in Nat /\ <<>> \in U  OBVIOUS
<1>2. \A i \in 1..n, t \in U : Step(i, t) \in U  OBVIOUS
<1>3. g \in [(1..n) \X U -> U]  BY <1>2
<1>4. \A i \in 1..n, t \in U : g[<<i, t>>] = Step(i, t)  OBVIOUS
<1>5. PICK f \in [0..n -> U] : Solves(f, <<>>, g, n)
  <2> HIDE DEF n, U, g
  <2>1. QED BY <1>1, <1>3, Recursion
<1>6. Is(f)
  <2> HIDE DEF g, U
  <2>1. f[0] = <<>> /\ \A i \in 1..n : f[i] = Step(i, f[i - 1])
    BY <1>1, <1>4, <1>5 DEF Solves
  <2>2. f = [i \in 0..n |-> f[i]]  BY <1>5
  <2>3. ASSUME NEW i \in 0..n
        PROVE  f[i] = IF i = 0 THEN <<>>
                      ELSE IF s[i] \in S THEN Append(f[i - 1], s[i]) ELSE f[i - 1]
    <3>1. i = 0 \/ i \in 1..n  BY <1>1
    <3>2. QED BY <2>1, <3>1
  <2>4. QED BY <2>2, <2>3
<1>7. PICK h : h = CHOOSE f1 : Is(f1)  OBVIOUS
<1>8. Is(h)
  <2> HIDE DEF Is
  <2>1. QED BY <1>6, <1>7
<1>9. Kept(s, S) = h[n]  BY <1>7 DEF Kept
<1>10. h[0] \in U /\ \A i \in 1..n : h[i - 1] \in U => h[i] \in U
  <2>1. h[0] = <<>>  BY <1>1, <1>8
  <2>2. ASSUME NEW i \in 1..n PROVE h[i] = Step(i, h[i - 1])
    <3>1. i \in 0..n /\ i # 0  BY <1>1
    <3>2. QED BY <1>8, <3>1
  <2> HIDE DEF U, Step
  <2>3. QED BY <1>1, <1>2, <2>1, <2>2
<1>11. \A i \in 0..n : h[i] \in U
  <2> HIDE DEF n, U, Is
  <2>1. QED BY <1>1, <1>10, StaysIn
<1>12. QED BY <1>1, <1>9, <1>11

\* add puts nothing into the list but the item.
LEMMA AddedFacts ==
    ASSUME NEW S, NEW items \in Seq(S), NEW item \in S
    PROVE  Added(items, item) \in Seq(S)
<1>1. CASE \E i \in DOMAIN items : items[i].transfer = item.transfer
  <2> DEFINE r == [i \in DOMAIN items |->
             IF /\ items[i].transfer = item.transfer
                /\ items[i].requestId = None /\ item.requestId # None
             THEN item ELSE items[i]]
  <2>1. Added(items, item) = r  BY <1>1 DEF Added
  <2>2. DOMAIN items = 1..Len(items) /\ Len(items) \in Nat  OBVIOUS
  <2>3. r \in [1..Len(items) -> S]  BY <2>2
  <2>4. QED BY <2>1, <2>2, <2>3
<1>2. CASE ~ \E i \in DOMAIN items : items[i].transfer = item.transfer
  BY <1>2 DEF Added
<1>3. QED BY <1>1, <1>2

\* Adding a list of items puts nothing into the list but them.
LEMMA AllAddedFacts ==
    ASSUME NEW S, NEW items \in Seq(S), NEW more \in Seq(S)
    PROVE  AllAdded(items, more) \in Seq(S)
<1> DEFINE n == Len(more)
           U == Seq(S)
           g == [p \in (1..n) \X U |-> Added(p[2], more[p[1]])]
           Is(f) == f = [i \in 0..n |-> IF i = 0 THEN items ELSE Added(f[i - 1], more[i])]
<1>1. n \in Nat /\ items \in U /\ \A i \in 1..n : more[i] \in S  OBVIOUS
<1>2. \A i \in 1..n, t \in U : Added(t, more[i]) \in U  BY <1>1, AddedFacts
<1>3. g \in [(1..n) \X U -> U]  BY <1>2
<1>4. \A i \in 1..n, t \in U : g[<<i, t>>] = Added(t, more[i])  OBVIOUS
<1>5. PICK f \in [0..n -> U] : Solves(f, items, g, n)
  <2> HIDE DEF n, U, g
  <2>1. QED BY <1>1, <1>3, Recursion
<1>6. Is(f)
  <2> HIDE DEF g, U
  <2>1. f[0] = items /\ \A i \in 1..n : f[i] = Added(f[i - 1], more[i])
    <3>1. f[0] = items /\ \A i \in 1..n : f[i] = g[<<i, f[i - 1]>>]  BY <1>5 DEF Solves
    <3>2. \A i \in 1..n : f[i - 1] \in U  BY <1>1, <1>5
    <3>3. QED BY <1>4, <3>1, <3>2
  <2>2. f = [i \in 0..n |-> f[i]]  BY <1>5
  <2>3. ASSUME NEW i \in 0..n
        PROVE  f[i] = IF i = 0 THEN items ELSE Added(f[i - 1], more[i])
    <3>1. i = 0 \/ i \in 1..n  BY <1>1
    <3>2. QED BY <2>1, <3>1
  <2>4. QED BY <2>2, <2>3
<1>7. PICK h : h = CHOOSE f1 : Is(f1)  OBVIOUS
<1>8. Is(h)
  <2> HIDE DEF Is
  <2>1. QED BY <1>6, <1>7
<1>9. AllAdded(items, more) = h[n]  BY <1>7 DEF AllAdded
<1>10. h[0] \in U /\ \A i \in 1..n : h[i - 1] \in U => h[i] \in U
  <2>1. h[0] = items  BY <1>1, <1>8
  <2>2. ASSUME NEW i \in 1..n PROVE h[i] = Added(h[i - 1], more[i])
    <3>1. i \in 0..n /\ i # 0  BY <1>1
    <3>2. QED BY <1>8, <3>1
  <2> HIDE DEF U
  <2>3. QED BY <1>1, <1>2, <2>1, <2>2
<1>11. \A i \in 0..n : h[i] \in U
  <2> HIDE DEF n, U, Is
  <2>1. QED BY <1>1, <1>10, StaysIn
<1>12. QED BY <1>1, <1>9, <1>11

\* A part of a sequence.
LEMMA PartOf ==
    ASSUME NEW S, NEW s \in Seq(S), NEW m \in Nat \ {0}, NEW n \in Nat, n <= Len(s)
    PROVE  /\ SubSeq(s, m, n) \in Seq(S)
           /\ Len(SubSeq(s, m, n)) = IF m <= n THEN n - m + 1 ELSE 0
           /\ \A i \in 1..Len(SubSeq(s, m, n)) :
                 m + i - 1 \in DOMAIN s /\ SubSeq(s, m, n)[i] = s[m + i - 1]
<1>1. \A i \in m..n : s[i] \in S /\ i \in DOMAIN s  OBVIOUS
<1>2. m \in Int /\ n \in Int  OBVIOUS
<1>3. PICK part : part = SubSeq(s, m, n)  OBVIOUS
<1>4. /\ part \in Seq(S)
      /\ Len(part) = IF m <= n THEN n - m + 1 ELSE 0
      /\ \A i \in 1..(n - m + 1) : part[i] = s[m + i - 1]
  <2>1. /\ SubSeq(s, m, n) \in Seq(S)
        /\ Len(SubSeq(s, m, n)) = IF m <= n THEN n - m + 1 ELSE 0
        /\ \A i \in 1..(n - m + 1) : SubSeq(s, m, n)[i] = s[m + i - 1]
    BY <1>1, <1>2, SubSeqProperties
  <2>2. QED BY <1>3, <2>1
<1>5. \A i \in 1..Len(part) : m + i - 1 \in DOMAIN s /\ part[i] = s[m + i - 1]
  <2> TAKE i \in 1..Len(part)
  <2>1. i \in 1..(n - m + 1) /\ m + i - 1 \in m..n  BY <1>4
  <2>2. QED BY <1>1, <1>4, <2>1
<1>6. QED BY <1>3, <1>4, <1>5

-----------------------------------------------------------------------------
(* The inductive invariant: the types, what is on chain and on its way     *)
(* there, and what the pass holds.                                         *)

WorldTypes ==
    /\ finished \subseteq TransferIds /\ IsFiniteSet(finished)
    /\ approved \subseteq Customers
    /\ charge \in [ChargeSubjects -> {"none", "held", "charged"}]
    /\ mined \in {None, "success", "reverted"}
    /\ \A i \in DOMAIN sent : sent[i].kind = "report" => Len(sent[i].entries) <= BatchSize
    /\ cancelled \subseteq Contract!Keys
    /\ cursor \in [Customers -> Nat]
    /\ faults \in 0..MaxFaults

PassTypes ==
    /\ pc \in {"idle", "count", "read", "look", "wait", "commit", "save",
               "close", "cancel", "cancelling", "closed"}
    /\ pass \in Passes

Held(subject) == charge[subject] # "none"

\* The customer's own key has seen the transfer, and its credit is held.
Payable == {item \in Items :
                Sees(item) /\ (IsCustomers(item) => Held(transferCharge(item.transfer)))}

\* What a transaction brings to the chain is held before.
SoundTxs == {tx \in Transactions :
                /\ tx.kind = "report" => tx.entries \in Seq(Payable)
                /\ tx.kind = "cancel" => Held(requestCharge(tx.key))}

SentHeld == sent \in Seq(SoundTxs)

DoneHeld ==
    /\ \A t \in TransferIds : BelongsTo[t] \in Customers /\ receipts[t] # None =>
          Held(transferCharge(t))
    /\ \A key \in cancelled : Held(requestCharge(key))

WorldInv == SentHeld /\ DoneHeld /\ ChargedForEffect /\ uncommitted \subseteq cancelled

\* A listed item is a customer's, found with its own key; the others were asked for.
SoundItems == {item \in Items : IF item.listed THEN Sees(item) /\ item.transfer \in finished
                                ELSE item.key \in Contract!Keys}

CustomersQuestions == {q \in Questions : q.requester \in Customers}

ItemsInStep == pass.pending \in Seq(SoundItems) /\ pass.planned \in Seq(Payable)

SettledDone == \A t \in pass.settled : charge[transferCharge(t)] = "charged" \/ t \in Unreadable

Recorded(item) == receipts[item.transfer] # None

\* The last transaction sent is still to record the item.
OnItsWay(item) ==
    /\ sent # <<>> /\ sent[Len(sent)].kind = "report"
    /\ \E j \in DOMAIN sent[Len(sent)].entries : sent[Len(sent)].entries[j] = item

BatchInStep ==
    /\ pc \in {"wait", "commit"} => pass.batch # <<>>
    /\ pc = "wait" =>
          \A i \in DOMAIN pass.batch : Recorded(pass.batch[i]) \/ OnItsWay(pass.batch[i])
    /\ pc = "commit" => \A i \in DOMAIN pass.batch : Recorded(pass.batch[i])

\* The request that is being closed is held, then cancelled.
ClosingKey == Head(pass.unanswerable).key

ClosingInStep ==
    /\ pc \in {"cancel", "cancelling", "closed"} =>
          pass.unanswerable # <<>> /\ Held(requestCharge(ClosingKey))
    /\ pc = "cancelling" =>
          IF sent = <<>> THEN mined = "success" => ClosingKey \in cancelled
          ELSE sent[Len(sent)].kind = "cancel" /\ sent[Len(sent)].key = ClosingKey
    /\ pc = "closed" => ClosingKey \in cancelled

CloseInStep ==
    /\ pass.unanswerable \in Seq(CustomersQuestions)
    /\ pass.retries \subseteq cancelled
    /\ ClosingInStep

PassInv == ItemsInStep /\ SettledDone /\ BatchInStep /\ CloseInStep

RelayInv == Chain /\ WorldTypes /\ PassTypes /\ WorldInv /\ PassInv

\* Each transfer and each key has its charge.
LEMMA SubjectTypes ==
    /\ \A t \in TransferIds : transferCharge(t) \in ChargeSubjects
    /\ \A key \in Contract!Keys : requestCharge(key) \in ChargeSubjects
BY DEF ChargeSubjects

\* The invariant implies the properties.
LEMMA InvImplies ==
    ASSUME RelayInv
    PROVE  TypeOK /\ PaidFirst /\ ChargedForEffect
<1>1. Contract!TypeOK  BY ChainTypes DEF RelayInv
<1>2. sent \in Seq(Transactions)
  <2>1. SoundTxs \subseteq Transactions  BY DEF SoundTxs
  <2>2. QED BY <2>1, SeqMonotonic DEF RelayInv, WorldInv, SentHeld
<1>3. uncommitted \subseteq Contract!Keys  BY DEF RelayInv, WorldInv, WorldTypes
<1>4. TypeOK  BY <1>1, <1>2, <1>3 DEF RelayInv, WorldTypes, PassTypes, TypeOK
<1>5. PaidFirst
  <2>1. ASSUME NEW i \in DOMAIN sent
        PROVE  sent[i] \in SoundTxs
    BY DEF RelayInv, WorldInv, SentHeld
  <2>2. ASSUME NEW i \in DOMAIN sent, sent[i].kind = "report", NEW item \in Range(sent[i].entries),
               IsCustomers(item)
        PROVE  Held(transferCharge(item.transfer))
    <3>1. sent[i].entries \in Seq(Payable)  BY <2>1, <2>2 DEF SoundTxs
    <3>2. item \in Payable  BY <2>2, <3>1, RangeOfSeq
    <3>3. QED BY <2>2, <3>2 DEF Payable
  <2>3. ASSUME NEW i \in DOMAIN sent, sent[i].kind = "cancel"
        PROVE  Held(requestCharge(sent[i].key))
    BY <2>1, <2>3 DEF SoundTxs
  <2>4. QED BY <2>2, <2>3 DEF RelayInv, WorldInv, DoneHeld, Held, PaidFirst
<1>6. QED BY <1>4, <1>5 DEF RelayInv, WorldInv

\* At the beginning.
LEMMA IdleType == Idle \in Passes
<1>1. <<>> \in Seq(Questions) /\ <<>> \in Seq(Items)  OBVIOUS
<1>2. [c \in Customers |-> {}] \in [Customers -> SUBSET TransferIds]  OBVIOUS
<1>3. QED BY <1>1, <1>2 DEF Idle, Passes

\* An idle pass holds nothing.
LEMMA IdleInv ==
    ASSUME pass = Idle, pc = "idle"
    PROVE  PassTypes /\ PassInv
<1>1. PassTypes  BY IdleType DEF PassTypes
<1>2. <<>> \in Seq(SoundItems) /\ <<>> \in Seq(Payable) /\ <<>> \in Seq(CustomersQuestions)
  OBVIOUS
<1>3. /\ pass.pending = <<>> /\ pass.planned = <<>> /\ pass.settled = {}
      /\ pass.unanswerable = <<>> /\ pass.retries = {}
  BY DEF Idle
<1>4. QED
  BY <1>1, <1>2, <1>3 DEF PassInv, ItemsInStep, SettledDone, BatchInStep, CloseInStep,
     ClosingInStep

\* The invariant holds at the beginning.
LEMMA InvInit == Init => RelayInv
<1> SUFFICES ASSUME Init PROVE RelayInv  OBVIOUS
<1>1. Chain
  <2>1. Customers \subseteq Accounts  BY PartiesAssumption
  <2>2. ContractProofs!NothingYet  BY <2>1, SameKeys DEF Init, ContractProofs!NothingYet
  <2>3. QED BY <2>2, ContractAssumptions, ContractProofs!RInvEmpty DEF Chain
<1>2. WorldTypes
  <2>1. IsFiniteSet({})  BY FS_EmptySet
  <2>2. QED BY <2>1, LimitsAssumption DEF Init, WorldTypes
<1>3. WorldInv
  <2>1. sent \in Seq(SoundTxs)  BY DEF Init
  <2>2. \A s \in ChargeSubjects : charge[s] = "none"  BY DEF Init
  <2>3. QED BY <2>1, <2>2, SubjectTypes
        DEF Init, WorldInv, SentHeld, DoneHeld, ChargedForEffect
<1>4. QED BY <1>1, <1>2, <1>3, IdleInv DEF Init, RelayInv

-----------------------------------------------------------------------------
(* What only grows: what is held, charged, recorded, cancelled, finished.  *)

Grown ==
    /\ \A s \in ChargeSubjects : charge[s] # "none" => charge'[s] # "none"
    /\ \A s \in ChargeSubjects : charge[s] = "charged" => charge'[s] = "charged"
    /\ \A t \in TransferIds : receipts[t] # None => receipts'[t] # None
    /\ cancelled \subseteq cancelled' /\ finished \subseteq finished'

\* What stays has not shrunk.
LEMMA RestsGrown ==
    ASSUME UNCHANGED <<charge, receipts, cancelled, finished>>
    PROVE  Grown
BY DEF Grown

\* What was sound stays so.
LEMMA SetsGrow ==
    ASSUME Grown
    PROVE  /\ Payable \subseteq Payable' /\ SoundItems \subseteq SoundItems'
           /\ SoundTxs \subseteq SoundTxs'
<1>1. Payable \subseteq Payable'
  <2>1. ASSUME NEW item \in Payable PROVE item \in Payable'
    <3>1. transferCharge(item.transfer) \in ChargeSubjects
      BY SubjectTypes DEF Payable, Items
    <3>2. Held(transferCharge(item.transfer)) => charge'[transferCharge(item.transfer)] # "none"
      BY <3>1 DEF Held, Grown
    <3>3. QED BY <3>2 DEF Payable, Held, Sees, IsCustomers, transferCharge
  <2>2. QED BY <2>1
<1>2. SoundItems \subseteq SoundItems'
  BY DEF SoundItems, Grown, Sees
<1>3. SoundTxs \subseteq SoundTxs'
  <2>1. ASSUME NEW tx \in SoundTxs PROVE tx \in SoundTxs'
    <3>1. tx \in Transactions  BY DEF SoundTxs
    <3>2. tx.kind = "report" => tx.entries \in Seq(Payable')
      <4>1. tx.kind = "report" => tx.entries \in Seq(Payable)  BY DEF SoundTxs
      <4>2. QED BY <1>1, <4>1, SeqMonotonic
    <3>3. tx.kind = "cancel" => charge'[requestCharge(tx.key)] # "none"
      <4>1. SUFFICES ASSUME tx.kind = "cancel" PROVE charge'[requestCharge(tx.key)] # "none"
        OBVIOUS
      <4>2. tx.key \in Contract!Keys  BY <3>1, <4>1 DEF Transactions
      <4>3. QED BY <4>1, <4>2, SubjectTypes DEF SoundTxs, Held, Grown
    <3>4. QED BY <3>1, <3>2, <3>3 DEF SoundTxs, Held, requestCharge
  <2>2. QED BY <2>1
<1>4. QED BY <1>1, <1>2, <1>3

\* Nothing of the world moves.
WorldRests == UNCHANGED <<chain, finished, approved, charge, sent, mined, cancelled>>

\* The types of the world, in a step that moves at most the cursors and the faults.
LEMMA WorldTypesRest ==
    ASSUME Chain, WorldTypes, WorldRests, cursor' \in [Customers -> Nat], faults' \in 0..MaxFaults
    PROVE  Chain' /\ WorldTypes' /\ Grown
<1>1. Chain'  BY ChainRests DEF WorldRests
<1>2. WorldTypes'  BY DEF WorldTypes, WorldRests
<1>3. Grown  BY RestsGrown DEF WorldRests, chain
<1>4. QED BY <1>1, <1>2, <1>3

\* What is on chain and on its way stays sound while the chain rests.
LEMMA WorldInvRests ==
    ASSUME WorldInv, WorldRests, uncommitted' \subseteq uncommitted
    PROVE  WorldInv'
<1>1. UNCHANGED receipts  BY DEF WorldRests, chain
<1>2. SoundTxs' = SoundTxs
  BY DEF WorldRests, SoundTxs, Payable, Held, Sees, IsCustomers, transferCharge, requestCharge
<1>3. SentHeld'  BY <1>2 DEF WorldInv, SentHeld, WorldRests
<1>4. DoneHeld' /\ ChargedForEffect' /\ uncommitted' \subseteq cancelled'
  BY <1>1 DEF WorldInv, WorldRests, DoneHeld, ChargedForEffect, Held, transferCharge, requestCharge
<1>5. QED BY <1>3, <1>4 DEF WorldInv

\* A failed call stays within its bound.
LEMMA FaultBound ==
    ASSUME WorldTypes, Fault \/ UNCHANGED faults
    PROVE  faults' \in 0..MaxFaults
<1>1. MaxFaults \in Nat  BY LimitsAssumption
<1>2. faults \in 0..MaxFaults  BY DEF WorldTypes
<1>3. CASE Fault
  <2>1. faults < MaxFaults /\ faults' = faults + 1  BY <1>3 DEF Fault
  <2>2. QED BY <1>1, <1>2, <2>1
<1>4. CASE UNCHANGED faults  BY <1>2, <1>4
<1>5. QED BY <1>3, <1>4

-----------------------------------------------------------------------------
(* The website's answers.                                                  *)

\* A reservation leaves charged what is charged, and holds what it says it holds.
LEMMA ReserveFacts ==
    ASSUME WorldTypes, NEW s \in ChargeSubjects, NEW o, Reserve(s, o)
    PROVE  /\ charge' \in [ChargeSubjects -> {"none", "held", "charged"}]
           /\ faults' \in 0..MaxFaults
           /\ \A x \in ChargeSubjects : charge[x] # "none" => charge'[x] # "none"
           /\ \A x \in ChargeSubjects : charge[x] = "charged" <=> charge'[x] = "charged"
           /\ o = "held" => charge'[s] # "none"
           /\ o = "charged" => charge'[s] = "charged"
<1>1. charge \in [ChargeSubjects -> {"none", "held", "charged"}]  BY DEF WorldTypes
<1>2. faults' \in 0..MaxFaults
  <2>1. Fault \/ UNCHANGED faults  BY DEF Reserve
  <2>2. QED BY <2>1, FaultBound
<1>3. \/ charge' = charge /\ o \in {"charged", "failed"} /\ (o = "charged" => charge[s] = "charged")
      \/ charge' = [charge EXCEPT ![s] = "held"] /\ charge[s] # "charged" /\ o # "charged"
  BY DEF Reserve
<1>4. QED BY <1>1, <1>2, <1>3

\* A commit changes the one charge, to charged.
LEMMA CommitFacts ==
    ASSUME WorldTypes, NEW s \in ChargeSubjects, NEW o, Commit(s, o)
    PROVE  /\ charge' \in [ChargeSubjects -> {"none", "held", "charged"}]
           /\ faults' \in 0..MaxFaults
           /\ \A x \in ChargeSubjects : charge[x] # "none" => charge'[x] # "none"
           /\ \A x \in ChargeSubjects : charge[x] = "charged" => charge'[x] = "charged"
           /\ \A x \in ChargeSubjects : charge'[x] = "charged" => charge[x] = "charged" \/ x = s
           /\ o = "charged" => charge'[s] = "charged"
<1>1. charge \in [ChargeSubjects -> {"none", "held", "charged"}]  BY DEF WorldTypes
<1>2. faults' \in 0..MaxFaults
  <2>1. Fault \/ UNCHANGED faults  BY DEF Commit
  <2>2. QED BY <2>1, FaultBound
<1>3. \/ charge' = charge /\ o = "failed"
      \/ charge' = [charge EXCEPT ![s] = "charged"]
  BY DEF Commit
<1>4. QED BY <1>1, <1>2, <1>3

\* A step that only moves a charge, and charges only what has had its effect.
LEMMA ChargeMoves ==
    ASSUME RelayInv, UNCHANGED <<chain, finished, approved, sent, mined, cancelled, cursor>>,
           charge' \in [ChargeSubjects -> {"none", "held", "charged"}],
           faults' \in 0..MaxFaults,
           \A x \in ChargeSubjects : charge[x] # "none" => charge'[x] # "none",
           \A x \in ChargeSubjects : charge[x] = "charged" => charge'[x] = "charged",
           uncommitted' \subseteq cancelled,
           \A x \in ChargeSubjects : charge'[x] = "charged" =>
              \/ charge[x] = "charged"
              \/ \E t \in TransferIds : x = transferCharge(t) /\ receipts[t] # None
              \/ \E key \in cancelled : x = requestCharge(key)
    PROVE  Chain' /\ WorldTypes' /\ WorldInv' /\ Grown
<1>1. Chain'  BY ChainRests DEF RelayInv
<1>2. WorldTypes'  BY DEF RelayInv, WorldTypes
<1>3. UNCHANGED receipts  BY DEF chain
<1>4. Grown  BY <1>3 DEF Grown
<1>5. SentHeld'
  <2>1. sent' \in Seq(SoundTxs)  BY DEF RelayInv, WorldInv, SentHeld
  <2>2. sent' \in Seq(SoundTxs')  BY <1>4, <2>1, SetsGrow, SeqMonotonic
  <2>3. QED BY <2>2 DEF SentHeld
<1>6. DoneHeld'
  <2>1. \A t \in TransferIds : BelongsTo[t] \in Customers /\ receipts[t] # None =>
           charge'[transferCharge(t)] # "none"
    BY SubjectTypes DEF RelayInv, WorldInv, DoneHeld, Held
  <2>2. \A key \in cancelled : charge'[requestCharge(key)] # "none"
    BY SubjectTypes DEF RelayInv, WorldInv, WorldTypes, DoneHeld, Held
  <2>3. QED BY <1>3, <2>1, <2>2 DEF DoneHeld, Held, transferCharge, requestCharge
<1>7. ChargedForEffect'
  <2>1. \A t \in TransferIds : charge'[transferCharge(t)] = "charged" => receipts[t] # None
    <3> TAKE t \in TransferIds
    <3>1. transferCharge(t) \in ChargeSubjects  BY SubjectTypes
    <3>2. \A u : transferCharge(t) = transferCharge(u) => t = u  BY DEF transferCharge
    <3>3. \A key : transferCharge(t) # requestCharge(key)  BY DEF transferCharge, requestCharge
    <3>4. QED BY <3>1, <3>2, <3>3 DEF RelayInv, WorldInv, ChargedForEffect
  <2>2. \A key \in Contract!Keys : charge'[requestCharge(key)] = "charged" => key \in cancelled
    <3> TAKE key \in Contract!Keys
    <3>1. requestCharge(key) \in ChargeSubjects  BY SubjectTypes
    <3>2. \A k : requestCharge(key) = requestCharge(k) => key = k  BY DEF requestCharge
    <3>3. \A t : transferCharge(t) # requestCharge(key)  BY DEF transferCharge, requestCharge
    <3>4. QED BY <3>1, <3>2, <3>3 DEF RelayInv, WorldInv, ChargedForEffect
  <2>3. QED BY <1>3, <2>1, <2>2 DEF ChargedForEffect, transferCharge, requestCharge, Contract!Keys,
        Contract!transferRequestKey, Contract!receiptRequestKey, Contract!roomRequestKey
<1>8. QED BY <1>1, <1>2, <1>4, <1>5, <1>6, <1>7 DEF WorldInv

-----------------------------------------------------------------------------
(* The steps of a pass.                                                    *)

\* Sequences of what is sound stay so.
LEMMA SeqsGrow ==
    ASSUME Grown
    PROVE  /\ Seq(Payable) \subseteq Seq(Payable')
           /\ Seq(SoundItems) \subseteq Seq(SoundItems')
           /\ Seq(SoundTxs) \subseteq Seq(SoundTxs')
BY SetsGrow, SeqMonotonic

\* The fields of the pass.
LEMMA PassFields ==
    ASSUME pass \in Passes
    PROVE  /\ pass.registry \subseteq Customers /\ pass.total \in Nat /\ pass.offset \in Nat
           /\ pass.requests \in Seq(Questions) /\ pass.left \subseteq Customers
           /\ pass.listed \in [Customers -> SUBSET TransferIds]
           /\ pass.pending \in Seq(Items) /\ pass.planned \in Seq(Items)
           /\ pass.batch \in Seq(Items) /\ pass.settled \subseteq TransferIds
           /\ pass.unanswerable \in Seq(Questions) /\ pass.retries \subseteq Contract!Keys
BY DEF Passes

\* A sequence of sound items is one of items.
LEMMA ItemSeqs ==
    /\ Seq(SoundItems) \subseteq Seq(Items) /\ Seq(Payable) \subseteq Seq(Items)
    /\ Seq(CustomersQuestions) \subseteq Seq(Questions)
<1>1. SoundItems \subseteq Items /\ Payable \subseteq Items /\ CustomersQuestions \subseteq Questions
  BY DEF SoundItems, Payable, CustomersQuestions
<1>2. QED BY <1>1, SeqMonotonic

\* Where the pass neither waits for a report nor closes a request.
Aside == {"idle", "count", "read", "look", "save", "close"}

\* A step of the pass that is not waiting for a transaction.
LEMMA AsideStep ==
    ASSUME RelayInv, Grown, pc' \in Aside, pass' \in Passes,
           pass'.pending \in Seq(SoundItems'), pass'.planned \in Seq(Payable'),
           \A t \in pass'.settled :
              t \in pass.settled \/ charge'[transferCharge(t)] = "charged" \/ t \in Unreadable,
           pass'.unanswerable \in Seq(CustomersQuestions), pass'.retries \subseteq cancelled
    PROVE  PassTypes' /\ PassInv'
<1>1. PassTypes'  BY DEF PassTypes, Aside
<1>2. ItemsInStep'  BY DEF ItemsInStep
<1>3. SettledDone'
  <2>1. ASSUME NEW t \in pass'.settled
        PROVE  charge'[transferCharge(t)] = "charged" \/ t \in Unreadable
    <3>1. CASE t \in pass.settled
      <4>1. t \in TransferIds  BY <3>1, PassFields DEF RelayInv, PassTypes
      <4>2. transferCharge(t) \in ChargeSubjects  BY <4>1, SubjectTypes
      <4>3. QED BY <3>1, <4>2 DEF RelayInv, PassInv, SettledDone, Grown
    <3>2. QED BY <2>1, <3>1
  <2>2. QED BY <2>1 DEF SettledDone, transferCharge
<1>4. BatchInStep'  BY DEF BatchInStep, Aside
<1>5. CloseInStep'
  <2>1. CustomersQuestions' = CustomersQuestions
    BY DEF CustomersQuestions, Questions, Contract!Keys, Contract!transferRequestKey,
       Contract!receiptRequestKey, Contract!roomRequestKey
  <2>2. QED BY <2>1 DEF CloseInStep, ClosingInStep, Aside, Grown
<1>6. QED BY <1>1, <1>2, <1>3, <1>4, <1>5 DEF PassInv

\* What the pass knows stays true.
LEMMA PassNow ==
    ASSUME RelayInv, Grown
    PROVE  /\ pass \in Passes
           /\ pass.pending \in Seq(SoundItems') /\ pass.planned \in Seq(Payable')
           /\ pass.unanswerable \in Seq(CustomersQuestions) /\ pass.retries \subseteq cancelled
BY SeqsGrow DEF RelayInv, PassTypes, PassInv, ItemsInStep, CloseInStep

\* A step that ends the pass.
LEMMA IdleStep ==
    ASSUME RelayInv, Grown, pc' \in Aside, NEW r \in SUBSET Customers,
           pass' = Idle \/ pass' = [Idle EXCEPT !.registry = r]
    PROVE  PassTypes' /\ PassInv'
<1>1. pass' \in Passes  BY IdleType DEF Passes
<1>2. /\ pass'.pending = <<>> /\ pass'.planned = <<>> /\ pass'.settled = {}
      /\ pass'.unanswerable = <<>> /\ pass'.retries = {}
  BY DEF Idle
<1>3. /\ <<>> \in Seq(SoundItems') /\ <<>> \in Seq(Payable') /\ <<>> \in Seq(CustomersQuestions)
  OBVIOUS
<1>4. QED BY <1>1, <1>2, <1>3, AsideStep

\* Nothing of the world moves, and the pass does what it may.
LEMMA StartsStep ==
    ASSUME RelayInv, StartPass \/ CountRequests \/ PassFails \/ EndPass \/ Crash
    PROVE  RelayInv' /\ Grown
<1>1. cursor \in [Customers -> Nat]  BY DEF RelayInv, WorldTypes
<1>2. WorldRests /\ UNCHANGED cursor /\ uncommitted' \subseteq uncommitted
  <2>1. UNCHANGED <<chain, external, txs, cursor>>
    BY DEF StartPass, CountRequests, PassFails, EndPass, Crash, kept
  <2>2. uncommitted' = uncommitted \/ uncommitted' = {}
    BY DEF StartPass, CountRequests, PassFails, EndPass, Crash, kept
  <2>3. WorldRests  BY <2>1 DEF WorldRests, external, txs
  <2>4. uncommitted' \subseteq uncommitted  BY <2>2
  <2>5. UNCHANGED cursor  BY <2>1
  <2>6. QED BY <2>3, <2>4, <2>5
<1>3. faults' \in 0..MaxFaults
  <2>1. Fault \/ UNCHANGED faults  BY DEF StartPass, CountRequests, PassFails, EndPass, Crash
  <2>2. QED BY <2>1, FaultBound DEF RelayInv
<1>4. Chain' /\ WorldTypes' /\ Grown  BY <1>1, <1>2, <1>3, WorldTypesRest DEF RelayInv
<1>5. WorldInv'  BY <1>2, WorldInvRests DEF RelayInv
<1>6. PassTypes' /\ PassInv'
  <2>1. CASE StartPass
    <3>1. approved \subseteq Customers  BY DEF RelayInv, WorldTypes
    <3>2. pc' \in Aside /\ pass' = [Idle EXCEPT !.registry = approved]
      BY <2>1 DEF StartPass, Aside
    <3>3. QED BY <1>4, <3>1, <3>2, IdleStep
  <2>2. CASE PassFails \/ EndPass \/ Crash
    <3>1. pc' \in Aside /\ pass' = Idle  BY <2>2 DEF PassFails, EndPass, Crash, Aside
    <3>2. {} \in SUBSET Customers  OBVIOUS
    <3>3. QED BY <1>4, <3>1, <3>2, IdleStep
  <2>3. CASE CountRequests
    <3>1. Len(open.keys) \in Nat  BY ChainTypes DEF RelayInv
    <3>2. PICK n \in Nat : pass' = [pass EXCEPT !.total = n]
      BY <2>3, <3>1 DEF CountRequests
    <3>3. pass \in Passes  BY DEF RelayInv, PassTypes
    <3>4. /\ pass' \in Passes /\ pass'.pending = pass.pending /\ pass'.planned = pass.planned
          /\ pass'.settled = pass.settled /\ pass'.unanswerable = pass.unanswerable
          /\ pass'.retries = pass.retries
      BY <3>2, <3>3 DEF Passes
    <3>5. pc' \in Aside  BY <2>3 DEF CountRequests, Aside
    <3>6. QED BY <1>4, <3>4, <3>5, PassNow, AsideStep
  <2>4. QED BY <2>1, <2>2, <2>3
<1>7. QED BY <1>4, <1>5, <1>6 DEF RelayInv

\* A page of open requests.
LEMMA ReadPageForm ==
    ASSUME Chain, pass \in Passes, ReadPage
    PROVE  \E a \in Seq(Questions) :
              pass' = [pass EXCEPT !.offset = @ + PageSize, !.requests = @ \o a]
<1> DEFINE last == Min({pass.offset + PageSize, Len(open.keys)})
           page == SubSeq(open.keys, pass.offset + 1, last)
           asked == [i \in DOMAIN page |->
                [key |-> page[i], requester |-> open.request[page[i]].requester]]
<1>1. /\ open.keys \in Seq(Contract!Keys) /\ Len(open.keys) \in Nat
      /\ \A i \in DOMAIN open.keys : open.request[open.keys[i]] \in Contract!OpenRequests
  BY ChainTypes
<1>2. pass.offset \in Nat /\ PageSize \in Nat  BY PassFields, LimitsAssumption
<1>3. last \in Nat /\ last <= Len(open.keys)
  <2>1. /\ {pass.offset + PageSize, Len(open.keys)} \in SUBSET Nat
        /\ {pass.offset + PageSize, Len(open.keys)} # {}
    BY <1>1, <1>2
  <2>2. last \in {pass.offset + PageSize, Len(open.keys)} /\ last <= Len(open.keys)
    BY <2>1, MinNat
  <2>3. QED BY <2>1, <2>2
<1> HIDE DEF last
<1>4. /\ page \in Seq(Contract!Keys)
      /\ \A i \in 1..Len(page) : \E j \in DOMAIN open.keys : page[i] = open.keys[j]
  <2>1. PICK m : m = pass.offset + 1  OBVIOUS
  <2>2. m \in Nat \ {0} /\ page = SubSeq(open.keys, m, last)  BY <1>2, <2>1
  <2> HIDE DEF page
  <2>3. QED BY <1>1, <1>3, <2>2, PartOf
<1>5. \A i \in 1..Len(page) :
         [key |-> page[i], requester |-> open.request[page[i]].requester] \in Questions
  <2> HIDE DEF page
  <2> TAKE i \in 1..Len(page)
  <2>1. page[i] \in Contract!Keys  BY <1>4
  <2>2. open.request[page[i]] \in Contract!OpenRequests  BY <1>1, <1>4
  <2>3. open.request[page[i]].requester \in Accounts  BY <2>2 DEF Contract!OpenRequests
  <2>4. QED BY <2>1, <2>3 DEF Questions
<1>6. asked \in Seq(Questions)
  <2> HIDE DEF page
  <2>1. asked \in [1..Len(page) -> Questions] /\ Len(page) \in Nat  BY <1>4, <1>5
  <2>2. QED BY <2>1
<1>7. QED BY <1>6 DEF ReadPage, last

\* The requests become items, and the ones that are never answered stay.
LEMMA AllReadForm ==
    ASSUME pass \in Passes, AllRead
    PROVE  \E p \in Seq(SoundItems), n \in Seq(CustomersQuestions), l \in SUBSET Customers :
              pass' = [pass EXCEPT !.requests = <<>>, !.pending = p, !.unanswerable = n, !.left = l]
<1> DEFINE asked == Kept(pass.requests, {q \in Range(pass.requests) : IsPending(q)})
           items == [i \in DOMAIN asked |-> AskedItem(asked[i])]
           never == Kept(pass.requests, {q \in Range(pass.requests) : NeverAnswered(q)})
<1>1. pass.requests \in Seq(Questions)  BY PassFields
<1>2. asked \in Seq(Questions \cap {q \in Range(pass.requests) : IsPending(q)})
  BY <1>1, KeptFacts
<1>3. never \in Seq(Questions \cap {q \in Range(pass.requests) : NeverAnswered(q)})
  BY <1>1, KeptFacts
<1>4. \A q \in Questions : AskedItem(q) \in SoundItems
  <2> TAKE q \in Questions
  <2>1. q.key \in Contract!Keys /\ q.requester \in Accounts  BY DEF Questions
  <2>2. AskedItem(q) \in Items
    <3>1. CASE \E r \in RequestIds : q.key = Contract!transferRequestKey(r)
      <4>1. PICK r \in RequestIds : q.key = <<"Transfer", r>>
        BY <3>1 DEF Contract!transferRequestKey
      <4>2. TransferOf[r] \in TransferIds  BY SubjectsAssumption
      <4>3. QED BY <2>1, <4>1, <4>2 DEF AskedItem, Items
    <3>2. CASE \E t \in TransferIds : q.key = Contract!receiptRequestKey(t)
      <4>1. PICK t \in TransferIds : q.key = <<"Receipt", t>>
        BY <3>2 DEF Contract!receiptRequestKey
      <4>2. QED BY <2>1, <4>1 DEF AskedItem, Items
    <3>3. QED BY <2>1, <3>1, <3>2 DEF Contract!Keys
  <2>3. ~AskedItem(q).listed /\ AskedItem(q).key \in Contract!Keys
    BY <2>1 DEF AskedItem
  <2>4. QED BY <2>2, <2>3 DEF SoundItems
<1> HIDE DEF asked, never
<1>5. items \in Seq(SoundItems)
  <2>1. \A i \in 1..Len(asked) : asked[i] \in Questions  BY <1>2
  <2>2. items \in [1..Len(asked) -> SoundItems] /\ Len(asked) \in Nat  BY <1>2, <1>4, <2>1
  <2>3. QED BY <2>2
<1>6. AllAdded(<<>>, items) \in Seq(SoundItems)
  <2> HIDE DEF items
  <2>1. <<>> \in Seq(SoundItems)  OBVIOUS
  <2>2. QED BY <1>5, <2>1, AllAddedFacts
<1>7. never \in Seq(CustomersQuestions)
  <2>1. Questions \cap {q \in Range(pass.requests) : NeverAnswered(q)} \subseteq CustomersQuestions
    BY DEF CustomersQuestions, NeverAnswered
  <2>2. QED BY <1>3, <2>1, SeqMonotonic
<1>8. Listing \subseteq Customers  BY DEF Listing
<1>9. pass' = [pass EXCEPT !.requests = <<>>, !.pending = AllAdded(<<>>, items),
                           !.unanswerable = never, !.left = Listing]
  BY DEF AllRead, asked, never
<1> HIDE DEF items
<1>10. QED BY <1>6, <1>7, <1>8, <1>9

\* A customer's transfers, listed with its own key.
LEMMA ListForm ==
    ASSUME WorldTypes, pass \in Passes, pass.pending \in Seq(SoundItems), NEW c \in Customers, List(c)
    PROVE  \E slice \in Slices(c), p \in Seq(SoundItems) :
              pass' = [pass EXCEPT !.left = @ \ {c}, !.listed[c] = slice, !.pending = p]
<1>1. PICK slice \in Slices(c) : \E owed \in InOrder(slice \cap Owed) :
         pass' = [pass EXCEPT !.left = @ \ {c}, !.listed[c] = slice,
                     !.pending = AllAdded(@, [i \in DOMAIN owed |-> ListedItem(c, owed[i])])]
  BY DEF List
<1>2. PICK owed \in InOrder(slice \cap Owed) :
         pass' = [pass EXCEPT !.left = @ \ {c}, !.listed[c] = slice,
                     !.pending = AllAdded(@, [i \in DOMAIN owed |-> ListedItem(c, owed[i])])]
  BY <1>1
<1> DEFINE items == [i \in DOMAIN owed |-> ListedItem(c, owed[i])]
<1>3. slice \subseteq {t \in finished : BelongsTo[t] = c}  BY DEF Slices
<1>4. owed \in Seq(slice \cap Owed)
  <2>1. owed \in SetToSeqs(slice \cap Owed)  BY DEF InOrder
  <2>2. owed \in [1..Cardinality(slice \cap Owed) -> slice \cap Owed]
    BY <2>1 DEF SetToSeqs
  <2>3. IsFiniteSet(slice \cap Owed)
    <3>1. slice \cap Owed \subseteq finished  BY <1>3
    <3>2. QED BY <3>1, FS_Subset DEF WorldTypes
  <2>4. Cardinality(slice \cap Owed) \in Nat  BY <2>3, FS_CardinalityType
  <2>5. PICK n \in Nat : owed \in [1..n -> slice \cap Owed]  BY <2>2, <2>4
  <2> HIDE DEF items
  <2>6. QED BY <2>5
<1>5. \A t \in slice \cap Owed : ListedItem(c, t) \in SoundItems
  <2> TAKE t \in slice \cap Owed
  <2>1. t \in TransferIds /\ t \in finished /\ BelongsTo[t] = c  BY <1>3 DEF WorldTypes
  <2>2. c \in Accounts  BY PartiesAssumption
  <2>3. QED BY <2>1, <2>2 DEF ListedItem, SoundItems, Items, Sees
<1>6. items \in Seq(SoundItems)
  <2>1. items \in [1..Len(owed) -> SoundItems] /\ Len(owed) \in Nat  BY <1>4, <1>5
  <2>2. QED BY <2>1
<1>7. AllAdded(pass.pending, items) \in Seq(SoundItems)
  <2> HIDE DEF items
  <2>1. QED BY <1>6, AllAddedFacts
<1>8. pass' = [pass EXCEPT !.left = @ \ {c}, !.listed[c] = slice,
                           !.pending = AllAdded(pass.pending, items)]
  BY <1>2
<1> HIDE DEF items
<1>9. QED BY <1>7, <1>8

\* A local step leaves the world as it is.
LEMMA LocalStep ==
    ASSUME RelayInv, UNCHANGED <<chain, external, txs, kept>>, Fault \/ UNCHANGED faults
    PROVE  Chain' /\ WorldTypes' /\ Grown /\ WorldInv'
<1>1. WorldRests /\ UNCHANGED <<cursor, uncommitted>>  BY DEF WorldRests, external, txs, kept
<1>2. faults' \in 0..MaxFaults  BY FaultBound DEF RelayInv
<1>3. cursor' \in [Customers -> Nat]  BY <1>1 DEF RelayInv, WorldTypes
<1>4. Chain' /\ WorldTypes' /\ Grown  BY <1>1, <1>2, <1>3, WorldTypesRest DEF RelayInv
<1>5. uncommitted' \subseteq uncommitted  BY <1>1
<1>6. QED BY <1>1, <1>4, <1>5, WorldInvRests DEF RelayInv

\* Reading requests and listing transfers.
LEMMA ReadStep ==
    ASSUME RelayInv,
           ReadPage \/ AllRead \/ \E c \in Customers : List(c) \/ ListFails(c)
    PROVE  RelayInv' /\ Grown
<1>1. UNCHANGED <<chain, external, txs, kept>> /\ (Fault \/ UNCHANGED faults)
  BY DEF ReadPage, AllRead, List, ListFails
<1>2. Chain' /\ WorldTypes' /\ Grown /\ WorldInv'  BY <1>1, LocalStep
<1>3. pc' \in Aside
  BY DEF ReadPage, AllRead, List, ListFails, Aside
<1>4. /\ pass \in Passes /\ pass.pending \in Seq(SoundItems)
      /\ pass.pending \in Seq(SoundItems') /\ pass.planned \in Seq(Payable')
      /\ pass.unanswerable \in Seq(CustomersQuestions) /\ pass.retries \subseteq cancelled
  BY <1>2, PassNow DEF RelayInv, PassInv, ItemsInStep
<1>5. PassTypes' /\ PassInv'
  <2>1. CASE ReadPage
    <3>1. PICK a \in Seq(Questions) :
             pass' = [pass EXCEPT !.offset = @ + PageSize, !.requests = @ \o a]
      BY <1>4, <2>1, ReadPageForm DEF RelayInv
    <3>2. pass.offset + PageSize \in Nat /\ pass.requests \o a \in Seq(Questions)
      BY <1>4, PassFields, LimitsAssumption, SMTT(30)
    <3>3. /\ pass' \in Passes /\ pass'.pending = pass.pending /\ pass'.planned = pass.planned
          /\ pass'.settled = pass.settled /\ pass'.unanswerable = pass.unanswerable
          /\ pass'.retries = pass.retries
      BY <1>4, <3>1, <3>2 DEF Passes
    <3>4. QED BY <1>2, <1>3, <1>4, <3>3, AsideStep
  <2>2. CASE AllRead
    <3>1. PICK p \in Seq(SoundItems), n \in Seq(CustomersQuestions), l \in SUBSET Customers :
             pass' = [pass EXCEPT !.requests = <<>>, !.pending = p, !.unanswerable = n, !.left = l]
      BY <1>4, <2>2, AllReadForm
    <3>2. <<>> \in Seq(Questions) /\ p \in Seq(Items) /\ n \in Seq(Questions)  BY ItemSeqs
    <3>3. /\ pass' \in Passes /\ pass'.pending = p /\ pass'.planned = pass.planned
          /\ pass'.settled = pass.settled /\ pass'.unanswerable = n
          /\ pass'.retries = pass.retries
      BY <1>4, <3>1, <3>2 DEF Passes
    <3>4. p \in Seq(SoundItems')  BY <1>2, SeqsGrow
    <3>5. QED BY <1>2, <1>3, <1>4, <3>3, <3>4, AsideStep
  <2>3. ASSUME NEW c \in Customers, List(c)
        PROVE  PassTypes' /\ PassInv'
    <3>1. PICK slice \in Slices(c), p \in Seq(SoundItems) :
             pass' = [pass EXCEPT !.left = @ \ {c}, !.listed[c] = slice, !.pending = p]
      BY <1>4, <2>3, ListForm DEF RelayInv
    <3>2. p \in Seq(Items) /\ slice \in SUBSET TransferIds  BY ItemSeqs DEF Slices, RelayInv, WorldTypes
    <3>3. [pass.listed EXCEPT ![c] = slice] \in [Customers -> SUBSET TransferIds]
      BY <1>4, <3>2, PassFields
    <3>4. /\ pass' \in Passes /\ pass'.pending = p /\ pass'.planned = pass.planned
          /\ pass'.settled = pass.settled /\ pass'.unanswerable = pass.unanswerable
          /\ pass'.retries = pass.retries
      BY <1>4, <3>1, <3>2, <3>3 DEF Passes
    <3>5. p \in Seq(SoundItems')  BY <1>2, SeqsGrow
    <3>6. QED BY <1>2, <1>3, <1>4, <3>4, <3>5, AsideStep
  <2>4. ASSUME NEW c \in Customers, ListFails(c)
        PROVE  PassTypes' /\ PassInv'
    <3>1. pass' = [pass EXCEPT !.left = @ \ {c}]  BY <2>4 DEF ListFails
    <3>2. /\ pass' \in Passes /\ pass'.pending = pass.pending /\ pass'.planned = pass.planned
          /\ pass'.settled = pass.settled /\ pass'.unanswerable = pass.unanswerable
          /\ pass'.retries = pass.retries
      BY <1>4, <3>1 DEF Passes
    <3>3. QED BY <1>2, <1>3, <1>4, <3>2, AsideStep
  <2>5. QED BY <2>1, <2>2, <2>3, <2>4
<1>6. QED BY <1>2, <1>5 DEF RelayInv

\* What is looked up is sound, and so is what is left.
LEMMA ItemFacts ==
    ASSUME RelayInv, Looking
    PROVE  /\ Item \in SoundItems /\ Item \in Items
           /\ Tail(pass.pending) \in Seq(SoundItems) /\ Tail(pass.pending) \in Seq(Items)
<1>1. pass.pending \in Seq(SoundItems) /\ pass.pending # <<>>
  BY DEF RelayInv, PassInv, ItemsInStep, Looking
<1>2. Item \in SoundItems /\ Tail(pass.pending) \in Seq(SoundItems)  BY <1>1 DEF Item
<1>3. QED BY <1>2, ItemSeqs DEF SoundItems

\* Looking up a subject that is not a customer's.
LEMMA LookStep ==
    ASSUME RelayInv, LookUpNothing \/ LookUpFails \/ PlanOwn
    PROVE  RelayInv' /\ Grown
<1>1. UNCHANGED <<chain, external, txs, kept>> /\ (Fault \/ UNCHANGED faults)
  BY DEF LookUpNothing, LookUpFails, PlanOwn
<1>2. Chain' /\ WorldTypes' /\ Grown /\ WorldInv'  BY <1>1, LocalStep
<1>3. pc' \in Aside /\ Looking
  BY DEF LookUpNothing, LookUpFails, PlanOwn, Looking, Aside
<1>4. /\ pass \in Passes /\ pass.pending \in Seq(SoundItems)
      /\ pass.pending \in Seq(SoundItems') /\ pass.planned \in Seq(Payable')
      /\ pass.unanswerable \in Seq(CustomersQuestions) /\ pass.retries \subseteq cancelled
  BY <1>2, PassNow DEF RelayInv, PassInv, ItemsInStep
<1>5. PICK rest \in Seq(SoundItems) : rest = Tail(pass.pending)  BY <1>3, ItemFacts
<1>6. rest \in Seq(Items) /\ rest \in Seq(SoundItems')  BY <1>2, ItemSeqs, SeqsGrow
<1>7. Item \in SoundItems /\ Item \in Items  BY <1>3, ItemFacts
<1>8. PassTypes' /\ PassInv'
  <2>1. CASE LookUpNothing
    <3>1. PICK u \in Seq(CustomersQuestions), s \in SUBSET TransferIds :
             /\ pass' = [pass EXCEPT !.pending = rest, !.settled = s, !.unanswerable = u]
             /\ \A t \in s : t \in pass.settled \/ t \in Unreadable
      <4>1. PICK graceOver \in BOOLEAN :
               pass' = [pass EXCEPT
                  !.pending = rest,
                  !.settled = IF Item.listed THEN @ \cup {Item.transfer} ELSE @,
                  !.unanswerable = IF ~Sees(Item) /\ IsCustomers(Item) /\ graceOver
                                   THEN Append(@, [key |-> Item.key, requester |-> Item.owner])
                                   ELSE @]
        BY <1>5, <2>1 DEF LookUpNothing
      <4>2. PICK s : s = IF Item.listed THEN pass.settled \cup {Item.transfer} ELSE pass.settled
        OBVIOUS
      <4>3. PICK u : u = IF ~Sees(Item) /\ IsCustomers(Item) /\ graceOver
                         THEN Append(pass.unanswerable, [key |-> Item.key, requester |-> Item.owner])
                         ELSE pass.unanswerable
        OBVIOUS
      <4>4. s \in SUBSET TransferIds  BY <1>4, <1>7, <4>2, PassFields DEF Items
      <4>5. u \in Seq(CustomersQuestions)
        <5>1. CASE ~Sees(Item) /\ IsCustomers(Item)
          <6>1. Item.key \in Contract!Keys  BY <1>7, <5>1 DEF SoundItems
          <6>2. Item.owner \in Accounts /\ Item.owner \in Customers
            BY <5>1, PartiesAssumption DEF IsCustomers
          <6>3. [key |-> Item.key, requester |-> Item.owner] \in CustomersQuestions
            BY <6>1, <6>2 DEF CustomersQuestions, Questions
          <6>4. QED BY <1>4, <4>3, <6>3
        <5>2. CASE ~(~Sees(Item) /\ IsCustomers(Item))  BY <1>4, <4>3, <5>2
        <5>3. QED BY <5>1, <5>2
      <4>6. \A t \in s : t \in pass.settled \/ t \in Unreadable
        <5>1. Item.listed => Item.transfer \in Unreadable
          BY <1>7, <2>1 DEF LookUpNothing, HasEntry, SoundItems
        <5>2. QED BY <4>2, <5>1
      <4>7. pass' = [pass EXCEPT !.pending = rest, !.settled = s, !.unanswerable = u]
        BY <4>1, <4>2, <4>3
      <4>8. QED BY <4>4, <4>5, <4>6, <4>7
    <3>2. u \in Seq(Questions)  BY ItemSeqs
    <3>3. /\ pass' \in Passes /\ pass'.pending = rest /\ pass'.planned = pass.planned
          /\ pass'.settled = s /\ pass'.unanswerable = u /\ pass'.retries = pass.retries
      BY <1>4, <1>6, <3>1, <3>2 DEF Passes
    <3>4. QED BY <1>2, <1>3, <1>4, <1>6, <3>1, <3>3, AsideStep
  <2>2. CASE LookUpFails
    <3>1. pass' = [pass EXCEPT !.pending = rest]  BY <1>5, <2>2 DEF LookUpFails
    <3>2. /\ pass' \in Passes /\ pass'.pending = rest /\ pass'.planned = pass.planned
          /\ pass'.settled = pass.settled /\ pass'.unanswerable = pass.unanswerable
          /\ pass'.retries = pass.retries
      BY <1>4, <1>6, <3>1 DEF Passes
    <3>3. QED BY <1>2, <1>3, <1>4, <1>6, <3>2, AsideStep
  <2>3. CASE PlanOwn
    <3>1. Item \in Payable  BY <1>7, <2>3 DEF PlanOwn, HasEntry, Payable
    <3>2. PICK q : q = Append(pass.planned, Item)  OBVIOUS
    <3>3. q \in Seq(Payable') /\ q \in Seq(Items)
      <4>1. pass.planned \in Seq(Items)  BY <1>4, PassFields
      <4>2. Item \in Payable'  BY <1>2, <3>1, SetsGrow
      <4>3. QED BY <1>4, <1>7, <3>2, <4>1, <4>2, AppendProperties
    <3>4. pass' = [pass EXCEPT !.pending = rest, !.planned = q]
      BY <1>5, <2>3, <3>2 DEF PlanOwn
    <3>5. /\ pass' \in Passes /\ pass'.pending = rest /\ pass'.planned = q
          /\ pass'.settled = pass.settled /\ pass'.unanswerable = pass.unanswerable
          /\ pass'.retries = pass.retries
      BY <1>4, <1>6, <3>3, <3>4 DEF Passes
    <3>6. QED BY <1>2, <1>3, <1>4, <1>6, <3>3, <3>5, AsideStep
  <2>4. QED BY <2>1, <2>2, <2>3
<1>9. QED BY <1>2, <1>8 DEF RelayInv

\* Looking up and holding a customer's subject.
LEMMA PlanCustomersStep ==
    ASSUME RelayInv, PlanCustomers
    PROVE  RelayInv' /\ Grown
<1>1. PICK o \in {"held", "charged", "failed"} :
         /\ Reserve(transferCharge(Item.transfer), o)
         /\ pass' = [pass EXCEPT
               !.pending = Tail(@),
               !.planned = IF o = "held" THEN Append(@, Item) ELSE @,
               !.settled = IF o = "charged" THEN @ \cup {Item.transfer} ELSE @]
  BY DEF PlanCustomers
<1>2. Looking /\ HasEntry(Item) /\ IsCustomers(Item)  BY DEF PlanCustomers
<1>3. Item \in SoundItems /\ Item \in Items /\ Item.transfer \in TransferIds
  BY <1>2, ItemFacts DEF Items
<1>4. PICK x \in ChargeSubjects : x = transferCharge(Item.transfer)  BY <1>3, SubjectTypes
<1>5. Reserve(x, o)  BY <1>1, <1>4
<1>6. /\ charge' \in [ChargeSubjects -> {"none", "held", "charged"}]
      /\ faults' \in 0..MaxFaults
      /\ \A y \in ChargeSubjects : charge[y] # "none" => charge'[y] # "none"
      /\ \A y \in ChargeSubjects : charge[y] = "charged" <=> charge'[y] = "charged"
      /\ o = "held" => charge'[x] # "none"
      /\ o = "charged" => charge'[x] = "charged"
  BY <1>5, ReserveFacts DEF RelayInv
<1>7. UNCHANGED <<chain, finished, approved, sent, mined, cancelled, cursor>>
      /\ uncommitted' \subseteq cancelled
  BY DEF PlanCustomers, txs, kept, RelayInv, WorldInv
<1>8. Chain' /\ WorldTypes' /\ WorldInv' /\ Grown  BY <1>6, <1>7, ChargeMoves
<1>9. /\ pass \in Passes /\ pass.pending \in Seq(SoundItems)
      /\ pass.pending \in Seq(SoundItems') /\ pass.planned \in Seq(Payable')
      /\ pass.unanswerable \in Seq(CustomersQuestions) /\ pass.retries \subseteq cancelled
  BY <1>8, PassNow DEF RelayInv, PassInv, ItemsInStep
<1>10. PICK rest \in Seq(SoundItems) : rest = Tail(pass.pending)  BY <1>2, ItemFacts
<1>11. rest \in Seq(Items) /\ rest \in Seq(SoundItems')  BY <1>8, ItemSeqs, SeqsGrow
<1>12. PICK q : q = IF o = "held" THEN Append(pass.planned, Item) ELSE pass.planned  OBVIOUS
<1>13. q \in Seq(Payable') /\ q \in Seq(Items)
  <2>1. pass.planned \in Seq(Items)  BY <1>9, PassFields
  <2>2. CASE o = "held"
    <3>1. charge'[transferCharge(Item.transfer)] # "none"  BY <1>4, <1>6, <2>2
    <3>2. \A i \in Items : Sees(i) /\ charge'[transferCharge(i.transfer)] # "none" => i \in Payable'
      BY DEF Payable, Sees, Held, transferCharge, IsCustomers, Items, Contract!Keys,
         Contract!transferRequestKey, Contract!receiptRequestKey, Contract!roomRequestKey
    <3>3. Item \in Payable'  BY <1>2, <1>3, <3>1, <3>2 DEF HasEntry
    <3>4. QED BY <1>3, <1>9, <1>12, <2>1, <2>2, <3>3, AppendProperties
  <2>3. CASE o # "held"  BY <1>9, <1>12, <2>1, <2>3
  <2>4. QED BY <2>2, <2>3
<1>14. PICK s : s = IF o = "charged" THEN pass.settled \cup {Item.transfer} ELSE pass.settled
  OBVIOUS
<1>15. s \in SUBSET TransferIds /\ \A t \in s : t \in pass.settled \/ charge'[transferCharge(t)] = "charged"
  BY <1>3, <1>4, <1>6, <1>9, <1>14, PassFields
<1>16. pass' = [pass EXCEPT !.pending = rest, !.planned = q, !.settled = s]
  BY <1>1, <1>10, <1>12, <1>14
<1>17. /\ pass' \in Passes /\ pass'.pending = rest /\ pass'.planned = q /\ pass'.settled = s
       /\ pass'.unanswerable = pass.unanswerable /\ pass'.retries = pass.retries
  BY <1>9, <1>11, <1>13, <1>15, <1>16 DEF Passes
<1>18. pc' \in Aside  BY DEF PlanCustomers, Looking, Aside
<1>19. PassTypes' /\ PassInv'
  BY <1>8, <1>9, <1>11, <1>13, <1>15, <1>17, <1>18, AsideStep
<1>20. QED BY <1>8, <1>19 DEF RelayInv

\* A sent transaction that is sound.
LEMMA SendFacts ==
    ASSUME RelayInv, NEW tx \in SoundTxs, Send(tx), UNCHANGED <<chain, external, kept, faults>>,
           tx.kind = "report" => Len(tx.entries) <= BatchSize
    PROVE  /\ Chain' /\ WorldTypes' /\ WorldInv' /\ Grown
           /\ sent' # <<>> /\ sent'[Len(sent')] = tx
<1>1. sent \in Seq(SoundTxs)  BY DEF RelayInv, WorldInv, SentHeld
<1>2. sent' = Append(sent, tx) /\ UNCHANGED <<mined, cancelled>>  BY DEF Send
<1>3. /\ sent' \in Seq(SoundTxs) /\ sent' # <<>> /\ sent'[Len(sent')] = tx
      /\ Len(sent') = Len(sent) + 1
      /\ \A i \in 1..Len(sent) : sent'[i] = sent[i]
  BY <1>1, <1>2
<1>4. UNCHANGED <<finished, approved, charge, cursor, uncommitted, faults>>  BY DEF external, kept
<1>5. UNCHANGED receipts  BY DEF chain
<1>6. Chain'  BY ChainRests DEF RelayInv
<1>7. \A i \in DOMAIN sent' : sent'[i].kind = "report" => Len(sent'[i].entries) <= BatchSize
  <2> TAKE i \in DOMAIN sent'
  <2>1. i \in 1..Len(sent) \/ i = Len(sent')  BY <1>1, <1>3
  <2>2. i \in 1..Len(sent) => i \in DOMAIN sent  BY <1>1
  <2>3. QED BY <1>3, <2>1, <2>2 DEF RelayInv, WorldTypes
<1>8. WorldTypes'  BY <1>2, <1>4, <1>7 DEF RelayInv, WorldTypes
<1>9. Grown  BY <1>2, <1>4, <1>5, RestsGrown
<1>10. SentHeld'  BY <1>3, <1>9, SeqsGrow DEF SentHeld
<1>11. WorldInv'
  BY <1>2, <1>4, <1>5, <1>10
     DEF RelayInv, WorldInv, DoneHeld, ChargedForEffect, Held, transferCharge, requestCharge
<1>12. QED BY <1>3, <1>6, <1>8, <1>9, <1>11

\* A report carries what is held, and no more than a batch of it.
LEMMA WriteReportStep ==
    ASSUME RelayInv, WriteReport
    PROVE  RelayInv' /\ Grown
<1>1. /\ pass \in Passes /\ pass.planned \in Seq(Payable) /\ pass.planned # <<>>
      /\ pass.planned \in Seq(Items) /\ BatchSize \in Nat \ {0}
  BY PassFields, LimitsAssumption DEF RelayInv, PassTypes, PassInv, ItemsInStep, WriteReport
<1>2. PICK size \in 1..Len(pass.planned) :
         /\ size <= BatchSize
         /\ Send([kind |-> "report", entries |-> SubSeq(pass.planned, 1, size)])
         /\ pass' = [pass EXCEPT !.batch = SubSeq(pass.planned, 1, size),
                                 !.planned = SubSeq(@, size + 1, Len(@))]
  <2>1. PICK size : size = Min({BatchSize, Len(pass.planned)})  OBVIOUS
  <2>2. {BatchSize, Len(pass.planned)} \in SUBSET Nat  BY <1>1
  <2>3. /\ size \in {BatchSize, Len(pass.planned)}
        /\ size <= BatchSize /\ size <= Len(pass.planned)
    BY <2>1, <2>2, MinNat
  <2>4. size \in 1..Len(pass.planned)  BY <1>1, <2>3
  <2>5. /\ Send([kind |-> "report", entries |-> SubSeq(pass.planned, 1, size)])
        /\ pass' = [pass EXCEPT !.batch = SubSeq(pass.planned, 1, size),
                                !.planned = SubSeq(@, size + 1, Len(@))]
    BY <2>1 DEF WriteReport
  <2>6. QED BY <2>3, <2>4, <2>5
<1>3. PICK b : b = SubSeq(pass.planned, 1, size)  OBVIOUS
<1>4. PICK r : r = SubSeq(pass.planned, size + 1, Len(pass.planned))  OBVIOUS
<1>5. b \in Seq(Payable) /\ Len(b) = size /\ b # <<>>
  <2>1. 1 \in Nat \ {0} /\ size \in Nat /\ size <= Len(pass.planned) /\ size >= 1  BY <1>1
  <2>2. b \in Seq(Payable) /\ Len(b) = IF 1 <= size THEN size - 1 + 1 ELSE 0
    BY <1>1, <1>3, <2>1, PartOf
  <2>3. QED BY <2>1, <2>2
<1>6. r \in Seq(Payable)
  <2>1. size + 1 \in Nat \ {0} /\ Len(pass.planned) \in Nat /\ Len(pass.planned) <= Len(pass.planned)
    BY <1>1
  <2>2. QED BY <1>1, <1>4, <2>1, PartOf
<1>7. b \in Seq(Items) /\ r \in Seq(Items)  BY <1>5, <1>6, ItemSeqs
<1>8. PICK tx : tx = [kind |-> "report", entries |-> b]  OBVIOUS
<1>9. tx.kind = "report" /\ tx.entries = b  BY <1>8
<1>10. tx \in SoundTxs
  <2>1. tx \in Transactions  BY <1>7, <1>8 DEF Transactions
  <2>2. QED BY <1>5, <1>9, <2>1 DEF SoundTxs
<1>11. Send(tx)  BY <1>2, <1>3, <1>8
<1>12. UNCHANGED <<chain, external, kept, faults>>  BY DEF WriteReport
<1>13. /\ Chain' /\ WorldTypes' /\ WorldInv' /\ Grown
       /\ sent' # <<>> /\ sent'[Len(sent')] = tx
  <2>1. Len(tx.entries) <= BatchSize  BY <1>2, <1>5, <1>9
  <2>2. QED BY <1>10, <1>11, <1>12, <2>1, SendFacts
<1>14. /\ pass' \in Passes /\ pass'.batch = b /\ pass'.planned = r
       /\ pass'.pending = pass.pending /\ pass'.settled = pass.settled
       /\ pass'.unanswerable = pass.unanswerable /\ pass'.retries = pass.retries
  <2>1. pass' = [pass EXCEPT !.batch = b, !.planned = r]  BY <1>2, <1>3, <1>4
  <2>2. QED BY <1>1, <1>7, <2>1 DEF Passes
<1>15. pc' = "wait"  BY DEF WriteReport
<1>16. PassTypes'  BY <1>14, <1>15 DEF PassTypes
<1>17. /\ pass.pending \in Seq(SoundItems') /\ r \in Seq(Payable')
       /\ pass.unanswerable \in Seq(CustomersQuestions) /\ pass.retries \subseteq cancelled
  BY <1>6, <1>13, PassNow, SeqsGrow
<1>18. ItemsInStep'  BY <1>14, <1>17 DEF ItemsInStep
<1>19. SettledDone'
  <2>1. UNCHANGED charge  BY <1>12 DEF external
  <2>2. QED BY <1>14, <2>1 DEF RelayInv, PassInv, SettledDone, transferCharge
<1>20. BatchInStep'
  <2>1. \A i \in DOMAIN b : \E j \in DOMAIN sent'[Len(sent')].entries :
           sent'[Len(sent')].entries[j] = b[i]
    BY <1>9, <1>13
  <2>2. pass'.batch # <<>> /\ sent'[Len(sent')].kind = "report"  BY <1>5, <1>9, <1>13, <1>14
  <2>3. QED BY <1>13, <1>14, <1>15, <2>1, <2>2 DEF BatchInStep, OnItsWay
<1>21. CloseInStep'
  <2>1. CustomersQuestions' = CustomersQuestions
    BY DEF CustomersQuestions, Questions, Contract!Keys, Contract!transferRequestKey,
       Contract!receiptRequestKey, Contract!roomRequestKey
  <2>2. cancelled' = cancelled  BY <1>11 DEF Send
  <2>3. QED BY <1>14, <1>15, <1>17, <2>1, <2>2 DEF CloseInStep, ClosingInStep
<1>22. QED BY <1>13, <1>16, <1>18, <1>19, <1>20, <1>21 DEF RelayInv, PassInv

\* The writing ends, with all written or with a failure.
LEMMA WriteEndsStep ==
    ASSUME RelayInv, WriteFails \/ AllWritten
    PROVE  RelayInv' /\ Grown
<1>1. UNCHANGED <<chain, external, txs, kept>> /\ (Fault \/ UNCHANGED faults)
  BY DEF WriteFails, AllWritten
<1>2. Chain' /\ WorldTypes' /\ Grown /\ WorldInv'  BY <1>1, LocalStep
<1>3. pc' \in Aside  BY DEF WriteFails, AllWritten, Aside
<1>4. /\ pass \in Passes /\ pass.pending \in Seq(SoundItems') /\ pass.planned \in Seq(Payable')
      /\ pass.unanswerable \in Seq(CustomersQuestions) /\ pass.retries \subseteq cancelled
  BY <1>2, PassNow
<1>5. <<>> \in Seq(Items) /\ <<>> \in Seq(Payable')  OBVIOUS
<1>6. CASE WriteFails
  <2>1. pass' = [pass EXCEPT !.batch = <<>>, !.planned = <<>>]  BY <1>6 DEF WriteFails
  <2>2. /\ pass' \in Passes /\ pass'.pending = pass.pending /\ pass'.planned = <<>>
        /\ pass'.settled = pass.settled /\ pass'.unanswerable = pass.unanswerable
        /\ pass'.retries = pass.retries
    BY <1>4, <1>5, <2>1 DEF Passes
  <2>3. PassTypes' /\ PassInv'  BY <1>2, <1>3, <1>4, <1>5, <2>2, AsideStep
  <2>4. QED BY <1>2, <2>3 DEF RelayInv
<1>7. CASE AllWritten
  <2>1. pass' = pass  BY <1>7 DEF AllWritten
  <2>2. PassTypes' /\ PassInv'  BY <1>2, <1>3, <1>4, <2>1, AsideStep
  <2>3. QED BY <1>2, <2>2 DEF RelayInv
<1>8. QED BY <1>6, <1>7

\* What PassInv says where a local step leaves the lists alone.
LEMMA ListsStay ==
    ASSUME RelayInv, UNCHANGED <<charge, finished, cancelled>>,
           pass'.pending = pass.pending, pass'.planned = pass.planned, pass'.settled = pass.settled
    PROVE  ItemsInStep' /\ SettledDone'
<1>1. SoundItems' = SoundItems /\ Payable' = Payable
  BY DEF SoundItems, Payable, Sees, Held, IsCustomers, transferCharge, Items, Contract!Keys,
     Contract!transferRequestKey, Contract!receiptRequestKey, Contract!roomRequestKey
<1>2. ItemsInStep'  BY <1>1 DEF RelayInv, PassInv, ItemsInStep
<1>3. SettledDone'  BY DEF RelayInv, PassInv, SettledDone, transferCharge
<1>4. QED BY <1>2, <1>3

\* Who is a customer does not change.
LEMMA QuestionsStay == CustomersQuestions' = CustomersQuestions
BY DEF CustomersQuestions, Questions, Contract!Keys, Contract!transferRequestKey,
   Contract!receiptRequestKey, Contract!roomRequestKey

\* A report that is mined has recorded the whole batch.
LEMMA WrittenStep ==
    ASSUME RelayInv, Written
    PROVE  RelayInv' /\ Grown
<1>1. UNCHANGED <<chain, external, txs, kept>> /\ UNCHANGED faults /\ UNCHANGED pass
      /\ pc = "wait" /\ pc' = "commit" /\ sent = <<>>
  BY DEF Written, Mined
<1>2. Chain' /\ WorldTypes' /\ Grown /\ WorldInv'  BY <1>1, LocalStep
<1>3. UNCHANGED <<charge, finished, cancelled, receipts>>  BY <1>1 DEF external, txs, chain
<1>4. PassTypes'  BY <1>1 DEF RelayInv, PassTypes
<1>5. ItemsInStep' /\ SettledDone'  BY <1>1, <1>3, ListsStay
<1>6. BatchInStep'
  <2>1. pass.batch # <<>> /\ \A i \in DOMAIN pass.batch : Recorded(pass.batch[i])
    BY <1>1 DEF RelayInv, PassInv, BatchInStep, OnItsWay
  <2>2. QED BY <1>1, <1>3, <2>1 DEF BatchInStep, Recorded
<1>7. CloseInStep'
  BY <1>1, <1>3, QuestionsStay DEF RelayInv, PassInv, CloseInStep, ClosingInStep
<1>8. QED BY <1>2, <1>4, <1>5, <1>6, <1>7 DEF RelayInv, PassInv

\* What is charged for is recorded.
LEMMA CommitReceiptStep ==
    ASSUME RelayInv, CommitReceipt
    PROVE  RelayInv' /\ Grown
<1>1. /\ pc = "commit" /\ pass \in Passes /\ pass.batch \in Seq(Items) /\ pass.batch # <<>>
      /\ \A i \in DOMAIN pass.batch : Recorded(pass.batch[i])
  BY PassFields DEF RelayInv, PassTypes, PassInv, BatchInStep, CommitReceipt
<1>2. PICK item \in Items : item = Head(pass.batch)  BY <1>1
<1>3. PICK o \in {"charged", "failed"} :
         /\ IF IsCustomers(item) THEN Commit(transferCharge(item.transfer), o)
            ELSE o = "failed" /\ UNCHANGED <<charge, faults>>
         /\ pass' = [pass EXCEPT
               !.batch = Tail(@),
               !.settled = IF o = "charged" THEN @ \cup {item.transfer} ELSE @]
  BY <1>2 DEF CommitReceipt
<1>4. item.transfer \in TransferIds /\ receipts[item.transfer] # None
  <2>1. item = pass.batch[1] /\ 1 \in DOMAIN pass.batch  BY <1>1, <1>2
  <2>2. QED BY <1>1, <2>1 DEF Recorded, Items
<1>5. PICK x \in ChargeSubjects : x = transferCharge(item.transfer)  BY <1>4, SubjectTypes
<1>6. /\ charge' \in [ChargeSubjects -> {"none", "held", "charged"}]
      /\ faults' \in 0..MaxFaults
      /\ \A y \in ChargeSubjects : charge[y] # "none" => charge'[y] # "none"
      /\ \A y \in ChargeSubjects : charge[y] = "charged" => charge'[y] = "charged"
      /\ \A y \in ChargeSubjects : charge'[y] = "charged" => charge[y] = "charged" \/ y = x
      /\ o = "charged" => charge'[x] = "charged"
  <2>1. CASE IsCustomers(item)
    <3>1. Commit(x, o)  BY <1>3, <1>5, <2>1
    <3>2. QED BY <3>1, CommitFacts DEF RelayInv
  <2>2. CASE ~IsCustomers(item)
    <3>1. UNCHANGED <<charge, faults>> /\ o # "charged"  BY <1>3, <2>2
    <3>2. QED BY <3>1 DEF RelayInv, WorldTypes
  <2>3. QED BY <2>1, <2>2
<1>7. UNCHANGED <<chain, finished, approved, sent, mined, cancelled, cursor>>
      /\ uncommitted' \subseteq cancelled
  BY DEF CommitReceipt, txs, kept, RelayInv, WorldInv
<1>8. Chain' /\ WorldTypes' /\ WorldInv' /\ Grown
  BY <1>4, <1>5, <1>6, <1>7, ChargeMoves
<1>9. PICK b : b = Tail(pass.batch)  OBVIOUS
<1>10. /\ b \in Seq(Items) /\ (Len(pass.batch) # 1 => b # <<>>)
       /\ \A i \in DOMAIN b : Recorded(b[i])
  <2>1. /\ b \in Seq(Items) /\ Len(b) = Len(pass.batch) - 1
        /\ \A i \in 1..Len(b) : b[i] = pass.batch[i + 1] /\ i + 1 \in DOMAIN pass.batch
    BY <1>1, <1>9
  <2>2. Len(pass.batch) \in Nat /\ Len(pass.batch) # 0  BY <1>1
  <2>3. Len(pass.batch) # 1 => b # <<>>
    <3>1. SUFFICES ASSUME b = <<>> PROVE Len(pass.batch) = 1  OBVIOUS
    <3>2. Len(b) = 0  BY <3>1
    <3>3. PICK n : n = Len(pass.batch)  OBVIOUS
    <3>4. n \in Nat /\ n - 1 = 0  BY <2>1, <2>2, <3>2, <3>3
    <3>5. QED BY <3>3, <3>4
  <2>4. \A i \in DOMAIN b : Recorded(b[i])
    <3> TAKE i \in DOMAIN b
    <3>1. i \in 1..Len(b)  BY <2>1
    <3>2. b[i] = pass.batch[i + 1] /\ i + 1 \in DOMAIN pass.batch  BY <2>1, <3>1
    <3>3. QED BY <1>1, <3>2
  <2>5. QED BY <2>1, <2>3, <2>4
<1>11. PICK s : s = IF o = "charged" THEN pass.settled \cup {item.transfer} ELSE pass.settled
  OBVIOUS
<1>12. s \in SUBSET TransferIds /\ \A t \in s : t \in pass.settled \/ charge'[transferCharge(t)] = "charged"
  BY <1>1, <1>4, <1>5, <1>6, <1>11, PassFields
<1>13. /\ pass' \in Passes /\ pass'.batch = b /\ pass'.settled = s
       /\ pass'.pending = pass.pending /\ pass'.planned = pass.planned
       /\ pass'.unanswerable = pass.unanswerable /\ pass'.retries = pass.retries
  <2>1. pass' = [pass EXCEPT !.batch = b, !.settled = s]  BY <1>3, <1>9, <1>11
  <2>2. QED BY <1>1, <1>10, <1>12, <2>1 DEF Passes
<1>14. /\ pass.pending \in Seq(SoundItems') /\ pass.planned \in Seq(Payable')
       /\ pass.unanswerable \in Seq(CustomersQuestions) /\ pass.retries \subseteq cancelled
  BY <1>8, PassNow
<1>15. CASE Len(pass.batch) = 1
  <2>1. pc' \in Aside  BY <1>15 DEF CommitReceipt, Aside
  <2>2. PassTypes' /\ PassInv'  BY <1>8, <1>12, <1>13, <1>14, <2>1, AsideStep
  <2>3. QED BY <1>8, <2>2 DEF RelayInv
<1>16. CASE Len(pass.batch) # 1
  <2>1. pc' = "commit"  BY <1>16 DEF CommitReceipt
  <2>2. PassTypes'  BY <1>13, <2>1 DEF PassTypes
  <2>3. ItemsInStep'  BY <1>13, <1>14 DEF ItemsInStep
  <2>4. SettledDone'
    <3>1. ASSUME NEW t \in s
          PROVE  charge'[transferCharge(t)] = "charged" \/ t \in Unreadable
      BY <1>6, <1>12, SubjectTypes DEF RelayInv, PassInv, SettledDone
    <3>2. QED BY <1>13, <3>1 DEF SettledDone, transferCharge
  <2>5. BatchInStep'
    <3>1. UNCHANGED receipts  BY <1>7 DEF chain
    <3>2. QED BY <1>10, <1>13, <1>16, <2>1, <3>1 DEF BatchInStep, Recorded
  <2>6. CloseInStep'
    BY <1>7, <1>13, <1>14, <2>1, QuestionsStay DEF CloseInStep, ClosingInStep
  <2>7. QED BY <1>8, <2>2, <2>3, <2>4, <2>5, <2>6 DEF RelayInv, PassInv
<1>17. QED BY <1>15, <1>16

-----------------------------------------------------------------------------
(* The cursors.                                                            *)

\* What a pass has listed is finished, and the customer's.
ListedOwn == \A c \in Customers : pass.listed[c] \subseteq {t \in finished : BelongsTo[t] = c}

\* A cursor moves on, never past what is listed, owed and not settled.
LEMMA NextCursorFacts ==
    ASSUME WorldTypes, PassTypes, ListedOwn, NEW c \in Customers
    PROVE  /\ NextCursor(c) \in Nat /\ cursor[c] \in Nat /\ cursor[c] <= NextCursor(c)
           /\ \/ NextCursor(c) = cursor[c]
              \/ \E u \in pass.listed[c] : NextCursor(c) <= CompletedAt[u]
           /\ \A t \in pass.listed[c] \cap Owed :
                 \/ t \in pass.settled
                 \/ CompletedAt[t] <= cursor[c]
                 \/ NextCursor(c) < CompletedAt[t]
<1> DEFINE undone == {t \in pass.listed[c] \cap Owed : t \notin pass.settled}
           times(T) == {CompletedAt[t] : t \in T}
<1>1. cursor[c] \in Nat  BY DEF WorldTypes
<1>2. pass.listed[c] \subseteq finished /\ finished \subseteq TransferIds /\ IsFiniteSet(pass.listed[c])
  <2>1. pass.listed[c] \subseteq finished /\ finished \subseteq TransferIds /\ IsFiniteSet(finished)
    BY DEF WorldTypes, ListedOwn
  <2>2. QED BY <2>1, FS_Subset
<1>3. \A t \in pass.listed[c] : CompletedAt[t] \in Nat /\ CompletedAt[t] > 0
  BY <1>2, SubjectsAssumption
<1>4. CASE undone # {}
  <2>1. PICK m : m = Min(times(undone))  OBVIOUS
  <2>2. times(undone) \in SUBSET Nat /\ times(undone) # {}  BY <1>3, <1>4
  <2>3. m \in times(undone) /\ \A k \in times(undone) : m <= k
    <3> HIDE DEF times, undone
    <3>1. QED BY <2>1, <2>2, MinNat
  <2>4. PICK u \in undone : m = CompletedAt[u]  BY <2>3
  <2>5. m \in Nat /\ m > 0 /\ m - 1 \in Nat  BY <1>3, <2>4
  <2>6. NextCursor(c) = Max({cursor[c], m - 1})  BY <1>4, <2>1 DEF NextCursor
  <2>7. NextCursor(c) \in {cursor[c], m - 1} /\ cursor[c] <= NextCursor(c)
    <3>1. {cursor[c], m - 1} \in SUBSET Nat /\ {cursor[c], m - 1} # {}  BY <1>1, <2>5
    <3>2. IsFiniteSet({cursor[c], m - 1})
      <4>1. IsFiniteSet({cursor[c]})  BY FS_Singleton
      <4>2. IsFiniteSet({cursor[c]} \cup {m - 1})  BY <4>1, FS_AddElement
      <4>3. {cursor[c], m - 1} = {cursor[c]} \cup {m - 1}  OBVIOUS
      <4>4. QED BY <4>2, <4>3
    <3>3. QED BY <2>6, <3>1, <3>2, MaxNat
  <2>8. NextCursor(c) = cursor[c] \/ \E v \in pass.listed[c] : NextCursor(c) <= CompletedAt[v]
    BY <2>4, <2>5, <2>7
  <2>9. \A t \in pass.listed[c] \cap Owed :
           \/ t \in pass.settled
           \/ CompletedAt[t] <= cursor[c]
           \/ NextCursor(c) < CompletedAt[t]
    <3> TAKE t \in pass.listed[c] \cap Owed
    <3>1. t \notin pass.settled => m <= CompletedAt[t]  BY <2>3
    <3>2. CompletedAt[t] \in Nat  BY <1>3
    <3>3. QED BY <1>1, <2>5, <2>7, <3>1, <3>2
  <2>10. QED BY <1>1, <2>5, <2>7, <2>8, <2>9
<1>5. CASE undone = {}
  <2> DEFINE ends == {cursor[c]} \cup times(pass.listed[c])
  <2>1. NextCursor(c) = Max(ends)  BY <1>5 DEF NextCursor
  <2>2. ends \in SUBSET Nat /\ ends # {}  BY <1>1, <1>3
  <2>3. IsFiniteSet(ends)
    <3>1. [t \in pass.listed[c] |-> CompletedAt[t]] \in Surjection(pass.listed[c], times(pass.listed[c]))
      BY DEF Surjection
    <3>2. IsFiniteSet(times(pass.listed[c]))
      <4> HIDE DEF times
      <4>1. QED BY <1>2, <3>1, FS_Surjection
    <3>3. IsFiniteSet(times(pass.listed[c]) \cup {cursor[c]})
      <4> HIDE DEF times
      <4>1. QED BY <3>2, FS_AddElement
    <3>4. ends = times(pass.listed[c]) \cup {cursor[c]}  OBVIOUS
    <3> HIDE DEF ends, times
    <3>5. QED BY <3>3, <3>4
  <2>4. NextCursor(c) \in ends /\ \A k \in ends : k <= NextCursor(c)
    <3> HIDE DEF ends
    <3>1. QED BY <2>1, <2>2, <2>3, MaxNat
  <2>5. NextCursor(c) \in Nat /\ cursor[c] <= NextCursor(c)  BY <2>2, <2>4
  <2>6. NextCursor(c) = cursor[c] \/ \E v \in pass.listed[c] : NextCursor(c) <= CompletedAt[v]
    <3>1. CASE NextCursor(c) = cursor[c]  BY <3>1
    <3>2. CASE NextCursor(c) # cursor[c]
      <4>1. PICK v \in pass.listed[c] : NextCursor(c) = CompletedAt[v]  BY <2>4, <3>2
      <4>2. NextCursor(c) <= CompletedAt[v]  BY <2>5, <4>1
      <4>3. QED BY <4>2
    <3>3. QED BY <3>1, <3>2
  <2>7. \A t \in pass.listed[c] \cap Owed : t \in pass.settled  BY <1>5
  <2>8. QED BY <1>1, <2>5, <2>6, <2>7
<1>6. QED BY <1>4, <1>5

\* Saving the cursors leaves the requests to close.
LEMMA SaveCursorsStep ==
    ASSUME RelayInv, ListedOwn, SaveCursors
    PROVE  RelayInv' /\ Grown
<1>1. WorldRests /\ UNCHANGED uncommitted /\ UNCHANGED faults
  BY DEF SaveCursors, WorldRests, external, txs
<1>2. cursor' \in [Customers -> Nat]
  <2>1. cursor' = [c \in Customers |-> NextCursor(c)]  BY DEF SaveCursors
  <2>2. \A c \in Customers : NextCursor(c) \in Nat  BY NextCursorFacts DEF RelayInv
  <2>3. QED BY <2>1, <2>2
<1>3. faults' \in 0..MaxFaults  BY <1>1 DEF RelayInv, WorldTypes
<1>4. Chain' /\ WorldTypes' /\ Grown  BY <1>1, <1>2, <1>3, WorldTypesRest DEF RelayInv
<1>5. uncommitted' \subseteq uncommitted  BY <1>1
<1>6. WorldInv'  BY <1>1, <1>5, WorldInvRests DEF RelayInv
<1>7. pass' = [Idle EXCEPT !.unanswerable = pass.unanswerable, !.retries = uncommitted]
  BY DEF SaveCursors
<1>8. pass.unanswerable \in Seq(CustomersQuestions) /\ pass.unanswerable \in Seq(Questions)
  BY ItemSeqs DEF RelayInv, PassInv, CloseInStep
<1>9. uncommitted \subseteq cancelled /\ cancelled \subseteq Contract!Keys
  BY DEF RelayInv, WorldInv, WorldTypes
<1>10. pass' \in Passes  BY <1>7, <1>8, <1>9, IdleType DEF Passes
<1>11. /\ pass'.pending = <<>> /\ pass'.planned = <<>> /\ pass'.settled = {}
       /\ pass'.unanswerable = pass.unanswerable /\ pass'.retries = uncommitted
  BY <1>7 DEF Idle
<1>12. <<>> \in Seq(SoundItems') /\ <<>> \in Seq(Payable')  OBVIOUS
<1>13. pc' \in Aside  BY DEF SaveCursors, Aside
<1>14. PassTypes' /\ PassInv'
  BY <1>4, <1>8, <1>9, <1>10, <1>11, <1>12, <1>13, AsideStep
<1>15. QED BY <1>4, <1>6, <1>14 DEF RelayInv

-----------------------------------------------------------------------------
(* Closing requests.                                                       *)

\* A request that is done with is taken off the list.
LEMMA CloseDoneFacts ==
    ASSUME RelayInv, pass' = CloseDone
    PROVE  /\ pass' \in Passes /\ pass'.unanswerable \in Seq(CustomersQuestions)
           /\ pass'.pending = pass.pending /\ pass'.planned = pass.planned
           /\ pass'.settled = pass.settled /\ pass'.retries = pass.retries
<1>1. pass \in Passes /\ pass.unanswerable \in Seq(CustomersQuestions)
  BY DEF RelayInv, PassTypes, PassInv, CloseInStep
<1>2. PICK S, u : u = Kept(pass.unanswerable, S) /\ pass' = [pass EXCEPT !.unanswerable = u]
  BY DEF CloseDone
<1>3. u \in Seq(CustomersQuestions)
  <2>1. u \in Seq(CustomersQuestions \cap S)  BY <1>1, <1>2, KeptFacts
  <2>2. CustomersQuestions \cap S \subseteq CustomersQuestions  OBVIOUS
  <2>3. QED BY <2>1, <2>2, SeqMonotonic
<1>4. u \in Seq(Questions)  BY <1>3, ItemSeqs
<1>5. QED BY <1>1, <1>2, <1>3, <1>4 DEF Passes

\* The request at the head of the list, and its key.
LEMMA HeadFacts ==
    ASSUME RelayInv, pass.unanswerable # <<>>
    PROVE  /\ Head(pass.unanswerable) \in CustomersQuestions
           /\ ClosingKey \in Contract!Keys
           /\ requestCharge(ClosingKey) \in ChargeSubjects
<1>1. pass.unanswerable \in Seq(CustomersQuestions)
  BY DEF RelayInv, PassInv, CloseInStep
<1>2. Head(pass.unanswerable) \in CustomersQuestions  BY <1>1
<1>3. ClosingKey \in Contract!Keys
  BY <1>2 DEF ClosingKey, CustomersQuestions, Questions
<1>4. QED BY <1>2, <1>3, SubjectTypes

\* A commit owed is for a close that is mined.
LEMMA RetryCommitStep ==
    ASSUME RelayInv, NEW key \in Contract!Keys, RetryCommit(key)
    PROVE  RelayInv' /\ Grown
<1>1. PICK o \in {"charged", "failed"} :
         /\ Commit(requestCharge(key), o)
         /\ uncommitted' \in {uncommitted, uncommitted \ {key}}
  BY DEF RetryCommit
<1>2. /\ key \in pass.retries /\ pc = "close" /\ UNCHANGED pc
      /\ pass' = [pass EXCEPT !.retries = @ \ {key}]
      /\ UNCHANGED <<chain, finished, approved, txs, cursor>>
  BY DEF RetryCommit
<1>3. key \in cancelled  BY <1>2 DEF RelayInv, PassInv, CloseInStep
<1>4. PICK x \in ChargeSubjects : x = requestCharge(key)  BY SubjectTypes
<1>5. Commit(x, o)  BY <1>1, <1>4
<1>6. /\ charge' \in [ChargeSubjects -> {"none", "held", "charged"}]
      /\ faults' \in 0..MaxFaults
      /\ \A y \in ChargeSubjects : charge[y] # "none" => charge'[y] # "none"
      /\ \A y \in ChargeSubjects : charge[y] = "charged" => charge'[y] = "charged"
      /\ \A y \in ChargeSubjects : charge'[y] = "charged" => charge[y] = "charged" \/ y = x
  BY <1>5, CommitFacts DEF RelayInv
<1>7. UNCHANGED <<chain, finished, approved, sent, mined, cancelled, cursor>>
      /\ uncommitted' \subseteq cancelled
  BY <1>1, <1>2 DEF txs, RelayInv, WorldInv
<1>8. Chain' /\ WorldTypes' /\ WorldInv' /\ Grown
  BY <1>3, <1>4, <1>6, <1>7, ChargeMoves
<1>9. /\ pass \in Passes
      /\ pass.pending \in Seq(SoundItems') /\ pass.planned \in Seq(Payable')
      /\ pass.unanswerable \in Seq(CustomersQuestions) /\ pass.retries \subseteq cancelled
  BY <1>8, PassNow
<1>10. /\ pass' \in Passes /\ pass'.pending = pass.pending /\ pass'.planned = pass.planned
       /\ pass'.settled = pass.settled /\ pass'.unanswerable = pass.unanswerable
       /\ pass'.retries \subseteq cancelled
  BY <1>2, <1>9 DEF Passes
<1>11. pc' \in Aside  BY <1>2 DEF Aside
<1>12. PassTypes' /\ PassInv'  BY <1>8, <1>9, <1>10, <1>11, AsideStep
<1>13. QED BY <1>8, <1>12 DEF RelayInv

\* A close is held before it is sent.
LEMMA HoldCloseStep ==
    ASSUME RelayInv, HoldClose
    PROVE  RelayInv' /\ Grown
<1>1. PICK o \in {"held", "charged", "failed"} :
         /\ Reserve(requestCharge(ClosingKey), o)
         /\ IF o = "held" THEN pc' = "cancel" /\ UNCHANGED pass
            ELSE pc' = "close" /\ pass' = CloseDone
  BY DEF HoldClose, ClosingKey
<1>2. pass.unanswerable # <<>> /\ UNCHANGED <<chain, finished, approved, txs, kept>>
  BY DEF HoldClose, Closing
<1>3. PICK x \in ChargeSubjects : x = requestCharge(ClosingKey)  BY <1>2, HeadFacts
<1>4. Reserve(x, o)  BY <1>1, <1>3
<1>5. /\ charge' \in [ChargeSubjects -> {"none", "held", "charged"}]
      /\ faults' \in 0..MaxFaults
      /\ \A y \in ChargeSubjects : charge[y] # "none" => charge'[y] # "none"
      /\ \A y \in ChargeSubjects : charge[y] = "charged" <=> charge'[y] = "charged"
      /\ o = "held" => charge'[x] # "none"
  BY <1>4, ReserveFacts DEF RelayInv
<1>6. UNCHANGED <<chain, finished, approved, sent, mined, cancelled, cursor>>
      /\ uncommitted' \subseteq cancelled
  BY <1>2 DEF txs, kept, RelayInv, WorldInv
<1>7. Chain' /\ WorldTypes' /\ WorldInv' /\ Grown  BY <1>5, <1>6, ChargeMoves
<1>8. /\ pass \in Passes
      /\ pass.pending \in Seq(SoundItems') /\ pass.planned \in Seq(Payable')
      /\ pass.unanswerable \in Seq(CustomersQuestions) /\ pass.retries \subseteq cancelled
  BY <1>7, PassNow
<1>9. CASE o # "held"
  <2>1. pc' \in Aside /\ pass' = CloseDone  BY <1>1, <1>9 DEF Aside
  <2>2. PassTypes' /\ PassInv'  BY <1>7, <1>8, <2>1, CloseDoneFacts, AsideStep
  <2>3. QED BY <1>7, <2>2 DEF RelayInv
<1>10. CASE o = "held"
  <2>1. pc' = "cancel" /\ pass' = pass  BY <1>1, <1>10
  <2>2. PassTypes'  BY <1>8, <2>1 DEF PassTypes
  <2>3. ItemsInStep'  BY <1>8, <2>1 DEF ItemsInStep
  <2>4. SettledDone'
    <3>1. pass.settled \subseteq TransferIds  BY <1>8, PassFields
    <3>2. \A t \in pass.settled : charge'[transferCharge(t)] = "charged" \/ t \in Unreadable
      BY <1>5, <3>1, SubjectTypes DEF RelayInv, PassInv, SettledDone
    <3>3. QED BY <2>1, <3>2 DEF SettledDone, transferCharge
  <2>5. BatchInStep'  BY <2>1 DEF BatchInStep
  <2>6. CloseInStep'
    <3>1. charge'[requestCharge(ClosingKey)] # "none"  BY <1>3, <1>5, <1>10
    <3>2. QED
      BY <1>2, <1>6, <1>8, <2>1, <3>1, QuestionsStay
         DEF CloseInStep, ClosingInStep, Held, ClosingKey, requestCharge
  <2>7. QED BY <1>7, <2>2, <2>3, <2>4, <2>5, <2>6 DEF RelayInv, PassInv
<1>11. QED BY <1>9, <1>10

\* A cancel that is sent is held.
LEMMA CancelRequestStep ==
    ASSUME RelayInv, CancelRequest
    PROVE  RelayInv' /\ Grown
<1>1. PICK q : q = Head(pass.unanswerable)  OBVIOUS
<1>2. PICK tx : tx = [kind |-> "cancel", key |-> q.key, organization |-> q.requester]  OBVIOUS
<1>3. /\ pc = "cancel" /\ pc' = "cancelling" /\ Send(tx)
      /\ UNCHANGED <<chain, external, kept, pass, faults>>
  BY <1>1, <1>2 DEF CancelRequest
<1>4. pass.unanswerable # <<>> /\ Held(requestCharge(ClosingKey))
  BY <1>3 DEF RelayInv, PassInv, CloseInStep, ClosingInStep
<1>5. q \in CustomersQuestions /\ q.key = ClosingKey  BY <1>1, <1>4, HeadFacts DEF ClosingKey
<1>6. tx.kind = "cancel" /\ tx.key = ClosingKey  BY <1>2, <1>5
<1>7. tx \in SoundTxs
  <2>1. tx \in Transactions
    BY <1>2, <1>5 DEF Transactions, CustomersQuestions, Questions
  <2>2. QED BY <1>4, <1>6, <2>1 DEF SoundTxs
<1>8. /\ Chain' /\ WorldTypes' /\ WorldInv' /\ Grown
      /\ sent' # <<>> /\ sent'[Len(sent')] = tx
  <2>1. tx.kind = "report" => Len(tx.entries) <= BatchSize  BY <1>6
  <2>2. QED BY <1>3, <1>7, <2>1, SendFacts
<1>9. UNCHANGED <<charge, finished, cancelled, receipts>>  BY <1>3 DEF external, chain, Send
<1>10. PassTypes'  BY <1>3 DEF RelayInv, PassTypes
<1>11. ItemsInStep' /\ SettledDone'  BY <1>3, <1>9, ListsStay
<1>12. BatchInStep'  BY <1>3 DEF BatchInStep
<1>13. CloseInStep'
  BY <1>3, <1>4, <1>6, <1>8, <1>9, QuestionsStay
     DEF RelayInv, PassInv, CloseInStep, ClosingInStep, Held, ClosingKey, requestCharge
<1>14. QED BY <1>8, <1>10, <1>11, <1>12, <1>13 DEF RelayInv, PassInv

\* A cancel that fails is not charged.
LEMMA CancelFailsStep ==
    ASSUME RelayInv, CancelFails
    PROVE  RelayInv' /\ Grown
<1>1. UNCHANGED <<chain, external, txs, kept>> /\ (Fault \/ UNCHANGED faults)
      /\ pc' = "close" /\ pass' = CloseDone
  BY DEF CancelFails
<1>2. Chain' /\ WorldTypes' /\ Grown /\ WorldInv'  BY <1>1, LocalStep
<1>3. /\ pass.pending \in Seq(SoundItems') /\ pass.planned \in Seq(Payable')
      /\ pass.retries \subseteq cancelled
  BY <1>2, PassNow
<1>4. pc' \in Aside  BY <1>1 DEF Aside
<1>5. PassTypes' /\ PassInv'  BY <1>1, <1>2, <1>3, <1>4, CloseDoneFacts, AsideStep
<1>6. QED BY <1>2, <1>5 DEF RelayInv

\* A cancel waited for with success has taken its key off.
LEMMA CancelledStep ==
    ASSUME RelayInv, Cancelled
    PROVE  RelayInv' /\ Grown
<1>1. UNCHANGED <<chain, external, txs, kept>> /\ UNCHANGED faults /\ UNCHANGED pass
      /\ pc = "cancelling" /\ pc' = "closed" /\ sent = <<>> /\ mined = "success"
  BY DEF Cancelled, Mined
<1>2. Chain' /\ WorldTypes' /\ Grown /\ WorldInv'  BY <1>1, LocalStep
<1>3. UNCHANGED <<charge, finished, cancelled, receipts>>  BY <1>1 DEF external, txs, chain
<1>4. PassTypes'  BY <1>1 DEF RelayInv, PassTypes
<1>5. ItemsInStep' /\ SettledDone'  BY <1>1, <1>3, ListsStay
<1>6. BatchInStep'  BY <1>1 DEF BatchInStep
<1>7. CloseInStep'
  BY <1>1, <1>3, QuestionsStay
     DEF RelayInv, PassInv, CloseInStep, ClosingInStep, ClosingKey, Held, requestCharge
<1>8. QED BY <1>2, <1>4, <1>5, <1>6, <1>7 DEF RelayInv, PassInv

\* What is charged for a close is mined.
LEMMA CommitCloseStep ==
    ASSUME RelayInv, CommitClose
    PROVE  RelayInv' /\ Grown
<1>1. PICK o \in {"charged", "failed"} :
         /\ Commit(requestCharge(ClosingKey), o)
         /\ uncommitted' = IF o = "failed" THEN uncommitted \cup {ClosingKey} ELSE uncommitted
  BY DEF CommitClose, ClosingKey
<1>2. /\ pc = "closed" /\ pc' = "close" /\ pass' = CloseDone
      /\ UNCHANGED <<chain, finished, approved, txs, cursor>>
  BY DEF CommitClose
<1>3. pass.unanswerable # <<>> /\ ClosingKey \in cancelled
  BY <1>2 DEF RelayInv, PassInv, CloseInStep, ClosingInStep
<1>4. PICK x \in ChargeSubjects : x = requestCharge(ClosingKey)  BY <1>3, HeadFacts
<1>5. Commit(x, o)  BY <1>1, <1>4
<1>6. /\ charge' \in [ChargeSubjects -> {"none", "held", "charged"}]
      /\ faults' \in 0..MaxFaults
      /\ \A y \in ChargeSubjects : charge[y] # "none" => charge'[y] # "none"
      /\ \A y \in ChargeSubjects : charge[y] = "charged" => charge'[y] = "charged"
      /\ \A y \in ChargeSubjects : charge'[y] = "charged" => charge[y] = "charged" \/ y = x
  BY <1>5, CommitFacts DEF RelayInv
<1>7. UNCHANGED <<chain, finished, approved, sent, mined, cancelled, cursor>>
      /\ uncommitted' \subseteq cancelled
  BY <1>1, <1>2, <1>3 DEF txs, RelayInv, WorldInv
<1>8. Chain' /\ WorldTypes' /\ WorldInv' /\ Grown
  BY <1>3, <1>4, <1>6, <1>7, ChargeMoves
<1>9. /\ pass.pending \in Seq(SoundItems') /\ pass.planned \in Seq(Payable')
      /\ pass.retries \subseteq cancelled
  BY <1>8, PassNow
<1>10. pc' \in Aside  BY <1>2 DEF Aside
<1>11. PassTypes' /\ PassInv'  BY <1>2, <1>8, <1>9, <1>10, CloseDoneFacts, AsideStep
<1>12. QED BY <1>8, <1>11 DEF RelayInv

-----------------------------------------------------------------------------
(* The chain and the world, while the pass stands still.                   *)

CancelInStep(txsNow, minedNow, cancelledNow) ==
    IF txsNow = <<>> THEN minedNow = "success" => ClosingKey \in cancelledNow
    ELSE txsNow[Len(txsNow)].kind = "cancel" /\ txsNow[Len(txsNow)].key = ClosingKey

\* The pass's part of the invariant, in a step in which the pass stands still.
LEMMA PassKept ==
    ASSUME RelayInv, Grown, UNCHANGED local,
           \A item \in Items :
              OnItsWay(item) => OnItsWay(item)' \/ receipts'[item.transfer] # None,
           pc = "cancelling" => CancelInStep(sent', mined', cancelled')
    PROVE  PassTypes' /\ PassInv'
<1>1. UNCHANGED <<pc, pass>>  BY DEF local
<1>2. PassTypes'  BY <1>1 DEF RelayInv, PassTypes
<1>3. /\ pass \in Passes
      /\ pass.pending \in Seq(SoundItems') /\ pass.planned \in Seq(Payable')
      /\ pass.unanswerable \in Seq(CustomersQuestions) /\ pass.retries \subseteq cancelled
  BY PassNow
<1>4. ItemsInStep'  BY <1>1, <1>3 DEF ItemsInStep
<1>5. SettledDone'
  <2>1. pass.settled \subseteq TransferIds  BY <1>3, PassFields
  <2>2. \A t \in pass.settled : charge'[transferCharge(t)] = "charged" \/ t \in Unreadable
    BY <2>1, SubjectTypes DEF RelayInv, PassInv, SettledDone, Grown
  <2>3. QED BY <1>1, <2>2 DEF SettledDone, transferCharge
<1>6. BatchInStep'
  <2>1. \A i \in DOMAIN pass.batch : pass.batch[i] \in Items /\ pass.batch[i].transfer \in TransferIds
    <3>1. pass.batch \in Seq(Items)  BY <1>3, PassFields
    <3>2. \A item \in Items : item.transfer \in TransferIds  BY DEF Items
    <3>3. QED BY <3>1, <3>2
  <2>2. pc \in {"wait", "commit"} => pass.batch # <<>>
    BY DEF RelayInv, PassInv, BatchInStep
  <2>3. ASSUME pc = "wait", NEW i \in DOMAIN pass.batch
        PROVE  receipts'[pass.batch[i].transfer] # None \/ OnItsWay(pass.batch[i])'
    <3>1. receipts[pass.batch[i].transfer] # None \/ OnItsWay(pass.batch[i])
      BY <2>3 DEF RelayInv, PassInv, BatchInStep, Recorded
    <3>2. PICK b \in Items : b = pass.batch[i]  BY <2>1, <2>3
    <3>3. b.transfer \in TransferIds  BY <2>1, <2>3, <3>2
    <3>4. OnItsWay(b) => OnItsWay(b)' \/ receipts'[b.transfer] # None  BY <3>2
    <3>5. receipts[b.transfer] # None => receipts'[b.transfer] # None  BY <3>3 DEF Grown
    <3>6. QED BY <1>1, <3>1, <3>2, <3>4, <3>5 DEF OnItsWay
  <2>4. ASSUME pc = "commit", NEW i \in DOMAIN pass.batch
        PROVE  receipts'[pass.batch[i].transfer] # None
    BY <2>1, <2>4 DEF RelayInv, PassInv, BatchInStep, Recorded, Grown
  <2>5. QED BY <1>1, <2>2, <2>3, <2>4 DEF BatchInStep, Recorded
<1>7. CloseInStep'
  <2>1. pc \in {"cancel", "cancelling", "closed"} =>
           pass.unanswerable # <<>> /\ charge'[requestCharge(ClosingKey)] # "none"
    BY HeadFacts DEF RelayInv, PassInv, CloseInStep, ClosingInStep, Held, Grown
  <2>2. pc = "closed" => ClosingKey \in cancelled'
    BY DEF RelayInv, PassInv, CloseInStep, ClosingInStep, Grown
  <2>3. pass.retries \subseteq cancelled'  BY <1>3 DEF Grown
  <2>4. QED
    BY <1>1, <1>3, <2>1, <2>2, <2>3, QuestionsStay
       DEF CloseInStep, ClosingInStep, Held, ClosingKey, requestCharge, CancelInStep
<1>8. QED BY <1>2, <1>4, <1>5, <1>6, <1>7 DEF PassInv

\* The world's steps.
LEMMA WorldStep ==
    ASSUME RelayInv, World
    PROVE  RelayInv' /\ Grown
<1>1. UNCHANGED <<txs, kept, local, faults>>  BY DEF World, Ask, Withdraw, Finish, Revoke, Disallow
<1>2. /\ Chain' /\ UNCHANGED receipts /\ UNCHANGED charge
      /\ finished \subseteq finished' /\ finished' \subseteq TransferIds /\ IsFiniteSet(finished')
      /\ approved' \subseteq Customers
  <2>0. /\ Chain /\ finished \subseteq TransferIds /\ IsFiniteSet(finished)
        /\ approved \subseteq Customers
    BY DEF RelayInv, WorldTypes
  <2>1. ASSUME NEW a \in Accounts, NEW key \in Contract!Keys, Ask(a, key) \/ Withdraw(a, key)
        PROVE  Chain' /\ UNCHANGED receipts /\ UNCHANGED <<finished, charge, approved>>
    <3>1. UNCHANGED <<finished, charge, approved>>  BY <2>1 DEF Ask, Withdraw, external
    <3>2. CASE Ask(a, key)  BY <2>0, <3>1, <3>2, AskStep
    <3>3. CASE Withdraw(a, key)
      <4>1. Contract!CancelRequest(a, key)  BY <3>3 DEF Withdraw
      <4>2. QED BY <2>0, <3>1, <4>1, CancelStep
    <3>4. QED BY <2>1, <3>2, <3>3
  <2>2. ASSUME NEW t \in TransferIds, Finish(t)
        PROVE  /\ Chain' /\ UNCHANGED receipts /\ UNCHANGED <<charge, approved>>
               /\ finished' = finished \cup {t} /\ IsFiniteSet(finished')
    <3>1. /\ UNCHANGED chain /\ UNCHANGED <<charge, approved>> /\ finished' = finished \cup {t}
      BY <2>2 DEF Finish
    <3>2. Chain' /\ UNCHANGED receipts  BY <2>0, <3>1, ChainRests DEF chain
    <3>3. IsFiniteSet(finished \cup {t})  BY <2>0, FS_AddElement
    <3>4. QED BY <3>1, <3>2, <3>3
  <2>3. ASSUME NEW c \in Customers, Revoke(c)
        PROVE  /\ Chain' /\ UNCHANGED receipts /\ UNCHANGED <<charge, finished>>
               /\ approved' \subseteq approved
    <3>1. UNCHANGED chain /\ UNCHANGED <<charge, finished>> /\ approved' = approved \ {c}
      BY <2>3 DEF Revoke
    <3>2. Chain' /\ UNCHANGED receipts  BY <2>0, <3>1, ChainRests DEF chain
    <3>3. QED BY <3>1, <3>2
  <2>4. ASSUME NEW c \in Customers, Disallow(c)
        PROVE  Chain' /\ UNCHANGED receipts /\ UNCHANGED <<finished, charge, approved>>
    <3>1. Contract!SetRequester(c, FALSE) /\ UNCHANGED <<finished, charge, approved>>
      BY <2>4 DEF Disallow, external
    <3>2. QED BY <2>0, <3>1, DisallowStep
  <2>5. QED BY <2>0, <2>1, <2>2, <2>3, <2>4 DEF World
<1>3. UNCHANGED <<sent, mined, cancelled, cursor, uncommitted>>  BY <1>1 DEF txs, kept
<1>4. WorldTypes'  BY <1>1, <1>2, <1>3 DEF RelayInv, WorldTypes
<1>5. Grown  BY <1>2, <1>3 DEF Grown
<1>6. SentHeld'  BY <1>3, <1>5, SeqsGrow DEF RelayInv, WorldInv, SentHeld
<1>7. WorldInv'
  BY <1>2, <1>3, <1>6
     DEF RelayInv, WorldInv, DoneHeld, ChargedForEffect, Held, transferCharge, requestCharge
<1>8. PassTypes' /\ PassInv'
  <2>1. \A item \in Items : OnItsWay(item) => OnItsWay(item)'  BY <1>3 DEF OnItsWay
  <2>2. pc = "cancelling" => CancelInStep(sent', mined', cancelled')
    BY <1>3 DEF RelayInv, PassInv, CloseInStep, ClosingInStep, CancelInStep
  <2>3. QED BY <1>1, <1>5, <2>1, <2>2, PassKept
<1>9. QED BY <1>2, <1>4, <1>5, <1>7, <1>8 DEF RelayInv

\* The transaction that is mined leaves the queue.
LEMMA TailFacts ==
    ASSUME RelayInv, sent # <<>>, sent' = Tail(sent)
    PROVE  /\ sent' \in Seq(SoundTxs) /\ Head(sent) \in SoundTxs /\ Head(sent) = sent[1]
           /\ \A i \in DOMAIN sent' : sent'[i].kind = "report" => Len(sent'[i].entries) <= BatchSize
           /\ sent' # <<>> => sent'[Len(sent')] = sent[Len(sent)]
           /\ sent' = <<>> => Head(sent) = sent[Len(sent)]
<1>1. sent \in Seq(SoundTxs)  BY DEF RelayInv, WorldInv, SentHeld
<1>2. Head(sent) = sent[1] /\ Head(sent) \in SoundTxs  BY <1>1
<1>3. PICK n \in Nat : n = Len(sent) /\ n >= 1
  <2>1. Len(sent) \in Nat /\ Len(sent) # 0  BY <1>1
  <2>2. QED BY <2>1
<1>4. /\ sent' \in Seq(SoundTxs) /\ Len(sent') = n - 1
      /\ \A i \in 1..(n - 1) : sent'[i] = sent[i + 1] /\ i + 1 \in DOMAIN sent
  BY <1>1, <1>3
<1>5. \A i \in DOMAIN sent' : sent'[i].kind = "report" => Len(sent'[i].entries) <= BatchSize
  <2> TAKE i \in DOMAIN sent'
  <2>1. i \in 1..(n - 1)  BY <1>4
  <2>2. sent'[i] = sent[i + 1] /\ i + 1 \in DOMAIN sent  BY <1>4, <2>1
  <2>3. QED BY <2>2 DEF RelayInv, WorldTypes
<1>6. sent' # <<>> => sent'[Len(sent')] = sent[Len(sent)]
  <2>1. SUFFICES ASSUME sent' # <<>> PROVE sent'[n - 1] = sent[n]  BY <1>3, <1>4
  <2>2. n - 1 # 0  BY <1>4, <2>1
  <2>3. n - 1 \in 1..(n - 1) /\ (n - 1) + 1 = n  BY <1>3, <2>2
  <2>4. sent'[n - 1] = sent[(n - 1) + 1]  BY <1>4, <2>3
  <2>5. QED BY <2>3, <2>4
<1>7. sent' = <<>> => Head(sent) = sent[Len(sent)]
  <2>1. PICK m : m = sent'  OBVIOUS
  <2>2. m = <<>> => Len(m) = 0  OBVIOUS
  <2>3. m = <<>> => n = 1  BY <1>3, <1>4, <2>1, <2>2
  <2>4. QED BY <1>2, <1>3, <2>1, <2>3
<1>8. QED BY <1>2, <1>4, <1>5, <1>6, <1>7

\* The end of a mined report.
LEMMA MineReportStep ==
    ASSUME RelayInv, MineReport
    PROVE  RelayInv' /\ Grown
<1>1. /\ sent # <<>> /\ Head(sent).kind = "report" /\ Head(sent).entries = <<>>
      /\ Contract!EndReport /\ sent' = Tail(sent) /\ mined' = "success"
      /\ UNCHANGED <<finished, charge, approved, cancelled, cursor, uncommitted, local, faults>>
  BY DEF MineReport, external, kept
<1>2. Chain' /\ UNCHANGED receipts  BY <1>1, EndReportStep DEF RelayInv
<1>3. /\ sent' \in Seq(SoundTxs) /\ Head(sent) \in SoundTxs /\ Head(sent) = sent[1]
      /\ \A i \in DOMAIN sent' : sent'[i].kind = "report" => Len(sent'[i].entries) <= BatchSize
      /\ sent' # <<>> => sent'[Len(sent')] = sent[Len(sent)]
      /\ sent' = <<>> => Head(sent) = sent[Len(sent)]
  BY <1>1, TailFacts
<1>4. WorldTypes'  BY <1>1, <1>3 DEF RelayInv, WorldTypes
<1>5. Grown  BY <1>1, <1>2, RestsGrown
<1>6. SentHeld'  BY <1>3, <1>5, SeqsGrow DEF SentHeld
<1>7. WorldInv'
  BY <1>1, <1>2, <1>6
     DEF RelayInv, WorldInv, DoneHeld, ChargedForEffect, Held, transferCharge, requestCharge
<1>8. \A item \in Items : OnItsWay(item) => OnItsWay(item)'
  <2> TAKE item \in Items
  <2>1. SUFFICES ASSUME OnItsWay(item) PROVE OnItsWay(item)'  OBVIOUS
  <2>2. sent' # <<>>
    <3>1. SUFFICES ASSUME sent' = <<>> PROVE FALSE  OBVIOUS
    <3>2. \E j \in DOMAIN Head(sent).entries : TRUE  BY <1>3, <2>1, <3>1 DEF OnItsWay
    <3>3. QED BY <1>1, <3>2
  <2>3. QED BY <1>3, <2>1, <2>2 DEF OnItsWay
<1>9. pc = "cancelling" => CancelInStep(sent', mined', cancelled')
  <2>1. SUFFICES ASSUME pc = "cancelling" PROVE CancelInStep(sent', mined', cancelled')  OBVIOUS
  <2>2. sent[Len(sent)].kind = "cancel" /\ sent[Len(sent)].key = ClosingKey
    BY <1>1, <2>1 DEF RelayInv, PassInv, CloseInStep, ClosingInStep
  <2>3. sent' # <<>>  BY <1>1, <1>3, <2>2
  <2>4. QED BY <1>3, <2>2, <2>3 DEF CancelInStep
<1>10. PassTypes' /\ PassInv'  BY <1>1, <1>5, <1>8, <1>9, PassKept
<1>11. QED BY <1>2, <1>4, <1>5, <1>7, <1>10 DEF RelayInv

\* A cancel that is mined, or reverts.
LEMMA MineCancelStep ==
    ASSUME RelayInv, MineCancel
    PROVE  RelayInv' /\ Grown
<1>1. /\ sent # <<>> /\ Head(sent).kind = "cancel" /\ sent' = Tail(sent)
      /\ UNCHANGED <<finished, charge, approved, cursor, uncommitted, local, faults>>
      /\ \/ /\ Contract!CancelRequest(RelayAccount, Head(sent).key)
            /\ mined' = "success" /\ cancelled' = cancelled \cup {Head(sent).key}
         \/ mined' = "reverted" /\ UNCHANGED <<chain, cancelled>>
  BY DEF MineCancel, external, kept
<1>2. /\ sent' \in Seq(SoundTxs) /\ Head(sent) \in SoundTxs /\ Head(sent) = sent[1]
      /\ \A i \in DOMAIN sent' : sent'[i].kind = "report" => Len(sent'[i].entries) <= BatchSize
      /\ sent' # <<>> => sent'[Len(sent')] = sent[Len(sent)]
      /\ sent' = <<>> => Head(sent) = sent[Len(sent)]
  BY <1>1, TailFacts
<1>3. PICK key \in Contract!Keys : key = Head(sent).key /\ Held(requestCharge(key))
  BY <1>1, <1>2 DEF SoundTxs, Transactions
<1>4. /\ Chain' /\ UNCHANGED receipts
      /\ cancelled \subseteq cancelled' /\ cancelled' \subseteq cancelled \cup {key}
  <2>1. CASE Contract!CancelRequest(RelayAccount, Head(sent).key) /\ cancelled' = cancelled \cup {Head(sent).key}
    <3>1. Contract!CancelRequest(RelayAccount, key)  BY <1>3, <2>1
    <3>2. Chain' /\ UNCHANGED receipts  BY <3>1, PartiesAssumption, CancelStep DEF RelayInv
    <3>3. QED BY <1>3, <2>1, <3>2
  <2>2. CASE UNCHANGED <<chain, cancelled>>
    <3>1. Chain' /\ UNCHANGED receipts  BY <2>2, ChainRests DEF RelayInv, chain
    <3>2. QED BY <2>2, <3>1
  <2>3. QED BY <1>1, <2>1, <2>2
<1>5. WorldTypes'  BY <1>1, <1>2, <1>4 DEF RelayInv, WorldTypes
<1>6. Grown  BY <1>1, <1>4 DEF Grown
<1>7. SentHeld'  BY <1>2, <1>6, SeqsGrow DEF SentHeld
<1>8. WorldInv'
  <2>1. \A k \in cancelled' : charge[requestCharge(k)] # "none"
    BY <1>3, <1>4 DEF RelayInv, WorldInv, DoneHeld, Held
  <2>2. DoneHeld'
    BY <1>1, <1>4, <2>1 DEF RelayInv, WorldInv, DoneHeld, Held, transferCharge, requestCharge
  <2>3. ChargedForEffect'
    BY <1>1, <1>4 DEF RelayInv, WorldInv, ChargedForEffect, transferCharge, requestCharge,
       Contract!Keys, Contract!transferRequestKey, Contract!receiptRequestKey, Contract!roomRequestKey
  <2>4. uncommitted' \subseteq cancelled'  BY <1>1, <1>4 DEF RelayInv, WorldInv
  <2>5. QED BY <1>7, <2>2, <2>3, <2>4 DEF WorldInv
<1>9. \A item \in Items : OnItsWay(item) => OnItsWay(item)'
  <2> TAKE item \in Items
  <2>1. SUFFICES ASSUME OnItsWay(item) PROVE OnItsWay(item)'  OBVIOUS
  <2>2. sent' # <<>>  BY <1>1, <1>2, <2>1 DEF OnItsWay
  <2>3. QED BY <1>2, <2>1, <2>2 DEF OnItsWay
<1>10. pc = "cancelling" => CancelInStep(sent', mined', cancelled')
  <2>1. SUFFICES ASSUME pc = "cancelling" PROVE CancelInStep(sent', mined', cancelled')  OBVIOUS
  <2>2. sent[Len(sent)].kind = "cancel" /\ sent[Len(sent)].key = ClosingKey
    BY <1>1, <2>1 DEF RelayInv, PassInv, CloseInStep, ClosingInStep
  <2>3. CASE sent' # <<>>  BY <1>2, <2>2, <2>3 DEF CancelInStep
  <2>4. CASE sent' = <<>>
    <3>1. Head(sent).key = ClosingKey  BY <1>2, <2>2, <2>4
    <3>2. mined' = "success" => Head(sent).key \in cancelled'  BY <1>1
    <3>3. QED BY <2>4, <3>1, <3>2 DEF CancelInStep
  <2>5. QED BY <2>3, <2>4
<1>11. PassTypes' /\ PassInv'  BY <1>1, <1>6, <1>9, <1>10, PassKept
<1>12. QED BY <1>4, <1>5, <1>6, <1>8, <1>11 DEF RelayInv

\* The first entry of the first transaction leaves it.
LEMMA EntryFacts ==
    ASSUME RelayInv, sent # <<>>, Head(sent).kind = "report", Head(sent).entries # <<>>,
           sent' = [sent EXCEPT ![1].entries = Tail(@)]
    PROVE  /\ Head(Head(sent).entries) \in Payable
           /\ sent' \in Seq(SoundTxs)
           /\ \A i \in DOMAIN sent' : sent'[i].kind = "report" => Len(sent'[i].entries) <= BatchSize
           /\ \A item : OnItsWay(item) => OnItsWay(item)' \/ item = Head(Head(sent).entries)
           /\ sent' # <<>> /\ sent'[Len(sent')].kind = sent[Len(sent)].kind
           /\ sent[Len(sent)].kind = "cancel" => sent'[Len(sent')] = sent[Len(sent)]
<1>1. /\ sent \in Seq(SoundTxs)
      /\ \A i \in DOMAIN sent : sent[i].kind = "report" => Len(sent[i].entries) <= BatchSize
  BY DEF RelayInv, WorldInv, SentHeld, WorldTypes
<1>2. PICK tx \in SoundTxs : tx = sent[1] /\ tx = Head(sent)  BY <1>1
<1>3. tx.kind = "report" /\ tx.entries \in Seq(Payable) /\ tx.entries # <<>> /\ tx \in Transactions
  BY <1>2 DEF SoundTxs
<1>4. PICK rest : rest = Tail(tx.entries)  OBVIOUS
<1>5. /\ rest \in Seq(Payable) /\ Head(tx.entries) \in Payable
      /\ Len(rest) = Len(tx.entries) - 1
      /\ \A j \in 1..Len(rest) : rest[j] = tx.entries[j + 1]
  BY <1>3, <1>4
<1>6. PICK new : new = [tx EXCEPT !.entries = rest]  OBVIOUS
<1>7. tx = [kind |-> "report", entries |-> tx.entries]
  BY <1>3 DEF Transactions
<1>8. new = [kind |-> "report", entries |-> rest]  BY <1>6, <1>7
<1>9. new.kind = "report" /\ new.entries = rest  BY <1>8
<1>10. new \in SoundTxs
  <2>1. rest \in Seq(Items)  BY <1>5, ItemSeqs
  <2>2. new \in Transactions  BY <1>8, <2>1 DEF Transactions
  <2>3. QED BY <1>5, <1>9, <2>2 DEF SoundTxs
<1>11. sent' = [sent EXCEPT ![1] = new]  BY <1>2, <1>4, <1>6
<1>12. PICK n \in Nat : n = Len(sent) /\ n >= 1
  <2>1. Len(sent) \in Nat /\ Len(sent) # 0  BY <1>1
  <2>2. QED BY <2>1
<1>13. /\ sent' \in Seq(SoundTxs) /\ Len(sent') = n /\ sent'[1] = new
       /\ \A i \in 1..n : i # 1 => sent'[i] = sent[i]
  <2>1. 1 \in 1..Len(sent)  BY <1>12
  <2>2. /\ [sent EXCEPT ![1] = new] \in Seq(SoundTxs)
        /\ Len([sent EXCEPT ![1] = new]) = Len(sent)
    BY <1>1, <1>10, <2>1, ExceptSeq
  <2>3. sent' \in Seq(SoundTxs) /\ Len(sent') = n  BY <1>11, <1>12, <2>2
  <2>4. DOMAIN sent = 1..n  BY <1>1, <1>12
  <2>5. sent'[1] = new /\ \A i \in 1..n : i # 1 => sent'[i] = sent[i]
    BY <1>11, <1>12, <2>4
  <2>6. QED BY <2>3, <2>5
<1>14. \A i \in DOMAIN sent' : sent'[i].kind = "report" => Len(sent'[i].entries) <= BatchSize
  <2> TAKE i \in DOMAIN sent'
  <2>1. i \in 1..n /\ i \in DOMAIN sent  BY <1>12, <1>13, <1>1
  <2>2. CASE i # 1  BY <1>1, <1>13, <2>1, <2>2
  <2>3. CASE i = 1
    <3>1. Len(tx.entries) <= BatchSize  BY <1>1, <1>2, <1>3, <2>1, <2>3
    <3>2. Len(tx.entries) \in Nat /\ BatchSize \in Nat  BY <1>3, LimitsAssumption
    <3>3. Len(rest) <= BatchSize  BY <1>5, <3>1, <3>2
    <3>4. QED BY <1>9, <1>13, <2>3, <3>3
  <2>4. QED BY <2>2, <2>3
<1>15. \A item : OnItsWay(item) => OnItsWay(item)' \/ item = Head(Head(sent).entries)
  <2> TAKE item
  <2>1. SUFFICES ASSUME OnItsWay(item) PROVE OnItsWay(item)' \/ item = Head(tx.entries)
    BY <1>2
  <2>2. /\ sent[n].kind = "report"
        /\ \E j \in DOMAIN sent[n].entries : sent[n].entries[j] = item
    BY <1>12, <2>1 DEF OnItsWay
  <2>3. sent' # <<>>
    <3>1. PICK m : m = sent'  OBVIOUS
    <3>2. m = <<>> => Len(m) = 0  OBVIOUS
    <3>3. QED BY <1>12, <1>13, <3>1, <3>2
  <2>4. CASE n # 1
    <3>1. sent'[n] = sent[n]  BY <1>12, <1>13, <2>4
    <3>2. QED BY <1>13, <2>2, <2>3, <3>1, ZenonT(40) DEF OnItsWay
  <2>5. CASE n = 1
    <3>1. PICK j \in DOMAIN tx.entries : tx.entries[j] = item  BY <1>2, <2>2, <2>5
    <3>2. CASE j = 1  BY <1>3, <3>1, <3>2
    <3>3. CASE j # 1
      <4>1. j - 1 \in 1..Len(rest) /\ (j - 1) + 1 = j  BY <1>3, <1>5, <3>1, <3>3
      <4>2. rest[j - 1] = item /\ j - 1 \in DOMAIN rest  BY <1>5, <3>1, <4>1
      <4>3. QED BY <1>9, <1>13, <2>3, <2>5, <4>2 DEF OnItsWay
    <3>4. QED BY <3>2, <3>3
  <2>6. QED BY <2>4, <2>5
<1>16. sent' # <<>> /\ sent'[Len(sent')].kind = sent[Len(sent)].kind
  <2>1. PICK m : m = sent'  OBVIOUS
  <2>2. m = <<>> => Len(m) = 0  OBVIOUS
  <2>3. sent' # <<>>  BY <1>12, <1>13, <2>1, <2>2
  <2>4. sent'[n].kind = sent[n].kind  BY <1>2, <1>3, <1>9, <1>12, <1>13
  <2>5. QED BY <1>12, <1>13, <2>3, <2>4
<1>17. sent[Len(sent)].kind = "cancel" => sent'[Len(sent')] = sent[Len(sent)]
  <2>1. SUFFICES ASSUME sent[n].kind = "cancel" PROVE sent'[n] = sent[n]  BY <1>12, <1>13
  <2>2. n # 1  BY <1>2, <1>3, <2>1
  <2>3. QED BY <1>12, <1>13, <2>2
<1>18. QED BY <1>2, <1>5, <1>13, <1>14, <1>15, <1>16, <1>17

\* An entry of a report that is mined.
LEMMA MineEntryStep ==
    ASSUME RelayInv, MineEntry
    PROVE  RelayInv' /\ Grown
<1>1. /\ sent # <<>> /\ Head(sent).kind = "report" /\ Head(sent).entries # <<>>
      /\ sent' = [sent EXCEPT ![1].entries = Tail(@)]
      /\ UNCHANGED <<finished, charge, approved, mined, cancelled, cursor, uncommitted, local, faults>>
  BY DEF MineEntry, external, kept
<1>2. PICK item : item = Head(Head(sent).entries)  OBVIOUS
<1>3. /\ item \in Payable
      /\ sent' \in Seq(SoundTxs)
      /\ \A i \in DOMAIN sent' : sent'[i].kind = "report" => Len(sent'[i].entries) <= BatchSize
      /\ \A b : OnItsWay(b) => OnItsWay(b)' \/ b = item
      /\ sent' # <<>> /\ sent'[Len(sent')].kind = sent[Len(sent)].kind
      /\ sent[Len(sent)].kind = "cancel" => sent'[Len(sent')] = sent[Len(sent)]
  BY <1>1, <1>2, EntryFacts
<1>4. item \in Items /\ item.transfer \in TransferIds  BY <1>3 DEF Payable, Items
<1>5. Contract!RecordReceipt([transferId |-> item.transfer,
                              requestId |-> item.requestId, status |-> "Completed"])
  BY <1>2 DEF MineEntry
<1>6. /\ Chain' /\ RecordsStay
      /\ receipts'[item.transfer] # None
      /\ \A t \in TransferIds : receipts'[t] # None => receipts[t] # None \/ t = item.transfer
  BY <1>4, <1>5, RecordStep DEF RelayInv
<1>7. WorldTypes'  BY <1>1, <1>3 DEF RelayInv, WorldTypes
<1>8. Grown  BY <1>1, <1>6 DEF Grown, RecordsStay
<1>9. SentHeld'  BY <1>3, <1>8, SeqsGrow DEF SentHeld
<1>10. WorldInv'
  <2>1. \A t \in TransferIds : BelongsTo[t] \in Customers /\ receipts'[t] # None =>
           charge[transferCharge(t)] # "none"
    <3> TAKE t \in TransferIds
    <3>1. CASE t = item.transfer
      BY <1>3, <3>1 DEF Payable, Sees, IsCustomers, Held
    <3>2. CASE t # item.transfer
      BY <1>6, <3>2 DEF RelayInv, WorldInv, DoneHeld, Held
    <3>3. QED BY <3>1, <3>2
  <2>2. DoneHeld'
    BY <1>1, <2>1 DEF RelayInv, WorldInv, DoneHeld, Held, transferCharge, requestCharge
  <2>3. ChargedForEffect'
    BY <1>1, <1>6 DEF RelayInv, WorldInv, ChargedForEffect, RecordsStay, transferCharge,
       requestCharge, Contract!Keys, Contract!transferRequestKey, Contract!receiptRequestKey,
       Contract!roomRequestKey
  <2>4. uncommitted' \subseteq cancelled'  BY <1>1 DEF RelayInv, WorldInv
  <2>5. QED BY <1>9, <2>2, <2>3, <2>4 DEF WorldInv
<1>11. \A b \in Items : OnItsWay(b) => OnItsWay(b)' \/ receipts'[b.transfer] # None
  BY <1>3, <1>6
<1>12. pc = "cancelling" => CancelInStep(sent', mined', cancelled')
  BY <1>1, <1>3 DEF RelayInv, PassInv, CloseInStep, ClosingInStep, CancelInStep
<1>13. PassTypes' /\ PassInv'  BY <1>1, <1>8, <1>11, <1>12, PassKept
<1>14. QED BY <1>6, <1>7, <1>8, <1>10, <1>13 DEF RelayInv

-----------------------------------------------------------------------------
(* The invariant.                                                          *)

\* Every step keeps the invariant, and takes nothing back.
LEMMA RelayInvStep ==
    ASSUME RelayInv, ListedOwn, [Next]_vars
    PROVE  RelayInv' /\ Grown
<1>1. CASE RelayStep
  <2>1. CASE StartPass \/ CountRequests \/ EndPass  BY <2>1, StartsStep
  <2>2. CASE ReadPage \/ AllRead \/ \E c \in Customers : List(c) \/ ListFails(c)
    BY <2>2, ReadStep
  <2>3. CASE LookUpNothing \/ LookUpFails \/ PlanOwn  BY <2>3, LookStep
  <2>4. CASE PlanCustomers  BY <2>4, PlanCustomersStep
  <2>5. CASE WriteReport  BY <2>5, WriteReportStep
  <2>6. CASE WriteFails \/ AllWritten  BY <2>6, WriteEndsStep
  <2>7. CASE Written  BY <2>7, WrittenStep
  <2>8. CASE CommitReceipt  BY <2>8, CommitReceiptStep
  <2>9. CASE SaveCursors  BY <2>9, SaveCursorsStep
  <2>10. CASE \E key \in Contract!Keys : RetryCommit(key)  BY <2>10, RetryCommitStep
  <2>11. CASE HoldClose  BY <2>11, HoldCloseStep
  <2>12. CASE CancelRequest  BY <2>12, CancelRequestStep
  <2>13. CASE CancelFails  BY <2>13, CancelFailsStep
  <2>14. CASE Cancelled  BY <2>14, CancelledStep
  <2>15. CASE CommitClose  BY <2>15, CommitCloseStep
  <2>16. QED
    BY <1>1, <2>1, <2>2, <2>3, <2>4, <2>5, <2>6, <2>7, <2>8, <2>9, <2>10, <2>11, <2>12, <2>13,
       <2>14, <2>15
       DEF RelayStep
<1>2. CASE PassFails \/ Crash  BY <1>2, StartsStep
<1>3. CASE Mine  BY <1>3, MineEntryStep, MineReportStep, MineCancelStep DEF Mine
<1>4. CASE World  BY <1>4, WorldStep
<1>5. CASE UNCHANGED vars
  <2>1. UNCHANGED <<chain, external, txs, kept, local, faults>>  BY <1>5 DEF vars
  <2>2. Chain' /\ WorldTypes' /\ Grown /\ WorldInv'  BY <2>1, LocalStep
  <2>3. UNCHANGED <<sent, mined, cancelled>>  BY <2>1 DEF txs
  <2>4. \A item \in Items : OnItsWay(item) => OnItsWay(item)'  BY <2>3 DEF OnItsWay
  <2>5. pc = "cancelling" => CancelInStep(sent', mined', cancelled')
    BY <2>3 DEF RelayInv, PassInv, CloseInStep, ClosingInStep, CancelInStep
  <2>6. PassTypes' /\ PassInv'  BY <2>1, <2>2, <2>4, <2>5, PassKept
  <2>7. QED BY <2>2, <2>6 DEF RelayInv
<1>6. QED BY <1>1, <1>2, <1>3, <1>4, <1>5 DEF Next

\* What a step does to the listing.
Unlisted == pass'.listed = [c \in Customers |-> {}]

\* What is listed stays, goes, or is listed anew; cursors move as the listing goes.
LEMMA ListedSteps ==
    ASSUME pass \in Passes, [Next]_vars
    PROVE  \/ pass'.listed = pass.listed /\ UNCHANGED cursor
           \/ Unlisted /\ UNCHANGED finished /\ (UNCHANGED cursor \/ SaveCursors)
           \/ \E c \in Customers : List(c)
<1>1. CASE RelayStep
  <2>1. CASE StartPass \/ EndPass \/ SaveCursors
    <3>1. Unlisted
      <4>1. pass' = [Idle EXCEPT !.registry = approved] => Unlisted  BY DEF Idle, Unlisted
      <4>2. pass' = Idle => Unlisted  BY DEF Idle, Unlisted
      <4>3. SaveCursors => Unlisted
        <5>1. PICK u, r : u = pass.unanswerable /\ r = uncommitted  OBVIOUS
        <5>2. SaveCursors => pass' = [Idle EXCEPT !.unanswerable = u, !.retries = r]
          BY <5>1 DEF SaveCursors
        <5>3. QED BY <5>2 DEF Idle, Unlisted
      <4>4. QED BY <2>1, <4>1, <4>2, <4>3 DEF StartPass, EndPass
    <3>2. UNCHANGED finished  BY <2>1 DEF StartPass, EndPass, SaveCursors, external
    <3>3. UNCHANGED cursor \/ SaveCursors  BY <2>1 DEF StartPass, EndPass, kept
    <3>4. QED BY <3>1, <3>2, <3>3
  <2>2. CASE CountRequests \/ ReadPage \/ AllRead \/ \E c \in Customers : ListFails(c)
    <3>1. pass'.listed = pass.listed
      BY <2>2 DEF CountRequests, ReadPage, AllRead, ListFails, Passes
    <3>2. UNCHANGED cursor  BY <2>2 DEF CountRequests, ReadPage, AllRead, ListFails, kept
    <3>3. QED BY <3>1, <3>2
  <2>3. CASE LookUpNothing \/ LookUpFails \/ PlanOwn \/ PlanCustomers
    <3>1. pass'.listed = pass.listed
      BY <2>3 DEF LookUpNothing, LookUpFails, PlanOwn, PlanCustomers, Passes
    <3>2. UNCHANGED cursor  BY <2>3 DEF LookUpNothing, LookUpFails, PlanOwn, PlanCustomers, kept
    <3>3. QED BY <3>1, <3>2
  <2>4. CASE WriteReport \/ WriteFails \/ Written \/ CommitReceipt \/ AllWritten
    <3>1. pass'.listed = pass.listed
      BY <2>4 DEF WriteReport, WriteFails, Written, CommitReceipt, AllWritten, Passes
    <3>2. UNCHANGED cursor
      BY <2>4 DEF WriteReport, WriteFails, Written, CommitReceipt, AllWritten, kept
    <3>3. QED BY <3>1, <3>2
  <2>5. CASE (\E key \in Contract!Keys : RetryCommit(key)) \/ HoldClose \/ CancelRequest
                \/ CancelFails \/ Cancelled \/ CommitClose
    <3>1. pass'.listed = pass.listed
      <4>1. PICK u : u = Kept(pass.unanswerable, {q \in Range(pass.unanswerable) :
                                  q.key # Head(pass.unanswerable).key})
        OBVIOUS
      <4>2. pass' = CloseDone => pass'.listed = pass.listed  BY <4>1 DEF CloseDone, Passes
      <4>3. ASSUME NEW key \in Contract!Keys, RetryCommit(key)
            PROVE  pass'.listed = pass.listed
        BY <4>3 DEF RetryCommit, Passes
      <4>4. HoldClose \/ CancelRequest \/ CancelFails \/ Cancelled \/ CommitClose
               => pass' = CloseDone \/ UNCHANGED pass
        BY DEF HoldClose, CancelRequest, CancelFails, Cancelled, CommitClose
      <4>5. QED BY <2>5, <4>2, <4>3, <4>4
    <3>2. UNCHANGED cursor
      BY <2>5 DEF RetryCommit, HoldClose, CancelRequest, CancelFails, Cancelled, CommitClose, kept
    <3>3. QED BY <3>1, <3>2
  <2>6. QED BY <1>1, <2>1, <2>2, <2>3, <2>4, <2>5 DEF RelayStep
<1>2. CASE PassFails \/ Crash
  <2>1. pass' = Idle => Unlisted  BY DEF Idle, Unlisted
  <2>2. Unlisted  BY <1>2, <2>1 DEF PassFails, Crash
  <2>3. UNCHANGED <<finished, cursor>>  BY <1>2 DEF PassFails, Crash, external, kept
  <2>4. QED BY <2>2, <2>3
<1>3. CASE Mine \/ World \/ UNCHANGED vars
  <2>1. UNCHANGED kept /\ UNCHANGED local
    BY <1>3 DEF Mine, MineEntry, MineReport, MineCancel, World, Ask, Withdraw, Finish, Revoke,
                Disallow, vars
  <2>2. UNCHANGED cursor /\ UNCHANGED pass  BY <2>1 DEF kept, local
  <2>3. QED BY <2>2
<1>4. QED BY <1>1, <1>2, <1>3 DEF Next

\* What becomes of the listing of a customer.
LEMMA ListFacts ==
    ASSUME RelayInv, NEW c \in Customers, List(c)
    PROVE  \E slice \in Slices(c) :
              /\ pass'.listed = [pass.listed EXCEPT ![c] = slice]
              /\ UNCHANGED <<cursor, finished>>
<1>1. pass \in Passes /\ pass.pending \in Seq(SoundItems) /\ WorldTypes
  BY DEF RelayInv, PassTypes, PassInv, ItemsInStep
<1>2. PICK slice \in Slices(c), p \in Seq(SoundItems) :
         pass' = [pass EXCEPT !.left = @ \ {c}, !.listed[c] = slice, !.pending = p]
  BY <1>1, ListForm
<1>3. pass'.listed = [pass.listed EXCEPT ![c] = slice]  BY <1>1, <1>2 DEF Passes
<1>4. UNCHANGED <<cursor, finished>>  BY DEF List, kept, external
<1>5. QED BY <1>3, <1>4

\* What a customer's listing holds is finished and its own.
LEMMA ListedStep ==
    ASSUME RelayInv, ListedOwn, Grown, [Next]_vars
    PROVE  ListedOwn'
<1>1. pass \in Passes /\ pass.listed \in [Customers -> SUBSET TransferIds]
  BY PassFields DEF RelayInv, PassTypes
<1>2. CASE pass'.listed = pass.listed  BY <1>2 DEF ListedOwn, Grown
<1>3. CASE Unlisted  BY <1>3 DEF ListedOwn, Unlisted
<1>4. ASSUME NEW c \in Customers, List(c)
      PROVE  ListedOwn'
  <2>1. PICK slice \in Slices(c) :
           /\ pass'.listed = [pass.listed EXCEPT ![c] = slice]
           /\ UNCHANGED <<cursor, finished>>
    BY <1>4, ListFacts
  <2>2. slice \subseteq {t \in finished : BelongsTo[t] = c}  BY DEF Slices
  <2>3. QED BY <1>1, <2>1, <2>2 DEF ListedOwn
<1>5. QED BY <1>1, <1>2, <1>3, <1>4, ListedSteps

Inv == RelayInv /\ ListedOwn

\* The relay's invariant holds in every reachable state.
THEOREM RelayInductive == Spec => []Inv
<1>1. Init => Inv
  <2>1. Init => ListedOwn  BY DEF Init, Idle, ListedOwn
  <2>2. QED BY <2>1, InvInit DEF Inv
<1>2. Inv /\ [Next]_vars => Inv'
  BY RelayInvStep, ListedStep DEF Inv
<1>3. QED BY <1>1, <1>2, PTL DEF Spec

\* In every reachable state the variables have their types, and no report
\* carries more entries than one batch.
THEOREM TypeCorrect == Spec => []TypeOK
<1>1. Inv => TypeOK  BY InvImplies DEF Inv
<1>2. QED BY <1>1, RelayInductive, PTL

\* No receipt is sent or recorded for a customer and no cancel is sent or
\* mined before its charge is held.
THEOREM NothingUnpaid == Spec => []PaidFirst
<1>1. Inv => PaidFirst  BY InvImplies DEF Inv
<1>2. QED BY <1>1, RelayInductive, PTL

\* Nothing is charged that has not happened on chain.
THEOREM ChargesSound == Spec => []ChargedForEffect
<1>1. Inv => ChargedForEffect  BY InvImplies DEF Inv
<1>2. QED BY <1>1, RelayInductive, PTL

-----------------------------------------------------------------------------
(* What the cursors leave behind, where no two transfers of a customer     *)
(* complete in the same millisecond.                                       *)

DistinctTimes ==
    \A t, u \in TransferIds :
        BelongsTo[t] = BelongsTo[u] /\ CompletedAt[t] = CompletedAt[u] => t = u

\* What the listing leaves out is later than what it gives.
ListedFirst ==
    \A c \in Customers : \A u \in pass.listed[c], t \in finished \ pass.listed[c] :
        BelongsTo[t] = c /\ cursor[c] < CompletedAt[t] => CompletedAt[u] < CompletedAt[t]

\* A cursor is never ahead of what has finished.
CursorReached ==
    \A c \in Customers :
        \/ cursor[c] = 0
        \/ \E u \in finished : BelongsTo[u] = c /\ cursor[c] <= CompletedAt[u]

CursorInv == ListedFirst /\ CursorReached /\ CursorPassesDone

\* Done with: charged, or never to be recorded.
Done(t) == charge[transferCharge(t)] = "charged" \/ t \in Unreadable

\* What is done with stays so.
LEMMA DoneStays ==
    ASSUME Grown, NEW t \in TransferIds, Done(t)
    PROVE  Done(t)'
<1>1. transferCharge(t) \in ChargeSubjects  BY SubjectTypes
<1>2. QED BY <1>1 DEF Done, Grown, transferCharge

\* Times are numbers.
LEMMA Times ==
    ASSUME Inv
    PROVE  /\ \A t \in TransferIds : CompletedAt[t] \in Nat /\ CompletedAt[t] > 0
           /\ \A c \in Customers : cursor[c] \in Nat
           /\ \A t \in finished \cap Owed : BelongsTo[t] \in Customers /\ t \in TransferIds
           /\ finished \subseteq TransferIds
<1>1. CompletedAt \in [TransferIds -> Nat \ {0}] /\ Owed \subseteq {t \in TransferIds : BelongsTo[t] \in Customers}
  BY SubjectsAssumption
<1>2. cursor \in [Customers -> Nat] /\ finished \subseteq TransferIds
  BY DEF Inv, RelayInv, WorldTypes
<1>3. QED BY <1>1, <1>2

\* A transfer that finishes is ahead of its customer's cursor, and later than
\* what is listed.
LEMMA FinishStep ==
    ASSUME DistinctTimes, Inv, CursorInv, Grown, NEW f \in TransferIds, Finish(f)
    PROVE  CursorInv'
<1>1. /\ f \notin finished /\ finished' = finished \cup {f}
      /\ \A u \in finished : CompletedAt[u] <= CompletedAt[f]
      /\ UNCHANGED <<charge, cursor, pass>>
  BY DEF Finish, kept, local
<1>2. \A u \in finished : BelongsTo[u] = BelongsTo[f] => CompletedAt[u] < CompletedAt[f]
  <2> TAKE u \in finished
  <2>1. u \in TransferIds /\ CompletedAt[u] \in Nat /\ CompletedAt[f] \in Nat  BY Times
  <2>2. u # f /\ CompletedAt[u] <= CompletedAt[f]  BY <1>1
  <2>3. BelongsTo[u] = BelongsTo[f] => CompletedAt[u] # CompletedAt[f]
    BY <2>1, <2>2 DEF DistinctTimes
  <2>4. QED BY <2>1, <2>2, <2>3
<1>3. ListedFirst'
  <2>1. ASSUME NEW c \in Customers, NEW u \in pass.listed[c], NEW t \in finished' \ pass.listed[c],
               BelongsTo[t] = c, cursor[c] < CompletedAt[t]
        PROVE  CompletedAt[u] < CompletedAt[t]
    <3>1. u \in finished /\ BelongsTo[u] = c  BY DEF Inv, ListedOwn
    <3>2. CASE t = f  BY <1>2, <2>1, <3>1, <3>2
    <3>3. CASE t # f
      <4>1. t \in finished \ pass.listed[c]  BY <1>1, <2>1, <3>3
      <4>2. QED BY <2>1, <4>1 DEF CursorInv, ListedFirst
    <3>4. QED BY <3>2, <3>3
  <2>2. QED BY <1>1, <2>1 DEF ListedFirst
<1>4. CursorReached'  BY <1>1 DEF CursorInv, CursorReached
<1>5. CursorPassesDone'
  <2>1. ASSUME NEW t \in finished' \cap Owed, CompletedAt[t] <= cursor[BelongsTo[t]]
        PROVE  Done(t)
    <3>1. CASE t = f
      <4>1. BelongsTo[t] \in Customers /\ CompletedAt[t] \in Nat /\ CompletedAt[t] > 0
        BY <2>1, <3>1, SubjectsAssumption, Times
      <4>2. cursor[BelongsTo[t]] \in Nat  BY <4>1, Times
      <4>3. PICK u \in finished : BelongsTo[u] = BelongsTo[t] /\ cursor[BelongsTo[t]] <= CompletedAt[u]
        BY <2>1, <4>1, <4>2 DEF CursorInv, CursorReached
      <4>4. CompletedAt[u] < CompletedAt[t] /\ CompletedAt[u] \in Nat  BY <1>2, <3>1, <4>3, Times
      <4>5. QED BY <2>1, <4>1, <4>2, <4>3, <4>4
    <3>2. CASE t # f
      <4>1. t \in finished \cap Owed  BY <1>1, <2>1, <3>2
      <4>2. QED BY <2>1, <4>1 DEF CursorInv, CursorPassesDone, Done
    <3>3. QED BY <3>1, <3>2
  <2>2. QED BY <1>1, <2>1 DEF CursorPassesDone, Done, transferCharge
<1>6. QED BY <1>3, <1>4, <1>5 DEF CursorInv

\* A step in which the listing and the cursors stay, or the listing goes.
LEMMA KeepStep ==
    ASSUME CursorInv, Grown, finished \subseteq TransferIds,
           UNCHANGED <<finished, cursor>>, pass'.listed = pass.listed \/ Unlisted
    PROVE  CursorInv'
<1>1. ListedFirst'
  <2>1. CASE pass'.listed = pass.listed  BY <2>1 DEF CursorInv, ListedFirst
  <2>2. CASE Unlisted  BY <2>2 DEF Unlisted, ListedFirst
  <2>3. QED BY <2>1, <2>2
<1>2. CursorReached'  BY DEF CursorInv, CursorReached
<1>3. CursorPassesDone'
  <2>1. \A t \in finished \cap Owed : CompletedAt[t] <= cursor[BelongsTo[t]] => Done(t)
    BY DEF CursorInv, CursorPassesDone, Done
  <2>2. \A t \in finished \cap Owed : Done(t) => Done(t)'  BY DoneStays
  <2>3. \A t \in finished \cap Owed : CompletedAt[t] <= cursor[BelongsTo[t]] => Done(t)'
    BY <2>1, <2>2
  <2>4. QED BY <2>3 DEF CursorPassesDone, Done, transferCharge
<1>4. QED BY <1>1, <1>2, <1>3 DEF CursorInv

\* The slice is the earliest of what is past the cursor.
LEMMA ListCursorStep ==
    ASSUME DistinctTimes, Inv, CursorInv, Grown, NEW c \in Customers, List(c)
    PROVE  CursorInv'
<1>1. PICK slice \in Slices(c) :
         /\ pass'.listed = [pass.listed EXCEPT ![c] = slice]
         /\ UNCHANGED <<cursor, finished>>
  BY ListFacts DEF Inv
<1>2. PICK after : after = {t \in finished : BelongsTo[t] = c /\ CompletedAt[t] > cursor[c]}
  OBVIOUS
<1>3. slice \subseteq after /\ \A u \in slice, t \in after \ slice : CompletedAt[u] <= CompletedAt[t]
  BY <1>2 DEF Slices
<1>4. pass.listed \in [Customers -> SUBSET TransferIds]
  BY PassFields DEF Inv, RelayInv, PassTypes
<1>5. ListedFirst'
  <2>1. ASSUME NEW d \in Customers, NEW u \in pass'.listed[d],
               NEW t \in finished \ pass'.listed[d],
               BelongsTo[t] = d, cursor[d] < CompletedAt[t]
        PROVE  CompletedAt[u] < CompletedAt[t]
    <3>1. CASE d = c
      <4>1. u \in slice /\ t \notin slice  BY <1>1, <1>4, <2>1, <3>1
      <4>2. /\ cursor[c] \in Nat /\ t \in TransferIds /\ CompletedAt[t] \in Nat
            /\ u \in after /\ u \in TransferIds /\ CompletedAt[u] \in Nat
        BY <1>2, <1>3, <2>1, <4>1, Times
      <4>3. t \in after /\ BelongsTo[u] = BelongsTo[t]  BY <1>2, <2>1, <3>1, <4>2
      <4>4. CompletedAt[u] <= CompletedAt[t] /\ u # t  BY <1>3, <4>1, <4>3
      <4>5. CompletedAt[u] # CompletedAt[t]  BY <4>2, <4>3, <4>4 DEF DistinctTimes
      <4>6. QED BY <4>2, <4>4, <4>5
    <3>2. CASE d # c
      <4>1. pass'.listed[d] = pass.listed[d]  BY <1>1, <1>4, <3>2
      <4>2. QED BY <2>1, <4>1 DEF CursorInv, ListedFirst
    <3>3. QED BY <3>1, <3>2
  <2>2. QED BY <1>1, <2>1 DEF ListedFirst
<1>6. CursorReached' /\ CursorPassesDone'
  <2>1. finished \subseteq TransferIds  BY Times
  <2>2. CursorReached'  BY <1>1 DEF CursorInv, CursorReached
  <2>3. \A t \in finished \cap Owed : CompletedAt[t] <= cursor[BelongsTo[t]] => Done(t)
    BY DEF CursorInv, CursorPassesDone, Done
  <2>4. \A t \in finished \cap Owed : Done(t) => Done(t)'  BY <2>1, DoneStays
  <2>5. \A t \in finished \cap Owed : CompletedAt[t] <= cursor[BelongsTo[t]] => Done(t)'
    BY <2>3, <2>4
  <2>6. QED BY <1>1, <2>2, <2>5 DEF CursorPassesDone, Done, transferCharge
<1>7. QED BY <1>5, <1>6 DEF CursorInv

\* The cursors move to just before the oldest listed transfer that is not done.
LEMMA SaveCursorStep ==
    ASSUME Inv, CursorInv, Grown, SaveCursors, Unlisted, UNCHANGED finished
    PROVE  CursorInv'
<1>1. \A c \in Customers : cursor'[c] = NextCursor(c)  BY DEF SaveCursors
<1>2. ListedOwn /\ WorldTypes /\ PassTypes /\ SettledDone  BY DEF Inv, RelayInv, PassInv
<1>3. ListedFirst'  BY DEF Unlisted, ListedFirst
<1>4. CursorReached'
  <2>1. ASSUME NEW c \in Customers
        PROVE  \/ cursor'[c] = 0
               \/ \E u \in finished : BelongsTo[u] = c /\ cursor'[c] <= CompletedAt[u]
    <3>1. CASE NextCursor(c) = cursor[c]  BY <1>1, <3>1 DEF CursorInv, CursorReached
    <3>2. CASE \E u \in pass.listed[c] : NextCursor(c) <= CompletedAt[u]
      BY <1>1, <1>2, <3>2 DEF ListedOwn
    <3>3. QED BY <1>2, <3>1, <3>2, NextCursorFacts
  <2>2. QED BY <2>1 DEF CursorReached
<1>5. ASSUME NEW t \in finished \cap Owed, CompletedAt[t] <= cursor'[BelongsTo[t]]
      PROVE  Done(t)
  <2>1. PICK c \in Customers : c = BelongsTo[t]  BY Times
  <2>2. t \in TransferIds /\ CompletedAt[t] \in Nat /\ cursor[c] \in Nat  BY Times
  <2>3. /\ NextCursor(c) \in Nat /\ CompletedAt[t] <= NextCursor(c)
        /\ \/ NextCursor(c) = cursor[c]
           \/ \E u \in pass.listed[c] : NextCursor(c) <= CompletedAt[u]
        /\ t \in pass.listed[c] =>
              t \in pass.settled \/ CompletedAt[t] <= cursor[c] \/ NextCursor(c) < CompletedAt[t]
    BY <1>1, <1>2, <1>5, <2>1, NextCursorFacts
  <2>4. CASE CompletedAt[t] <= cursor[c]
    BY <2>1, <2>4 DEF CursorInv, CursorPassesDone, Done
  <2>5. CASE cursor[c] < CompletedAt[t] /\ t \in pass.listed[c]
    <3>1. t \in pass.settled  BY <2>2, <2>3, <2>5
    <3>2. QED BY <1>2, <3>1 DEF SettledDone, Done
  <2>6. CASE cursor[c] < CompletedAt[t] /\ t \notin pass.listed[c]
    <3>1. PICK u \in pass.listed[c] : NextCursor(c) <= CompletedAt[u]  BY <2>2, <2>3, <2>6
    <3>2. u \in finished /\ CompletedAt[u] \in Nat  BY <1>2, Times DEF ListedOwn
    <3>3. CompletedAt[u] < CompletedAt[t]  BY <2>1, <2>6 DEF CursorInv, ListedFirst
    <3>4. QED BY <2>2, <2>3, <3>1, <3>2, <3>3
  <2>7. QED BY <2>2, <2>4, <2>5, <2>6
<1>6. CursorPassesDone'
  <2>1. \A t \in finished \cap Owed : Done(t) => Done(t)'  BY Times, DoneStays
  <2>2. \A t \in finished \cap Owed : CompletedAt[t] <= cursor'[BelongsTo[t]] => Done(t)'
    BY <1>5, <2>1
  <2>3. QED BY <2>2 DEF CursorPassesDone, Done, transferCharge
<1>7. QED BY <1>3, <1>4, <1>6 DEF CursorInv

\* Only the world finishes a transfer.
LEMMA FinishedSteps ==
    ASSUME [Next]_vars
    PROVE  UNCHANGED finished \/ \E t \in TransferIds : Finish(t)
<1>1. CASE RelayStep \/ PassFails \/ Crash
  BY <1>1 DEF RelayStep, PassFails, Crash, StartPass, CountRequests, ReadPage, AllRead, List,
     ListFails, LookUpNothing, LookUpFails, PlanOwn, PlanCustomers, WriteReport, WriteFails,
     Written, CommitReceipt, AllWritten, SaveCursors, RetryCommit, HoldClose, CancelRequest,
     CancelFails, Cancelled, CommitClose, EndPass, external
<1>2. CASE Mine \/ World \/ UNCHANGED vars
  BY <1>2 DEF Mine, MineEntry, MineReport, MineCancel, World, Ask, Withdraw, Revoke, Disallow,
     external, vars
<1>3. QED BY <1>1, <1>2 DEF Next

\* Every step keeps what the cursors leave behind.
LEMMA CursorStep ==
    ASSUME DistinctTimes, Inv, CursorInv, Grown, [Next]_vars
    PROVE  CursorInv'
<1>1. ASSUME NEW t \in TransferIds, Finish(t) PROVE CursorInv'  BY <1>1, FinishStep
<1>2. ASSUME NEW c \in Customers, List(c) PROVE CursorInv'  BY <1>2, ListCursorStep
<1>3. CASE UNCHANGED finished /\ ~ \E c \in Customers : List(c)
  <2>1. pass \in Passes /\ finished \subseteq TransferIds  BY Times DEF Inv, RelayInv, PassTypes
  <2>2. CASE SaveCursors /\ Unlisted  BY <1>3, <2>2, SaveCursorStep
  <2>3. CASE UNCHANGED cursor /\ (pass'.listed = pass.listed \/ Unlisted)
    BY <1>3, <2>1, <2>3, KeepStep
  <2>4. QED BY <1>3, <2>1, <2>2, <2>3, ListedSteps
<1>4. QED BY <1>1, <1>2, <1>3, FinishedSteps

\* A listing cursor leaves nothing behind that is owed and not charged: of the
\* finished transfers up to it, each that is owed is charged or can never be
\* recorded, whatever the size of the slices a pass takes.
THEOREM NothingLost ==
    ASSUME DistinctTimes
    PROVE  Spec => []CursorPassesDone
<1>1. Init => CursorInv
  <2>1. Init => ListedFirst /\ CursorReached  BY DEF Init, Idle, ListedFirst, CursorReached
  <2>2. Init => CursorPassesDone  BY DEF Init, CursorPassesDone
  <2>3. QED BY <2>1, <2>2 DEF CursorInv
<1>2. Inv /\ CursorInv /\ [Next]_vars => CursorInv'
  <2> SUFFICES ASSUME Inv, CursorInv, [Next]_vars PROVE CursorInv'  OBVIOUS
  <2>1. Grown  BY RelayInvStep DEF Inv
  <2>2. QED BY <2>1, CursorStep
<1>3. CursorInv => CursorPassesDone  BY DEF CursorInv
<1>4. QED BY <1>1, <1>2, <1>3, RelayInductive, PTL DEF Spec
=============================================================================
