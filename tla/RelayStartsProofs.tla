------------------------- MODULE RelayStartsProofs -------------------------
(***************************************************************************)
(* Proofs about RelayStarts, for any log, range size and number of lost    *)
(* calls and crashes: types, that no request is left behind the cursor,    *)
(* and that requests reach Studio in chain order.                          *)
(*                                                                         *)
(* The invariant adds where a pass stands: before the range it scans       *)
(* everything is answered, and of the range everything that is not in its  *)
(* work list any more.                                                     *)
(***************************************************************************)
EXTENDS RelayStarts, WellFoundedInduction, NaturalsInduction, TLAPS

\* The minimum of a nonempty set of numbers is its least element.
LEMMA MinNat ==
    ASSUME NEW T, T \in SUBSET Nat, T # {}
    PROVE  Min(T) \in T /\ \A k \in T : Min(T) <= k
<1> DEFINE LessThan == {p \in Nat \X Nat : p[1] < p[2]}
<1>1. IsWellFoundedOn(LessThan, Nat)  BY NatLessThanWellFounded DEF OpToRel
<1>2. PICK m \in T : \A y \in T : ~ (<<y, m>> \in LessThan)
  <2> HIDE DEF LessThan
  <2>1. QED BY <1>1, WFMin
<1>3. ASSUME NEW k \in T PROVE m <= k
  <2>1. <<k, m>> \in Nat \X Nat /\ k \in Nat /\ m \in Nat  OBVIOUS
  <2>2. ~ (<<k, m>>[1] < <<k, m>>[2])  BY <1>2, <2>1
  <2>3. QED BY <2>1, <2>2
<1>4. QED BY <1>3 DEF Min

\* A pass scans from the saved cursor up to a block that was final when it began.
ScanInStep ==
    /\ pc # "idle" => next = cursor /\ upTo <= finalized
    /\ pc = "deliver" => next <= upTo
    /\ pc # "deliver" => logs = {}

\* The work list is the rest of the range, behind what was delivered of it.
RestOfRange ==
    pc = "deliver" =>
        /\ \A i \in logs : Log[i].block \in next..EndOfRange
        /\ \A i \in DOMAIN Log : Log[i].block \in next..EndOfRange /\ i \notin logs => Answered(i)

SInv == TypeOK /\ ScanInStep /\ RestOfRange /\ BehindCursorAnswered /\ DeliveredInOrder

USE BoundsAssumption

-----------------------------------------------------------------------------
\* The logs are in the order of their blocks.
LEMMA LogFacts ==
    /\ DOMAIN Log \subseteq Nat
    /\ \A i \in DOMAIN Log : Log[i].block \in Nat /\ StartBlock <= Log[i].block
    /\ \A i, j \in DOMAIN Log : i <= j => Log[i].block <= Log[j].block
<1> DEFINE Requests == [block : Nat, startable : BOOLEAN]
<1>0. Log \in Seq(Requests)  BY LogAssumption
<1>1. \A i \in DOMAIN Log : Log[i] \in Requests
  <2> HIDE DEF Requests
  <2>1. QED BY <1>0
<1>2. DOMAIN Log \subseteq Nat  BY <1>0
<1>3. QED BY <1>1, <1>2, LogAssumption

\* A range is not empty and not longer than the limit.
LEMMA EndOfRangeValue ==
    ASSUME TypeOK, next <= upTo
    PROVE  /\ EndOfRange \in next..upTo
           /\ EndOfRange < next + LogRangeBlocks
<1> DEFINE E == {next + LogRangeBlocks - 1, upTo}
<1>1. next \in Nat /\ upTo \in Nat /\ E \in SUBSET Nat /\ E # {}  BY DEF TypeOK
<1> HIDE DEF E
<1>2. Min(E) \in E /\ \A k \in E : Min(E) <= k  BY <1>1, MinNat
<1>3. QED BY <1>1, <1>2 DEF E, EndOfRange

\* The next request to deliver.
LEMMA FirstOfLogs ==
    ASSUME TypeOK, logs # {}
    PROVE  /\ Min(logs) \in logs /\ Min(logs) \in DOMAIN Log
           /\ \A i \in logs : Min(logs) <= i
<1>1. logs \in SUBSET Nat  BY LogFacts DEF TypeOK
<1>2. QED BY <1>1, MinNat DEF TypeOK

\* Everything before the next request to deliver is answered.
LEMMA BeforeFirst ==
    ASSUME SInv, pc = "deliver", logs # {}
    PROVE  /\ \A i \in DOMAIN Log : i < Min(logs) => Answered(i)
           /\ \A i \in DOMAIN Log : Log[i].block < Log[Min(logs)].block => Answered(i)
<1> DEFINE m == Min(logs)
<1>1. m \in logs /\ m \in DOMAIN Log /\ \A i \in logs : m <= i
  BY FirstOfLogs DEF SInv
<1>2. next = cursor /\ Log[m].block \in next..EndOfRange /\ EndOfRange \in Nat /\ next \in Nat
  BY <1>1, EndOfRangeValue DEF SInv, ScanInStep, RestOfRange, TypeOK
<1> HIDE DEF m
<1>3. ASSUME NEW i \in DOMAIN Log, i < m PROVE Answered(i)
  <2>1. i \in Nat /\ m \in Nat /\ Log[i].block \in Nat /\ Log[i].block <= Log[m].block
    BY <1>1, <1>3, LogFacts
  <2>2. i \notin logs  BY <1>1, <1>3, <2>1
  <2>3. CASE Log[i].block < next  BY <1>2, <2>3 DEF SInv, BehindCursorAnswered
  <2>4. CASE Log[i].block >= next
    <3>1. Log[i].block \in next..EndOfRange  BY <1>2, <2>1, <2>4
    <3>2. QED BY <2>2, <3>1 DEF SInv, RestOfRange
  <2>5. QED BY <1>2, <2>1, <2>3, <2>4
<1>4. ASSUME NEW i \in DOMAIN Log, Log[i].block < Log[m].block PROVE Answered(i)
  <2>1. i \in Nat /\ m \in Nat /\ Log[i].block \in Nat /\ Log[m].block \in Nat
    BY <1>1, LogFacts
  <2>2. i < m  BY <1>1, <1>4, <2>1, LogFacts
  <2>3. QED BY <1>3, <2>2
<1>5. QED BY <1>3, <1>4 DEF m

-----------------------------------------------------------------------------
\* The invariant holds at the beginning.
LEMMA SInvInit == Init => SInv
<1> SUFFICES ASSUME Init PROVE SInv  OBVIOUS
<1>0. StartBlock \in Nat /\ LastBlock \in Nat /\ MaxFaults \in Nat  OBVIOUS
<1>1. TypeOK  BY <1>0, BoundsAssumption DEF Init, TypeOK
<1>2. ScanInStep /\ RestOfRange  BY DEF Init, ScanInStep, RestOfRange
<1>3. BehindCursorAnswered
  BY <1>0, LogFacts DEF Init, BehindCursorAnswered
<1>4. DeliveredInOrder  BY DEF Init, DeliveredInOrder
<1>5. QED BY <1>1, <1>2, <1>3, <1>4 DEF SInv

\* A pass that ends where its cursor is saved.
LEMMA Stops ==
    ASSUME SInv, Stop, UNCHANGED <<finalized, runs, refused, cursor>>,
           faults' \in 0..MaxFaults
    PROVE  SInv'
<1>1. TypeOK'  BY DEF SInv, TypeOK, Stop
<1>2. ScanInStep' /\ RestOfRange'  BY DEF Stop, ScanInStep, RestOfRange
<1>3. BehindCursorAnswered' /\ DeliveredInOrder'
  BY DEF SInv, BehindCursorAnswered, DeliveredInOrder, Answered
<1>4. QED BY <1>1, <1>2, <1>3 DEF SInv

\* StartPass keeps the invariant.
LEMMA StartPassKeeps == SInv /\ StartPass => SInv'
<1> SUFFICES ASSUME SInv, StartPass PROVE SInv'  OBVIOUS
<1>1. TypeOK'  BY DEF SInv, TypeOK, StartPass
<1>2. ScanInStep' /\ RestOfRange'  BY DEF SInv, TypeOK, StartPass, ScanInStep, RestOfRange
<1>3. BehindCursorAnswered' /\ DeliveredInOrder'
  BY DEF SInv, StartPass, BehindCursorAnswered, DeliveredInOrder, Answered
<1>4. QED BY <1>1, <1>2, <1>3 DEF SInv

\* ReadLogs keeps the invariant.
LEMMA ReadLogsKeeps == SInv /\ ReadLogs => SInv'
<1> SUFFICES ASSUME SInv, ReadLogs PROVE SInv'  OBVIOUS
<1>1. TypeOK'  BY DEF SInv, TypeOK, ReadLogs
<1>2. ScanInStep'  BY DEF SInv, ReadLogs, ScanInStep
<1>3. RestOfRange'  BY DEF SInv, ReadLogs, RestOfRange, EndOfRange
<1>4. BehindCursorAnswered' /\ DeliveredInOrder'
  BY DEF SInv, ReadLogs, BehindCursorAnswered, DeliveredInOrder, Answered
<1>5. QED BY <1>1, <1>2, <1>3, <1>4 DEF SInv

\* What a delivery adds: the first of the work list, answered.
LEMMA OrderKept ==
    ASSUME SInv, pc = "deliver", logs # {},
           runs \subseteq runs', refused \subseteq refused',
           runs' \cup refused' \subseteq runs \cup refused \cup {Min(logs)}
    PROVE  DeliveredInOrder' /\ \A i \in DOMAIN Log : Answered(i) => Answered(i)'
<1>1. \A i \in DOMAIN Log : Answered(i) => Answered(i)'  BY DEF Answered
<1>2. ASSUME NEW i \in DOMAIN Log, NEW j \in DOMAIN Log, i < j, j \in runs' \cup refused'
      PROVE  Answered(i)'
  <2>1. CASE j \in runs \cup refused  BY <1>1, <1>2, <2>1 DEF SInv, DeliveredInOrder
  <2>2. CASE j = Min(logs)  BY <1>1, <1>2, <2>2, BeforeFirst
  <2>3. QED BY <1>2, <2>1, <2>2
<1>3. QED BY <1>1, <1>2 DEF DeliveredInOrder

\* Deliver keeps the invariant.
LEMMA DeliverKeeps == SInv /\ Deliver => SInv'
<1> SUFFICES ASSUME SInv, Deliver PROVE SInv'  OBVIOUS
<1>1. PICK m :
      /\ m = Min(logs) /\ pc = "deliver" /\ logs # {} /\ logs' = logs \ {m}
      /\ UNCHANGED <<finalized, cursor, pc, upTo, next, faults>>
      /\ runs \subseteq runs' /\ refused \subseteq refused'
      /\ runs' \cup refused' \subseteq runs \cup refused \cup {m}
      /\ Answered(m)'
  BY DEF Deliver, Answered
<1>2. m \in DOMAIN Log  BY <1>1, FirstOfLogs DEF SInv
<1>3. TypeOK'  BY <1>1, <1>2 DEF SInv, TypeOK
<1>4. ScanInStep'  BY <1>1 DEF SInv, ScanInStep
<1>5. DeliveredInOrder' /\ \A i \in DOMAIN Log : Answered(i) => Answered(i)'
  BY <1>1, OrderKept
<1>6. RestOfRange'
  BY <1>1, <1>5 DEF SInv, RestOfRange, EndOfRange
<1>7. BehindCursorAnswered'  BY <1>1, <1>5 DEF SInv, BehindCursorAnswered
<1>8. QED BY <1>3, <1>4, <1>5, <1>6, <1>7 DEF SInv

\* Unavailable keeps the invariant.
LEMMA UnavailableKeeps == SInv /\ Unavailable => SInv'
<1> SUFFICES ASSUME SInv, Unavailable PROVE SInv'  OBVIOUS
<1> DEFINE m == Min(logs)
<1>1. /\ pc = "deliver" /\ logs # {} /\ Stop /\ cursor' = Log[m].block
      /\ UNCHANGED <<finalized, refused>>
      /\ runs \subseteq runs' /\ runs' \subseteq runs \cup {m}
      /\ faults' \in 0..MaxFaults
  BY DEF Unavailable, Fault, SInv, TypeOK
<1>2. m \in DOMAIN Log /\ Log[m].block \in next..EndOfRange /\ Log[m].block \in Nat
  BY <1>1, FirstOfLogs, LogFacts DEF SInv, RestOfRange
<1>3. /\ next = cursor /\ upTo <= finalized /\ EndOfRange \in next..upTo
      /\ {next, upTo, finalized, cursor, EndOfRange} \subseteq Int
  BY <1>1, EndOfRangeValue DEF SInv, ScanInStep, TypeOK
<1>4. Log[m].block \in StartBlock..(finalized + 1)
  BY <1>2, <1>3 DEF SInv, TypeOK
<1>5. TypeOK'
  <2> HIDE DEF m
  <2>1. QED BY <1>1, <1>2, <1>4 DEF SInv, TypeOK, Stop
<1>6. ScanInStep' /\ RestOfRange'  BY <1>1 DEF Stop, ScanInStep, RestOfRange
<1>7. DeliveredInOrder' /\ \A i \in DOMAIN Log : Answered(i) => Answered(i)'
  BY <1>1, OrderKept
<1>8. BehindCursorAnswered'
  BY <1>1, <1>7, BeforeFirst DEF BehindCursorAnswered
<1>9. QED BY <1>5, <1>6, <1>7, <1>8 DEF SInv

\* RangeDone keeps the invariant.
LEMMA RangeDoneKeeps == SInv /\ RangeDone => SInv'
<1> SUFFICES ASSUME SInv, RangeDone PROVE SInv'  OBVIOUS
<1>1. /\ pc = "deliver" /\ logs = {} /\ next' = EndOfRange + 1 /\ cursor' = EndOfRange + 1
      /\ pc' = "scan" /\ UNCHANGED <<finalized, runs, refused, upTo, logs, faults>>
  BY DEF RangeDone
<1>2. /\ next = cursor /\ upTo <= finalized /\ EndOfRange \in next..upTo
      /\ {next, upTo, finalized, cursor, EndOfRange} \subseteq Int
  BY <1>1, EndOfRangeValue DEF SInv, ScanInStep, TypeOK
<1>3. TypeOK'  BY <1>1, <1>2 DEF SInv, TypeOK
<1>4. ScanInStep' /\ RestOfRange'  BY <1>1, <1>2 DEF ScanInStep, RestOfRange
<1>5. \A i \in DOMAIN Log : Answered(i)' <=> Answered(i)  BY <1>1 DEF Answered
<1>6. BehindCursorAnswered'
  <2> SUFFICES ASSUME NEW i \in DOMAIN Log, Log[i].block < EndOfRange + 1
               PROVE  Answered(i)
    BY <1>1, <1>5 DEF BehindCursorAnswered
  <2>1. Log[i].block \in Nat  BY LogFacts
  <2>2. CASE Log[i].block < cursor  BY <2>2 DEF SInv, BehindCursorAnswered
  <2>3. CASE Log[i].block >= cursor
    <3>1. Log[i].block \in next..EndOfRange  BY <1>2, <2>1, <2>3
    <3>2. QED BY <1>1, <3>1 DEF SInv, RestOfRange
  <2>4. QED BY <1>2, <2>1, <2>2, <2>3
<1>7. DeliveredInOrder'  BY <1>1, <1>5 DEF SInv, DeliveredInOrder
<1>8. QED BY <1>3, <1>4, <1>6, <1>7 DEF SInv

\* Finalize keeps the invariant.
LEMMA FinalizeKeeps == SInv /\ Finalize => SInv'
<1> SUFFICES ASSUME SInv, Finalize PROVE SInv'  OBVIOUS
<1>1. /\ finalized' \in (finalized + 1)..LastBlock /\ finalized \in Int
      /\ UNCHANGED <<runs, refused, cursor, pc, upTo, next, logs, faults>>
  BY DEF Finalize, SInv, TypeOK
<1>2. finalized <= finalized' /\ finalized' \in Int /\ upTo \in Int
  BY <1>1 DEF SInv, TypeOK
<1>3. TypeOK'
  <2>0. /\ StartBlock \in Int /\ LastBlock \in Int
        /\ cursor \in StartBlock..(finalized + 1) /\ finalized \in (StartBlock - 1)..LastBlock
    BY DEF SInv, TypeOK
  <2>1. cursor \in StartBlock..(finalized' + 1) /\ finalized' \in (StartBlock - 1)..LastBlock
    <3>1. PICK f : f = finalized'  OBVIOUS
    <3>2. /\ f \in Int /\ finalized + 1 <= f /\ f <= LastBlock
          /\ finalized \in Int /\ StartBlock - 1 <= finalized
      BY <1>1, <2>0, <3>1
    <3>3. cursor \in Int /\ StartBlock <= cursor /\ cursor <= finalized + 1
      BY <2>0, <3>2
    <3>4. f \in (StartBlock - 1)..LastBlock  BY <2>0, <3>2
    <3>5. cursor \in StartBlock..(f + 1)  BY <2>0, <3>2, <3>3
    <3>6. QED BY <3>1, <3>4, <3>5
  <2>2. QED BY <1>1, <2>1 DEF SInv, TypeOK
<1>4. ScanInStep'  BY <1>1, <1>2 DEF SInv, ScanInStep
<1>5. RestOfRange' /\ BehindCursorAnswered' /\ DeliveredInOrder'
  BY <1>1 DEF SInv, RestOfRange, EndOfRange, BehindCursorAnswered, DeliveredInOrder, Answered
<1>6. QED BY <1>3, <1>4, <1>5 DEF SInv

\* Every step keeps the invariant.
LEMMA SInvNext == SInv /\ [Next]_vars => SInv'
<1> SUFFICES ASSUME SInv, [Next]_vars PROVE SInv'  OBVIOUS
<1>1. CASE StartPass  BY <1>1, StartPassKeeps
<1>2. CASE ReadLogs  BY <1>2, ReadLogsKeeps
<1>3. CASE ReadFails \/ EndPass \/ Crash
  <2>1. faults' \in 0..MaxFaults /\ Stop /\ UNCHANGED <<finalized, runs, refused, cursor>>
    BY <1>3 DEF ReadFails, EndPass, Crash, Fault, SInv, TypeOK
  <2>2. QED BY <2>1, Stops
<1>4. CASE Deliver  BY <1>4, DeliverKeeps
<1>5. CASE Unavailable  BY <1>5, UnavailableKeeps
<1>6. CASE RangeDone  BY <1>6, RangeDoneKeeps
<1>7. CASE Finalize  BY <1>7, FinalizeKeeps
<1>8. CASE UNCHANGED vars
  BY <1>8 DEF vars, SInv, TypeOK, ScanInStep, RestOfRange, EndOfRange,
     BehindCursorAnswered, DeliveredInOrder, Answered
<1>9. QED
  BY <1>1, <1>2, <1>3, <1>4, <1>5, <1>6, <1>7, <1>8 DEF Next, RelayStep

-----------------------------------------------------------------------------
\* The strengthening that the theorems below follow from.
THEOREM StartsInductive == Spec => []SInv
BY SInvInit, SInvNext, PTL DEF Spec

\* Types (the cursor file and the variables of runStarts): the cursor is never past
\* the block after the finalized one.
THEOREM TypeCorrect == Spec => []TypeOK
BY StartsInductive, PTL DEF SInv

\* runStarts leaves no request behind its cursor, wherever a pass stops.
THEOREM NoneLeftBehind == Spec => []BehindCursorAnswered
BY StartsInductive, PTL DEF SInv

\* runStarts hands requests to Studio in chain order.
THEOREM InOrder == Spec => []DeliveredInOrder
BY StartsInductive, PTL DEF SInv

=============================================================================
