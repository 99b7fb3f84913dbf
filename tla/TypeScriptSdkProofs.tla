------------------------- MODULE TypeScriptSdkProofs -------------------------
(***************************************************************************)
(* Proofs about the provider client of the TypeScript SDK, for every value *)
(* of its constants: the stream of routes, the wait for the end of a       *)
(* transfer, the requests to the Transfer Runtime, the grants of integrity *)
(* audits, the routes that are signed, and the uploads to Hugging Face.    *)
(* Each part is a specification of its own with its own inductive          *)
(* invariant.                                                              *)
(***************************************************************************)
EXTENDS RouteStream, FiniteSetTheorems, NaturalsInduction, SequenceTheorems, TLAPS

-----------------------------------------------------------------------------
(* The stream of routes.  What the sender has seen is in the batch, in the *)
(* chain or at the Runtime, each route in one place; what is signed        *)
(* belongs to a group that the Runtime was told of; and the uploads at the *)
(* provider are those that the call keeps in multipartUploads, besides the *)
(* ones whose create reply was lost.                                       *)

Batches == [index : Nat, routes : Seq(Routes)]

CallTyped ==
    /\ pc \in {"begin", "streaming", "flushing", "lastFlush", "tail", "done", "failing",
               "cancelling", "cleanup", "ended"}
    /\ gen \in 1..MaxGenerations /\ owned \in BOOLEAN /\ faults \in 0..MaxFaults
    /\ cause \in {"none", "recoverable", "fatal", "fenced", "abandoned", "failed"}
    /\ sendError \in BOOLEAN /\ completed \in BOOLEAN /\ cleanupFailed \in BOOLEAN

RoutesTyped ==
    /\ next \in 0..Cardinality(Routes)
    /\ pending \subseteq Nat /\ IsFiniteSet(pending)
    /\ Cardinality(pending) <= SigningConcurrency
    /\ DOMAIN settled \subseteq pending

GroupsTyped ==
    /\ group \in [Groups -> {"queued", "creating", "created", "announcing", "ready",
                            "undoing", "failed"}]
    /\ uploads \subseteq Groups /\ fresh \subseteq Groups /\ acked \subseteq Groups
    /\ aborting \subseteq Groups /\ sent \subseteq Groups
    /\ live \in [Groups -> Nat] /\ orphans \in [Groups -> Nat]

SenderTyped ==
    /\ seenDeliveryIndices \subseteq Routes
    /\ batch \in Seq(Routes) /\ Len(batch) <= BatchRoutes
    /\ pc = "streaming" => Len(batch) < BatchRoutes
    /\ pc \in {"begin", "tail", "done"} => batch = <<>>
    /\ queue \in Seq(Batches) /\ received \in Seq(Batches) /\ batchIndex \in Nat

Typed == CallTyped /\ RoutesTyped /\ GroupsTyped /\ SenderTyped

\* Batches are numbered in order, on the chain and at the Runtime.
Numbering ==
    /\ \A i \in 1..Len(received) : received[i].index = i - 1
    /\ \A i \in 1..Len(queue) : queue[i].index = batchIndex - Len(queue) + i - 1
    /\ Len(received) + Len(queue) <= batchIndex
    /\ ~sendError => Len(received) + Len(queue) = batchIndex

\* The batches that were cut, and where a route is.
Line == {received[i] : i \in 1..Len(received)} \union {queue[i] : i \in 1..Len(queue)}
InBatch(r) == \E k \in 1..Len(batch) : batch[k] = r
InLine(r) == \E b \in Line : \E i \in 1..Len(b.routes) : b.routes[i] = r

\* Each route that was seen is in one place, unless a batch was given up.
OnePlace ==
    /\ \A b, c \in Line : \A i \in 1..Len(b.routes), j \in 1..Len(c.routes) :
          b.routes[i] = c.routes[j] => b.index = c.index /\ i = j
    /\ \A r \in Routes : InLine(r) => r \in seenDeliveryIndices /\ ~InBatch(r)
    /\ \A k \in 1..Len(batch) : batch[k] \in seenDeliveryIndices
    /\ \A k, l \in 1..Len(batch) : batch[k] = batch[l] => k = l
    /\ ~sendError => \A r \in seenDeliveryIndices : InBatch(r) \/ InLine(r)

\* The Runtime has the manifest of the group of each route that may be sent.
Told(r) == IsDirectPut(r) \/ GroupOf(r) \in acked
Announced ==
    /\ \A g \in Groups : group[g] = "ready" => g \in acked
    /\ \A r \in DOMAIN settled : settled[r] = "failed" \/ Told(r)
    /\ \A r \in seenDeliveryIndices : Told(r)

\* The end is announced when everything was seen and sent.
Ending ==
    /\ pc \in {"lastFlush", "tail"} => seenDeliveryIndices = Routes /\ Groups \subseteq acked
    /\ completed =>
          /\ pc \in {"done", "failing", "cancelling", "cleanup", "ended"}
          /\ queue = <<>> /\ Groups \subseteq acked
          /\ \A r \in Routes : InLine(r)

\* Which uploads exist, which aborts are on their way, and which are still to come.
Uploads ==
    /\ \A g \in Groups : live[g] # orphans[g] => live[g] = orphans[g] + 1 /\ g \in uploads
    /\ \A g \in Groups : group[g] = "creating" => g \notin uploads
    /\ \A g \in Groups : group[g] = "undoing" => g \in sent
    /\ pc = "begin" => sent = {}
    /\ pc # "cleanup" => \A g \in sent : group[g] = "undoing"
    /\ pc \in {"cancelling", "cleanup"} => GroupsDone
    /\ pc = "cleanup" =>
          /\ aborting \subseteq uploads /\ sent \subseteq uploads
          /\ \A g \in uploads : g \in aborting \/ g \in sent \/ cleanupFailed
          /\ \A g \in aborting : g \notin sent
    /\ pc = "ended" /\ cause = "failed" => \A g \in uploads : cleanupFailed

IInv == Typed /\ Numbering /\ OnePlace /\ Announced /\ Ending /\ Uploads


-----------------------------------------------------------------------------
(* The plan and the splitting of batches. *)

\* A plan has finitely many routes, and each of them a group or none.
LEMMA PlanFacts ==
    /\ DestinationCount \in Nat \ {0}
    /\ Routes \subseteq Nat /\ IsFiniteSet(Routes) /\ Cardinality(Routes) \in Nat
    /\ \A n \in Nat : Yielded(n) \in Nat /\ GroupOf(n) \in 0..(DestinationCount - 1)
    /\ Groups \subseteq Nat
    /\ \A r \in Nat : ~IsDirectPut(r) => GroupOf(r) \in Groups
<1>1. DestinationCount \in Nat \ {0}  BY RouteStreamAssumption DEF DestinationCount
<1>2. ChunkCount * DestinationCount \in Nat  BY <1>1, RouteStreamAssumption
<1>3. Routes \subseteq Nat  BY <1>2 DEF Routes
<1>4. IsFiniteSet(Routes) /\ Cardinality(Routes) \in Nat
  <2> DEFINE n == ChunkCount * DestinationCount - 1
  <2>1. n \in Int  BY <1>2
  <2> HIDE DEF n
  <2>2. IsFiniteSet(0..n)  BY <2>1, FS_Interval
  <2>3. Cardinality(0..n) \in Nat  BY <2>2, FS_CardinalityType
  <2>4. Routes = 0..n  BY DEF Routes, n
  <2>5. QED BY <2>2, <2>3, <2>4
<1>5. ASSUME NEW n \in Nat
      PROVE  Yielded(n) \in Nat /\ GroupOf(n) \in 0..(DestinationCount - 1)
  <2>1. n \div DestinationCount \in Nat /\ n % DestinationCount \in 0..(DestinationCount - 1)
    BY <1>1
  <2>2. (n \div DestinationCount) * DestinationCount \in Nat  BY <1>1, <2>1
  <2>3. QED BY <2>1, <2>2 DEF Yielded, DeliveryIndex, GroupOf
<1>6. Groups \subseteq Nat  BY <1>1 DEF Groups
<1>7. \A r \in Nat : ~IsDirectPut(r) => GroupOf(r) \in Groups  BY DEF IsDirectPut
<1>8. QED BY <1>1, <1>3, <1>4, <1>5, <1>6, <1>7

\* Division with remainder.
LEMMA DivMod ==
    ASSUME NEW x \in Nat, NEW m \in Nat \ {0}
    PROVE  \E q \in Nat, r \in 0..(m - 1) : x = q * m + r
<1>1. m * (x \div m) <= x /\ x < m * (x \div m) + m  OBVIOUS
<1>2. x - m * (x \div m) \in 0..(m - 1)  BY <1>1
<1>3. x = (x \div m) * m + (x - m * (x \div m)) /\ x \div m \in Nat  OBVIOUS
<1>4. QED BY <1>2, <1>3

\* Place j of message i, messages of size m.
Place(i, j) == (i - 1) * MessageRoutes + j

\* Different places of messages are different places of the batch.
LEMMA PlacesDiffer ==
    ASSUME NEW i \in Nat \ {0}, NEW k \in Nat \ {0},
           NEW j \in 1..MessageRoutes, NEW l \in 1..MessageRoutes, Place(i, j) = Place(k, l)
    PROVE  i = k /\ j = l
<1> DEFINE m == MessageRoutes
<1>0. m \in Nat \ {0}  BY RouteStreamAssumption
<1>1. ASSUME NEW a \in Nat, NEW b \in Nat, NEW x \in 1..m, NEW y \in 1..m, a < b
      PROVE  a * m + x < b * m + y
  <2>1. a * m + m = (a + 1) * m  BY <1>0, <1>1
  <2>2. PICK d \in Nat : b = (a + 1) + d
    <3>1. b - (a + 1) \in Nat /\ b = (a + 1) + (b - (a + 1))  BY <1>1
    <3>2. QED BY <3>1
  <2>3. b * m = (a + 1) * m + d * m /\ d * m \in Nat  BY <1>0, <2>2
  <2>4. a * m \in Nat /\ b * m \in Nat /\ (a + 1) * m \in Nat  BY <1>0
  <2> HIDE DEF m
  <2>5. QED BY <1>0, <2>1, <2>3, <2>4
<1>2. ~ (i - 1 < k - 1)
  <2>1. i - 1 \in Nat /\ k - 1 \in Nat  OBVIOUS
  <2>2. (i - 1) * m + j \in Nat /\ (k - 1) * m + l \in Nat  BY <1>0, <2>1
  <2>3. QED BY <1>1, <2>1, <2>2 DEF Place
<1>3. ~ (k - 1 < i - 1)
  <2>1. i - 1 \in Nat /\ k - 1 \in Nat  OBVIOUS
  <2>2. (i - 1) * m + j \in Nat /\ (k - 1) * m + l \in Nat  BY <1>0, <2>1
  <2>3. QED BY <1>1, <2>1, <2>2 DEF Place
<1>4. i = k  BY <1>2, <1>3
<1>5. (i - 1) * m \in Nat  BY <1>0
<1>6. QED BY <1>4, <1>5, <1>0 DEF Place

\* The messages hold what the batch holds, in its order.
LEMMA SplitFacts ==
    ASSUME NEW S, NEW s \in Seq(S)
    PROVE  LET sp == SplitRoutesForPayload(s)
           IN  /\ sp \in Seq(Seq(S))
               /\ \A i \in 1..Len(sp), j \in Nat : j \in 1..Len(sp[i]) =>
                     /\ j \in 1..MessageRoutes /\ Place(i, j) \in 1..Len(s)
                     /\ sp[i][j] = s[Place(i, j)]
               /\ \A k \in 1..Len(s) :
                     \E i \in 1..Len(sp) : \E j \in 1..Len(sp[i]) : sp[i][j] = s[k]
<1> DEFINE m == MessageRoutes
           n == Len(s)
           count == (n + m - 1) \div m
           upTo(i) == IF i = count THEN n ELSE i * m
           sp == SplitRoutesForPayload(s)
<1>1. m \in Nat \ {0} /\ n \in Nat  BY RouteStreamAssumption
<1>2. count \in Nat /\ count * m <= n + m - 1 /\ n + m - 1 < (count + 1) * m
  BY <1>1
<1>3. sp = [i \in 1..count |-> SubSeq(s, (i - 1) * m + 1, upTo(i))]
  BY DEF SplitRoutesForPayload
<1>4. Len(sp) = count /\ \A i \in 1..count : sp[i] = SubSeq(s, (i - 1) * m + 1, upTo(i))
  <2> HIDE DEF m, n, count
  <2> DEFINE f(i) == SubSeq(s, (i - 1) * m + 1, upTo(i))
  <2>1. sp = [i \in 1..count |-> f(i)]  BY <1>3
  <2> HIDE DEF f, sp
  <2>2. Len(sp) = count /\ \A i \in 1..count : sp[i] = f(i)  BY <1>2, <2>1
  <2>3. QED BY <2>2 DEF f
<1>5. n <= count * m
  BY <1>1, <1>2
<1>6. ASSUME NEW i \in 1..count
      PROVE  /\ (i - 1) * m \in Nat /\ i * m = (i - 1) * m + m /\ (i - 1) * m + 1 <= n
             /\ upTo(i) \in Nat /\ upTo(i) <= n /\ upTo(i) <= i * m
             /\ i # count => upTo(i) = i * m
             /\ i = count => upTo(i) = n
  <2>1. (i - 1) * m \in Nat /\ i * m = (i - 1) * m + m
    <3>1. i \in Nat /\ i - 1 \in Nat  BY <1>2
    <3>2. QED BY <1>1, <3>1
  <2>2. i * m <= count * m
    <3>1. PICK d \in Nat : count = i + d
      <4>1. count - i \in Nat /\ count = i + (count - i)  BY <1>2
      <4>2. QED BY <4>1
    <3>2. count * m = i * m + d * m /\ d * m \in Nat  BY <1>1, <3>1
    <3>3. i * m \in Nat /\ count * m \in Nat  BY <1>1, <1>2
    <3> HIDE DEF m, n, count, upTo, sp
    <3>4. QED BY <3>2, <3>3
  <2>3. count * m \in Nat /\ i * m \in Nat  BY <1>1, <1>2
  <2>4. i # count => i * m <= (count - 1) * m /\ count * m = (count - 1) * m + m
    <3>1. CASE i # count
      <4>1. PICK d \in Nat : count - 1 = i + d
        <5>1. count - 1 - i \in Nat /\ count - 1 = i + (count - 1 - i)  BY <1>2, <3>1
        <5>2. QED BY <5>1
      <4>2. (count - 1) * m = i * m + d * m /\ d * m \in Nat  BY <1>1, <4>1
      <4>3. count - 1 \in Nat  BY <1>2, <3>1
      <4>4. count * m = (count - 1) * m + m  BY <1>1, <1>2, <4>3
      <4>5. (count - 1) * m \in Nat  BY <1>1, <4>3
      <4> HIDE DEF m, n, count, upTo, sp
      <4>6. QED BY <2>3, <4>2, <4>4, <4>5
    <3>2. QED BY <3>1
  <2> DEFINE low == (i - 1) * m
             mid == i * m
             high == count * m
             last == (count - 1) * m
  <2>5. upTo(i) = IF i = count THEN n ELSE mid  OBVIOUS
  <2>6. low \in Nat /\ mid = low + m /\ mid <= high /\ high \in Nat /\ high <= n + m - 1
    BY <1>2, <2>1, <2>2, <2>3
  <2>7. i # count => mid <= last /\ high = last + m  BY <2>4
  <2>8. last \in Int  BY <1>1, <1>2
  <2>9. n <= high  BY <1>5
  <2>10. i = count => mid = high  OBVIOUS
  <2> HIDE DEF m, n, count, upTo, sp, low, mid, high, last
  <2>11. low + 1 <= n
    BY <1>1, <2>6, <2>7, <2>8
  <2>12. upTo(i) \in Nat /\ upTo(i) <= n /\ upTo(i) <= mid
    BY <1>1, <2>5, <2>6, <2>7, <2>8, <2>9, <2>10
  <2>13. QED BY <2>1, <2>5, <2>6, <2>11, <2>12 DEF low, mid
<1>7. ASSUME NEW i \in 1..count
      PROVE  /\ sp[i] \in Seq(S) /\ Len(sp[i]) = upTo(i) - (i - 1) * m
             /\ \A j \in 1..Len(sp[i]) : sp[i][j] = s[(i - 1) * m + j]
  <2> DEFINE low == (i - 1) * m
  <2>1. low \in Nat /\ low + 1 <= n /\ upTo(i) \in Nat /\ upTo(i) <= n  BY <1>6
  <2>2. sp[i] = SubSeq(s, low + 1, upTo(i))  BY <1>4
  <2>3. low <= upTo(i)
    <3>1. i * m = low + m /\ (i # count => upTo(i) = i * m) /\ (i = count => upTo(i) = n)
      BY <1>6
    <3> HIDE DEF m, n, count, upTo, sp, low
    <3>2. CASE i = count  BY <3>1, <3>2, <2>1
    <3>3. CASE i # count  BY <3>1, <3>3, <2>1, <1>1
    <3>4. QED BY <3>2, <3>3
  <2>4. n = Len(s)  OBVIOUS
  <2> HIDE DEF m, n, count, upTo, sp, low
  <2>5. sp[i] \in Seq(S) /\ Len(sp[i]) = upTo(i) - low
        /\ \A j \in 1..Len(sp[i]) : sp[i][j] = s[low + j]
    BY <2>1, <2>2, <2>3, <2>4
  <2>6. QED BY <2>5 DEF low
<1>8. sp \in Seq(Seq(S))
  <2> HIDE DEF m, n, count, upTo, sp
  <2>1. \A i \in 1..count : sp[i] \in Seq(S)  BY <1>7
  <2>2. QED BY <1>2, <1>3, <1>4, <2>1
<1>9. ASSUME NEW i \in 1..Len(sp), NEW j \in Nat, j \in 1..Len(sp[i])
      PROVE  j \in 1..m /\ Place(i, j) \in 1..n /\ sp[i][j] = s[Place(i, j)]
  <2> DEFINE low == (i - 1) * m
             mid == i * m
  <2>0. i \in 1..count  BY <1>4
  <2>1. Place(i, j) = low + j  BY DEF Place
  <2>2. low \in Nat /\ mid = low + m /\ upTo(i) \in Nat /\ upTo(i) <= n /\ upTo(i) <= mid
    BY <1>6, <2>0
  <2>3. Len(sp[i]) = upTo(i) - low /\ sp[i][j] = s[low + j]  BY <1>7, <1>9, <2>0
  <2> HIDE DEF m, n, count, upTo, sp, low, mid
  <2>4. QED BY <1>1, <1>9, <2>1, <2>2, <2>3
<1>10. ASSUME NEW k \in 1..n
       PROVE  \E i \in 1..Len(sp) : \E j \in 1..Len(sp[i]) : sp[i][j] = s[k]
  <2>0. k - 1 \in Nat /\ k \in Nat  BY <1>1
  <2>1. PICK q \in Nat, r \in 0..(m - 1) : k - 1 = q * m + r  BY <1>1, <2>0, DivMod
  <2> DEFINE low == q * m
             i == q + 1
             j == r + 1
             mid == i * m
  <2>2. k - 1 = low + r  BY <2>1
  <2>3. low \in Nat  BY <1>1
  <2>4. k = low + j /\ i \in Nat \ {0} /\ i - 1 = q /\ j \in 1..m
    <3> HIDE DEF m, low
    <3>1. QED BY <1>1, <2>0, <2>2, <2>3
  <2>5. i <= count
    <3>1. SUFFICES ASSUME i > count PROVE FALSE  BY <1>2, <2>4
    <3>2. PICK d \in Nat : q = count + d
      <4>1. q - count \in Nat /\ q = count + (q - count)  BY <1>2, <2>2, <2>4, <3>1
      <4>2. QED BY <4>1
    <3> DEFINE x == count * m
               y == d * m
    <3>3. low = x + y /\ y \in Nat /\ x \in Nat  BY <1>1, <1>2, <3>2
    <3>4. n <= x /\ k <= n  BY <1>5
    <3> HIDE DEF m, n, count, upTo, sp, low, i, j, x, y
    <3>5. QED BY <1>1, <2>0, <2>3, <2>4, <3>3, <3>4
  <2>6. i \in 1..count /\ low = (i - 1) * m  BY <1>2, <2>4, <2>5
  <2>7. Len(sp[i]) = upTo(i) - low /\ \A x \in 1..Len(sp[i]) : sp[i][x] = s[low + x]
    BY <1>7, <2>6
  <2>8. mid = low + m /\ (i # count => upTo(i) = mid) /\ (i = count => upTo(i) = n)
        /\ upTo(i) \in Nat
    BY <1>6, <2>6
  <2>9. k <= n  OBVIOUS
  <2> HIDE DEF m, n, count, upTo, sp, low, mid, i, j
  <2>10. j \in 1..Len(sp[i])
    <3>1. j \in Nat /\ 1 <= j /\ j <= m  BY <1>1, <2>4
    <3>2. j <= upTo(i) - low
      <4>1. CASE i = count  BY <1>1, <2>0, <2>3, <2>4, <2>8, <2>9, <3>1, <4>1
      <4>2. CASE i # count  BY <1>1, <2>3, <2>8, <3>1, <4>2
      <4>3. QED BY <4>1, <4>2
    <3>3. upTo(i) - low \in Int  BY <2>3, <2>8
    <3>4. QED BY <2>7, <3>1, <3>2, <3>3
  <2>11. sp[i][j] = s[k]  BY <2>4, <2>7, <2>10
  <2>12. QED BY <1>4, <2>6, <2>10, <2>11
<1>11. QED BY <1>8, <1>9, <1>10

-----------------------------------------------------------------------------
(* Types. *)

\* Before it begins the stream is empty.
LEMMA TypedInit == Init => Typed
<1> SUFFICES ASSUME Init PROVE Typed  OBVIOUS
<1>1. IsFiniteSet({}) /\ Cardinality({}) = 0  BY FS_EmptySet
<1>2. gen \in 1..MaxGenerations /\ faults \in 0..MaxFaults /\ next \in 0..Cardinality(Routes)
  BY RouteStreamAssumption, PlanFacts DEF Init
<1>3. batch \in Seq(Routes) /\ Len(batch) = 0 /\ queue \in Seq(Batches) /\ received \in Seq(Batches)
  BY DEF Init
<1>4. BatchRoutes \in Nat \ {0} /\ SigningConcurrency \in Nat  BY RouteStreamAssumption
<1>5. CallTyped  BY <1>2 DEF Init, CallTyped
<1>6. RoutesTyped  BY <1>1, <1>2, <1>4 DEF Init, RoutesTyped
<1>7. GroupsTyped  BY DEF Init, GroupsTyped
<1>8. SenderTyped  BY <1>3, <1>4 DEF Init, SenderTyped
<1>9. QED BY <1>5, <1>6, <1>7, <1>8 DEF Typed

\* The numbered messages of the batch: numbers from batchIndex, routes as split.
LEMMA NumberedTyped ==
    ASSUME Typed
    PROVE  /\ Numbered \in Seq(Batches)
           /\ Len(Numbered) = Len(SplitRoutesForPayload(batch))
           /\ \A i \in 1..Len(Numbered) : /\ Numbered[i].index = batchIndex + i - 1
                                          /\ Numbered[i].routes = SplitRoutesForPayload(batch)[i]
<1> DEFINE sp == SplitRoutesForPayload(batch)
<1>1. sp \in Seq(Seq(Routes))  BY SplitFacts DEF Typed, SenderTyped
<1>2. batchIndex \in Nat  BY DEF Typed, SenderTyped
<1>3. Numbered = [i \in 1..Len(sp) |-> [index |-> batchIndex + i - 1, routes |-> sp[i]]]
  BY DEF Numbered
<1> HIDE DEF sp
<1>4. \A i \in 1..Len(sp) : [index |-> batchIndex + i - 1, routes |-> sp[i]] \in Batches
  BY <1>1, <1>2 DEF Batches
<1> DEFINE f(i) == [index |-> batchIndex + i - 1, routes |-> sp[i]]
<1>5. Numbered = [i \in 1..Len(sp) |-> f(i)] /\ \A i \in 1..Len(sp) : f(i) \in Batches
  BY <1>3, <1>4
<1>6. \A i \in 1..Len(sp) : f(i).index = batchIndex + i - 1 /\ f(i).routes = sp[i]  OBVIOUS
<1> HIDE DEF f
<1>7. Len(sp) \in Nat  BY <1>1
<1>8. Numbered \in Seq(Batches) /\ Len(Numbered) = Len(sp)
      /\ \A i \in 1..Len(sp) : Numbered[i] = f(i)
  BY <1>5, <1>7
<1>9. QED BY <1>6, <1>8 DEF sp

\* What only the call itself changes stays what the code can hold.
LEMMA CallStep == CallTyped /\ [Next]_vars => CallTyped'
<1> SUFFICES ASSUME CallTyped, [Next]_vars PROVE CallTyped'  OBVIOUS
<1> USE DEF CallTyped, streamVars, groupVars, sendVars, runtimeVars, cleanVars, Fail, ErrorKinds
<1>0. MaxFaults \in Nat /\ MaxGenerations \in Nat  BY RouteStreamAssumption
<1>1. Faulty => faults' \in 0..MaxFaults  BY <1>0 DEF Faulty
<1>2. CASE Begin  BY <1>1, <1>2 DEF Begin
<1>3. CASE Complete  BY <1>1, <1>3 DEF Complete
<1>4. CASE SendBatch  BY <1>1, <1>4 DEF SendBatch
<1>5. CASE StartRoute \/ Fenced \/ Abandoned \/ CleanUp \/ CancelSettles \/ CleanedUp \/ Fence
  BY <1>5, ZenonT(40)
     DEF StartRoute, Fenced, Abandoned, CleanUp, CancelSettles, CleanedUp, Fence
<1>6. CASE Refused \/ Flush \/ AllStreamed  BY <1>6 DEF Refused, Flush, AllStreamed
<1>7. CASE Replay
  <2>1. gen' \in 1..MaxGenerations  BY <1>0, <1>7 DEF Replay
  <2>2. pc' = "begin" /\ cause' = "none" /\ sendError' = FALSE /\ completed' = FALSE
        /\ UNCHANGED <<owned, faults, cleanupFailed>>
    BY <1>7 DEF Replay, StreamReset
  <2>3. QED BY <2>1, <2>2
<1>8. ASSUME NEW r \in pending, RouteSigned(r) \/ RouteFails(r) PROVE CallTyped'
  BY <1>1, <1>8 DEF RouteSigned, RouteFails
<1>9. ASSUME NEW r \in pending, TakeRoute(r) PROVE CallTyped'  BY <1>9 DEF TakeRoute
<1>10. ASSUME NEW g \in Groups, CreateGroup(g) \/ UploadCreated(g) PROVE CallTyped'
  BY <1>10 DEF CreateGroup, UploadCreated
<1>11. ASSUME NEW g \in Groups, AnnounceGroup(g) \/ GroupAcked(g) PROVE CallTyped'
  BY <1>11 DEF AnnounceGroup, GroupAcked
<1>12. ASSUME NEW g \in Groups, CreateFails(g) PROVE CallTyped'  BY <1>1, <1>12 DEF CreateFails
<1>13. ASSUME NEW g \in Groups, GroupFails(g) PROVE CallTyped'  BY <1>1, <1>13 DEF GroupFails
<1>14. ASSUME NEW g \in Groups, GroupUndone(g) PROVE CallTyped'
  BY <1>1, <1>14 DEF GroupUndone, AbortFails
<1>15. ASSUME NEW g \in Groups, StartAbort(g) PROVE CallTyped'  BY <1>15 DEF StartAbort
<1>16. ASSUME NEW g \in Groups, AbortUpload(g) PROVE CallTyped'
  BY <1>1, <1>16 DEF AbortUpload, AbortFails
<1>17. CASE UNCHANGED vars  BY <1>17 DEF vars
<1>18. QED
  BY <1>2, <1>3, <1>4, <1>5, <1>6, <1>8, <1>9, <1>10, <1>11, <1>12, <1>13, <1>14, <1>15, <1>16,
     <1>17, <1>7 DEF Next, Step

\* A route is started only below the limit, and settles while it is pending.
LEMMA RoutesStep == RoutesTyped /\ [Next]_vars => RoutesTyped'
<1> SUFFICES ASSUME RoutesTyped, [Next]_vars PROVE RoutesTyped'  OBVIOUS
<1> USE DEF streamVars
<1>0. SigningConcurrency \in Nat /\ Cardinality(pending) \in Nat /\ IsFiniteSet(pending)
  BY RouteStreamAssumption, FS_CardinalityType DEF RoutesTyped
<1>1. CASE StartRoute
  <2>1. pending' = pending \union {Yielded(next)} /\ next' = next + 1 /\ UNCHANGED settled
        /\ ~ (Cardinality(pending) >= SigningConcurrency) /\ next # Cardinality(Routes)
    BY <1>1 DEF StartRoute, Blocked
  <2>2. Yielded(next) \in Nat /\ next' \in 0..Cardinality(Routes)
    BY <2>1, PlanFacts DEF RoutesTyped
  <2>3. IsFiniteSet(pending') /\ Cardinality(pending') <= Cardinality(pending) + 1
        /\ Cardinality(pending') \in Nat
    BY <1>0, <2>1, FS_AddElement, FS_CardinalityType
  <2>4. Cardinality(pending') <= SigningConcurrency  BY <1>0, <2>1, <2>3
  <2>5. QED BY <2>1, <2>2, <2>3, <2>4 DEF RoutesTyped
<1>2. ASSUME NEW r \in pending, RouteSigned(r) PROVE RoutesTyped'
  BY <1>2 DEF RoutesTyped, RouteSigned
<1>3. ASSUME NEW r \in pending, RouteFails(r) PROVE RoutesTyped'
  BY <1>3 DEF RoutesTyped, RouteFails
<1>4. ASSUME NEW r \in pending, TakeRoute(r) PROVE RoutesTyped'
  <2>1. pending' = pending \ {r} /\ settled' = [s \in DOMAIN settled \ {r} |-> settled[s]]
        /\ UNCHANGED next
    BY <1>4 DEF TakeRoute
  <2>2. IsFiniteSet(pending') /\ Cardinality(pending') <= Cardinality(pending)
        /\ Cardinality(pending') \in Nat
    BY <1>0, <2>1, FS_Subset, FS_CardinalityType
  <2>3. Cardinality(pending') <= SigningConcurrency  BY <1>0, <2>2 DEF RoutesTyped
  <2>4. QED BY <2>1, <2>2, <2>3 DEF RoutesTyped
<1>5. CASE Replay
  <2>1. IsFiniteSet({}) /\ Cardinality({}) = 0  BY FS_EmptySet
  <2>2. QED BY <1>0, <1>5, <2>1, PlanFacts DEF RoutesTyped, Replay, StreamReset
<1>6. CASE UNCHANGED streamVars  BY <1>6 DEF RoutesTyped
<1>7. QED
  BY <1>1, <1>2, <1>3, <1>4, <1>5, <1>6
     DEF Next, Step, vars, Begin, Refused, Flush, AllStreamed, Complete, SendBatch, CreateGroup,
         UploadCreated, CreateFails, AnnounceGroup, GroupAcked, GroupFails, GroupUndone, Fenced,
         Abandoned, CleanUp, CancelSettles, StartAbort, AbortUpload, CleanedUp, Fence

\* An abort takes away at most the upload that the call knows of.
LEMMA AbortFacts ==
    ASSUME GroupsTyped, Uploads, NEW g \in Groups, AbortDone(g) \/ AbortFails(g)
    PROVE  /\ live' \in [Groups -> Nat] /\ sent' = sent \ {g}
           /\ uploads' \in {uploads, uploads \ {g}}
           /\ \A h \in Groups : h # g => live'[h] = live[h]
           /\ live'[g] # orphans[g] => live'[g] = orphans[g] + 1 /\ g \in uploads'
<1>1. live[g] \in Nat /\ orphans[g] \in Nat /\ live \in [Groups -> Nat]  BY DEF GroupsTyped
<1>2. live[g] # orphans[g] => live[g] = orphans[g] + 1 /\ g \in uploads  BY DEF Uploads
<1>3. CASE AbortDone(g)
  <2>1. live[g] = orphans[g] + 1  BY <1>1, <1>2, <1>3 DEF AbortDone, Known
  <2>2. live' = [live EXCEPT ![g] = @ - 1]  BY <1>3 DEF AbortDone
  <2>3. live'[g] = orphans[g]  BY <1>1, <2>1, <2>2
  <2>4. QED BY <1>1, <1>3, <2>1, <2>2, <2>3 DEF AbortDone
<1>4. CASE AbortFails(g)
  <2>1. PICK gone \in 0..Known(g) : live' = [live EXCEPT ![g] = @ - gone]
    BY <1>4 DEF AbortFails
  <2>2. gone \in Nat /\ gone <= live[g] - orphans[g]  BY <1>1, <1>2, <2>1 DEF Known
  <2>3. live'[g] = live[g] - gone  BY <1>1, <2>1
  <2>4. live'[g] # orphans[g] => live'[g] = orphans[g] + 1 /\ g \in uploads
    BY <1>1, <1>2, <2>2, <2>3
  <2>5. UNCHANGED uploads /\ sent' = sent \ {g}  BY <1>4 DEF AbortFails
  <2>6. live' \in [Groups -> Nat]  BY <1>1, <2>1, <2>2
  <2>7. QED BY <1>1, <2>1, <2>4, <2>5, <2>6
<1>5. QED BY <1>3, <1>4

\* An upload is aborted only where there is one, so none is counted below zero.
LEMMA GroupsStep == GroupsTyped /\ Uploads /\ [Next]_vars => GroupsTyped'
<1> SUFFICES ASSUME GroupsTyped, Uploads, [Next]_vars PROVE GroupsTyped'  OBVIOUS
<1> USE DEF groupVars, runtimeVars, cleanVars
<1>1. ASSUME NEW g \in Groups, CreateGroup(g) PROVE GroupsTyped'
  BY <1>1 DEF GroupsTyped, CreateGroup
<1>2. ASSUME NEW g \in Groups, UploadCreated(g) PROVE GroupsTyped'
  BY <1>2 DEF GroupsTyped, UploadCreated
<1>3. ASSUME NEW g \in Groups, CreateFails(g) PROVE GroupsTyped'
  <2>1. live' \in [Groups -> Nat] /\ orphans' \in [Groups -> Nat]
    BY <1>3 DEF GroupsTyped, CreateFails
  <2>2. group' = [group EXCEPT ![g] = "failed"] \/ group' = group  BY <1>3 DEF CreateFails
  <2>3. UNCHANGED <<uploads, fresh, acked, aborting, sent>>  BY <1>3 DEF CreateFails
  <2>4. QED BY <2>1, <2>2, <2>3 DEF GroupsTyped
<1>4. ASSUME NEW g \in Groups, AnnounceGroup(g) PROVE GroupsTyped'
  BY <1>4 DEF GroupsTyped, AnnounceGroup
<1>5. ASSUME NEW g \in Groups, GroupAcked(g) PROVE GroupsTyped'
  BY <1>5 DEF GroupsTyped, GroupAcked
<1>6. ASSUME NEW g \in Groups, GroupFails(g) PROVE GroupsTyped'
  BY <1>6 DEF GroupsTyped, GroupFails
<1>7. ASSUME NEW g \in Groups, GroupUndone(g) PROVE GroupsTyped'
  <2>1. AbortDone(g) \/ AbortFails(g)  BY <1>7 DEF GroupUndone
  <2>2. group' = [group EXCEPT ![g] = "failed"]
        /\ UNCHANGED <<fresh, acked, aborting, orphans>>
    BY <1>7 DEF GroupUndone
  <2>3. QED BY <2>1, <2>2, AbortFacts DEF GroupsTyped
<1>8. ASSUME NEW g \in Groups, StartAbort(g) PROVE GroupsTyped'
  BY <1>8 DEF GroupsTyped, StartAbort
<1>9. ASSUME NEW g \in Groups, AbortUpload(g) PROVE GroupsTyped'
  <2>1. AbortDone(g) \/ AbortFails(g)  BY <1>9 DEF AbortUpload
  <2>2. UNCHANGED <<group, fresh, acked, aborting, orphans>>  BY <1>9 DEF AbortUpload
  <2>3. QED BY <2>1, <2>2, AbortFacts DEF GroupsTyped
<1>10. CASE Replay  BY <1>10 DEF GroupsTyped, Replay, StreamReset
<1>11. CASE Begin
  <2>1. group' = group \/ group' = [g \in Groups |-> "failed"]  BY <1>11 DEF Begin
  <2>2. UNCHANGED <<fresh, uploads, live, orphans, sent, acked, aborting>>  BY <1>11 DEF Begin
  <2>3. QED BY <2>1, <2>2 DEF GroupsTyped
<1>12. CASE CancelSettles  BY <1>12 DEF GroupsTyped, CancelSettles
<1>13. CASE UNCHANGED <<groupVars, acked, aborting>>  BY <1>13 DEF GroupsTyped
<1>14. QED
  BY <1>1, <1>2, <1>3, <1>4, <1>5, <1>6, <1>7, <1>8, <1>9, <1>10, <1>11, <1>12, <1>13
     DEF Next, Step, vars, StartRoute, Refused, Flush, AllStreamed, Complete, SendBatch,
         RouteSigned, RouteFails, TakeRoute, Fenced, Abandoned, CleanUp, CleanedUp, Fence

\* A batch that is full is flushed before the next route is added to it.
LEMMA SenderStep == Typed /\ [Next]_vars => SenderTyped'
<1> SUFFICES ASSUME Typed, [Next]_vars PROVE SenderTyped'  OBVIOUS
<1> USE DEF sendVars, runtimeVars
<1>0. BatchRoutes \in Nat \ {0} /\ SenderTyped  BY RouteStreamAssumption DEF Typed
<1>1. CASE Flush
  <2>1. CASE sendError /\ batch # <<>>  BY <1>0, <1>1, <2>1 DEF SenderTyped, Flush, Fail
  <2>2. CASE ~(sendError /\ batch # <<>>)
    <3>1. queue' = queue \o Numbered /\ batchIndex' = batchIndex + Len(Numbered) /\ batch' = <<>>
          /\ pc' \in {"streaming", "tail"} /\ UNCHANGED <<seenDeliveryIndices, received>>
      BY <1>1, <2>2 DEF Flush
    <3>2. queue' \in Seq(Batches) /\ batchIndex' \in Nat
      BY <1>0, <3>1, NumberedTyped DEF SenderTyped
    <3>3. batch' \in Seq(Routes) /\ Len(batch') = 0  BY <3>1
    <3>4. QED BY <1>0, <3>1, <3>2, <3>3 DEF SenderTyped
  <2>3. QED BY <2>1, <2>2
<1>2. CASE SendBatch
  <2>1. Tail(queue) \in Seq(Batches) /\ Append(received, Head(queue)) \in Seq(Batches)
    BY <1>0, <1>2 DEF SendBatch, SenderTyped
  <2>2. QED BY <1>0, <1>2, <2>1 DEF SenderTyped, SendBatch
<1>3. ASSUME NEW r \in pending, TakeRoute(r) PROVE SenderTyped'
  <2>1. CASE \/ settled[r] = "failed" \/ ~owned \/ r \notin Routes
             \/ r \in seenDeliveryIndices
    BY <1>0, <1>3, <2>1 DEF TakeRoute, SenderTyped, Fail
  <2>2. CASE ~(\/ settled[r] = "failed" \/ ~owned \/ r \notin Routes
               \/ r \in seenDeliveryIndices)
    <3>1. batch' = Append(batch, r) /\ r \in Routes
          /\ seenDeliveryIndices' = seenDeliveryIndices \union {r}
          /\ pc' = (IF Len(batch) + 1 >= BatchRoutes THEN "flushing" ELSE pc)
          /\ pc = "streaming" /\ UNCHANGED <<queue, batchIndex, received>>
      BY <1>3, <2>2 DEF TakeRoute
    <3>2. batch' \in Seq(Routes) /\ Len(batch') = Len(batch) + 1 /\ Len(batch) < BatchRoutes
          /\ Len(batch) \in Nat
      BY <1>0, <3>1 DEF SenderTyped
    <3>3. Len(batch') <= BatchRoutes /\ (pc' = "streaming" => Len(batch') < BatchRoutes)
      BY <1>0, <3>1, <3>2
    <3>4. QED BY <1>0, <3>1, <3>2, <3>3 DEF SenderTyped
  <2>3. QED BY <2>1, <2>2
<1>4. CASE Replay
  <2>1. batch' \in Seq(Routes) /\ Len(batch') = 0 /\ queue' \in Seq(Batches)
        /\ received' \in Seq(Batches)
    BY <1>4 DEF Replay, StreamReset
  <2>2. QED BY <1>0, <1>4, <2>1 DEF SenderTyped, Replay, StreamReset
<1>5. CASE Begin
  <2>1. Len(<<>>) = 0  OBVIOUS
  <2>2. QED BY <1>0, <1>5, <2>1 DEF SenderTyped, Begin, Fail
<1>6. CASE Complete  BY <1>0, <1>6 DEF SenderTyped, Complete, Fail
<1>7. CASE UNCHANGED <<seenDeliveryIndices, batch, queue, batchIndex, received>>
           /\ (pc' = pc \/ pc' \in {"failing", "ended", "cancelling", "cleanup", "lastFlush"})
  BY <1>0, <1>7 DEF SenderTyped
<1>8. QED
  BY <1>1, <1>2, <1>3, <1>4, <1>5, <1>6, <1>7
     DEF Next, Step, vars, StartRoute, Refused, AllStreamed, RouteSigned, RouteFails, CreateGroup,
         UploadCreated, CreateFails, AnnounceGroup, GroupAcked, GroupFails, GroupUndone, Fenced,
         Abandoned, CleanUp, CancelSettles, StartAbort, AbortUpload, CleanedUp, Fence, Fail

\* The four parts of the type invariant together.
LEMMA TypedStep == Typed /\ Uploads /\ [Next]_vars => Typed'
  BY CallStep, RoutesStep, GroupsStep, SenderStep DEF Typed

-----------------------------------------------------------------------------
(* The batches. *)

\* What a step does to the batches: it cuts some, sends or drops the first, or
\* leaves them alone.
LEMMA NumberingStep == Typed /\ Numbering /\ [Next]_vars => Numbering'
<1> SUFFICES ASSUME Typed, Numbering, [Next]_vars PROVE Numbering'  OBVIOUS
<1> USE DEF sendVars, runtimeVars
<1>0. queue \in Seq(Batches) /\ received \in Seq(Batches) /\ batchIndex \in Nat
      /\ sendError \in BOOLEAN
  BY DEF Typed, SenderTyped, CallTyped
<1>1. CASE Flush
  <2>1. CASE sendError /\ batch # <<>>  BY <1>0, <1>1, <2>1 DEF Numbering, Flush, Fail
  <2>2. CASE ~(sendError /\ batch # <<>>)
    <3>1. queue' = queue \o Numbered /\ batchIndex' = batchIndex + Len(Numbered)
          /\ UNCHANGED <<received, sendError>>
      BY <1>1, <2>2 DEF Flush
    <3>2. /\ Numbered \in Seq(Batches)
          /\ \A i \in 1..Len(Numbered) : Numbered[i].index = batchIndex + i - 1
      BY NumberedTyped
    <3>3. Len(queue') = Len(queue) + Len(Numbered) /\ Len(queue) \in Nat /\ Len(Numbered) \in Nat
          /\ Len(received) \in Nat
      BY <1>0, <3>1, <3>2
    <3>4. ASSUME NEW i \in 1..Len(queue')
          PROVE  queue'[i].index = batchIndex' - Len(queue') + i - 1
      <4>1. CASE i <= Len(queue)
        <5>1. queue'[i] = queue[i] /\ i \in 1..Len(queue)  BY <1>0, <3>1, <3>2, <3>3, <4>1
        <5>2. QED BY <1>0, <3>1, <3>3, <5>1 DEF Numbering
      <4>2. CASE i > Len(queue)
        <5>1. i - Len(queue) \in 1..Len(Numbered)  BY <3>3, <4>2
        <5>2. queue'[i] = Numbered[i - Len(queue)]  BY <1>0, <3>1, <3>2, <3>3, <4>2
        <5>3. queue'[i].index = batchIndex + (i - Len(queue)) - 1  BY <3>2, <5>1, <5>2
        <5>4. i \in Int  BY <3>3
        <5>5. QED BY <1>0, <3>1, <3>3, <5>3, <5>4
      <4>3. QED BY <3>3, <4>1, <4>2
    <3>5. /\ Len(received') + Len(queue') <= batchIndex'
          /\ ~sendError' => Len(received') + Len(queue') = batchIndex'
      <4> DEFINE a == Len(received)
                 b == Len(queue)
                 c == Len(Numbered)
      <4>1. Len(received') = a /\ Len(queue') = b + c /\ a \in Nat /\ b \in Nat /\ c \in Nat
            /\ batchIndex' = batchIndex + c /\ sendError' = sendError
        BY <3>1, <3>3
      <4>2. a + b <= batchIndex /\ (~sendError => a + b = batchIndex)  BY DEF Numbering
      <4> HIDE DEF a, b, c
      <4>3. QED BY <1>0, <4>1, <4>2
    <3>6. \A i \in 1..Len(received') : received'[i].index = i - 1  BY <3>1 DEF Numbering
    <3>7. QED BY <3>4, <3>5, <3>6 DEF Numbering
  <2>3. QED BY <2>1, <2>2
<1>2. CASE SendBatch
  <2>1. queue # <<>> /\ queue' = Tail(queue) /\ UNCHANGED batchIndex
    BY <1>2 DEF SendBatch
  <2>2. Len(queue') = Len(queue) - 1 /\ Len(queue) \in Nat \ {0} /\ Len(received) \in Nat
        /\ \A i \in 1..Len(queue') : queue'[i] = queue[i + 1] /\ i + 1 \in 1..Len(queue)
    BY <1>0, <2>1
  <2>3. \A i \in 1..Len(queue') : queue'[i].index = batchIndex' - Len(queue') + i - 1
    BY <1>0, <2>1, <2>2 DEF Numbering
  <2>4. Head(queue) \in Batches /\ Head(queue) = queue[1]  BY <1>0, <2>1
  <2>5. CASE UNCHANGED received /\ sendError' = TRUE
    BY <1>0, <2>1, <2>2, <2>3, <2>5 DEF Numbering
  <2>6. CASE ~sendError /\ received' = Append(received, Head(queue)) /\ sendError' \in BOOLEAN
    <3>1. /\ Len(received') = Len(received) + 1
          /\ \A i \in 1..Len(received) : received'[i] = received[i]
          /\ received'[Len(received) + 1] = Head(queue)
      BY <1>0, <2>4, <2>6
    <3>2. 1 \in 1..Len(queue) /\ queue[1].index = batchIndex - Len(queue) + 1 - 1
          /\ Len(received) + Len(queue) = batchIndex
      BY <2>2, <2>6 DEF Numbering
    <3>3. Head(queue).index = Len(received)  BY <1>0, <2>2, <2>4, <3>2
    <3>4. ASSUME NEW i \in 1..Len(received') PROVE received'[i].index = i - 1
      <4>1. i \in 1..Len(received) \/ i = Len(received) + 1  BY <2>2, <3>1
      <4>2. CASE i \in 1..Len(received)  BY <3>1, <4>2 DEF Numbering
      <4>3. CASE i = Len(received) + 1
        <5>1. received'[i] = Head(queue)  BY <2>2, <3>1, <4>3
        <5>2. Len(received) \in Nat  BY <2>2
        <5>3. Len(received) = i - 1  BY <4>3, <5>2
        <5>4. QED BY <3>3, <5>1, <5>3
      <4>4. QED BY <4>1, <4>2, <4>3
    <3>5. Len(received') + Len(queue') = batchIndex'
      <4> DEFINE a == Len(received)
                 b == Len(queue)
      <4>1. /\ Len(received') = a + 1 /\ Len(queue') = b - 1
            /\ a \in Nat /\ b \in Nat /\ a + b = batchIndex
        BY <2>2, <3>1, <3>2
      <4>2. batchIndex' = batchIndex  BY <2>1
      <4> HIDE DEF a, b
      <4>3. QED BY <4>1, <4>2
    <3>6. Len(received') + Len(queue') <= batchIndex'
      <4>1. batchIndex' \in Nat  BY <1>0, <2>1
      <4>2. QED BY <3>5, <4>1
    <3>7. QED BY <2>3, <3>4, <3>5, <3>6 DEF Numbering
  <2>7. \/ UNCHANGED received /\ sendError' = TRUE
        \/ ~sendError /\ received' = Append(received, Head(queue)) /\ sendError' \in BOOLEAN
    BY <1>0, <1>2 DEF SendBatch
  <2>8. QED BY <2>5, <2>6, <2>7
<1>3. CASE Replay  BY <1>3 DEF Replay, StreamReset, Numbering
<1>4. CASE UNCHANGED <<queue, batchIndex, received>> /\ (sendError' = sendError \/ sendError')
  BY <1>0, <1>4 DEF Numbering
<1>5. QED
  BY <1>0, <1>1, <1>2, <1>3, <1>4
     DEF Next, Step, vars, Begin, StartRoute, Refused, AllStreamed, Complete, RouteSigned,
         RouteFails, TakeRoute, CreateGroup, UploadCreated, CreateFails, AnnounceGroup,
         GroupAcked, GroupFails, GroupUndone, Fenced, Abandoned, CleanUp, CancelSettles,
         StartAbort, AbortUpload, CleanedUp, Fence, Fail

\* What a concatenation holds.
LEMMA ConcatFacts ==
    ASSUME NEW S, NEW s \in Seq(S), NEW u \in Seq(S)
    PROVE  /\ Len(s) \in Nat /\ Len(u) \in Nat /\ Len(s \o u) = Len(s) + Len(u)
           /\ \A i \in 1..Len(s) : (s \o u)[i] = s[i]
           /\ \A i \in 1..Len(u) : (s \o u)[Len(s) + i] = u[i]
<1>1. Len(s) \in Nat /\ Len(u) \in Nat /\ Len(s \o u) = Len(s) + Len(u)  OBVIOUS
<1>2. ASSUME NEW i \in 1..Len(s) PROVE (s \o u)[i] = s[i]  OBVIOUS
<1>3. ASSUME NEW i \in 1..Len(u) PROVE (s \o u)[Len(s) + i] = u[i]
  <2>1. Len(s) + i \in 1..(Len(s) + Len(u)) /\ Len(s) + i > Len(s) /\ (Len(s) + i) - Len(s) = i
    BY <1>1
  <2>2. QED BY <2>1
<1>4. QED BY <1>1, <1>2, <1>3

\* A batch that is cut puts its routes in line, each in one place.
LEMMA CutInLine ==
    ASSUME Typed, Numbering, OnePlace, queue' = queue \o Numbered, batch' = <<>>,
           UNCHANGED <<received, seenDeliveryIndices, sendError>>
    PROVE  OnePlace'
<1> DEFINE sp == SplitRoutesForPayload(batch)
           New == {Numbered[i] : i \in 1..Len(Numbered)}
<1>0. /\ queue \in Seq(Batches) /\ received \in Seq(Batches) /\ batch \in Seq(Routes)
      /\ batchIndex \in Nat
  BY DEF Typed, SenderTyped
<1>1. /\ Numbered \in Seq(Batches) /\ Len(Numbered) = Len(sp)
      /\ \A i \in 1..Len(Numbered) :
            Numbered[i].index = batchIndex + i - 1 /\ Numbered[i].routes = sp[i]
  BY NumberedTyped
<1>2. Line' = Line \union New
  <2>1. /\ Len(queue) \in Nat /\ Len(Numbered) \in Nat /\ Len(queue') = Len(queue) + Len(Numbered)
        /\ \A i \in 1..Len(queue) : queue'[i] = queue[i]
        /\ \A i \in 1..Len(Numbered) : queue'[Len(queue) + i] = Numbered[i]
    <3>1. queue \in Seq(Batches) /\ Numbered \in Seq(Batches)  BY <1>0, <1>1
    <3> DEFINE q == queue \o Numbered
    <3>2. /\ Len(queue) \in Nat /\ Len(Numbered) \in Nat /\ Len(q) = Len(queue) + Len(Numbered)
          /\ \A i \in 1..Len(queue) : q[i] = queue[i]
          /\ \A i \in 1..Len(Numbered) : q[Len(queue) + i] = Numbered[i]
      BY ONLY <3>1, ConcatFacts
    <3>3. queue' = q  OBVIOUS
    <3> HIDE DEF q
    <3>4. QED BY <3>2, <3>3
  <2>2. ASSUME NEW i \in 1..Len(queue') PROVE queue'[i] \in Line \union New
    <3>1. CASE i <= Len(queue)
      <4>1. i \in 1..Len(queue) /\ queue'[i] = queue[i]  BY <2>1, <3>1
      <4>2. QED BY <4>1 DEF Line
    <3>2. CASE ~(i <= Len(queue))
      <4>1. i - Len(queue) \in 1..Len(Numbered) /\ i = Len(queue) + (i - Len(queue))
        BY <2>1, <3>2
      <4>2. queue'[i] = Numbered[i - Len(queue)]  BY <2>1, <4>1
      <4>3. QED BY <4>1, <4>2
    <3>3. QED BY <3>1, <3>2
  <2>3. ASSUME NEW i \in 1..Len(queue) PROVE queue[i] \in {queue'[k] : k \in 1..Len(queue')}
    <3>1. i \in 1..Len(queue') /\ queue'[i] = queue[i]  BY <2>1
    <3>2. QED BY <3>1
  <2>4. ASSUME NEW i \in 1..Len(Numbered) PROVE Numbered[i] \in {queue'[k] : k \in 1..Len(queue')}
    <3>1. Len(queue) + i \in 1..Len(queue') /\ queue'[Len(queue) + i] = Numbered[i]  BY <2>1
    <3>2. QED BY <3>1
  <2>5. received' = received  OBVIOUS
  <2> HIDE DEF New
  <2>6. Line' \subseteq Line \union New  BY <2>2, <2>5 DEF Line
  <2>7. Line \subseteq Line'  BY <2>3, <2>5 DEF Line
  <2>8. New \subseteq Line'  BY <2>4 DEF Line, New
  <2>9. QED BY <2>6, <2>7, <2>8
<1>3. /\ \A i \in 1..Len(sp), j \in Nat : j \in 1..Len(sp[i]) =>
            /\ j \in 1..MessageRoutes /\ Place(i, j) \in 1..Len(batch)
            /\ sp[i][j] = batch[Place(i, j)]
      /\ \A k \in 1..Len(batch) :
            \E i \in 1..Len(sp) : \E j \in 1..Len(sp[i]) : sp[i][j] = batch[k]
  BY <1>0, SplitFacts
<1> HIDE DEF sp
<1>4. ASSUME NEW i \in 1..Len(Numbered), NEW j \in 1..Len(Numbered[i].routes)
      PROVE  /\ j \in 1..MessageRoutes /\ i \in Nat \ {0}
             /\ Place(i, j) \in 1..Len(batch) /\ Numbered[i].routes[j] = batch[Place(i, j)]
  <2>1. Numbered[i].routes = sp[i] /\ i \in 1..Len(sp)  BY <1>1
  <2>2. j \in Nat /\ j \in 1..Len(sp[i])
    <3>1. Numbered[i] \in Batches  BY <1>1
    <3>2. Len(Numbered[i].routes) \in Nat  BY <3>1 DEF Batches
    <3>3. QED BY <2>1, <3>2
  <2>3. i \in Nat \ {0}  BY <1>1
  <2>4. QED BY <1>3, <2>1, <2>2, <2>3
<1>5. ASSUME NEW k \in 1..Len(batch)
      PROVE  \E i \in 1..Len(Numbered) : \E j \in 1..Len(Numbered[i].routes) :
                Numbered[i].routes[j] = batch[k]
  <2>1. PICK i \in 1..Len(sp) : \E j \in 1..Len(sp[i]) : sp[i][j] = batch[k]  BY <1>3
  <2>2. i \in 1..Len(Numbered) /\ Numbered[i].routes = sp[i]  BY <1>1
  <2>3. QED BY <2>1, <2>2
<1>6. ASSUME NEW b \in New, NEW j \in 1..Len(b.routes) PROVE InBatch(b.routes[j])
  <2>1. PICK i \in 1..Len(Numbered) : b = Numbered[i]  OBVIOUS
  <2>2. QED BY <1>4, <2>1 DEF InBatch
<1>7. \A b \in Line \union New : \A i \in 1..Len(b.routes) : b.routes[i] \in Routes
  <2>1. Line \subseteq Batches  BY <1>0 DEF Line
  <2>2. New \subseteq Batches  BY <1>1
  <2>3. QED BY <2>1, <2>2 DEF Batches
<1>8. \A b \in Line : \A i \in 1..Len(b.routes) :
         ~InBatch(b.routes[i]) /\ b.routes[i] \in seenDeliveryIndices
  BY <1>7 DEF OnePlace, InLine
<1>9. ASSUME NEW b \in Line', NEW c \in Line', NEW i \in 1..Len(b.routes),
             NEW j \in 1..Len(c.routes), b.routes[i] = c.routes[j]
      PROVE  b.index = c.index /\ i = j
  <2>1. CASE b \in Line /\ c \in Line  BY <1>9, <2>1 DEF OnePlace
  <2>2. CASE b \in New /\ c \in New
    <3>1. PICK x \in 1..Len(Numbered) : b = Numbered[x]  BY <2>2
    <3>2. PICK y \in 1..Len(Numbered) : c = Numbered[y]  BY <2>2
    <3>3. /\ i \in 1..MessageRoutes /\ j \in 1..MessageRoutes /\ x \in Nat \ {0} /\ y \in Nat \ {0}
          /\ Place(x, i) \in 1..Len(batch) /\ Place(y, j) \in 1..Len(batch)
          /\ batch[Place(x, i)] = batch[Place(y, j)]
      BY <1>4, <1>9, <3>1, <3>2
    <3>4. Place(x, i) = Place(y, j)  BY <3>3 DEF OnePlace
    <3>5. x = y /\ i = j  BY <3>3, <3>4, PlacesDiffer
    <3>6. QED BY <3>1, <3>2, <3>5
  <2>3. CASE b \in Line /\ c \in New  BY <1>6, <1>8, <1>9, <2>3
  <2>4. CASE b \in New /\ c \in Line  BY <1>6, <1>8, <1>9, <2>4
  <2>5. QED BY <1>2, <2>1, <2>2, <2>3, <2>4
<1>10. \A k \in 1..Len(batch) : batch[k] \in seenDeliveryIndices  BY DEF OnePlace
<1>11. \A b \in Line' : \A i \in 1..Len(b.routes) : b.routes[i] \in seenDeliveryIndices
  BY <1>2, <1>6, <1>8, <1>10 DEF InBatch
<1>12. \A r : InBatch(r) \/ InLine(r) => InLine(r)'
  <2>1. ASSUME NEW r, InLine(r) PROVE InLine(r)'
    BY <1>2, <2>1 DEF InLine
  <2>2. ASSUME NEW r, InBatch(r) PROVE InLine(r)'
    <3>1. PICK k \in 1..Len(batch) : batch[k] = r  BY <2>2 DEF InBatch
    <3>2. PICK i \in 1..Len(Numbered) :
             \E j \in 1..Len(Numbered[i].routes) : Numbered[i].routes[j] = r
      BY <1>5, <3>1
    <3>3. Numbered[i] \in Line'  BY <1>2
    <3>4. QED BY <3>2, <3>3 DEF InLine
  <2>3. QED BY <2>1, <2>2
<1>13. Len(batch') = 0  OBVIOUS
<1>14. /\ \A r \in Routes : InLine(r)' => r \in seenDeliveryIndices' /\ ~InBatch(r)'
       /\ \A k \in 1..Len(batch') : batch'[k] \in seenDeliveryIndices'
       /\ \A k, l \in 1..Len(batch') : batch'[k] = batch'[l] => k = l
  BY <1>11, <1>13 DEF InLine, InBatch
<1>15. ~sendError' => \A r \in seenDeliveryIndices' : InBatch(r)' \/ InLine(r)'
  BY <1>12 DEF OnePlace
<1>16. QED BY <1>9, <1>14, <1>15 DEF OnePlace

\* A route that was seen moves from the batch to the chain to the Runtime: a step
\* puts it in one place and takes it from the one before.
LEMMA OnePlaceStep == Typed /\ Numbering /\ OnePlace /\ [Next]_vars => OnePlace'
<1> SUFFICES ASSUME Typed, Numbering, OnePlace, [Next]_vars PROVE OnePlace'  OBVIOUS
<1> USE DEF sendVars, runtimeVars
<1>0. /\ queue \in Seq(Batches) /\ received \in Seq(Batches) /\ batch \in Seq(Routes)
      /\ seenDeliveryIndices \subseteq Routes /\ sendError \in BOOLEAN
  BY DEF Typed, SenderTyped, CallTyped
<1>1. ASSUME UNCHANGED <<seenDeliveryIndices, batch, queue, received>>,
             sendError' = sendError \/ sendError' = TRUE
      PROVE  OnePlace'
  <2>1. Line' = Line  BY <1>1 DEF Line
  <2>2. \A r : (InBatch(r)' <=> InBatch(r)) /\ (InLine(r)' <=> InLine(r))
    BY <1>1, <2>1 DEF InBatch, InLine
  <2>3. QED BY <1>0, <1>1, <2>1, <2>2 DEF OnePlace
<1>2. CASE Flush
  <2>1. CASE sendError /\ batch # <<>>  BY <1>0, <1>1, <1>2, <2>1 DEF Flush, Fail
  <2>2. CASE ~(sendError /\ batch # <<>>)
    <3>1. queue' = queue \o Numbered /\ batch' = <<>>
          /\ UNCHANGED <<received, seenDeliveryIndices, sendError>>
      BY <1>2, <2>2 DEF Flush
    <3>2. QED BY <3>1, CutInLine
  <2>3. QED BY <2>1, <2>2
<1>3. CASE SendBatch
  <2>1. /\ queue # <<>> /\ queue' = Tail(queue) /\ UNCHANGED <<seenDeliveryIndices, batch>>
        /\ \/ sendError' = TRUE /\ received' = received
           \/ received' = Append(received, Head(queue)) /\ (sendError' = TRUE \/ ~sendError)
    BY <1>0, <1>3 DEF SendBatch
  <2>2. /\ Len(queue) \in Nat \ {0} /\ Len(queue') = Len(queue) - 1
        /\ \A i \in 1..Len(queue') : queue'[i] = queue[i + 1]
        /\ Head(queue) = queue[1] /\ queue[1] \in Batches
    BY <1>0, <2>1
  <2>3. {queue'[i] : i \in 1..Len(queue')} \union {Head(queue)} = {queue[i] : i \in 1..Len(queue)}
    <3>1. ASSUME NEW i \in 1..Len(queue') PROVE queue'[i] \in {queue[k] : k \in 1..Len(queue)}
      <4>1. i + 1 \in 1..Len(queue)  BY <2>2
      <4>2. QED BY <2>2, <4>1
    <3>2. ASSUME NEW i \in 1..Len(queue)
          PROVE  queue[i] \in {queue'[k] : k \in 1..Len(queue')} \union {Head(queue)}
      <4>1. CASE i = 1  BY <2>2, <4>1
      <4>2. CASE i # 1
        <5>1. i - 1 \in 1..Len(queue') /\ (i - 1) + 1 = i  BY <2>2, <4>2
        <5>2. queue'[i - 1] = queue[i]  BY <2>2, <5>1
        <5>3. QED BY <5>1, <5>2
      <4>3. QED BY <4>1, <4>2
    <3>3. Head(queue) \in {queue[k] : k \in 1..Len(queue)}  BY <2>2
    <3>4. QED BY <3>1, <3>2, <3>3
  <2>4. CASE sendError' = TRUE /\ received' = received
    <3>1. Line' \subseteq Line  BY <2>3, <2>4 DEF Line
    <3>2. \A r : (InLine(r)' => InLine(r)) /\ (InBatch(r)' <=> InBatch(r))
      BY <2>1, <3>1 DEF InLine, InBatch
    <3>3. QED BY <2>1, <2>4, <3>1, <3>2 DEF OnePlace
  <2>5. CASE received' = Append(received, Head(queue)) /\ (sendError' = TRUE \/ ~sendError)
    <3>1. {received'[i] : i \in 1..Len(received')}
             = {received[i] : i \in 1..Len(received)} \union {Head(queue)}
      <4>1. /\ Len(received) \in Nat /\ Len(received') = Len(received) + 1
            /\ \A i \in 1..Len(received) : received'[i] = received[i]
            /\ received'[Len(received) + 1] = Head(queue)
        BY <1>0, <2>2, <2>5
      <4>2. ASSUME NEW i \in 1..Len(received')
            PROVE  received'[i] \in {received[k] : k \in 1..Len(received)} \union {Head(queue)}
        <5>1. i \in 1..Len(received) \/ i = Len(received) + 1  BY <4>1
        <5>2. QED BY <4>1, <5>1
      <4>3. ASSUME NEW i \in 1..Len(received)
            PROVE  received[i] \in {received'[k] : k \in 1..Len(received')}
        <5>1. i \in 1..Len(received')  BY <4>1
        <5>2. QED BY <4>1, <5>1
      <4>4. Head(queue) \in {received'[k] : k \in 1..Len(received')}
        <5>1. Len(received) + 1 \in 1..Len(received')  BY <4>1
        <5>2. QED BY <4>1, <5>1
      <4>5. QED BY <4>2, <4>3, <4>4
    <3>2. Line' = Line  BY <2>3, <3>1 DEF Line
    <3>3. \A r : (InLine(r)' <=> InLine(r)) /\ (InBatch(r)' <=> InBatch(r))
      BY <2>1, <3>2 DEF InLine, InBatch
    <3>4. QED BY <2>1, <2>5, <3>2, <3>3 DEF OnePlace
  <2>6. QED BY <2>1, <2>4, <2>5
<1>4. ASSUME NEW r \in pending, TakeRoute(r) PROVE OnePlace'
  <2>1. CASE \/ settled[r] = "failed" \/ ~owned \/ r \notin Routes
             \/ r \in seenDeliveryIndices
    BY <1>1, <1>4, <2>1 DEF TakeRoute, Fail
  <2>2. CASE ~(\/ settled[r] = "failed" \/ ~owned \/ r \notin Routes
               \/ r \in seenDeliveryIndices)
    <3>1. /\ batch' = Append(batch, r) /\ r \in Routes /\ r \notin seenDeliveryIndices
          /\ seenDeliveryIndices' = seenDeliveryIndices \union {r}
          /\ UNCHANGED <<queue, received, sendError>>
      BY <1>4, <2>2 DEF TakeRoute
    <3>2. /\ Len(batch) \in Nat /\ Len(batch') = Len(batch) + 1
          /\ \A k \in 1..Len(batch) : batch'[k] = batch[k]
          /\ batch'[Len(batch) + 1] = r
      BY <1>0, <3>1
    <3>3. \A k \in 1..Len(batch') : k \in 1..Len(batch) \/ k = Len(batch) + 1
      BY <3>2
    <3>4. Line' = Line /\ \A x : InLine(x)' <=> InLine(x)  BY <3>1 DEF Line, InLine
    <3>5. \A x : InBatch(x)' <=> (InBatch(x) \/ x = r)
      <4>1. ASSUME NEW x, InBatch(x)' PROVE InBatch(x) \/ x = r
        BY <3>2, <3>3, <4>1 DEF InBatch
      <4>2. ASSUME NEW x, InBatch(x) \/ x = r PROVE InBatch(x)'
        <5>1. CASE InBatch(x)
          <6>1. PICK k \in 1..Len(batch) : batch[k] = x  BY <5>1 DEF InBatch
          <6>2. k \in 1..Len(batch') /\ batch'[k] = x  BY <3>2, <6>1
          <6>3. QED BY <6>2 DEF InBatch
        <5>2. CASE x = r
          <6>1. Len(batch) + 1 \in 1..Len(batch') /\ batch'[Len(batch) + 1] = x  BY <3>2, <5>2
          <6>2. QED BY <6>1 DEF InBatch
        <5>3. QED BY <4>2, <5>1, <5>2
      <4>3. QED BY <4>1, <4>2
    <3>6. \A k \in 1..Len(batch) : batch[k] \in seenDeliveryIndices /\ batch[k] # r
      BY <3>1 DEF OnePlace
    <3>7. \A x \in Routes : InLine(x)' => x \in seenDeliveryIndices' /\ ~InBatch(x)'
      BY <3>1, <3>4, <3>5 DEF OnePlace
    <3>8. \A k \in 1..Len(batch') : batch'[k] \in seenDeliveryIndices'
      BY <3>1, <3>2, <3>3, <3>6
    <3>9. ASSUME NEW k \in 1..Len(batch'), NEW l \in 1..Len(batch'), batch'[k] = batch'[l]
          PROVE  k = l
      <4>1. CASE k \in 1..Len(batch) /\ l \in 1..Len(batch)  BY <3>2, <3>9, <4>1 DEF OnePlace
      <4>2. CASE k = Len(batch) + 1 /\ l \in 1..Len(batch)  BY <3>2, <3>6, <3>9, <4>2
      <4>3. CASE l = Len(batch) + 1 /\ k \in 1..Len(batch)  BY <3>2, <3>6, <3>9, <4>3
      <4>4. QED BY <3>3, <4>1, <4>2, <4>3
    <3>10. ~sendError' => \A x \in seenDeliveryIndices' : InBatch(x)' \/ InLine(x)'
      BY <3>1, <3>4, <3>5 DEF OnePlace
    <3>11. \A b, c \in Line' : \A i \in 1..Len(b.routes), k \in 1..Len(c.routes) :
               b.routes[i] = c.routes[k] => b.index = c.index /\ i = k
      BY <3>4 DEF OnePlace
    <3>12. QED BY <3>7, <3>8, <3>9, <3>10, <3>11 DEF OnePlace
  <2>3. QED BY <2>1, <2>2
<1>5. CASE Replay
  <2>1. batch' = <<>> /\ queue' = <<>> /\ received' = <<>> /\ seenDeliveryIndices' = {}
    BY <1>5 DEF Replay, StreamReset
  <2>2. Len(batch') = 0 /\ Len(queue') = 0 /\ Len(received') = 0  BY <2>1
  <2>3. Line' = {}  BY <2>2 DEF Line
  <2>4. \A r : ~InBatch(r)' /\ ~InLine(r)'  BY <2>2, <2>3 DEF InBatch, InLine
  <2>5. QED BY <2>1, <2>2, <2>3, <2>4 DEF OnePlace
<1>6. QED
  BY <1>1, <1>2, <1>3, <1>4, <1>5
     DEF Next, Step, vars, Begin, StartRoute, Refused, AllStreamed, Complete, RouteSigned,
         RouteFails, CreateGroup, UploadCreated, CreateFails, AnnounceGroup, GroupAcked,
         GroupFails, GroupUndone, Fenced, Abandoned, CleanUp, CancelSettles, StartAbort,
         AbortUpload, CleanedUp, Fence, Fail

-----------------------------------------------------------------------------
(* Groups and the end of the stream. *)

\* A route is signed when its group is ready, hence after the manifest was sent.
LEMMA AnnouncedStep == Typed /\ Announced /\ [Next]_vars => Announced'
<1> SUFFICES ASSUME Typed, Announced, [Next]_vars PROVE Announced'  OBVIOUS
<1> USE DEF streamVars, groupVars, sendVars, runtimeVars
<1>0. /\ pending \subseteq Nat /\ DOMAIN settled \subseteq pending
      /\ group \in [Groups -> {"queued", "creating", "created", "announcing", "ready",
                              "undoing", "failed"}]
      /\ acked \subseteq Groups /\ seenDeliveryIndices \subseteq Routes
  BY DEF Typed, RoutesTyped, GroupsTyped, SenderTyped
<1>1. ASSUME UNCHANGED <<settled, group, acked, seenDeliveryIndices>> PROVE Announced'
  BY <1>1 DEF Announced, Told
<1>2. ASSUME NEW r \in pending, RouteSigned(r) PROVE Announced'
  <2>1. Told(r)
    <3>1. r \in Nat /\ MaySign(r)  BY <1>0, <1>2 DEF RouteSigned
    <3>2. CASE IsDirectPut(r)  BY <3>2 DEF Told
    <3>3. CASE ~IsDirectPut(r)
      <4>1. GroupOf(r) \in Groups  BY <3>1, <3>3, PlanFacts
      <4>2. group[GroupOf(r)] = "ready"  BY <3>1, <3>3 DEF MaySign, GroupReady
      <4>3. QED BY <4>1, <4>2 DEF Announced, Told
    <3>4. QED BY <3>2, <3>3
  <2>2. QED BY <1>2, <2>1 DEF RouteSigned, Announced, Told
<1>3. ASSUME NEW r \in pending, RouteFails(r) PROVE Announced'
  BY <1>3 DEF RouteFails, Announced, Told
<1>4. ASSUME NEW r \in pending, TakeRoute(r) PROVE Announced'
  <2>1. r \in DOMAIN settled /\ settled' = [s \in DOMAIN settled \ {r} |-> settled[s]]
        /\ UNCHANGED <<group, acked>>
        /\ (\/ seenDeliveryIndices' = seenDeliveryIndices
            \/ settled[r] # "failed" /\ seenDeliveryIndices' = seenDeliveryIndices \union {r})
    BY <1>4 DEF TakeRoute
  <2>2. QED BY <2>1 DEF Announced, Told
<1>5. ASSUME NEW g \in Groups, NEW st \in {"creating", "created", "announcing", "undoing",
                                         "failed"},
             group' = [group EXCEPT ![g] = st], acked \subseteq acked',
             UNCHANGED <<settled, seenDeliveryIndices>>
      PROVE  Announced'
  BY <1>0, <1>5 DEF Announced, Told
<1>6. ASSUME NEW g \in Groups, CreateGroup(g) PROVE Announced'
  <2>1. UNCHANGED <<settled, acked, seenDeliveryIndices>>
        /\ (\/ group' = [group EXCEPT ![g] = "creating"]
            \/ group' = [group EXCEPT ![g] = "created"]
            \/ group' = [group EXCEPT ![g] = "failed"])
    BY <1>6 DEF CreateGroup
  <2>2. QED BY <1>5, <2>1
<1>7. ASSUME NEW g \in Groups, UploadCreated(g) \/ AnnounceGroup(g) PROVE Announced'
  BY <1>5, <1>7 DEF UploadCreated, AnnounceGroup
<1>8. ASSUME NEW g \in Groups, CreateFails(g) PROVE Announced'
  BY <1>1, <1>5, <1>8 DEF CreateFails
<1>9. ASSUME NEW g \in Groups, GroupAcked(g) PROVE Announced'
  BY <1>0, <1>9 DEF GroupAcked, Announced, Told
<1>10. ASSUME NEW g \in Groups, GroupFails(g) PROVE Announced'
  <2>1. UNCHANGED <<settled, seenDeliveryIndices>> /\ acked \subseteq acked'
        /\ (\/ group' = [group EXCEPT ![g] = "undoing"]
            \/ group' = [group EXCEPT ![g] = "failed"])
    BY <1>10 DEF GroupFails
  <2>2. QED BY <1>5, <2>1
<1>11. ASSUME NEW g \in Groups, GroupUndone(g) PROVE Announced'
  BY <1>5, <1>11 DEF GroupUndone
<1>12. CASE Replay
  <2>1. group' = [g \in Groups |-> "queued"] /\ seenDeliveryIndices' = {}
        /\ DOMAIN settled' = {}
    BY <1>12 DEF Replay, StreamReset
  <2>2. QED BY <2>1 DEF Announced
<1>13. CASE Begin
  <2>1. UNCHANGED <<settled, acked, seenDeliveryIndices>>
        /\ (group' = group \/ group' = [g \in Groups |-> "failed"])
    BY <1>13 DEF Begin
  <2>2. QED BY <2>1 DEF Announced, Told
<1>14. QED
  BY <1>1, <1>2, <1>3, <1>4, <1>6, <1>7, <1>8, <1>9, <1>10, <1>11, <1>12, <1>13
     DEF Next, Step, vars, StartRoute, Refused, Flush, AllStreamed, Complete, SendBatch,
         Fenced, Abandoned, CleanUp, CancelSettles, StartAbort, AbortUpload, CleanedUp, Fence

\* The sender counts what it has seen before the last flush, and awaits the chain
\* before the end is announced.
LEMMA EndingStep == Typed /\ OnePlace /\ Announced /\ Ending /\ [Next]_vars => Ending'
<1> SUFFICES ASSUME Typed, OnePlace, Announced, Ending, [Next]_vars PROVE Ending'  OBVIOUS
<1> USE DEF streamVars, groupVars, sendVars, runtimeVars
<1>0. /\ seenDeliveryIndices \subseteq Routes /\ batch \in Seq(Routes)
      /\ (pc = "tail" => batch = <<>>) /\ completed \in BOOLEAN
  BY DEF Typed, SenderTyped, CallTyped
<1>1. ASSUME UNCHANGED <<seenDeliveryIndices, queue, received, completed>>, acked \subseteq acked',
             pc' = pc \/ ~completed \/ pc' \in {"failing", "cancelling", "cleanup", "ended"},
             pc' = pc \/ pc' \notin {"lastFlush", "tail"}
      PROVE  Ending'
  <2>1. \A r : InLine(r)' <=> InLine(r)  BY <1>1 DEF InLine, Line
  <2>2. QED BY <1>0, <1>1, <2>1 DEF Ending
<1>2. CASE AllStreamed
  <2>1. CASE pc' = "lastFlush"
    <3>1. /\ \A g \in Groups : group[g] = "ready"
          /\ Cardinality(seenDeliveryIndices) = Cardinality(Routes)
          /\ UNCHANGED <<seenDeliveryIndices, acked, completed>> /\ pc = "streaming"
      BY <1>2, <2>1 DEF AllStreamed, Fail
    <3>2. seenDeliveryIndices = Routes  BY <1>0, <3>1, PlanFacts, FS_Subset
    <3>3. Groups \subseteq acked  BY <3>1 DEF Announced
    <3>4. ~completed  BY <3>1 DEF Ending
    <3>5. QED BY <2>1, <3>1, <3>2, <3>3, <3>4 DEF Ending
  <2>2. CASE pc' # "lastFlush"
    <3>1. pc' = "failing" /\ UNCHANGED <<seenDeliveryIndices, queue, received, completed, acked>>
      BY <1>2, <2>2 DEF AllStreamed, Fail
    <3>2. QED BY <1>1, <3>1
  <2>3. QED BY <2>1, <2>2
<1>3. CASE Flush
  <2>1. /\ ~completed /\ UNCHANGED <<completed, acked, seenDeliveryIndices>>
        /\ pc \in {"flushing", "lastFlush"}
    BY <1>3 DEF Flush, Ending
  <2>2. pc' \in {"lastFlush", "tail"} => pc = "lastFlush"  BY <1>3 DEF Flush, Fail
  <2>3. QED BY <2>1, <2>2 DEF Ending
<1>4. CASE Complete
  <2>1. /\ pc = "tail" /\ queue = <<>> /\ UNCHANGED <<seenDeliveryIndices, queue, received, acked>>
        /\ pc' \in {"done", "failing"} /\ (~sendError \/ completed' = completed)
    BY <1>4 DEF Complete, TailSent, Fail
  <2>2. ~completed /\ seenDeliveryIndices = Routes /\ Groups \subseteq acked  BY <2>1 DEF Ending
  <2>3. \A r : InLine(r)' <=> InLine(r)  BY <2>1 DEF InLine, Line
  <2>4. \A r : ~InBatch(r)
    <3>1. Len(batch) = 0  BY <1>0, <2>1
    <3>2. QED BY <3>1 DEF InBatch
  <2>5. ~sendError => \A r \in Routes : InLine(r)  BY <2>2, <2>4 DEF OnePlace
  <2>6. QED BY <2>1, <2>2, <2>3, <2>5 DEF Ending
<1>5. CASE SendBatch
  <2>1. queue # <<>> /\ UNCHANGED <<pc, seenDeliveryIndices, acked, completed>>
    BY <1>5 DEF SendBatch
  <2>2. QED BY <2>1 DEF Ending
<1>6. ASSUME NEW r \in pending, TakeRoute(r) PROVE Ending'
  <2>1. pc = "streaming" /\ UNCHANGED completed /\ pc' \in {"streaming", "flushing", "failing"}
    BY <1>6 DEF TakeRoute, Fail
  <2>2. QED BY <2>1 DEF Ending
<1>7. CASE Replay
  <2>1. pc' = "begin" /\ completed' = FALSE  BY <1>7 DEF Replay, StreamReset
  <2>2. QED BY <2>1 DEF Ending
<1>8. CASE Begin
  <2>1. ~completed /\ UNCHANGED completed /\ pc' \in {"streaming", "failing"}
    BY <1>8 DEF Begin, Fail, Ending
  <2>2. QED BY <2>1 DEF Ending
<1>9. CASE StartRoute \/ Refused \/ Fenced \/ Abandoned \/ CleanUp \/ CancelSettles \/ CleanedUp
           \/ Fence
  BY <1>1, <1>9
     DEF StartRoute, Refused, Fenced, Abandoned, CleanUp, CancelSettles, CleanedUp, Fence, Fail
<1>10. ASSUME NEW r \in pending, RouteSigned(r) \/ RouteFails(r) PROVE Ending'
  BY <1>1, <1>10 DEF RouteSigned, RouteFails
<1>11. ASSUME NEW g \in Groups,
              \/ CreateGroup(g) \/ UploadCreated(g) \/ CreateFails(g) \/ AnnounceGroup(g)
              \/ GroupAcked(g) \/ GroupUndone(g) \/ StartAbort(g) \/ AbortUpload(g)
       PROVE  Ending'
  BY <1>1, <1>11 DEF CreateGroup, UploadCreated, CreateFails, AnnounceGroup, GroupAcked,
                     GroupUndone, StartAbort, AbortUpload
<1>12. ASSUME NEW g \in Groups, GroupFails(g) PROVE Ending'  BY <1>1, <1>12 DEF GroupFails
<1>13. CASE UNCHANGED vars  BY <1>1, <1>13 DEF vars
<1>14. QED
  BY <1>2, <1>3, <1>4, <1>5, <1>6, <1>7, <1>8, <1>9, <1>10, <1>11, <1>12, <1>13 DEF Next, Step

-----------------------------------------------------------------------------
(* The uploads at the provider. *)

\* Groups create and abort uploads while the stream runs or fails; once the
\* call cleans up, only its own loop over the uploads does.
LEMMA UploadsStep == Typed /\ Uploads /\ [Next]_vars => Uploads'
<1> SUFFICES ASSUME Typed, Uploads, [Next]_vars PROVE Uploads'  OBVIOUS
<1> USE DEF groupVars, cleanVars
<1>0. /\ group \in [Groups -> {"queued", "creating", "created", "announcing", "ready",
                               "undoing", "failed"}]
      /\ uploads \subseteq Groups /\ sent \subseteq Groups /\ cleanupFailed \in BOOLEAN
      /\ live \in [Groups -> Nat] /\ orphans \in [Groups -> Nat]
  BY DEF Typed, GroupsTyped, CallTyped
<1>1. ASSUME UNCHANGED <<group, uploads, live, orphans, sent, aborting, cleanupFailed>>,
             \/ pc' = pc /\ cause' = cause
             \/ pc # "cleanup" /\ pc' \notin {"begin", "cancelling", "cleanup", "ended"}
             \/ pc # "cleanup" /\ pc' = "ended" /\ cause' # "failed"
      PROVE  Uploads'
  BY <1>0, <1>1 DEF Uploads, GroupsDone
\* While the groups are set up, a step that leaves the uploads alone.
<1>2. ASSUME NEW g \in Groups, NEW st \in {"creating", "created", "announcing", "ready", "failed"},
             Started, group[g] \notin {"ready", "undoing", "failed"},
             group' = [group EXCEPT ![g] = st], st = "creating" => g \notin uploads,
             UNCHANGED <<pc, uploads, live, orphans, sent>>
      PROVE  Uploads'
  <2>1. pc \notin {"begin", "cancelling", "cleanup", "ended"}
    BY <1>2 DEF Started, Uploads, GroupsDone
  <2>2. g \notin sent  BY <1>2, <2>1 DEF Uploads
  <2>3. QED BY <1>0, <1>2, <2>1, <2>2 DEF Uploads
<1>3. ASSUME NEW g \in Groups, CreateGroup(g) PROVE Uploads'
  <2>1. CASE ~owned  BY <1>2, <1>3, <2>1 DEF CreateGroup
  <2>2. CASE owned /\ Retained(g)  BY <1>2, <1>3, <2>2 DEF CreateGroup
  <2>3. CASE owned /\ ~Retained(g)
    <3>1. g \notin uploads /\ group' = [group EXCEPT ![g] = "creating"]
      BY <1>3, <2>3 DEF CreateGroup, Retained
    <3>2. QED BY <1>2, <1>3, <3>1 DEF CreateGroup
  <2>4. QED BY <2>1, <2>2, <2>3
<1>4. ASSUME NEW g \in Groups, UploadCreated(g) PROVE Uploads'
  <2>1. /\ pc \notin {"begin", "cancelling", "cleanup", "ended"} /\ UNCHANGED <<pc, orphans, sent>>
        /\ group[g] = "creating" /\ group' = [group EXCEPT ![g] = "created"]
        /\ uploads' = uploads \union {g} /\ live' = [live EXCEPT ![g] = @ + 1]
    BY <1>4 DEF UploadCreated, Started, Uploads, GroupsDone
  <2>2. live[g] = orphans[g] /\ g \notin sent  BY <2>1 DEF Uploads
  <2>3. \A h \in Groups : live'[h] # orphans'[h] =>
                           live'[h] = orphans'[h] + 1 /\ h \in uploads'
    BY <1>0, <2>1, <2>2 DEF Uploads
  <2>4. QED BY <1>0, <2>1, <2>2, <2>3 DEF Uploads
<1>5. ASSUME NEW g \in Groups, CreateFails(g) PROVE Uploads'
  <2>1. /\ pc \notin {"begin", "cancelling", "cleanup", "ended"}
        /\ UNCHANGED <<pc, uploads, sent>> /\ group[g] = "creating"
        /\ (group' = [group EXCEPT ![g] = "failed"] \/ UNCHANGED group)
    BY <1>5 DEF CreateFails, Started, Uploads, GroupsDone
  <2>2. PICK made \in {0, 1} : /\ live' = [live EXCEPT ![g] = @ + made]
                               /\ orphans' = [orphans EXCEPT ![g] = @ + made]
    BY <1>5 DEF CreateFails
  <2>3. \A h \in Groups : live'[h] # orphans'[h] =>
                           live'[h] = orphans'[h] + 1 /\ h \in uploads'
    <3>1. live'[g] = live[g] + made /\ orphans'[g] = orphans[g] + made  BY <1>0, <2>2
    <3>2. live[g] \in Nat /\ orphans[g] \in Nat  BY <1>0
    <3>3. live'[g] # orphans'[g] => live'[g] = orphans'[g] + 1 /\ g \in uploads
      BY <3>1, <3>2 DEF Uploads
    <3>4. \A h \in Groups : h # g => live'[h] = live[h] /\ orphans'[h] = orphans[h]
      BY <1>0, <2>2
    <3>5. QED BY <2>1, <3>3, <3>4 DEF Uploads
  <2>4. g \notin sent  BY <2>1 DEF Uploads
  <2>5. QED BY <1>0, <2>1, <2>3, <2>4 DEF Uploads
<1>6. ASSUME NEW g \in Groups, AnnounceGroup(g) \/ GroupAcked(g) PROVE Uploads'
  BY <1>2, <1>6 DEF AnnounceGroup, GroupAcked
<1>7. ASSUME NEW g \in Groups, GroupFails(g) PROVE Uploads'
  <2>1. CASE AbortsUpload(g)
    <3>1. /\ pc \notin {"begin", "cancelling", "cleanup", "ended"}
          /\ UNCHANGED <<pc, uploads, live, orphans>>
          /\ group' = [group EXCEPT ![g] = "undoing"] /\ sent' = sent \union {g}
      BY <1>7, <2>1 DEF GroupFails, Started, Uploads, GroupsDone
    <3>2. QED BY <1>0, <3>1 DEF Uploads
  <2>2. CASE ~AbortsUpload(g)
    <3>1. /\ Started /\ group[g] \in {"created", "announcing"}
          /\ group' = [group EXCEPT ![g] = "failed"]
          /\ UNCHANGED <<pc, uploads, live, orphans, sent>>
      BY <1>7, <2>2 DEF GroupFails
    <3>2. QED BY <1>2, <3>1
  <2>3. QED BY <2>1, <2>2
<1>8. ASSUME NEW g \in Groups, GroupUndone(g) PROVE Uploads'
  <2>1. /\ pc \notin {"begin", "cancelling", "cleanup", "ended"} /\ UNCHANGED <<pc, orphans>>
        /\ group' = [group EXCEPT ![g] = "failed"]
    BY <1>8 DEF GroupUndone, Started, Uploads, GroupsDone
  <2>2. AbortDone(g) \/ AbortFails(g)  BY <1>8 DEF GroupUndone
  <2>3. /\ sent' = sent \ {g} /\ uploads' \in {uploads, uploads \ {g}}
        /\ \A h \in Groups : h # g => live'[h] = live[h]
        /\ live'[g] # orphans[g] => live'[g] = orphans[g] + 1 /\ g \in uploads'
    BY <2>2, AbortFacts DEF Typed
  <2>4. QED BY <1>0, <2>1, <2>3 DEF Uploads
<1>9. ASSUME NEW g \in Groups, StartAbort(g) PROVE Uploads'
  <2>1. /\ pc = "cleanup" /\ g \in aborting /\ aborting' = aborting \ {g}
        /\ UNCHANGED <<pc, group, uploads, live, orphans>>
        /\ \/ sent' = sent \union {g} /\ cleanupFailed' = cleanupFailed
           \/ sent' = sent /\ cleanupFailed' = TRUE
    BY <1>0, <1>9 DEF StartAbort
  <2>2. GroupsDone' /\ GroupsDone  BY <2>1 DEF Uploads, GroupsDone
  <2>3. \A h \in Groups : group[h] \notin {"creating", "undoing"}  BY <2>2 DEF GroupsDone
  <2>4. QED BY <2>1, <2>2, <2>3 DEF Uploads
<1>10. ASSUME NEW g \in Groups, AbortUpload(g) PROVE Uploads'
  <2>1. /\ pc = "cleanup" /\ g \in sent /\ UNCHANGED <<pc, group, orphans, aborting>>
        /\ AbortDone(g) \/ AbortFails(g)
        /\ \/ uploads' = uploads \ {g} /\ cleanupFailed' = cleanupFailed
           \/ cleanupFailed' = TRUE
    BY <1>10 DEF AbortUpload, AbortDone
  <2>2. /\ sent' = sent \ {g} /\ uploads' \in {uploads, uploads \ {g}}
        /\ \A h \in Groups : h # g => live'[h] = live[h]
        /\ live'[g] # orphans[g] => live'[g] = orphans[g] + 1 /\ g \in uploads'
    BY <2>1, AbortFacts DEF Typed
  <2>3. GroupsDone' /\ GroupsDone  BY <2>1 DEF Uploads, GroupsDone
  <2>4. \A h \in Groups : group[h] \notin {"creating", "undoing"}  BY <2>3 DEF GroupsDone
  <2>5. g \notin aborting  BY <2>1 DEF Uploads
  <2>6. aborting' \subseteq uploads' /\ sent' \subseteq uploads'  BY <2>1, <2>2, <2>5 DEF Uploads
  <2>7. \A h \in uploads' : h \in aborting' \/ h \in sent' \/ cleanupFailed'
    BY <2>1, <2>2 DEF Uploads
  <2>8. \A h \in Groups : live'[h] # orphans'[h] =>
                           live'[h] = orphans'[h] + 1 /\ h \in uploads'
    BY <1>0, <2>1, <2>2 DEF Uploads
  <2>9. QED BY <2>1, <2>2, <2>3, <2>4, <2>6, <2>7, <2>8 DEF Uploads
<1>11. CASE Replay
  <2>1. pc' = "begin" /\ group' = [g \in Groups |-> "queued"] /\ GroupsDone /\ pc = "failing"
        /\ UNCHANGED <<uploads, live, orphans, sent>>
    BY <1>11 DEF Replay, StreamReset, SettledAll
  <2>2. sent = {}  BY <1>0, <2>1 DEF Uploads, GroupsDone
  <2>3. QED BY <1>0, <2>1, <2>2 DEF Uploads
<1>12. CASE CleanUp
  <2>1. pc = "failing" /\ pc' = "cancelling" /\ GroupsDone
        /\ UNCHANGED <<group, uploads, live, orphans, sent>>
    BY <1>12 DEF CleanUp, SettledAll
  <2>2. GroupsDone'  BY <2>1 DEF GroupsDone
  <2>3. QED BY <1>0, <2>1, <2>2 DEF Uploads
<1>13. CASE CancelSettles
  <2>1. pc = "cancelling" /\ pc' = "cleanup" /\ aborting' = uploads /\ GroupsDone
        /\ UNCHANGED <<group, uploads, live, orphans, sent>>
    BY <1>13 DEF CancelSettles, Uploads
  <2>2. GroupsDone'  BY <2>1 DEF GroupsDone
  <2>3. sent = {}  BY <1>0, <2>1 DEF Uploads, GroupsDone
  <2>4. QED BY <1>0, <2>1, <2>2, <2>3 DEF Uploads
<1>14. CASE CleanedUp
  BY <1>0, <1>14 DEF CleanedUp, Uploads
<1>15. CASE Begin
  <2>1. /\ pc = "begin" /\ pc' \in {"streaming", "failing"}
        /\ UNCHANGED <<uploads, live, orphans, sent>>
        /\ (UNCHANGED group \/ group' = [g \in Groups |-> "failed"])
    BY <1>15 DEF Begin, Fail
  <2>2. sent = {}  BY <2>1 DEF Uploads
  <2>3. QED BY <1>0, <2>1, <2>2 DEF Uploads
<1>16. CASE Refused \/ Flush \/ AllStreamed \/ Complete \/ SendBatch \/ StartRoute
  BY <1>1, <1>16 DEF Refused, Flush, AllStreamed, Complete, SendBatch, StartRoute, Fail
<1>17. CASE Fenced \/ Abandoned \/ Fence
  BY <1>1, <1>17 DEF Fenced, Abandoned, Fence
<1>18. ASSUME NEW r \in pending, RouteSigned(r) \/ RouteFails(r) \/ TakeRoute(r) PROVE Uploads'
  BY <1>1, <1>18 DEF RouteSigned, RouteFails, TakeRoute, Fail
<1>19. CASE UNCHANGED vars  BY <1>1, <1>19 DEF vars
<1>20. QED
  BY <1>3, <1>4, <1>5, <1>6, <1>7, <1>8, <1>9, <1>10, <1>11, <1>12, <1>13, <1>14, <1>15, <1>16,
     <1>17, <1>18, <1>19 DEF Next, Step

-----------------------------------------------------------------------------
(* The inductive invariant and the theorems. *)

\* A transfer that was not begun has sent and created nothing.
LEMMA IInit == Init => IInv
<1> SUFFICES ASSUME Init PROVE IInv  OBVIOUS
<1>1. Typed  BY TypedInit
<1>2. batch = <<>> /\ queue = <<>> /\ received = <<>> /\ seenDeliveryIndices = {}
  BY DEF Init
<1>3. Len(batch) = 0 /\ Len(queue) = 0 /\ Len(received) = 0  BY <1>2
<1>4. Line = {}  BY <1>3 DEF Line
<1>5. Numbering  BY <1>3 DEF Numbering, Init
<1>6. OnePlace  BY <1>2, <1>3, <1>4 DEF OnePlace, InLine, InBatch
<1>7. Announced  BY DEF Init, Announced
<1>8. Ending  BY DEF Init, Ending
<1>9. Uploads  BY DEF Init, Uploads
<1>10. QED BY <1>1, <1>5, <1>6, <1>7, <1>8, <1>9 DEF IInv

\* Every step keeps it.
LEMMA IStep == IInv /\ [Next]_vars => IInv'
<1> SUFFICES ASSUME IInv, [Next]_vars PROVE IInv'  OBVIOUS
<1> USE DEF IInv
<1>1. Typed'  BY TypedStep
<1>2. Numbering'  BY NumberingStep
<1>3. OnePlace'  BY OnePlaceStep
<1>4. Announced'  BY AnnouncedStep
<1>5. Ending'  BY EndingStep
<1>6. Uploads'  BY UploadsStep
<1>7. QED BY <1>1, <1>2, <1>3, <1>4, <1>5, <1>6

\* Spec keeps the inductive invariant.
LEMMA IInvariant == Spec => []IInv
  BY IInit, IStep, PTL DEF Spec

\* What the Runtime holds when the end was accepted: the chain is empty, so the
\* batches that were cut are those that it received.
LEMMA WholeWhenCompleted == IInv => CompleteIsWhole
<1> SUFFICES ASSUME IInv, completed PROVE CompleteIsWhole  BY DEF CompleteIsWhole
<1>1. queue = <<>> /\ Groups \subseteq acked /\ \A r \in Routes : InLine(r)
  BY DEF IInv, Ending
<1>2. received \in Seq(Batches)  BY DEF IInv, Typed, SenderTyped
<1>3. Line = {received[i] : i \in 1..Len(received)}
  <2>1. Len(queue) = 0  BY <1>1
  <2>2. QED BY <2>1 DEF Line
<1>4. \A i \in 1..Len(received) : received[i] \in Line /\ received[i].index = i - 1
                                  /\ received[i].routes \in Seq(Routes)
  <2>1. \A i \in 1..Len(received) : received[i] \in Batches  BY <1>2
  <2>2. QED BY <1>3, <2>1 DEF IInv, Numbering, Batches
<1>5. ASSUME NEW p \in Places
      PROVE  \E i \in 1..Len(received) : \E j \in 1..Len(received[i].routes) :
                p = <<i, j>> /\ RouteAt(p) = received[i].routes[j]
  BY DEF Places, RouteAt
<1>6. ASSUME NEW i \in 1..Len(received), NEW j \in 1..Len(received[i].routes)
      PROVE  <<i, j>> \in Places /\ RouteAt(<<i, j>>) = received[i].routes[j]
  BY DEF Places, RouteAt
<1>7. {RouteAt(p) : p \in Places} \subseteq Routes
  <2>1. ASSUME NEW p \in Places PROVE RouteAt(p) \in Routes
    <3>1. PICK i \in 1..Len(received) : \E j \in 1..Len(received[i].routes) :
             p = <<i, j>> /\ RouteAt(p) = received[i].routes[j]
      BY <1>5
    <3>2. received[i].routes \in Seq(Routes)  BY <1>4
    <3>3. QED BY <3>1, <3>2
  <2>2. QED BY <2>1
<1>8. ASSUME NEW r \in Routes PROVE r \in {RouteAt(p) : p \in Places}
  <2>1. PICK b \in Line : \E j \in 1..Len(b.routes) : b.routes[j] = r  BY <1>1 DEF InLine
  <2>2. PICK i \in 1..Len(received) : b = received[i]  BY <1>3
  <2>3. PICK j \in 1..Len(received[i].routes) : received[i].routes[j] = r  BY <2>1, <2>2
  <2>4. <<i, j>> \in Places /\ RouteAt(<<i, j>>) = r  BY <1>6, <2>3
  <2>5. QED BY <2>4
<1>9. ASSUME NEW p \in Places, NEW q \in Places, RouteAt(p) = RouteAt(q) PROVE p = q
  <2>1. PICK i \in 1..Len(received) : \E j \in 1..Len(received[i].routes) :
           p = <<i, j>> /\ RouteAt(p) = received[i].routes[j]
    BY <1>5
  <2>2. PICK j \in 1..Len(received[i].routes) : p = <<i, j>> /\ RouteAt(p) = received[i].routes[j]
    BY <2>1
  <2>3. PICK k \in 1..Len(received) : \E l \in 1..Len(received[k].routes) :
           q = <<k, l>> /\ RouteAt(q) = received[k].routes[l]
    BY <1>5
  <2>4. PICK l \in 1..Len(received[k].routes) : q = <<k, l>> /\ RouteAt(q) = received[k].routes[l]
    BY <2>3
  <2>5. received[i].routes[j] = received[k].routes[l]  BY <1>9, <2>2, <2>4
  <2>6. received[i].index = received[k].index /\ j = l
    BY <1>4, <2>5 DEF IInv, OnePlace
  <2>7. i - 1 = k - 1 /\ i \in Nat /\ k \in Nat  BY <1>2, <1>4, <2>6
  <2>8. i = k  BY <2>7
  <2>9. QED BY <2>2, <2>4, <2>6, <2>8
<1>10. QED BY <1>1, <1>7, <1>8, <1>9 DEF CompleteIsWhole

\* What the Runtime received was seen, hence its group was announced.
LEMMA ManifestFirst == IInv => RoutesFollowManifest
<1> SUFFICES ASSUME IInv, NEW i \in 1..Len(received), NEW j \in 1..Len(received[i].routes)
             PROVE  Told(received[i].routes[j])
  BY DEF RoutesFollowManifest, Told
<1>1. received \in Seq(Batches)  BY DEF IInv, Typed, SenderTyped
<1>2. received[i] \in Batches /\ received[i] \in Line
  <2>1. received[i] \in Batches  BY <1>1
  <2>2. QED BY <2>1 DEF Line
<1>3. received[i].routes[j] \in Routes /\ InLine(received[i].routes[j])
  <2>1. received[i].routes \in Seq(Routes)  BY <1>2 DEF Batches
  <2>2. received[i].routes[j] \in Routes  BY <2>1
  <2>3. QED BY <1>2, <2>2 DEF InLine
<1>4. QED BY <1>3 DEF IInv, OnePlace, Announced

\* The numbers of the batches on the chain are below the next one.
LEMMA TypeFromIInv == IInv => TypeOK
<1> SUFFICES ASSUME IInv PROVE TypeOK  OBVIOUS
<1>1. ASSUME NEW i \in 1..Len(queue) PROVE queue[i].index < batchIndex
  <2>1. queue[i].index = batchIndex - Len(queue) + i - 1  BY DEF IInv, Numbering
  <2>2. Len(queue) \in Nat /\ batchIndex \in Nat  BY DEF IInv, Typed, SenderTyped
  <2>3. QED BY <2>1, <2>2
<1>2. QED
  BY <1>1 DEF IInv, Typed, CallTyped, RoutesTyped, GroupsTyped, SenderTyped, TypeOK

(* In every plan, under any limits: the stream's state is one the code can   *)
(* hold, and no more routes are in the air than routeSigningConcurrency, no  *)
(* more in a batch than ROUTE_STREAM_BATCH_ROUTES.                           *)
THEOREM TypeCorrect == Spec => []TypeOK
  BY IInvariant, TypeFromIInv, PTL

(* In every plan, under any limits, faults and replays: a stream whose end   *)
(* the Runtime accepted has delivered each route in exactly one place and    *)
(* every manifest; batches arrive in order and never before the manifests of *)
(* their routes; no group has two uploads besides those whose create reply   *)
(* was lost, and a call that failed left none whose id it knows that it does *)
(* not report (client.ts, streamPreparedRoutes, RouteStreamSender,           *)
(* cancelAndAbortProviderFailure).                                           *)
THEOREM StreamIsWhole == Spec => []StreamWhole
<1>1. IInv => StreamWhole
  <2> SUFFICES ASSUME IInv PROVE StreamWhole  OBVIOUS
  <2>1. TypeOK  BY TypeFromIInv
  <2>2. CompleteIsWhole  BY WholeWhenCompleted
  <2>3. BatchesInOrder  BY DEF IInv, Numbering, BatchesInOrder
  <2>4. RoutesFollowManifest  BY ManifestFirst
  <2>5. OneUploadPerGroup
    <3>1. \A g \in Groups : live[g] \in Nat /\ orphans[g] \in Nat
      BY DEF IInv, Typed, GroupsTyped
    <3>2. QED BY <3>1 DEF IInv, Uploads, OneUploadPerGroup
  <2>6. UploadsAccounted
    <3>1. ASSUME pc = "ended", cause = "failed", NEW g \in Groups, live[g] > orphans[g]
          PROVE  cleanupFailed /\ g \in uploads
      <4>1. live[g] \in Nat /\ orphans[g] \in Nat  BY DEF IInv, Typed, GroupsTyped
      <4>2. g \in uploads  BY <3>1, <4>1 DEF IInv, Uploads
      <4>3. QED BY <3>1, <4>2 DEF IInv, Uploads
    <3>2. QED BY <3>1 DEF UploadsAccounted
  <2>7. QED BY <2>1, <2>2, <2>3, <2>4, <2>5, <2>6 DEF StreamWhole
<1>2. QED BY <1>1, IInvariant, PTL

(* A call that lost its ownership starts no upload and sends no abort, not   *)
(* in the cleanup of a failure either: an upload that goes away was to be    *)
(* aborted before, one that appears was asked for before (client.ts,         *)
(* createMultipartGroupManifest, abortCreatedUploads, scrubbed credentials). *)
THEOREM FencedSpares == Spec => FencedAbortsNothing
<1> DEFINE Spares == ~owned =>
               /\ sent' \subseteq sent
               /\ \A g \in Groups : live'[g] < live[g] => g \in sent
               /\ \A g \in Groups : live'[g] > live[g] => group[g] = "creating"
               /\ \A g \in Groups : group'[g] = "creating" => group[g] = "creating"
<1>1. ASSUME IInv, [Next]_vars PROVE [Spares]_vars
  <2> SUFFICES ASSUME ~owned PROVE Spares  OBVIOUS
  <2> USE DEF groupVars
  <2>0. /\ live \in [Groups -> Nat] /\ Groups = DOMAIN group /\ GroupsTyped /\ Uploads
        /\ group \in [Groups -> {"queued", "creating", "created", "announcing", "ready",
                                 "undoing", "failed"}]
    BY <1>1 DEF IInv, Typed, GroupsTyped
  <2>1. CASE UNCHANGED <<group, live, sent>>
    <3>1. \A g \in Groups : ~(live[g] < live[g]) /\ ~(live[g] > live[g])  BY <2>0
    <3>2. QED BY <2>1, <3>1
  <2>2. ASSUME NEW h \in Groups, NEW st \in {"created", "announcing", "ready", "failed"},
               group' = [group EXCEPT ![h] = st], UNCHANGED <<live, sent>>
        PROVE  Spares
    <3>1. \A g \in Groups : ~(live[g] < live[g]) /\ ~(live[g] > live[g])  BY <2>0
    <3>2. QED BY <2>0, <2>2, <3>1
  <2>3. ASSUME NEW h \in Groups,
               CreateGroup(h) \/ AnnounceGroup(h) \/ GroupAcked(h) \/ GroupFails(h)
        PROVE  Spares
    BY <2>2, <2>3 DEF CreateGroup, AnnounceGroup, GroupAcked, GroupFails, AbortsUpload
  <2>4. ASSUME NEW h \in Groups, UploadCreated(h) PROVE Spares
    BY <2>0, <2>4 DEF UploadCreated
  <2>5. ASSUME NEW h \in Groups, CreateFails(h) PROVE Spares
    <3>1. /\ UNCHANGED sent /\ group[h] = "creating"
          /\ (group' = [group EXCEPT ![h] = "failed"] \/ UNCHANGED group)
      BY <2>5 DEF CreateFails
    <3>2. PICK made \in {0, 1} : live' = [live EXCEPT ![h] = @ + made]
      BY <2>5 DEF CreateFails
    <3>3. \A g \in Groups : live'[g] >= live[g] /\ (g # h => live'[g] = live[g])
      BY <2>0, <3>2
    <3>4. \A g \in Groups : ~(live'[g] < live[g]) /\ (live'[g] > live[g] => g = h)
      BY <2>0, <3>2, <3>3
    <3>5. QED BY <2>0, <3>1, <3>4
  <2>6. ASSUME NEW h \in Groups, GroupUndone(h) \/ AbortUpload(h) PROVE Spares
    <3>1. /\ AbortDone(h) \/ AbortFails(h)
          /\ (group' = [group EXCEPT ![h] = "failed"] \/ UNCHANGED group)
      BY <2>6 DEF GroupUndone, AbortUpload
    <3>2. h \in sent  BY <2>0, <2>6 DEF GroupUndone, AbortUpload, Uploads
    <3>3. /\ sent' = sent \ {h} /\ \A g \in Groups : g # h => live'[g] = live[g]
          /\ live'[h] = orphans[h] \/ live'[h] = orphans[h] + 1
      BY <2>0, <3>1, AbortFacts
    <3>4. ~(live'[h] > live[h])
      BY <2>0, <3>1 DEF AbortDone, AbortFails, Known, Uploads, GroupsTyped
    <3>5. \A g \in Groups : (live'[g] < live[g] => g = h) /\ ~(live'[g] > live[g])
      BY <2>0, <3>3, <3>4
    <3>6. QED BY <2>0, <3>1, <3>2, <3>3, <3>5
  <2>7. ASSUME NEW h \in Groups, StartAbort(h) PROVE Spares
    BY <2>1, <2>7 DEF StartAbort
  <2>8. CASE Begin
    <3>1. UNCHANGED <<live, sent>> /\ (UNCHANGED group \/ group' = [g \in Groups |-> "failed"])
      BY <2>8 DEF Begin
    <3>2. \A g \in Groups : ~(live[g] < live[g]) /\ ~(live[g] > live[g])  BY <2>0
    <3>3. QED BY <3>1, <3>2
  <2>9. QED
    BY <1>1, <2>1, <2>3, <2>4, <2>5, <2>6, <2>7, <2>8
       DEF Next, Step, vars, StartRoute, Refused, Flush, AllStreamed, Complete, SendBatch,
           RouteSigned, RouteFails, TakeRoute, Fenced, Replay, Abandoned, CleanUp,
           CancelSettles, CleanedUp, Fence
<1>2. QED BY <1>1, IInvariant, PTL DEF Spec, FencedAbortsNothing

-----------------------------------------------------------------------------
(* The wait for the end of a transfer.                                     *)

CONSTANTS Waits, HubUploads
VARIABLES wait, seen, waiter, event, broken, told, registered, closed, staged, upload,
    commits, status

W == INSTANCE TransferWait WITH pc <- wait, pending <- event, Uploads <- HubUploads

\* A waiter is registered while it is open, and a control that is closed has none.
Waiting ==
    /\ \A w \in Waits :
          /\ waiter[w] = "open" <=> w \in registered
          /\ waiter[w] = "flushing" <=> wait[w] = "flushing"
          /\ wait[w] \in {"idle", "opening"} => waiter[w] = "none"
          /\ wait[w] \in W!Ended => waiter[w] # "open"
    /\ closed => registered = {}

\* Whoever took the uploads is alone in finalizing them, and has still to commit those
\* from its next one on.
Publishing ==
    /\ \A v, w \in Waits : wait[v] = "finalizing" /\ wait[w] = "finalizing" => v = w
    /\ \A w \in Waits : wait[w] = "finalizing" =>
          ~staged /\ \A i \in 1 .. HubUploads : i >= upload[w] => commits[i] = 0
    /\ staged => /\ HubUploads > 0 /\ \A w \in Waits : upload[w] = 1
                 /\ \A i \in 1 .. HubUploads : commits[i] = 0

WaitInv == W!TypeOK /\ Waiting /\ Publishing /\ W!CommittedOnce

\* No call has begun, and nothing is committed.
LEMMA WaitInit == HubUploads \in Nat /\ W!Init => WaitInv
<1> SUFFICES ASSUME HubUploads \in Nat, W!Init PROVE WaitInv  OBVIOUS
<1>1. W!TypeOK
  <2>1. /\ wait \in [Waits -> {"idle"}] /\ seen \in [Waits -> {"running"}]
        /\ waiter \in [Waits -> {"none"}]
        /\ event \in [Waits -> BOOLEAN] /\ broken \in [Waits -> BOOLEAN]
        /\ told \in [Waits -> BOOLEAN]
    BY DEF W!Init
  <2>2. registered \subseteq Waits /\ closed \in BOOLEAN /\ staged \in BOOLEAN /\ status = "running"
    <3>1. (HubUploads > 0) \in BOOLEAN  OBVIOUS
    <3>2. staged = (HubUploads > 0) /\ registered = {} /\ closed = FALSE /\ status = "running"
      BY DEF W!Init
    <3>3. QED BY <3>1, <3>2
  <2>3. upload \in [Waits -> 1 .. (HubUploads + 1)] /\ commits \in [1 .. HubUploads -> Nat]
    <3>1. 1 \in 1 .. (HubUploads + 1) /\ 0 \in Nat  OBVIOUS
    <3>2. QED BY <3>1 DEF W!Init
  <2>4. \A w \in Waits : wait[w] # "finalizing"  BY <2>1
  <2>5. QED BY <2>1, <2>2, <2>3, <2>4 DEF W!TypeOK
<1>2. \A w \in Waits : wait[w] = "idle" /\ waiter[w] = "none" /\ upload[w] = 1  BY DEF W!Init
<1>3. \A i \in 1 .. HubUploads : commits[i] = 0  BY DEF W!Init
<1>4. registered = {} /\ closed = FALSE /\ staged = (HubUploads > 0)  BY DEF W!Init
<1>5. Waiting  BY <1>2, <1>4 DEF Waiting, W!Ended
<1>6. Publishing  BY <1>2, <1>3, <1>4 DEF Publishing
<1>7. W!CommittedOnce  BY <1>3 DEF W!CommittedOnce
<1>8. QED BY <1>1, <1>5, <1>6, <1>7 DEF WaitInv

\* A call moves on, and with it the state of its waiter.
LEMMA MoveKeeps ==
    ASSUME W!TypeOK, Waiting, NEW w \in Waits,
           NEW place \in W!Ended \union {"opening", "flushing", "asking", "answered", "waiting",
                                         "sleeping", "finalizing"},
           NEW held \in {"none", "flushing", "open", "closed"},
           wait' = [wait EXCEPT ![w] = place], waiter' = [waiter EXCEPT ![w] = held],
           registered' = IF held = "open" THEN registered \union {w} ELSE registered \ {w},
           closed' = closed, held = "open" => ~closed,
           held = "flushing" <=> place = "flushing", place = "opening" => held = "none",
           place \in W!Ended => held # "open"
    PROVE  Waiting'
<1>1. wait'[w] = place /\ waiter'[w] = held /\ (held = "open" <=> w \in registered')
  BY DEF W!TypeOK
<1>2. \A v \in Waits : v # w => /\ wait'[v] = wait[v] /\ waiter'[v] = waiter[v]
                                /\ v \in registered' <=> v \in registered
  BY DEF W!TypeOK
<1>3. wait'[w] # "idle" /\ W!Ended' = W!Ended  BY <1>1 DEF W!Ended
<1>4. closed' => registered' = {}  BY DEF Waiting
<1>5. ASSUME NEW v \in Waits
      PROVE  /\ waiter'[v] = "open" <=> v \in registered'
             /\ waiter'[v] = "flushing" <=> wait'[v] = "flushing"
             /\ wait'[v] \in {"idle", "opening"} => waiter'[v] = "none"
             /\ wait'[v] \in W!Ended => waiter'[v] # "open"
  <2>1. CASE v = w  BY <1>1, <1>3, <2>1
  <2>2. CASE v # w  BY <1>2, <2>2 DEF Waiting
  <2>3. QED BY <2>1, <2>2
<1>6. QED BY <1>4, <1>5 DEF Waiting, W!Ended

\* A call ends: its waiter is closed, and the uploads are as they were.
LEMMA EndKeeps ==
    ASSUME HubUploads \in Nat, WaitInv, NEW w \in Waits, NEW outcome \in W!Ended, W!End(w,
           outcome),
           UNCHANGED <<seen, closed, W!hubVars, status>>, wait[w] # "flushing"
    PROVE  WaitInv'
<1> DEFINE held == IF waiter[w] = "none" THEN "none" ELSE "closed"
<1>1. /\ wait' = [wait EXCEPT ![w] = outcome] /\ waiter' = [waiter EXCEPT ![w] = held]
      /\ registered' = registered \ {w} /\ UNCHANGED <<event, broken, told>>
      /\ UNCHANGED <<seen, closed, staged, upload, commits, status>>
  BY DEF W!End, W!At, W!Finally, W!CloseWaiter, W!hubVars, WaitInv, W!TypeOK
<1>2. outcome \notin {"finalizing", "flushing", "idle", "opening"}  BY DEF W!Ended
<1>3. W!TypeOK'  BY <1>1, <1>2 DEF WaitInv, W!TypeOK
<1>4. held \in {"none", "closed"}  OBVIOUS
<1> HIDE DEF held
<1>5. Waiting'  BY <1>1, <1>2, <1>4, MoveKeeps DEF WaitInv
<1>6. Publishing' /\ W!CommittedOnce'
  BY <1>1, <1>2 DEF WaitInv, W!TypeOK, Publishing, W!CommittedOnce
<1>7. QED BY <1>3, <1>5, <1>6 DEF WaitInv

\* Opening the waiter, and the loop of status requests.
LEMMA LoopKeeps ==
    ASSUME HubUploads \in Nat, WaitInv, NEW w \in Waits,
           \/ W!Begin(w) \/ W!Subscribe(w) \/ W!OpenFails(w) \/ W!Flushed(w)
           \/ W!Status(w) \/ W!Wait(w) \/ W!Timer(w)
    PROVE  WaitInv'
<1> DEFINE Moving == {"opening", "flushing", "asking", "answered", "waiting", "sleeping"}
           Holding == {"none", "flushing", "open", "closed"}
<1>t. /\ wait \in [Waits -> W!Ended \union Moving \union {"idle", "finalizing"}]
      /\ waiter \in [Waits -> Holding] /\ waiter[w] \in Holding /\ registered \subseteq Waits
      /\ waiter[w] = "open" <=> w \in registered
      /\ waiter[w] = "flushing" <=> wait[w] = "flushing"
      /\ wait[w] \in {"idle", "opening"} => waiter[w] = "none"
      /\ closed => registered = {}
  BY DEF WaitInv, W!TypeOK, Waiting
<1>1. /\ UNCHANGED <<closed, told, broken, staged, upload, commits, status>>
      /\ seen' \in [Waits -> W!Terminal \union {"running"}]
      /\ event' \in [Waits -> BOOLEAN]
      /\ wait[w] # "finalizing"
  BY
  DEF W!Begin, W!Subscribe, W!OpenFails, W!Flushed, W!Status, W!Wait, W!Timer, W!waiterVars,
      W!hubVars, W!CloseWaiter,
         WaitInv, W!TypeOK
<1>2. \E place \in Moving, held \in Holding :
         /\ wait' = [wait EXCEPT ![w] = place] /\ waiter' = [waiter EXCEPT ![w] = held]
         /\ registered' = IF held = "open" THEN registered \union {w} ELSE registered \ {w}
         /\ held = "open" => ~closed
         /\ held = "flushing" <=> place = "flushing"
         /\ place = "opening" => held = "none"
  <2>0. /\ waiter = [waiter EXCEPT ![w] = waiter[w]]
        /\ waiter[w] = "open" => registered = registered \union {w} /\ ~closed
        /\ waiter[w] # "open" => registered = registered \ {w}
    BY <1>t
  <2>1. CASE W!Begin(w)
    <3>1. wait' = [wait EXCEPT ![w] = "opening"] /\ UNCHANGED <<waiter,
                                                                registered>> /\ waiter[w] = "none"
      BY <1>t, <2>1 DEF W!Begin, W!At, W!waiterVars
    <3>2. QED BY <2>0, <3>1
  <2>2. CASE W!OpenFails(w) \/ W!Timer(w)
    <3>1. /\ wait' = [wait EXCEPT ![w] = "asking"] /\ UNCHANGED <<waiter, registered>>
          /\ waiter[w] # "flushing"
      BY <1>t, <2>2 DEF W!OpenFails, W!Timer, W!At, W!waiterVars
    <3>2. QED BY <1>t, <2>0, <3>1
  <2>3. CASE W!Status(w)
    <3>1. /\ wait' = [wait EXCEPT ![w] = "answered"] /\ UNCHANGED <<waiter, registered>>
          /\ waiter[w] # "flushing"
      BY <1>t, <2>3 DEF W!Status, W!At, W!waiterVars
    <3>2. QED BY <1>t, <2>0, <3>1
  <2>4. CASE W!Subscribe(w)
    <3>1. /\ wait' = [wait EXCEPT ![w] = "flushing"] /\ waiter' = [waiter EXCEPT ![w] = "flushing"]
          /\ registered' = registered \ {w}
      BY <1>t, <2>0, <2>4 DEF W!Subscribe, W!At
    <3>2. QED BY <3>1
  <2>5. CASE W!Flushed(w) /\ closed
    <3>1. /\ wait' = [wait EXCEPT ![w] = "asking"] /\ waiter' = [waiter EXCEPT ![w] = "closed"]
          /\ registered' = registered \ {w}
      BY <1>t, <2>5 DEF W!Flushed, W!Register, W!At
    <3>2. QED BY <3>1
  <2>6. CASE W!Flushed(w) /\ ~closed
    <3>1. /\ wait' = [wait EXCEPT ![w] = "asking"] /\ waiter' = [waiter EXCEPT ![w] = "open"]
          /\ registered' = registered \union {w} /\ ~closed
      BY <2>6 DEF W!Flushed, W!Register, W!At
    <3>2. QED BY <3>1
  <2>7. CASE W!Wait(w)
    <3>1. CASE waiter[w] = "open" /\ ~broken[w]
      <4>1. PICK place \in {"asking", "waiting"} : wait' = [wait EXCEPT ![w] = place]
        BY <2>7, <3>1 DEF W!Wait, W!At
      <4>2. UNCHANGED <<waiter, registered>>
        BY <2>7, <3>1 DEF W!Wait, W!waiterVars
      <4>3. QED BY <2>0, <3>1, <4>1, <4>2
    <3>2. CASE waiter[w] = "open" /\ broken[w]
      <4>1. wait' = [wait EXCEPT ![w] = "sleeping"]
        BY <2>7, <3>2 DEF W!Wait, W!At
      <4>2. waiter' = [waiter EXCEPT ![w] = "closed"] /\ registered' = registered \ {w}
        BY <1>t, <2>7, <3>2 DEF W!Wait, W!CloseWaiter
      <4>3. QED BY <4>1, <4>2
    <3>3. CASE waiter[w] # "open"
      <4>1. PICK place \in {"asking", "sleeping"} : wait' = [wait EXCEPT ![w] = place]
        BY <2>7, <3>3 DEF W!Wait, W!At
      <4>2. UNCHANGED <<waiter, registered>> /\ waiter[w] # "flushing"
        BY <1>t, <2>7, <3>3 DEF W!Wait, W!waiterVars
      <4>3. QED BY <1>t, <2>0, <3>3, <4>1, <4>2
    <3>4. QED BY <3>1, <3>2, <3>3
  <2>8. QED BY <2>1, <2>2, <2>3, <2>4, <2>5, <2>6, <2>7
<1>3. PICK place \in Moving, held \in Holding :
         /\ wait' = [wait EXCEPT ![w] = place] /\ waiter' = [waiter EXCEPT ![w] = held]
         /\ registered' = IF held = "open" THEN registered \union {w} ELSE registered \ {w}
         /\ held = "open" => ~closed
         /\ held = "flushing" <=> place = "flushing"
         /\ place = "opening" => held = "none"
  BY <1>2
<1>4. place \notin W!Ended /\ place # "finalizing"  BY DEF W!Ended
<1>5. Waiting'  BY <1>1, <1>3, <1>4, MoveKeeps DEF WaitInv
<1>6. wait' \in [Waits -> W!Ended \union Moving \union {"idle", "finalizing"}]
      /\ waiter' \in [Waits -> Holding] /\ registered' \subseteq Waits
      /\ \A v \in Waits : wait'[v] = "finalizing" => wait[v] = "finalizing"
  BY <1>t, <1>3, <1>4
<1>7. W!TypeOK'  BY <1>1, <1>6 DEF WaitInv, W!TypeOK
<1>8. Publishing' /\ W!CommittedOnce'  BY <1>1, <1>6 DEF WaitInv, Publishing, W!CommittedOnce
<1>9. QED BY <1>5, <1>7, <1>8 DEF WaitInv

\* finalizeHuggingFaceUploads takes what is staged, and commits one upload after another.
LEMMA FinalizeKeeps ==
    ASSUME HubUploads \in Nat, WaitInv, NEW w \in Waits, W!Finalize(w) \/ W!Publish(w)
    PROVE  WaitInv'
<1>1. CASE W!Finalize(w)
  <2>1. /\ wait' = [wait EXCEPT ![w] = "finalizing"] /\ staged /\ staged' = FALSE
        /\ UNCHANGED <<seen, waiter, event, broken, told, registered, closed, upload, commits,
                       status>>
        /\ wait[w] = "answered"
    BY <1>1 DEF W!Finalize, W!TakeStaged, W!At, W!waiterVars
  <2>2. W!TypeOK'
    <3>1. HubUploads > 0 /\ \A v \in Waits : upload[v] = 1  BY <2>1 DEF WaitInv, Publishing
    <3>2. \A v \in Waits : upload'[v] <= HubUploads  BY <2>1, <3>1
    <3>3. QED BY <2>1, <3>2 DEF WaitInv, W!TypeOK
  <2>3. Waiting'  BY <2>1 DEF WaitInv, W!TypeOK, Waiting, W!Ended
  <2>4. Publishing' /\ W!CommittedOnce'
    BY <2>1 DEF WaitInv, W!TypeOK, Publishing, W!CommittedOnce
  <2>5. QED BY <2>2, <2>3, <2>4 DEF WaitInv
<1>2. CASE W!Publish(w)
  <2>1. /\ wait[w] = "finalizing" /\ ~staged /\ upload[w] \in 1 .. HubUploads
        /\ commits[upload[w]] = 0
        /\ commits \in [1 .. HubUploads -> Nat] /\ upload \in [Waits -> 1 .. HubUploads + 1]
    BY <1>2 DEF W!Publish, WaitInv, W!TypeOK, Publishing
  <2>2. /\ commits' = [commits EXCEPT ![upload[w]] = 1]
        /\ upload' = [upload EXCEPT ![w] = upload[w] + 1]
        /\ staged' = FALSE /\ UNCHANGED <<seen, closed, status, event, broken, told>>
    BY <1>2, <2>1 DEF W!Publish, W!End, W!Finally, W!CloseWaiter, W!waiterVars, WaitInv, W!TypeOK
  <2>3. \/ /\ upload[w] = HubUploads /\ wait' = [wait EXCEPT ![w] = "completed"]
           /\ waiter' = [waiter EXCEPT ![w] = IF @ = "none" THEN @ ELSE "closed"]
           /\ registered' = registered \ {w}
        \/ upload[w] # HubUploads /\ UNCHANGED <<wait, waiter, registered>>
    BY <1>2 DEF W!Publish, W!PublishedLast, W!End, W!At, W!Finally, W!CloseWaiter, W!waiterVars
  <2>4. commits' \in [1 .. HubUploads -> Nat] /\ upload' \in [Waits -> 1 .. HubUploads + 1]
    BY <2>1, <2>2
  <2>5. W!TypeOK'
    <3>1. /\ wait' \in [Waits -> W!Ended \union {"idle", "opening", "flushing", "asking", "answered",
                                                "waiting", "sleeping", "finalizing"}]
          /\ waiter' \in [Waits -> {"none", "flushing", "open", "closed"}]
          /\ registered' \subseteq Waits
      BY <2>3 DEF WaitInv, W!TypeOK, W!Ended
    <3>2. \A v \in Waits : wait'[v] = "finalizing" => upload'[v] <= HubUploads
      <4>1. SUFFICES ASSUME NEW v \in Waits, wait'[v] = "finalizing" PROVE upload'[v] <= HubUploads
        OBVIOUS
      <4>2. wait[v] = "finalizing" /\ v = w /\ upload[w] # HubUploads
        BY <2>1, <2>3, <4>1 DEF WaitInv, W!TypeOK, Publishing
      <4>3. QED BY <2>1, <2>2, <4>2
    <3>3. QED BY <2>2, <2>4, <3>1, <3>2 DEF WaitInv, W!TypeOK
  <2>6. Waiting'
    <3>1. /\ Waiting /\ wait \in [Waits -> W!Ended \union {"idle", "opening", "flushing", "asking",
                                     "answered", "waiting", "sleeping", "finalizing"}]
          /\ waiter \in [Waits -> {"none", "flushing", "open", "closed"}]
      BY DEF WaitInv, W!TypeOK
    <3>2. CASE UNCHANGED <<wait, waiter, registered>>
      BY <2>2, <3>1, <3>2 DEF Waiting
    <3>3. CASE /\ wait' = [wait EXCEPT ![w] = "completed"] /\ registered' = registered \ {w}
               /\ waiter' = [waiter EXCEPT ![w] = IF @ = "none" THEN @ ELSE "closed"]
      <4>1. /\ wait'[w] = "completed" /\ waiter'[w] \in {"none", "closed"} /\ w \notin registered'
            /\ \A v \in Waits \ {w} : /\ wait'[v] = wait[v] /\ waiter'[v] = waiter[v]
                                      /\ v \in registered' <=> v \in registered
            /\ closed' = closed
        BY <2>2, <3>1, <3>3
      <4>2. closed' => registered' = {}  BY <3>1, <3>3, <4>1 DEF Waiting
      <4>3. QED BY <3>1, <4>1, <4>2 DEF Waiting
    <3>4. QED BY <2>3, <3>2, <3>3
  <2>7. Publishing'
    <3>1. \A v \in Waits : wait'[v] = "finalizing" => v = w
      BY <2>1, <2>3 DEF WaitInv, W!TypeOK, Publishing
    <3>2. \A i \in 1 .. HubUploads : i >= upload'[w] => commits'[i] = 0
      BY <2>1, <2>2 DEF WaitInv, Publishing
    <3>3. QED BY <2>2, <3>1, <3>2 DEF Publishing
  <2>8. W!CommittedOnce'  BY <2>1, <2>2 DEF WaitInv, W!CommittedOnce
  <2>9. QED BY <2>5, <2>6, <2>7, <2>8 DEF WaitInv
<1>3. QED BY <1>1, <1>2

\* close() of the control: whatever it cancels was waiting at most.
LEMMA CloseKeeps ==
    ASSUME HubUploads \in Nat, WaitInv, W!Close
    PROVE  WaitInv'
<1>1. /\ UNCHANGED <<seen, staged, upload, commits, status, told, broken, event>>
      /\ closed' = TRUE /\ registered' = {}
      /\ waiter' = [w \in Waits |-> IF w \in registered THEN "closed" ELSE waiter[w]]
      /\ wait' = [w \in Waits |-> IF w \in registered /\ wait[w] = "waiting"
                                  THEN "asking" ELSE wait[w]]
  BY DEF W!Close, W!hubVars
<1>2. \A w \in Waits : /\ waiter'[w] = IF w \in registered THEN "closed" ELSE waiter[w]
                       /\ wait'[w] = IF w \in registered /\ wait[w] = "waiting"
                                      THEN "asking" ELSE wait[w]
  BY <1>1
<1>3. W!TypeOK'
  <2>1. /\ wait' \in [Waits -> W!Ended \union {"idle", "opening", "flushing", "asking", "answered",
                                              "waiting", "sleeping", "finalizing"}]
        /\ waiter' \in [Waits -> {"none", "flushing", "open", "closed"}]
        /\ \A w \in Waits : wait'[w] = "finalizing" => wait[w] = "finalizing"
    BY <1>1 DEF WaitInv, W!TypeOK
  <2>2. QED BY <1>1, <2>1 DEF WaitInv, W!TypeOK
<1>4. Waiting'
  <2>1. ASSUME NEW w \in Waits
        PROVE  /\ waiter'[w] = "open" <=> w \in registered'
               /\ waiter'[w] = "flushing" <=> wait'[w] = "flushing"
               /\ wait'[w] \in {"idle", "opening"} => waiter'[w] = "none"
               /\ wait'[w] \in W!Ended => waiter'[w] # "open"
    <3>1. CASE w \in registered
      <4>1. waiter[w] = "open" /\ wait[w] \notin {"idle", "opening", "flushing"}
        BY <3>1 DEF WaitInv, Waiting
      <4>2. QED BY <1>1, <1>2, <3>1, <4>1
    <3>2. CASE w \notin registered
      BY <1>1, <1>2, <3>2 DEF WaitInv, Waiting
    <3>3. QED BY <3>1, <3>2
  <2>2. QED BY <1>1, <2>1 DEF Waiting, W!Ended
<1>5. Publishing' /\ W!CommittedOnce'
  <2>1. \A w \in Waits : wait'[w] = "finalizing" => wait[w] = "finalizing"  BY <1>2
  <2>2. QED BY <1>1, <2>1 DEF WaitInv, Publishing, W!CommittedOnce
<1>6. QED BY <1>3, <1>4, <1>5 DEF WaitInv

\* The transfer ends, and its event is delivered, in order or not, or lost.
LEMMA EventKeeps ==
    ASSUME HubUploads \in Nat, WaitInv,
           W!TransferEnds \/ \E w \in Waits : W!Event(w) \/ W!BadEvent(w) \/ W!EventLost(w)
    PROVE  WaitInv'
<1>1. ASSUME NEW w \in Waits, wait[w] = "waiting", wait' = [wait EXCEPT ![w] = "asking"],
             UNCHANGED <<waiter, registered, closed>>
      PROVE  Waiting'
  <2>1. /\ waiter = [waiter EXCEPT ![w] = waiter[w]]
        /\ waiter[w] \in {"none", "flushing", "open", "closed"}
        /\ waiter[w] = "open" => registered = registered \union {w} /\ ~closed
        /\ waiter[w] # "open" => registered = registered \ {w}
        /\ waiter[w] # "flushing"
    BY <1>1 DEF WaitInv, W!TypeOK, Waiting
  <2>2. "asking" \notin W!Ended  BY DEF W!Ended
  <2>3. QED BY <1>1, <2>1, <2>2, MoveKeeps DEF WaitInv
<1>2. ASSUME UNCHANGED <<wait, waiter, registered, closed>> PROVE Waiting'
  BY <1>2 DEF WaitInv, Waiting, W!Ended
<1>3. ASSUME UNCHANGED <<seen, staged, upload, commits, closed>>,
             status' \in W!Terminal \union {"running"}, told' \in [Waits -> BOOLEAN],
             broken' \in [Waits -> BOOLEAN], event' \in [Waits -> BOOLEAN],
             wait' \in [Waits -> W!Ended \union {"idle", "opening", "flushing", "asking", "answered",
                                                 "waiting", "sleeping", "finalizing"}],
             waiter' \in [Waits -> {"none", "flushing", "open", "closed"}],
             registered' \subseteq Waits, Waiting',
             \A v \in Waits : wait'[v] = "finalizing" => wait[v] = "finalizing"
      PROVE  WaitInv'
  <2>1. W!TypeOK'  BY <1>3 DEF WaitInv, W!TypeOK
  <2>2. Publishing' /\ W!CommittedOnce'  BY <1>3 DEF WaitInv, Publishing, W!CommittedOnce
  <2>3. QED BY <1>3, <2>1, <2>2 DEF WaitInv
<1>4. CASE W!TransferEnds
  <2>1. Waiting'  BY <1>2, <1>4 DEF W!TransferEnds, W!waiterVars
  <2>2. QED BY <1>3, <1>4, <2>1 DEF W!TransferEnds, W!waiterVars, W!hubVars, WaitInv, W!TypeOK
<1>5. ASSUME NEW w \in Waits, W!Event(w) PROVE WaitInv'
  <2>1. CASE wait[w] = "waiting"
    <3>1. Waiting'  BY <1>1, <1>5, <2>1 DEF W!Event, W!At
    <3>2. /\ wait' \in [Waits -> W!Ended \union {"idle", "opening", "flushing", "asking", "answered",
                                                 "waiting", "sleeping", "finalizing"}]
          /\ \A v \in Waits : wait'[v] = "finalizing" => wait[v] = "finalizing"
      BY <1>5, <2>1 DEF W!Event, W!At, WaitInv, W!TypeOK
    <3>3. QED BY <1>3, <1>5, <2>1, <3>1, <3>2 DEF W!Event, W!hubVars, WaitInv, W!TypeOK
  <2>2. CASE wait[w] # "waiting"
    <3>1. Waiting'  BY <1>2, <1>5, <2>2 DEF W!Event
    <3>2. QED BY <1>3, <1>5, <2>2, <3>1 DEF W!Event, W!hubVars, WaitInv, W!TypeOK
  <2>3. QED BY <2>1, <2>2
<1>6. ASSUME NEW w \in Waits, W!BadEvent(w) PROVE WaitInv'
  <2>1. CASE wait[w] = "waiting"
    <3>1. /\ wait' = [wait EXCEPT ![w] = "sleeping"] /\ waiter' = [waiter EXCEPT ![w] = "closed"]
          /\ registered' = registered \ {w} /\ closed' = closed
      BY <1>6, <2>1 DEF W!BadEvent, W!At
    <3>2. "sleeping" \notin W!Ended  BY DEF W!Ended
    <3>3. Waiting'  BY <3>1, <3>2, MoveKeeps DEF WaitInv
    <3>4. /\ wait' \in [Waits -> W!Ended \union {"idle", "opening", "flushing", "asking", "answered",
                                                 "waiting", "sleeping", "finalizing"}]
          /\ waiter' \in [Waits -> {"none", "flushing", "open", "closed"}]
          /\ registered' \subseteq Waits
          /\ \A v \in Waits : wait'[v] = "finalizing" => wait[v] = "finalizing"
      BY <3>1 DEF WaitInv, W!TypeOK
    <3>5. QED BY <1>3, <1>6, <3>3, <3>4 DEF W!BadEvent, W!hubVars, WaitInv, W!TypeOK
  <2>2. CASE wait[w] # "waiting"
    <3>1. Waiting'  BY <1>2, <1>6, <2>2 DEF W!BadEvent
    <3>2. QED BY <1>3, <1>6, <2>2, <3>1 DEF W!BadEvent, W!hubVars, WaitInv, W!TypeOK
  <2>3. QED BY <2>1, <2>2
<1>7. ASSUME NEW w \in Waits, W!EventLost(w) PROVE WaitInv'
  <2>1. Waiting'  BY <1>2, <1>7 DEF W!EventLost
  <2>2. QED BY <1>3, <1>7, <2>1 DEF W!EventLost, W!hubVars, WaitInv, W!TypeOK
<1>8. QED BY <1>4, <1>5, <1>6, <1>7

\* WaitInv is inductive.
LEMMA WaitNext == HubUploads \in Nat /\ WaitInv /\ [W!Next]_(W!vars) => WaitInv'
<1> SUFFICES ASSUME HubUploads \in Nat, WaitInv, [W!Next]_(W!vars) PROVE WaitInv'  OBVIOUS
<1>1. ASSUME NEW w \in Waits, W!WaitStep(w) PROVE WaitInv'
  <2>1. CASE W!StatusFails(w) \/ W!TimedOut(w) \/ W!NothingToFinalize(w) \/ W!PublishFails(w)
    BY <2>1, EndKeeps DEF W!StatusFails, W!TimedOut, W!NothingToFinalize, W!PublishFails, W!Ended
  <2>2. CASE W!Failed(w)
    BY <2>2, EndKeeps DEF W!Failed, W!Ended
  <2>3. QED BY <1>1, <2>1, <2>2, LoopKeeps, FinalizeKeeps DEF W!WaitStep
<1>2. CASE W!Next  BY <1>1, <1>2, LoopKeeps, CloseKeeps, EventKeeps DEF W!Next
<1>3. CASE UNCHANGED W!vars
  BY <1>3
  DEF W!vars, W!waiterVars, W!hubVars, WaitInv, W!TypeOK, Waiting, Publishing, W!CommittedOnce
<1>4. QED BY <1>2, <1>3

\* Any number of waitForTransfer calls for one transfer, however the status requests, the
\* terminal event, openTerminalSignalWaiter and close() interleave: a call that has ended
\* left no waiter behind, a closed control has none registered, and no two calls of
\* finalizeHuggingFaceUploads commit one upload.
THEOREM WaitsAreClean ==
    ASSUME HubUploads \in Nat
    PROVE  W!Spec => [](W!TypeOK /\ W!NoWaiterLeft /\ W!ClosedHasNoWait /\ W!CommittedOnce)
<1>1. W!Init => WaitInv  BY WaitInit
<1>2. WaitInv /\ [W!Next]_(W!vars) => WaitInv'  BY WaitNext
<1>3. WaitInv => W!TypeOK /\ W!NoWaiterLeft /\ W!ClosedHasNoWait /\ W!CommittedOnce
  BY DEF WaitInv, Waiting, W!NoWaiterLeft, W!ClosedHasNoWait, W!Ended, W!Subscribed
<1>4. QED BY <1>1, <1>2, <1>3, PTL DEF W!Spec

-----------------------------------------------------------------------------
(* The requests to the Transfer Runtime, with their token and connection.  *)

CONSTANTS Calls, KeyOf, Oversized, MaxAttempts, MaxRestarts, Weathers
VARIABLES call, attempt, held, reply, token, aged, auth, authAttempt, issued, nc,
    connecting, closing, known, wire, applied, epoch, weather, troubles

L == INSTANCE LifecycleControl WITH pc <- call, faults <- troubles

Messages == [call : Calls, attempt : 1 .. MaxAttempts, token : {"good", "bad"},
             id : {L!RequestId(c) : c \in Calls}]
Replies == {L!NoReply} \union [kind : L!ReplyKinds, epoch : Nat]

\* The calls: what goes on the wire carries a token, and an attempt that is repeated was
\* not the last one.
CallsTyped ==
    /\ call \in [Calls -> L!CallStates] /\ attempt \in [Calls -> 1 .. MaxAttempts]
    /\ held \in [Calls -> L!Tokens]
    /\ \A c \in Calls : call[c] = "sleep" => attempt[c] < MaxAttempts
    /\ \A c \in Calls : call[c] = "conn" => held[c] # "none"
\* The shared refresh and its token, the connection, the Runtime, and the requests.
TokensTyped ==
    /\ token \in L!Tokens /\ issued \in L!Tokens /\ aged \in BOOLEAN
    /\ auth \in L!AuthStates /\ authAttempt \in 1 .. MaxAttempts
    /\ auth = "sleep" => authAttempt < MaxAttempts
    /\ auth = "reply" => issued # "none"
ConnTyped ==
    /\ nc \in {"null", "open", "dead"} /\ closing \in {"no", "waiting", "done"}
    /\ connecting \in BOOLEAN /\ closed \in BOOLEAN
RuntimeTyped ==
    /\ epoch \in 1 .. (MaxRestarts + 1) /\ known \in 0 .. epoch /\ troubles \in 0 .. 2
    /\ reply \in [Calls -> Replies] /\ \A c \in Calls : reply[c].epoch <= epoch
WireTyped == wire \subseteq Messages

ControlTyped == CallsTyped /\ TokensTyped /\ ConnTyped /\ RuntimeTyped /\ WireTyped

\* Whatever was served for a key has its one request id.
OneId ==
    /\ \A m \in wire : m.call \in Calls /\ m.id = L!RequestId(m.call)
    /\ applied \in [L!Keys -> SUBSET {L!RequestId(c) : c \in Calls}]
    /\ \A k \in L!Keys : applied[k] \subseteq {<<k, 1>>}

\* After close() nobody connects.
Closing ==
    /\ closing # "no" => closed
    /\ closing = "done" => nc = "null" /\ ~connecting

\* No token of before a restart, and no sign of one.
Unspoiled ==
    /\ token # "bad" /\ issued # "bad"
    /\ \A c \in Calls : held[c] # "bad" /\ reply[c].kind # "expired"
    /\ \A m \in wire : m.token # "bad"

\* No attempt has been repeated, nor will be for anything that happened.
FirstTries ==
    /\ \A c \in Calls : attempt[c] = 1 /\ call[c] # "sleep" /\ reply[c].kind # "busy"
    /\ \A m \in wire : m.attempt = 1

\* After one restart and nothing else: the token in the cache and the one that the
\* refresh may still bring are two, and each can spoil one attempt of a call.
Tried(c, n) == attempt[c] + (IF call[c] = "sleep" THEN 1 ELSE 0) <= n
OnceRestarted ==
    /\ \A c \in Calls : /\ reply[c].kind # "busy"
                        /\ reply[c].kind = "expired" => attempt[c] <= 2 /\ call[c] # "sleep"
                        /\ call[c] = "conn" /\ held[c] = "bad" => attempt[c] <= 2
    /\ \A m \in wire : m.token = "bad" => m.attempt <= 2
    /\ token = "bad" => \A c \in Calls : Tried(c, 2)
    /\ issued = "bad" =>
          /\ token # "good"
          /\ \A c \in Calls : Tried(c, 2)
          /\ token = "bad" => \A c \in Calls : Tried(c, 1)
          /\ \A c \in Calls : call[c] \in {"conn", "sent"} => Tried(c, 1)

FaultsCounted ==
    /\ troubles = 0 => Unspoiled /\ FirstTries
    /\ troubles = 1 => Unspoiled \/ OnceRestarted
    /\ L!RefusedTakesTwoFaults

ControlInv == ControlTyped /\ OneId /\ Closing /\ FaultsCounted

\* No request was made.
LEMMA ControlInit == L!Limits /\ L!Init => ControlInv
<1> SUFFICES ASSUME L!Limits, L!Init PROVE ControlInv  OBVIOUS
<1>1. \A c \in Calls : /\ call[c] = "idle" /\ attempt[c] = 1 /\ held[c] = "none"
                       /\ reply[c] = L!NoReply /\ reply[c].epoch = 0 /\ reply[c].kind = "none"
  BY DEF L!Init, L!NoReply
<1>2. ControlTyped
  <2>1. /\ call \in [Calls -> {"idle"}] /\ attempt \in [Calls -> {1}] /\ held \in [Calls -> {"none"}]
        /\ reply \in [Calls -> {L!NoReply}]
    BY DEF L!Init
  <2>2. 1 \in 1 .. MaxAttempts /\ 1 \in 1 .. (MaxRestarts + 1) /\ 0 \in 0 .. 1
    BY DEF L!Limits
  <2>3. CallsTyped  BY <1>1, <2>1, <2>2 DEF CallsTyped, L!CallStates, L!Tokens
  <2>4. TokensTyped  BY <2>2 DEF L!Init, TokensTyped, L!Tokens, L!AuthStates
  <2>5. ConnTyped  BY DEF L!Init, ConnTyped
  <2>6. RuntimeTyped  BY <1>1, <2>1, <2>2 DEF L!Init, RuntimeTyped, Replies
  <2>7. WireTyped  BY DEF L!Init, WireTyped
  <2>8. QED BY <2>3, <2>4, <2>5, <2>6, <2>7 DEF ControlTyped
<1>3. OneId  BY DEF L!Init, OneId
<1>4. Closing  BY DEF L!Init, Closing
<1>5. FaultsCounted
  BY <1>1 DEF L!Init, FaultsCounted, Unspoiled, FirstTries, L!RefusedTakesTwoFaults
<1>6. QED BY <1>2, <1>3, <1>4, <1>5 DEF ControlInv

\* close() and connect().
LEMMA ClosingStep == Closing /\ [L!Next]_(L!vars) => Closing'
<1> SUFFICES ASSUME Closing, [L!Next]_(L!vars) PROVE Closing'  OBVIOUS
<1> USE DEF Closing, L!callVars, L!tokenVars, L!authVars, L!connVars, L!closeVars, L!envVars
<1>1. ASSUME NEW c \in Calls, L!Request(c) \/ L!CallStep(c) PROVE Closing'
  <2>1. CASE L!AttemptCached(c)
    <3>1. /\ UNCHANGED <<closed, closing, nc>>
          /\ connecting' => connecting \/ ~closed
      BY <2>1 DEF L!AttemptCached, L!Joined, L!Connected
    <3>2. QED BY <3>1
  <2>2. CASE L!Timeout(c)
    BY <2>2 DEF L!Timeout, L!DropDead
  <2>3. CASE L!Request(c) \/ L!AttemptAuth(c) \/ L!Wake(c)
    BY <2>3 DEF L!Request, L!AttemptAuth, L!Wake
  <2>4. CASE L!ReplyOk(c) \/ L!ReplyExpired(c) \/ L!ReplyBusy(c) \/ L!ReplyDenied(c)
    BY <2>4 DEF L!ReplyOk, L!ReplyExpired, L!ReplyBusy, L!ReplyDenied, L!Answered
  <2>5. QED BY <1>1, <2>1, <2>2, <2>3, <2>4 DEF L!CallStep
<1>2. CASE L!AuthStep \/ L!AuthServe
  <2>1. CASE L!AuthAttempt
    BY <2>1 DEF L!AuthAttempt, L!Joined, L!Connected
  <2>2. CASE L!AuthTimeout
    BY <2>2 DEF L!AuthTimeout, L!DropDead
  <2>3. CASE L!AuthDone
    <3>1. /\ UNCHANGED <<closed, closing, nc>>
          /\ connecting' => connecting \/ ~closed
      BY <2>3 DEF L!AuthDone, L!Connected
    <3>2. QED BY <3>1
  <2>4. CASE L!AuthClosed \/ L!AuthWake \/ L!AuthRefused \/ L!AuthServe
    BY <2>4 DEF L!AuthClosed, L!AuthWake, L!AuthRefused, L!AuthServe
  <2>5. QED BY <1>2, <2>1, <2>2, <2>3, <2>4 DEF L!AuthStep
<1>3. CASE L!ConnectionStep \/ L!ConnectionDies
  BY <1>3
  DEF L!ConnectionStep, L!ConnectDone, L!ConnectLost, L!ConnectFails, L!ConnectionDies, L!DropDead
<1>4. CASE L!Close \/ L!CloseDrains \/ L!Age \/ L!Restart
  BY <1>4 DEF L!Close, L!CloseDrains, L!ConnectSettled, L!Age, L!Restart
<1>5. ASSUME NEW m \in wire, L!Serve(m) PROVE Closing'
  BY <1>5 DEF L!Serve
<1>6. CASE UNCHANGED L!vars  BY <1>6 DEF L!vars
<1>7. QED BY <1>1, <1>2, <1>3, <1>4, <1>5, <1>6 DEF L!Next

\* The Runtime is sent one request id for each key, and applies what it was sent.
LEMMA OneIdStep == OneId /\ [L!Next]_(L!vars) => OneId'
<1> SUFFICES ASSUME OneId, [L!Next]_(L!vars) PROVE OneId'  OBVIOUS
<1> USE DEF L!callVars, L!tokenVars, L!authVars, L!connVars, L!closeVars, L!envVars
<1>p. ASSUME NEW c \in Calls PROVE L!Published(c).id = L!RequestId(c) /\ L!Published(c).call = c
  BY DEF L!Published
<1>q. /\ \A c \in Calls : L!RequestId(c)' = L!RequestId(c)
      /\ \A m : L!RequestId(m.call)' = L!RequestId(m.call)
  BY DEF L!RequestId
<1>k. ASSUME UNCHANGED applied, \A m \in wire' : m.call \in Calls /\ m.id = L!RequestId(m.call)
      PROVE  OneId'
  BY <1>k, <1>q DEF OneId
<1>1. ASSUME UNCHANGED applied, NEW D \in SUBSET Calls,
             wire' \subseteq wire \union {L!Published(c) : c \in D}
      PROVE  OneId'
  <2>1. ASSUME NEW m \in wire' PROVE m.call \in Calls /\ m.id = L!RequestId(m.call)
    <3>1. CASE m \in wire  BY <3>1 DEF OneId
    <3>2. CASE m \notin wire
      <4>1. PICK c \in D : m = L!Published(c)  BY <1>1, <3>2
      <4>2. c \in Calls  BY <1>1
      <4>3. QED BY <1>p, <4>1, <4>2
    <3>3. QED BY <3>1, <3>2
  <2>2. QED BY <1>1, <1>k, <2>1
<1>2. ASSUME UNCHANGED <<wire, applied>> PROVE OneId'  BY <1>2, <1>k DEF OneId
<1>3. ASSUME NEW c \in Calls, L!AttemptCached(c) PROVE OneId'
  <2>1. wire' \subseteq wire \union {L!Published(d) : d \in {c}} /\ applied' = applied
    BY <1>3 DEF L!AttemptCached
  <2>2. QED BY <1>1, <2>1
<1>4. ASSUME NEW c \in Calls, L!Request(c) \/ L!AttemptAuth(c) \/ L!Wake(c) \/ L!Timeout(c)
                              \/ L!ReplyOk(c)
                              \/ L!ReplyExpired(c) \/ L!ReplyBusy(c) \/ L!ReplyDenied(c)
      PROVE  OneId'
  BY <1>2, <1>4
  DEF L!Request, L!AttemptAuth, L!Wake, L!Timeout, L!ReplyOk, L!ReplyExpired, L!ReplyBusy,
                    L!ReplyDenied, L!Answered
<1>5. CASE L!AuthDone
  <2>1. PICK D \in SUBSET Calls :
           wire' \subseteq wire \union {L!Published(d) : d \in D} /\ applied' = applied
    <3>1. {c \in Calls : call[c] = "auth"} \ L!TooLarge \in SUBSET Calls  OBVIOUS
    <3>2. QED BY <1>5, <3>1 DEF L!AuthDone
  <2>2. QED BY <1>1, <2>1
<1>6. CASE L!ConnectDone
  <2>1. wire' \subseteq wire \union {L!Published(c) : c \in {d \in Calls : call[d] = "conn"}}
        /\ applied' = applied
    BY <1>6 DEF L!ConnectDone
  <2>2. QED BY <1>1, <2>1
<1>7. CASE L!AuthAttempt \/ L!AuthClosed \/ L!AuthTimeout \/ L!AuthWake \/ L!AuthRefused
           \/ L!AuthServe
  BY <1>2, <1>7
  DEF L!AuthAttempt, L!AuthClosed, L!AuthTimeout, L!AuthWake, L!AuthRefused, L!AuthServe
<1>8. CASE L!ConnectLost \/ L!ConnectFails \/ L!ConnectionDies \/ L!Close \/ L!CloseDrains
           \/ L!Age
  BY <1>2, <1>8 DEF L!ConnectLost, L!ConnectFails, L!ConnectionDies, L!Close, L!CloseDrains, L!Age
<1>9. CASE L!Restart
  <2>1. applied' = applied /\ wire' = {[m EXCEPT !.token = L!Spoiled(@)] : m \in wire}
    BY <1>9 DEF L!Restart
  <2>2. ASSUME NEW n \in wire' PROVE n.call \in Calls /\ n.id = L!RequestId(n.call)
    <3>1. PICK m \in wire : n = [m EXCEPT !.token = L!Spoiled(@)]  BY <2>1
    <3>2. n.id = m.id /\ n.call = m.call  BY <3>1
    <3>3. QED BY <3>2 DEF OneId
  <2>3. QED BY <1>k, <2>1, <2>2
<1>10. ASSUME NEW m \in wire, L!Serve(m) PROVE OneId'
  <2>1. /\ wire' \subseteq wire
        /\ \/ applied' = applied
           \/ applied' = [applied EXCEPT ![KeyOf[m.call]] = @ \union {m.id}]
    BY <1>10 DEF L!Serve
  <2>2. CASE applied' = applied  BY <1>k, <2>1, <2>2 DEF OneId
  <2>3. CASE applied' = [applied EXCEPT ![KeyOf[m.call]] = @ \union {m.id}]
    <3>1. m.id = <<KeyOf[m.call], 1>> /\ m.call \in Calls /\ KeyOf[m.call] \in L!Keys
          /\ m.id \in {L!RequestId(c) : c \in Calls}
      BY DEF OneId, L!RequestId, L!Keys
    <3>2. applied' \in [L!Keys -> SUBSET {L!RequestId(c) : c \in Calls}]
      BY <2>3, <3>1 DEF OneId
    <3>3. ASSUME NEW k \in L!Keys PROVE applied'[k] \subseteq {<<k, 1>>}
      BY <2>3, <3>1, <3>3 DEF OneId
    <3>4. \A n \in wire' : n.call \in Calls /\ n.id = L!RequestId(n.call)
      BY <2>1 DEF OneId
    <3>5. {L!RequestId(c) : c \in Calls}' = {L!RequestId(c) : c \in Calls} /\ L!Keys' = L!Keys
      BY DEF L!RequestId, L!Keys
    <3>6. QED BY <1>q, <3>2, <3>3, <3>4, <3>5 DEF OneId
  <2>4. QED BY <2>1, <2>2, <2>3
<1>11. CASE UNCHANGED L!vars  BY <1>2, <1>11 DEF L!vars
<1>12. QED BY <1>3, <1>4, <1>5, <1>6, <1>7, <1>8, <1>9, <1>10, <1>11
       DEF L!Next, L!CallStep, L!AuthStep, L!ConnectionStep

\* What a call does next, and after an error.
LEMMA Onwards ==
    ASSUME L!Limits, CallsTyped
    PROVE  /\ L!Connected \in {"closed", "sent", "conn"}
           /\ \A c \in Calls, error \in {"refused", "failed"} :
                 /\ L!AfterError(c, error) \in {"sleep", "refused", "failed"}
                 /\ L!AfterError(c, error) = "sleep" => attempt[c] < MaxAttempts
BY DEF L!Connected, L!AfterError

\* The calls are what they can be.
LEMMA CallsStep ==
    ASSUME L!Limits, CallsTyped, TokensTyped, [L!Next]_(L!vars)
    PROVE  CallsTyped'
<1> USE DEF L!callVars, L!tokenVars, L!authVars, L!connVars, L!closeVars, L!envVars
<1> DEFINE Going == {"closed", "sent", "conn"}
<1>t. /\ call \in [Calls -> L!CallStates] /\ attempt \in [Calls -> 1 .. MaxAttempts]
      /\ held \in [Calls -> L!Tokens] /\ token \in L!Tokens /\ issued \in L!Tokens
  BY DEF CallsTyped, TokensTyped
<1>s. /\ Going \subseteq L!CallStates
      /\ {"sleep", "refused", "failed", "tooLarge", "ok", "auth", "start",
            "closed"} \subseteq L!CallStates
  BY DEF L!CallStates, L!Ended
<1>a. ASSUME UNCHANGED <<call, attempt, held>> PROVE CallsTyped'
  BY <1>a DEF CallsTyped
<1>b. ASSUME NEW c \in Calls, NEW s \in L!CallStates, call' = [call EXCEPT ![c] = s],
             UNCHANGED <<attempt, held>>, s = "sleep" => attempt[c] < MaxAttempts, s # "conn"
      PROVE  CallsTyped'
  BY <1>b DEF CallsTyped
<1>c. ASSUME NEW f \in [Calls -> L!CallStates], call' = f, UNCHANGED <<attempt, held>>,
             \A c \in Calls : \/ f[c] = call[c]
                              \/ /\ f[c] = "sleep" => attempt[c] < MaxAttempts
                                 /\ f[c] # "conn"
      PROVE  CallsTyped'
  BY <1>c DEF CallsTyped
<1>1. ASSUME NEW c \in Calls, L!AttemptCached(c) PROVE CallsTyped'
  <2>1. PICK s \in Going \union {"tooLarge"} : call' = [call EXCEPT ![c] = s]
    BY <1>1, Onwards DEF L!AttemptCached
  <2>2. held' = [held EXCEPT ![c] = token] /\ token # "none" /\ attempt' = attempt
    BY <1>1 DEF L!AttemptCached
  <2>3. held' \in [Calls -> L!Tokens] /\ call' \in [Calls -> L!CallStates]
    BY <1>t, <1>s, <2>1, <2>2
  <2>4. \A d \in Calls : call'[d] = "conn" => held'[d] # "none"
    BY <1>t, <2>1, <2>2 DEF CallsTyped
  <2>5. \A d \in Calls : call'[d] = "sleep" => attempt'[d] < MaxAttempts
    BY <1>t, <2>1, <2>2 DEF CallsTyped
  <2>6. QED BY <2>2, <2>3, <2>4, <2>5 DEF CallsTyped
<1>2. ASSUME NEW c \in Calls, L!Request(c) \/ L!AttemptAuth(c) PROVE CallsTyped'
  BY <1>s, <1>b, <1>2 DEF L!Request, L!AttemptAuth
<1>3. ASSUME NEW c \in Calls, L!Wake(c) PROVE CallsTyped'
  <2>1. /\ call[c] = "sleep" /\ call' = [call EXCEPT ![c] = "start"] /\ held' = held
        /\ attempt' = [attempt EXCEPT ![c] = @ + 1]
    BY <1>3 DEF L!Wake
  <2>2. attempt[c] + 1 \in 1 .. MaxAttempts  BY <1>t, <2>1 DEF CallsTyped, L!Limits
  <2>3. /\ attempt' \in [Calls -> 1 .. MaxAttempts] /\ call' \in [Calls -> L!CallStates]
        /\ \A d \in Calls : d # c => call'[d] = call[d] /\ attempt'[d] = attempt[d]
        /\ call'[c] = "start"
    BY <1>t, <1>s, <2>1, <2>2
  <2>4. QED BY <2>1, <2>3 DEF CallsTyped
<1>4. ASSUME NEW c \in Calls, L!Timeout(c) \/ L!ReplyOk(c) \/ L!ReplyExpired(c) \/ L!ReplyBusy(c)
                              \/ L!ReplyDenied(c)
      PROVE  CallsTyped'
  <2>1. PICK s \in {"sleep", "refused", "failed", "ok"} :
           call' = [call EXCEPT ![c] = s] /\ (s = "sleep" => attempt[c] < MaxAttempts)
    <3>1. CASE L!Timeout(c) \/ L!ReplyBusy(c)
      BY <3>1, Onwards DEF L!Timeout, L!ReplyBusy
    <3>2. CASE L!ReplyExpired(c)
      BY <3>2, Onwards DEF L!ReplyExpired
    <3>3. CASE L!ReplyOk(c) \/ L!ReplyDenied(c)
      BY <3>3 DEF L!ReplyOk, L!ReplyDenied
    <3>4. QED BY <1>4, <3>1, <3>2, <3>3
  <2>2. UNCHANGED <<attempt, held>>
    BY <1>4 DEF L!Timeout, L!ReplyOk, L!ReplyExpired, L!ReplyBusy, L!ReplyDenied, L!Answered
  <2>3. QED BY <1>s, <1>b, <2>1, <2>2
<1>5. CASE L!AuthClosed \/ L!AuthRefused
  <2>1. PICK s \in {"closed", "failed"} :
           call' = [c \in Calls |-> IF call[c] = "auth" THEN [d \in Calls |-> s][c] ELSE call[c]]
    BY <1>5 DEF L!AuthClosed, L!AuthRefused, L!AuthEnds
  <2>2. call' = [c \in Calls |-> IF call[c] = "auth" THEN s ELSE call[c]]  BY <2>1
  <2>3. UNCHANGED <<attempt, held>>  BY <1>5 DEF L!AuthClosed, L!AuthRefused
  <2>4. QED BY <1>t, <1>s, <1>c, <2>2, <2>3
<1>6. CASE L!AuthTimeout
  <2>1. \/ call' = call
        \/ call' = [c \in Calls |-> IF call[c] = "auth" THEN L!AfterError(c, "failed") ELSE call[c]]
    BY <1>6 DEF L!AuthTimeout, L!AuthError, L!AuthEnds
  <2>2. UNCHANGED <<attempt, held>>  BY <1>6 DEF L!AuthTimeout
  <2>3. QED BY <1>t, <1>s, <1>a, <1>c, <2>1, <2>2, Onwards
<1>7. CASE L!AuthDone
  <2>1. PICK G \in SUBSET {c \in Calls : call[c] = "auth"} :
           call' = [c \in Calls |-> IF c \in G THEN L!Connected
                                    ELSE IF call[c] = "auth" THEN "tooLarge" ELSE call[c]]
    <3>1. {c \in Calls : call[c] = "auth"} \ L!TooLarge \in SUBSET {c \in Calls : call[c] = "auth"}
      OBVIOUS
    <3>2. QED BY <1>7, <3>1 DEF L!AuthDone
  <2>2. /\ held' = [c \in Calls |-> IF call[c] = "auth" THEN issued ELSE held[c]]
        /\ attempt' = attempt /\ issued # "none"
    BY <1>7 DEF L!AuthDone, TokensTyped
  <2>3. held' \in [Calls -> L!Tokens] /\ call' \in [Calls -> L!CallStates]
    BY <1>t, <1>s, <2>1, <2>2, Onwards
  <2>4. \A c \in Calls : call'[c] = "conn" => held'[c] # "none"
    BY <2>1, <2>2 DEF CallsTyped
  <2>5. \A c \in Calls : call'[c] = "sleep" => attempt'[c] < MaxAttempts
    BY <2>1, <2>2, Onwards DEF CallsTyped
  <2>6. QED BY <2>2, <2>3, <2>4, <2>5 DEF CallsTyped
<1>8. CASE L!ConnectDone
  <2>1. /\ call' = [c \in Calls |-> IF call[c] = "conn" THEN "sent" ELSE call[c]]
        /\ UNCHANGED <<attempt, held>>
    BY <1>8 DEF L!ConnectDone
  <2>2. QED BY <1>t, <1>s, <1>c, <2>1
<1>9. CASE L!ConnectLost
  <2>1. /\ call' = [c \in Calls |-> IF call[c] = "conn" \/ (call[c] = "auth" /\ auth = "conn")
                                    THEN "closed" ELSE call[c]]
        /\ UNCHANGED <<attempt, held>>
    BY <1>9 DEF L!ConnectLost
  <2>2. QED BY <1>t, <1>s, <1>c, <2>1
<1>10. CASE L!ConnectFails
  <2>1. PICK ends \in BOOLEAN :
           call' = [c \in Calls |-> IF call[c] = "conn" \/ (call[c] = "auth" /\ ends)
                                    THEN L!AfterError(c, "failed") ELSE call[c]]
    <3>1. (auth = "conn" /\ authAttempt = MaxAttempts) \in BOOLEAN  OBVIOUS
    <3>2. QED BY <1>10, <3>1 DEF L!ConnectFails
  <2>2. UNCHANGED <<attempt, held>>  BY <1>10 DEF L!ConnectFails
  <2>3. QED BY <1>t, <1>s, <1>c, <2>1, <2>2, Onwards
<1>11. CASE L!Restart
  <2>1. UNCHANGED <<call, attempt>> /\ held' = [c \in Calls |-> L!Spoiled(held[c])]
    BY <1>11 DEF L!Restart
  <2>2. \A c \in Calls : /\ L!Spoiled(held[c]) \in L!Tokens
                         /\ held[c] # "none" => L!Spoiled(held[c]) # "none"
    BY <1>t DEF L!Spoiled, L!Tokens
  <2>3. QED BY <2>1, <2>2 DEF CallsTyped
<1>12. CASE L!AuthAttempt \/ L!AuthWake \/ L!AuthServe \/ L!ConnectionDies \/ L!Close
            \/ L!CloseDrains \/ L!Age
            \/ UNCHANGED L!vars
  BY <1>a, <1>12
  DEF L!AuthAttempt, L!AuthWake, L!AuthServe, L!ConnectionDies, L!Close, L!CloseDrains, L!Age,
      L!vars
<1>13. ASSUME NEW m \in wire, L!Serve(m) PROVE CallsTyped'
  BY <1>a, <1>13 DEF L!Serve
<1>14. QED BY <1>1, <1>2, <1>3, <1>4, <1>5, <1>6, <1>7, <1>8, <1>9, <1>10, <1>11, <1>12, <1>13
       DEF L!Next, L!CallStep, L!AuthStep, L!ConnectionStep

\* The shared refresh and the token that it brings.
LEMMA TokensStep ==
    ASSUME L!Limits, TokensTyped, CallsTyped, [L!Next]_(L!vars)
    PROVE  TokensTyped'
<1> USE DEF L!callVars, L!tokenVars, L!authVars, L!connVars, L!closeVars, L!envVars
<1>a. ASSUME UNCHANGED <<auth, authAttempt, issued, aged>>, token' \in {"none", token}
      PROVE  TokensTyped'
  <2>1. token' \in L!Tokens  BY <1>a DEF TokensTyped, L!Tokens
  <2>2. QED BY <1>a, <2>1 DEF TokensTyped
<1>b. ASSUME UNCHANGED <<issued, aged, token, authAttempt>>,
             auth' \in {"none", "start", "conn", "sent"}
      PROVE  TokensTyped'
  BY <1>b DEF TokensTyped, L!AuthStates
<1>1. ASSUME NEW c \in Calls, L!AttemptAuth(c) PROVE TokensTyped'
  <2>1. UNCHANGED <<token, aged, issued>>  BY <1>1 DEF L!AttemptAuth
  <2>2. CASE auth = "none"
    BY <1>1, <2>1, <2>2 DEF L!AttemptAuth, TokensTyped, L!AuthStates, L!Limits
  <2>3. CASE auth # "none"
    BY <1>1, <2>1, <2>3 DEF L!AttemptAuth, TokensTyped
  <2>4. QED BY <2>2, <2>3
<1>2. ASSUME NEW c \in Calls, L!Request(c) \/ L!AttemptCached(c) \/ L!Wake(c) \/ L!Timeout(c)
      PROVE  TokensTyped'
  BY <1>a, <1>2 DEF L!Request, L!AttemptCached, L!Wake, L!Timeout
<1>3. ASSUME NEW c \in Calls, L!ReplyOk(c) \/ L!ReplyExpired(c) \/ L!ReplyBusy(c)
           \/ L!ReplyDenied(c)
      PROVE  TokensTyped'
  <2>1. UNCHANGED <<auth, authAttempt, issued, aged>>
    BY <1>3 DEF L!ReplyOk, L!ReplyExpired, L!ReplyBusy, L!ReplyDenied, L!Answered
  <2>2. token' \in {"none", token}
    BY <1>3 DEF L!ReplyOk, L!ReplyExpired, L!ReplyBusy, L!ReplyDenied, L!TokenKept, L!ClearExpired
  <2>3. QED BY <1>a, <2>1, <2>2
<1>4. CASE L!AuthAttempt
  BY <1>b, <1>4 DEF L!AuthAttempt, L!Connected
<1>5. CASE L!AuthClosed \/ L!AuthRefused
  BY <1>b, <1>5 DEF L!AuthClosed, L!AuthRefused, L!AuthEnds
<1>6. CASE L!AuthTimeout
  <2>1. /\ UNCHANGED <<token, aged, authAttempt>> /\ issued' = "none"
        /\ \/ authAttempt < MaxAttempts /\ auth' = "sleep"
           \/ auth' = "none"
    BY <1>6 DEF L!AuthTimeout, L!AuthError, L!AuthEnds
  <2>2. QED BY <2>1 DEF TokensTyped, L!AuthStates, L!Tokens
<1>7. CASE L!AuthWake
  <2>1. /\ auth' = "start" /\ authAttempt' = authAttempt + 1 /\ UNCHANGED <<issued, token, aged>>
        /\ authAttempt + 1 \in 1 .. MaxAttempts
    BY <1>7 DEF L!AuthWake, TokensTyped, L!Limits
  <2>2. QED BY <2>1 DEF TokensTyped, L!AuthStates
<1>8. CASE L!AuthServe
  BY <1>8 DEF L!AuthServe, TokensTyped, L!AuthStates, L!Tokens
<1>9. CASE L!AuthDone
  BY <1>9 DEF L!AuthDone, TokensTyped, L!AuthStates, L!Tokens
<1>10. CASE L!ConnectDone \/ L!ConnectLost
  <2>1. UNCHANGED <<issued, aged, token, authAttempt>>
    BY <1>10 DEF L!ConnectDone, L!ConnectLost
  <2>2. auth' \in {auth, "sent", "none"}
    BY <1>10 DEF L!ConnectDone, L!ConnectLost
  <2>3. QED BY <1>a, <1>b, <2>1, <2>2
<1>11. CASE L!ConnectFails
  <2>1. UNCHANGED <<issued, aged, token, authAttempt>>
    BY <1>11 DEF L!ConnectFails
  <2>2. auth' \in {auth, "none"} \/ (auth' = "sleep" /\ authAttempt # MaxAttempts)
    BY <1>11 DEF L!ConnectFails
  <2>3. CASE auth' \in {auth, "none"}  BY <1>a, <1>b, <2>1, <2>3
  <2>4. CASE auth' = "sleep" /\ authAttempt # MaxAttempts
    <3>1. authAttempt' < MaxAttempts  BY <2>1, <2>4 DEF TokensTyped, L!Limits
    <3>2. QED BY <2>1, <2>4, <3>1 DEF TokensTyped, L!AuthStates
  <2>5. QED BY <2>2, <2>3, <2>4
<1>12. CASE L!Restart
  <2>1. /\ UNCHANGED <<aged, auth, authAttempt>>
        /\ token' = L!Spoiled(token) /\ issued' = L!Spoiled(issued)
    BY <1>12 DEF L!Restart
  <2>2. /\ L!Spoiled(token) \in L!Tokens /\ L!Spoiled(issued) \in L!Tokens
        /\ issued # "none" => L!Spoiled(issued) # "none"
    BY DEF L!Spoiled, L!Tokens, TokensTyped
  <2>3. QED BY <2>1, <2>2 DEF TokensTyped
<1>13. CASE L!Age
  BY <1>13 DEF L!Age, TokensTyped
<1>14. CASE L!ConnectionDies \/ L!Close \/ L!CloseDrains \/ UNCHANGED L!vars
  BY <1>a, <1>14 DEF L!ConnectionDies, L!Close, L!CloseDrains, L!vars
<1>15. ASSUME NEW m \in wire, L!Serve(m) PROVE TokensTyped'
  BY <1>a, <1>15 DEF L!Serve
<1>16. QED BY <1>1, <1>2, <1>3, <1>4, <1>5, <1>6, <1>7, <1>8, <1>9, <1>10, <1>11, <1>12, <1>13,
              <1>14, <1>15
       DEF L!Next, L!CallStep, L!AuthStep, L!ConnectionStep

\* The connection, and close().
LEMMA ConnStep == ConnTyped /\ [L!Next]_(L!vars) => ConnTyped'
<1> SUFFICES ASSUME ConnTyped, [L!Next]_(L!vars) PROVE ConnTyped'  OBVIOUS
<1> USE DEF L!callVars, L!tokenVars, L!authVars, L!connVars, L!closeVars, L!envVars
<1>a. ASSUME UNCHANGED <<nc, connecting, closed, closing>> PROVE ConnTyped'
  BY <1>a DEF ConnTyped
<1>b. ASSUME UNCHANGED <<nc, closed, closing>>, connecting' \in BOOLEAN PROVE ConnTyped'
  BY <1>b DEF ConnTyped
<1>c. ASSUME UNCHANGED <<closed, closing>>, nc' \in {nc, "null", "open", "dead"},
             connecting' \in {connecting, FALSE}
      PROVE  ConnTyped'
  BY <1>c DEF ConnTyped
<1>1. ASSUME NEW c \in Calls, L!AttemptCached(c) PROVE ConnTyped'
  <2>1. UNCHANGED <<nc, closed, closing>>  BY <1>1 DEF L!AttemptCached
  <2>2. connecting' = connecting \/ connecting' \in BOOLEAN
    BY <1>1 DEF L!AttemptCached, L!Joined
  <2>3. QED BY <1>a, <1>b, <2>1, <2>2
<1>2. ASSUME NEW c \in Calls, L!Timeout(c) PROVE ConnTyped'
  BY <1>c, <1>2 DEF L!Timeout, L!DropDead
<1>3. ASSUME NEW c \in Calls, L!Request(c) \/ L!AttemptAuth(c) \/ L!Wake(c) \/ L!ReplyOk(c)
                              \/ L!ReplyExpired(c) \/ L!ReplyBusy(c) \/ L!ReplyDenied(c)
      PROVE  ConnTyped'
  BY <1>a, <1>3
  DEF L!Request, L!AttemptAuth, L!Wake, L!ReplyOk, L!ReplyExpired, L!ReplyBusy, L!ReplyDenied,
                    L!Answered
<1>4. CASE L!AuthAttempt
  BY <1>b, <1>4 DEF L!AuthAttempt, L!Joined
<1>5. CASE L!AuthDone
  <2>1. UNCHANGED <<nc, closed, closing>>  BY <1>5 DEF L!AuthDone
  <2>2. connecting' \in BOOLEAN  BY <1>5 DEF L!AuthDone
  <2>3. QED BY <1>b, <2>1, <2>2
<1>6. CASE L!AuthTimeout
  BY <1>c, <1>6 DEF L!AuthTimeout, L!DropDead
<1>7. CASE L!AuthClosed \/ L!AuthWake \/ L!AuthRefused \/ L!AuthServe
  BY <1>a, <1>7 DEF L!AuthClosed, L!AuthWake, L!AuthRefused, L!AuthServe
<1>8. CASE L!ConnectDone \/ L!ConnectLost \/ L!ConnectFails \/ L!ConnectionDies
  BY <1>c, <1>8 DEF L!ConnectDone, L!ConnectLost, L!ConnectFails, L!ConnectionDies, L!DropDead
<1>9. CASE L!Close \/ L!CloseDrains
  BY <1>9 DEF L!Close, L!CloseDrains, ConnTyped
<1>10. CASE L!Age \/ L!Restart \/ UNCHANGED L!vars
  BY <1>a, <1>10 DEF L!Age, L!Restart, L!vars
<1>11. ASSUME NEW m \in wire, L!Serve(m) PROVE ConnTyped'
  BY <1>a, <1>11 DEF L!Serve
<1>12. QED BY <1>1, <1>2, <1>3, <1>4, <1>5, <1>6, <1>7, <1>8, <1>9, <1>10, <1>11
       DEF L!Next, L!CallStep, L!AuthStep, L!ConnectionStep

\* The Runtime and its replies.
LEMMA RuntimeStep ==
    ASSUME L!Limits, RuntimeTyped, WireTyped, [L!Next]_(L!vars)
    PROVE  RuntimeTyped'
<1> USE DEF L!callVars, L!tokenVars, L!authVars, L!connVars, L!closeVars, L!envVars
<1>f. L!Fault => troubles' \in 0 .. 2  BY DEF L!Fault, RuntimeTyped
<1>a. ASSUME UNCHANGED <<epoch, known, reply>>, troubles' \in 0 .. 2 PROVE RuntimeTyped'
  BY <1>a DEF RuntimeTyped
<1>r. ASSUME NEW c \in Calls, NEW n \in Replies, n.epoch <= epoch, epoch' = epoch,
             known' \in 0 .. epoch, reply' = [reply EXCEPT ![c] = n], troubles' \in 0 .. 2
      PROVE  RuntimeTyped'
  BY <1>r DEF RuntimeTyped
<1>n. L!NoReply \in Replies /\ L!NoReply.epoch <= epoch
  BY DEF Replies, L!NoReply, RuntimeTyped
<1>t. troubles \in 0 .. 2 /\ known \in 0 .. epoch /\ epoch \in Nat  BY DEF RuntimeTyped, L!Limits
<1>1. ASSUME NEW c \in Calls, L!Timeout(c) PROVE RuntimeTyped'
  <2>1. UNCHANGED <<epoch,
                    known>> /\ troubles' \in 0 .. 2 /\ reply' = [reply EXCEPT ![c] = L!NoReply]
    BY <1>1, <1>f DEF L!Timeout
  <2>2. QED BY <1>n, <1>r, <1>t, <2>1
<1>2. ASSUME NEW c \in Calls, L!ReplyOk(c) \/ L!ReplyExpired(c) \/ L!ReplyBusy(c)
           \/ L!ReplyDenied(c)
      PROVE  RuntimeTyped'
  <2>1. /\ UNCHANGED <<epoch, troubles>> /\ known' = reply[c].epoch
        /\ reply' = [reply EXCEPT ![c] = L!NoReply]
    BY <1>2 DEF L!ReplyOk, L!ReplyExpired, L!ReplyBusy, L!ReplyDenied, L!Answered
  <2>2. reply[c] \in Replies /\ reply[c].epoch <= epoch  BY DEF RuntimeTyped
  <2>3. reply[c].epoch \in 0 .. epoch  BY <1>t, <2>2 DEF Replies, L!NoReply
  <2>4. QED BY <1>n, <1>r, <1>t, <2>1, <2>3
<1>3. ASSUME NEW c \in Calls, L!Request(c) \/ L!AttemptCached(c) \/ L!AttemptAuth(c) \/ L!Wake(c)
      PROVE  RuntimeTyped'
  BY <1>a, <1>t, <1>3 DEF L!Request, L!AttemptCached, L!AttemptAuth, L!Wake
<1>4. CASE L!AuthAttempt \/ L!AuthClosed \/ L!AuthWake \/ L!AuthDone \/ L!AuthRefused
           \/ L!AuthServe
  BY <1>a, <1>t, <1>4
  DEF L!AuthAttempt, L!AuthClosed, L!AuthWake, L!AuthDone, L!AuthRefused, L!AuthServe
<1>5. CASE L!AuthTimeout \/ L!ConnectFails \/ L!ConnectionDies
  BY <1>a, <1>f, <1>5 DEF L!AuthTimeout, L!ConnectFails, L!ConnectionDies
<1>6. CASE L!ConnectDone \/ L!ConnectLost \/ L!Close \/ L!CloseDrains \/ L!Age \/ UNCHANGED L!vars
  BY <1>a, <1>t, <1>6 DEF L!ConnectDone, L!ConnectLost, L!Close, L!CloseDrains, L!Age, L!vars
<1>7. CASE L!Restart
  <2>1. /\ epoch <= MaxRestarts /\ epoch' = epoch + 1 /\ UNCHANGED <<known, reply>>
        /\ troubles' \in 0 .. 2
    BY <1>7, <1>f DEF L!Restart
  <2>2. epoch' \in 1 .. (MaxRestarts + 1) /\ known' \in 0 .. epoch'
    BY <1>t, <2>1 DEF L!Limits, RuntimeTyped
  <2>3. \A c \in Calls : reply'[c].epoch <= epoch'
    <3>1. ASSUME NEW c \in Calls PROVE reply[c].epoch <= epoch + 1
      <4>1. reply[c] \in Replies /\ reply[c].epoch <= epoch  BY DEF RuntimeTyped
      <4>2. reply[c].epoch \in Nat  BY <4>1 DEF Replies, L!NoReply
      <4>3. QED BY <1>t, <4>1, <4>2
    <3>2. QED BY <2>1, <3>1
  <2>4. QED BY <2>1, <2>2, <2>3 DEF RuntimeTyped
<1>8. ASSUME NEW m \in wire, L!Serve(m) PROVE RuntimeTyped'
  <2>1. PICK kind \in L!ReplyKinds :
           /\ UNCHANGED <<epoch, known>>
           /\ reply' = IF L!Awaited(m)
                       THEN [reply EXCEPT ![m.call] = [kind |-> kind, epoch |-> epoch]]
                       ELSE reply
           /\ IF kind = "busy" THEN L!Fault ELSE UNCHANGED troubles
    BY <1>8 DEF L!Serve, L!Verdicts, L!ReplyKinds
  <2>2. troubles' \in 0 .. 2  BY <1>f, <1>t, <2>1
  <2>3. m.call \in Calls  BY DEF WireTyped, Messages
  <2>4. PICK n \in Replies : n = [kind |-> kind, epoch |-> epoch]  BY <1>t DEF Replies
  <2>5. CASE L!Awaited(m)
    <3>1. n.epoch <= epoch  BY <1>t, <2>4
    <3>2. reply' = [reply EXCEPT ![m.call] = n]  BY <2>1, <2>4, <2>5
    <3>3. QED BY <1>r, <1>t, <2>1, <2>2, <2>3, <3>1, <3>2
  <2>6. CASE ~L!Awaited(m)  BY <1>a, <2>1, <2>2, <2>6
  <2>7. QED BY <2>5, <2>6
<1>9. QED BY <1>1, <1>2, <1>3, <1>4, <1>5, <1>6, <1>7, <1>8
       DEF L!Next, L!CallStep, L!AuthStep, L!ConnectionStep

\* What is published is a request that carries a token.
LEMMA WireStep ==
    ASSUME L!Limits, CallsTyped, CallsTyped', TokensTyped, WireTyped, [L!Next]_(L!vars)
    PROVE  WireTyped'
<1> USE DEF L!callVars, L!tokenVars, L!authVars, L!connVars, L!closeVars, L!envVars
<1>m. {L!RequestId(c) : c \in Calls}' = {L!RequestId(c) : c \in Calls} /\ Messages' = Messages
  BY DEF L!RequestId, Messages
<1>p. ASSUME NEW c \in Calls, held'[c] # "none" PROVE L!Published(c) \in Messages
  <2>1. held'[c] \in {"good", "bad"}  BY <1>p DEF CallsTyped, L!Tokens
  <2>2. attempt[c] \in 1 .. MaxAttempts  BY DEF CallsTyped
  <2>3. QED BY <2>1, <2>2 DEF L!Published, Messages
<1>a. ASSUME wire' \subseteq Messages PROVE WireTyped'
  BY <1>a, <1>m DEF WireTyped
<1>b. ASSUME wire' \subseteq wire PROVE WireTyped'
  BY <1>a, <1>b DEF WireTyped
<1>c. ASSUME NEW D \in SUBSET Calls, \A c \in D : held'[c] # "none",
             wire' \subseteq wire \union {L!Published(c) : c \in D}
      PROVE  WireTyped'
  <2>1. \A c \in D : L!Published(c) \in Messages  BY <1>c, <1>p
  <2>2. wire \subseteq Messages  BY DEF WireTyped
  <2>3. QED BY <1>a, <1>c, <2>1, <2>2
<1>1. ASSUME NEW c \in Calls, L!AttemptCached(c) PROVE WireTyped'
  <2>1. /\ wire' \subseteq wire \union {L!Published(d) : d \in {c}}
        /\ held' = [held EXCEPT ![c] = token] /\ token # "none"
    BY <1>1 DEF L!AttemptCached
  <2>2. held'[c] # "none"  BY <2>1 DEF CallsTyped
  <2>3. QED BY <1>c, <2>1, <2>2
<1>2. ASSUME NEW c \in Calls, L!Request(c) \/ L!AttemptAuth(c) \/ L!Wake(c) \/ L!Timeout(c)
                              \/ L!ReplyOk(c)
                              \/ L!ReplyExpired(c) \/ L!ReplyBusy(c) \/ L!ReplyDenied(c)
      PROVE  WireTyped'
  BY <1>b, <1>2
  DEF L!Request, L!AttemptAuth, L!Wake, L!Timeout, L!ReplyOk, L!ReplyExpired, L!ReplyBusy,
                    L!ReplyDenied, L!Answered
<1>3. CASE L!AuthDone
  <2>1. PICK D \in SUBSET {c \in Calls : call[c] = "auth"} :
           wire' \subseteq wire \union {L!Published(d) : d \in D}
    <3>1. {c \in Calls : call[c] = "auth"} \ L!TooLarge \in SUBSET {c \in Calls : call[c] = "auth"}
      OBVIOUS
    <3>2. QED BY <1>3, <3>1 DEF L!AuthDone
  <2>2. /\ held' = [c \in Calls |-> IF call[c] = "auth" THEN issued ELSE held[c]]
        /\ issued # "none"
    BY <1>3 DEF L!AuthDone, TokensTyped
  <2>3. \A c \in D : held'[c] # "none"  BY <2>1, <2>2
  <2>4. QED BY <1>c, <2>1, <2>3
<1>4. CASE L!ConnectDone
  <2>1. wire' \subseteq wire \union {L!Published(c) : c \in {d \in Calls : call[d] = "conn"}}
        /\ held' = held
    BY <1>4 DEF L!ConnectDone
  <2>2. \A c \in {d \in Calls : call[d] = "conn"} : held'[c] # "none"
    BY <2>1 DEF CallsTyped
  <2>3. QED BY <1>c, <2>1, <2>2
<1>5. CASE L!AuthAttempt \/ L!AuthClosed \/ L!AuthTimeout \/ L!AuthWake \/ L!AuthRefused
           \/ L!AuthServe
  BY <1>b, <1>5
  DEF L!AuthAttempt, L!AuthClosed, L!AuthTimeout, L!AuthWake, L!AuthRefused, L!AuthServe
<1>6. CASE L!ConnectLost \/ L!ConnectFails \/ L!ConnectionDies \/ L!Close \/ L!CloseDrains
           \/ L!Age
           \/ UNCHANGED L!vars
  BY <1>b, <1>6
  DEF L!ConnectLost, L!ConnectFails, L!ConnectionDies, L!Close, L!CloseDrains, L!Age, L!vars
<1>7. CASE L!Restart
  <2>1. wire' = {[m EXCEPT !.token = L!Spoiled(@)] : m \in wire}  BY <1>7 DEF L!Restart
  <2>2. ASSUME NEW m \in wire PROVE [m EXCEPT !.token = L!Spoiled(@)] \in Messages
    <3>1. m \in Messages  BY DEF WireTyped
    <3>2. L!Spoiled(m.token) \in {"good", "bad"}  BY <3>1 DEF Messages, L!Spoiled
    <3>3. QED BY <3>1, <3>2 DEF Messages
  <2>3. QED BY <1>a, <2>1, <2>2
<1>8. ASSUME NEW m \in wire, L!Serve(m) PROVE WireTyped'
  BY <1>b, <1>8 DEF L!Serve
<1>9. QED BY <1>1, <1>2, <1>3, <1>4, <1>5, <1>6, <1>7, <1>8
       DEF L!Next, L!CallStep, L!AuthStep, L!ConnectionStep

\* What every lemma about the faults needs of the types.
LEMMA Loose ==
    ASSUME L!Limits, ControlTyped
    PROVE  /\ call \in [Calls -> L!CallStates] /\ attempt \in [Calls -> 1 .. MaxAttempts]
           /\ held \in [Calls -> L!Tokens] /\ reply \in [Calls -> Replies]
           /\ \A c \in Calls : attempt[c] \in Nat /\ attempt[c] >= 1
           /\ token \in L!Tokens /\ issued \in L!Tokens /\ troubles \in 0 .. 2
           /\ \A m \in wire : m.call \in Calls /\ m.token \in {"good", "bad"}
BY DEF ControlTyped, CallsTyped, TokensTyped, RuntimeTyped, WireTyped, Messages, L!Limits

\* A fault is the first one or more than that.
LEMMA FaultCounts ==
    troubles \in 0 .. 2 /\ L!Fault => troubles' \in {1, 2} /\ (troubles # 0 => troubles' = 2)
BY DEF L!Fault

\* A step that is no fault and that a restart alone can lead to, keeps tokens unspoiled.
LEMMA UnspoiledStep ==
    ASSUME L!Limits, ControlTyped, Unspoiled, L!Next, ~L!Restart
    PROVE  Unspoiled'
<1> USE DEF L!callVars, L!tokenVars, L!authVars, L!connVars, L!closeVars, L!envVars
<1>t. /\ held \in [Calls -> L!Tokens] /\ reply \in [Calls -> Replies]
      /\ \A m \in wire : m.call \in Calls /\ m.token \in {"good", "bad"}
  BY Loose
<1>n. L!NoReply.kind = "none"  BY DEF L!NoReply
<1>a. ASSUME UNCHANGED <<held, wire, issued>>, token' \in {"none", token},
             \A c \in Calls : reply'[c] = reply[c] \/ reply'[c] = L!NoReply
      PROVE  Unspoiled'
  BY <1>a, <1>n DEF Unspoiled
<1>p. ASSUME NEW c \in Calls PROVE L!Published(c).token = held'[c]
  BY DEF L!Published
<1>b. ASSUME NEW D \in SUBSET Calls, wire' \subseteq wire \union {L!Published(c) : c \in D},
             UNCHANGED reply, token' # "bad", issued' # "bad",
             \A c \in Calls : held'[c] # "bad"
      PROVE  Unspoiled'
  BY <1>b, <1>p DEF Unspoiled
<1>1. ASSUME NEW c \in Calls, L!AttemptCached(c) PROVE Unspoiled'
  <2>1. /\ wire' \subseteq wire \union {L!Published(d) : d \in {c}}
        /\ held' = [held EXCEPT ![c] = token] /\ UNCHANGED <<reply, token, issued>>
    BY <1>1 DEF L!AttemptCached
  <2>2. \A d \in Calls : held'[d] # "bad"  BY <1>t, <2>1 DEF Unspoiled
  <2>3. QED BY <1>b, <2>1, <2>2 DEF Unspoiled
<1>2. ASSUME NEW c \in Calls, L!Request(c) \/ L!AttemptAuth(c) \/ L!Wake(c) PROVE Unspoiled'
  BY <1>a, <1>2 DEF L!Request, L!AttemptAuth, L!Wake
<1>3. ASSUME NEW c \in Calls, L!Timeout(c) \/ L!ReplyOk(c) \/ L!ReplyExpired(c) \/ L!ReplyBusy(c)
                              \/ L!ReplyDenied(c)
      PROVE  Unspoiled'
  <2>1. reply' = [reply EXCEPT ![c] = L!NoReply] /\ UNCHANGED <<held, wire, issued>>
    BY <1>3 DEF L!Timeout, L!ReplyOk, L!ReplyExpired, L!ReplyBusy, L!ReplyDenied, L!Answered
  <2>2. token' \in {"none", token}
    BY <1>3
    DEF L!Timeout, L!ReplyOk, L!ReplyExpired, L!ReplyBusy, L!ReplyDenied, L!TokenKept,
        L!ClearExpired
  <2>3. \A d \in Calls : reply'[d] = reply[d] \/ reply'[d] = L!NoReply  BY <1>t, <2>1
  <2>4. QED BY <1>a, <2>1, <2>2, <2>3
<1>4. CASE L!AuthAttempt \/ L!AuthClosed \/ L!AuthWake \/ L!AuthRefused
  BY <1>a, <1>4 DEF L!AuthAttempt, L!AuthClosed, L!AuthWake, L!AuthRefused
<1>5. CASE L!AuthTimeout
  BY <1>5 DEF L!AuthTimeout, Unspoiled
<1>6. CASE L!AuthServe
  BY <1>6 DEF L!AuthServe, Unspoiled
<1>7. CASE L!AuthDone
  <2>1. PICK D \in SUBSET Calls : wire' \subseteq wire \union {L!Published(d) : d \in D}
    <3>1. {c \in Calls : call[c] = "auth"} \ L!TooLarge \in SUBSET Calls  OBVIOUS
    <3>2. QED BY <1>7, <3>1 DEF L!AuthDone
  <2>2. /\ held' = [c \in Calls |-> IF call[c] = "auth" THEN issued ELSE held[c]]
        /\ token' = issued /\ issued' = "none" /\ UNCHANGED reply
    BY <1>7 DEF L!AuthDone
  <2>3. \A c \in Calls : held'[c] # "bad"  BY <2>2 DEF Unspoiled
  <2>4. token' # "bad" /\ issued' # "bad"  BY <2>2 DEF Unspoiled
  <2>5. QED BY <1>b, <2>1, <2>2, <2>3, <2>4
<1>8. CASE L!ConnectDone
  <2>1. /\ wire' \subseteq wire \union {L!Published(c) : c \in {d \in Calls : call[d] = "conn"}}
        /\ UNCHANGED <<held, reply, token, issued>>
    BY <1>8 DEF L!ConnectDone
  <2>2. \A c \in Calls : held'[c] # "bad"  BY <2>1 DEF Unspoiled
  <2>3. QED BY <1>b, <2>1, <2>2 DEF Unspoiled
<1>9. CASE L!ConnectLost \/ L!ConnectFails \/ L!ConnectionDies \/ L!Close \/ L!CloseDrains
           \/ L!Age
  BY <1>a, <1>9 DEF L!ConnectLost, L!ConnectFails, L!ConnectionDies, L!Close, L!CloseDrains, L!Age
<1>10. ASSUME NEW m \in wire, L!Serve(m) PROVE Unspoiled'
  <2>1. m.token = "good" /\ m.call \in Calls  BY <1>t DEF Unspoiled
  <2>2. PICK kind \in {"ok", "busy", "denied"} :
           /\ UNCHANGED <<held, token, issued>> /\ wire' \subseteq wire
           /\ reply' = IF L!Awaited(m)
                       THEN [reply EXCEPT ![m.call] = [kind |-> kind, epoch |-> epoch]]
                       ELSE reply
    BY <1>10, <2>1 DEF L!Serve, L!Verdicts
  <2>3. \A c \in Calls : reply'[c] = reply[c] \/ reply'[c] = [kind |-> kind, epoch |-> epoch]
    BY <1>t, <2>1, <2>2
  <2>4. [kind |-> kind, epoch |-> epoch].kind # "expired"  OBVIOUS
  <2>5. \A c \in Calls : reply'[c].kind # "expired"  BY <2>3, <2>4 DEF Unspoiled
  <2>6. QED BY <2>2, <2>5 DEF Unspoiled
<1>11. QED BY <1>1, <1>2, <1>3, <1>4, <1>5, <1>6, <1>7, <1>8, <1>9, <1>10
       DEF L!Next, L!CallStep, L!AuthStep, L!ConnectionStep

\* The steps that may be no fault.
Quiet ==
    \/ \E c \in Calls : \/ L!Request(c) \/ L!AttemptCached(c) \/ L!AttemptAuth(c) \/ L!Wake(c)
                        \/ L!ReplyOk(c) \/ L!ReplyExpired(c) \/ L!ReplyBusy(c) \/ L!ReplyDenied(c)
    \/ L!AuthAttempt \/ L!AuthClosed \/ L!AuthWake \/ L!AuthDone \/ L!AuthRefused \/ L!AuthServe
    \/ L!ConnectDone \/ L!ConnectLost \/ L!Close \/ L!CloseDrains \/ L!Age
    \/ \E m \in wire : L!Serve(m)

\* A step that is none of these is counted as a fault; a restart is one too.
LEMMA QuietOrFault ==
    ASSUME troubles \in 0 .. 2, L!Next
    PROVE  /\ (Quiet /\ troubles' = troubles /\ ~L!Restart) \/ L!Fault
           /\ L!Restart => L!Fault
           /\ troubles' = troubles /\ troubles # 2 => Quiet /\ ~L!Restart
<1> USE DEF L!callVars, L!tokenVars, L!authVars, L!connVars, L!closeVars, L!envVars
<1>1. L!Restart => L!Fault  BY DEF L!Restart
<1>2. L!Fault /\ troubles # 2 => troubles' # troubles  BY DEF L!Fault
<1>3. ASSUME ~L!Fault PROVE Quiet /\ troubles' = troubles
  <2>1. ASSUME NEW c \in Calls, L!Request(c) \/ L!CallStep(c) PROVE Quiet /\ troubles' = troubles
    <3>1. ~L!Timeout(c)  BY <1>3 DEF L!Timeout
    <3>2. Quiet  BY <2>1, <3>1 DEF Quiet, L!CallStep
    <3>3. troubles' = troubles
      BY <2>1, <3>1
      DEF L!CallStep, L!Request, L!AttemptCached, L!AttemptAuth, L!Wake, L!ReplyOk,
          L!ReplyExpired,
                        L!ReplyBusy, L!ReplyDenied, L!Answered
    <3>4. QED BY <3>2, <3>3
  <2>2. CASE L!AuthStep \/ L!AuthServe
    <3>1. ~L!AuthTimeout  BY <1>3 DEF L!AuthTimeout
    <3>2. Quiet  BY <2>2, <3>1 DEF Quiet, L!AuthStep
    <3>3. troubles' = troubles
      BY <2>2, <3>1
      DEF L!AuthStep, L!AuthAttempt, L!AuthClosed, L!AuthWake, L!AuthDone, L!AuthRefused,
          L!AuthServe
    <3>4. QED BY <3>2, <3>3
  <2>3. CASE L!ConnectionStep \/ L!ConnectionDies \/ L!Close \/ L!CloseDrains \/ L!Age
             \/ L!Restart
    <3>1. ~L!ConnectFails /\ ~L!ConnectionDies /\ ~L!Restart
      BY <1>3 DEF L!ConnectFails, L!ConnectionDies, L!Restart
    <3>2. Quiet  BY <2>3, <3>1 DEF Quiet, L!ConnectionStep
    <3>3. troubles' = troubles
      BY <2>3, <3>1
      DEF L!ConnectionStep, L!ConnectDone, L!ConnectLost, L!Close, L!CloseDrains, L!Age
    <3>4. QED BY <3>2, <3>3
  <2>4. ASSUME NEW m \in wire, L!Serve(m) PROVE Quiet /\ troubles' = troubles
    <3>1. Quiet  BY <2>4 DEF Quiet
    <3>2. troubles' = troubles  BY <1>3, <2>4 DEF L!Serve
    <3>3. QED BY <3>1, <3>2
  <2>5. QED BY <2>1, <2>2, <2>3, <2>4 DEF L!Next
<1>4. QED BY <1>1, <1>2, <1>3

\* Where a call is after a step that is no fault: it sleeps only after an answer, and is
\* refused only by the answer to its last attempt.
LEMMA QuietCalls ==
    ASSUME L!Limits, ControlTyped, Quiet, NEW d \in Calls
    PROVE  /\ \/ attempt'[d] = attempt[d]
              \/ call[d] = "sleep" /\ call'[d] = "start" /\ attempt'[d] = attempt[d] + 1
           /\ call'[d] = "sleep" => \/ call[d] = "sleep"
                                    \/ L!ReplyExpired(d) /\ attempt[d] < MaxAttempts
                                    \/ L!ReplyBusy(d)
           /\ call'[d] = "refused" => \/ call[d] = "refused"
                                      \/ L!ReplyExpired(d) /\ attempt[d] >= MaxAttempts
           /\ call'[d] \in {"conn", "sent"} =>
                   \/ call[d] \in {"conn", "sent"} /\ (call'[d] = "conn" => call[d] = "conn")
                   \/ L!AttemptCached(d)
                   \/ L!AuthDone /\ call[d] = "auth"
<1> USE DEF L!callVars, L!tokenVars, L!authVars, L!connVars, L!closeVars, L!envVars
<1>t. /\ call \in [Calls -> L!CallStates] /\ attempt \in [Calls -> 1 .. MaxAttempts]
      /\ attempt[d] \in Nat /\ MaxAttempts \in Nat
      /\ L!Connected \in {"closed", "sent", "conn"}
  BY Loose, Onwards DEF ControlTyped, L!Limits
<1>a. ASSUME call'[d] = call[d] \/ call'[d] \notin {"sleep", "refused", "conn", "sent"},
             attempt'[d] = attempt[d]
      PROVE  /\ \/ attempt'[d] = attempt[d]
                \/ call[d] = "sleep" /\ call'[d] = "start" /\ attempt'[d] = attempt[d] + 1
             /\ call'[d] = "sleep" => call[d] = "sleep"
             /\ call'[d] = "refused" => call[d] = "refused"
             /\ call'[d] \in {"conn", "sent"} => call[d] \in {"conn", "sent"} /\ call'[d] = call[d]
  BY <1>a
<1>1. ASSUME NEW c \in Calls, L!AttemptCached(c)
      PROVE  /\ attempt'[d] = attempt[d]
             /\ c = d \/ call'[d] = call[d]
             /\ call'[c] \notin {"sleep", "refused"}
  BY <1>t, <1>1 DEF L!AttemptCached
<1>2. ASSUME NEW c \in Calls, L!Request(c) \/ L!AttemptAuth(c)
      PROVE  attempt'[d] = attempt[d] /\ call'[d] \in {call[d], "start", "auth"}
  BY <1>t, <1>2 DEF L!Request, L!AttemptAuth
<1>3. ASSUME NEW c \in Calls, L!Wake(c)
      PROVE  /\ c = d => call[d] = "sleep" /\ call'[d] = "start" /\ attempt'[d] = attempt[d] + 1
             /\ c # d => call'[d] = call[d] /\ attempt'[d] = attempt[d]
  BY <1>t, <1>3 DEF L!Wake
<1>4. ASSUME NEW c \in Calls, L!ReplyOk(c) \/ L!ReplyDenied(c)
      PROVE  attempt'[d] = attempt[d] /\ call'[d] \in {call[d], "ok", "failed"}
  BY <1>t, <1>4 DEF L!ReplyOk, L!ReplyDenied, L!Answered
<1>5. ASSUME NEW c \in Calls, L!ReplyExpired(c)
      PROVE  /\ attempt'[d] = attempt[d]
             /\ c = d \/ call'[d] = call[d]
             /\ c = d => call'[d] = IF attempt[d] < MaxAttempts THEN "sleep" ELSE "refused"
  BY <1>t, <1>5 DEF L!ReplyExpired, L!Answered, L!AfterError
<1>6. ASSUME NEW c \in Calls, L!ReplyBusy(c)
      PROVE  /\ attempt'[d] = attempt[d]
             /\ c = d \/ call'[d] = call[d]
             /\ call'[d] \in {call[d], "sleep", "failed"}
  BY <1>t, <1>6 DEF L!ReplyBusy, L!Answered, L!AfterError
<1>7. CASE L!AuthClosed \/ L!AuthRefused
  <2>1. PICK s \in {"closed", "failed"} :
           call' = [c \in Calls |-> IF call[c] = "auth" THEN [e \in Calls |-> s][c] ELSE call[c]]
    BY <1>7 DEF L!AuthClosed, L!AuthRefused, L!AuthEnds
  <2>2. attempt' = attempt  BY <1>7 DEF L!AuthClosed, L!AuthRefused
  <2>3. call'[d] \in {call[d], "closed", "failed"}  BY <2>1
  <2>4. QED BY <1>a, <2>2, <2>3
<1>8. CASE L!AuthDone
  <2>1. PICK G \in SUBSET {c \in Calls : call[c] = "auth"} :
           call' = [c \in Calls |-> IF c \in G THEN L!Connected
                                    ELSE IF call[c] = "auth" THEN "tooLarge" ELSE call[c]]
    <3>1. {c \in Calls : call[c] = "auth"} \ L!TooLarge \in SUBSET {c \in Calls : call[c] = "auth"}
      OBVIOUS
    <3>2. QED BY <1>8, <3>1 DEF L!AuthDone
  <2>2. attempt' = attempt  BY <1>8 DEF L!AuthDone
  <2>3. IF call[d] = "auth" THEN call'[d] \in {"closed", "sent", "conn", "tooLarge"}
                            ELSE call'[d] = call[d]
    BY <1>t, <2>1
  <2>4. QED BY <1>8, <2>2, <2>3
<1>9. CASE L!ConnectDone
  BY <1>9 DEF L!ConnectDone
<1>10. CASE L!ConnectLost
  <2>1. attempt' = attempt /\ call'[d] \in {call[d], "closed"}  BY <1>10 DEF L!ConnectLost
  <2>2. QED BY <1>a, <2>1
<1>11. CASE L!AuthAttempt \/ L!AuthWake \/ L!AuthServe \/ L!Close \/ L!CloseDrains \/ L!Age
  BY <1>11 DEF L!AuthAttempt, L!AuthWake, L!AuthServe, L!Close, L!CloseDrains, L!Age
<1>12. ASSUME NEW m \in wire, L!Serve(m) PROVE UNCHANGED <<call, attempt>>
  BY <1>12 DEF L!Serve
<1>13. CASE \E c \in Calls : L!Request(c) \/ L!AttemptAuth(c) \/ L!ReplyOk(c) \/ L!ReplyDenied(c)
  <2>1. attempt'[d] = attempt[d] /\ call'[d] \in {call[d], "start", "auth", "ok", "failed"}
    BY <1>2, <1>4, <1>13
  <2>2. QED BY <1>a, <2>1
<1>14. CASE \E c \in Calls : L!AttemptCached(c)  BY <1>1, <1>14
<1>15. CASE \E c \in Calls : L!Wake(c)  BY <1>3, <1>15
<1>16. CASE \E c \in Calls : L!ReplyExpired(c)
  <2>1. PICK c \in Calls : L!ReplyExpired(c)  BY <1>16
  <2>2. CASE c = d
    <3>1. L!ReplyExpired(d)  BY <2>1, <2>2
    <3>2. attempt[d] < MaxAttempts \/ attempt[d] >= MaxAttempts  BY <1>t
    <3>3. QED BY <1>5, <3>1, <3>2
  <2>3. CASE c # d  BY <1>5, <2>1, <2>3
  <2>4. QED BY <2>2, <2>3
<1>17. CASE \E c \in Calls : L!ReplyBusy(c)
  <2>1. PICK c \in Calls : L!ReplyBusy(c)  BY <1>17
  <2>2. CASE c = d
    <3>1. L!ReplyBusy(d)  BY <2>1, <2>2
    <3>2. QED BY <1>6, <3>1
  <2>3. CASE c # d  BY <1>6, <2>1, <2>3
  <2>4. QED BY <2>2, <2>3
<1>18. CASE \E m \in wire : L!Serve(m)  BY <1>12, <1>18
<1>19. QED BY <1>7, <1>8, <1>9, <1>10, <1>11, <1>13, <1>14, <1>15, <1>16, <1>17, <1>18 DEF Quiet

\* What a step that is no fault does to the tokens.
LEMMA QuietTokens ==
    ASSUME L!Limits, ControlTyped, Quiet
    PROVE  /\ \/ issued' \in {issued, "good"} /\ token' \in {"none", token}
              \/ L!AuthDone /\ token' = issued /\ issued' = "none"
           /\ \A d \in Calls : L!ReplyExpired(d) /\ attempt[d] < MaxAttempts => token' = "none"
           /\ \A d \in Calls : L!AttemptCached(d) => held'[d] = token
           /\ \A d \in Calls : L!AuthDone /\ call[d] = "auth" => held'[d] = issued
           /\ \A d \in Calls : call[d] = "conn" /\ call'[d] = "conn" => held'[d] = held[d]
<1> USE DEF L!callVars, L!tokenVars, L!authVars, L!connVars, L!closeVars, L!envVars
<1>h. held \in [Calls -> L!Tokens] /\ call \in [Calls -> L!CallStates]  BY Loose
<1>1. ASSUME NEW c \in Calls, L!Request(c) \/ L!AttemptCached(c) \/ L!AttemptAuth(c) \/ L!Wake(c)
      PROVE  UNCHANGED <<issued, token>>
  BY <1>1 DEF L!Request, L!AttemptCached, L!AttemptAuth, L!Wake
<1>2. ASSUME NEW c \in Calls, L!ReplyOk(c) \/ L!ReplyExpired(c) \/ L!ReplyBusy(c)
           \/ L!ReplyDenied(c)
      PROVE  UNCHANGED <<issued, held>> /\ token' \in {"none", token}
  BY <1>2
  DEF L!ReplyOk, L!ReplyExpired, L!ReplyBusy, L!ReplyDenied, L!Answered, L!TokenKept,
      L!ClearExpired
<1>3. ASSUME L!AuthAttempt \/ L!AuthClosed \/ L!AuthWake \/ L!AuthRefused \/ L!ConnectDone
             \/ L!ConnectLost
             \/ L!Close \/ L!CloseDrains \/ L!Age
      PROVE  UNCHANGED <<issued, token, held>>
  BY <1>3
  DEF L!AuthAttempt, L!AuthClosed, L!AuthWake, L!AuthRefused, L!ConnectDone, L!ConnectLost,
      L!Close,
              L!CloseDrains, L!Age
<1>4. ASSUME L!AuthServe PROVE issued' = "good" /\ UNCHANGED <<token, held>>
  BY <1>4 DEF L!AuthServe
<1>5. ASSUME L!AuthDone
      PROVE  /\ token' = issued /\ issued' = "none"
             /\ held' = [c \in Calls |-> IF call[c] = "auth" THEN issued ELSE held[c]]
  BY <1>5 DEF L!AuthDone
<1>6. ASSUME NEW m \in wire, L!Serve(m) PROVE UNCHANGED <<issued, token, held>>
  BY <1>6 DEF L!Serve
<1>7. \/ issued' \in {issued, "good"} /\ token' \in {"none", token}
      \/ L!AuthDone /\ token' = issued /\ issued' = "none"
  BY <1>1, <1>2, <1>3, <1>4, <1>5, <1>6 DEF Quiet
<1>8. ASSUME NEW d \in Calls, L!ReplyExpired(d), attempt[d] < MaxAttempts PROVE token' = "none"
  BY <1>8 DEF L!ReplyExpired, L!ClearExpired
<1>9. ASSUME NEW d \in Calls, L!AttemptCached(d) PROVE held'[d] = token
  BY <1>h, <1>9 DEF L!AttemptCached
<1>10. ASSUME NEW d \in Calls, L!AuthDone, call[d] = "auth" PROVE held'[d] = issued
  BY <1>5, <1>10
<1>11. ASSUME NEW d \in Calls, call[d] = "conn", call'[d] = "conn" PROVE held'[d] = held[d]
  <2>1. ASSUME NEW c \in Calls, L!AttemptCached(c) PROVE held'[d] = held[d]
    BY <1>h, <1>11, <2>1 DEF L!AttemptCached
  <2>2. ASSUME NEW c \in Calls, L!Request(c) \/ L!AttemptAuth(c)
             \/ L!Wake(c)
         PROVE held'[d] = held[d]
    BY <2>2 DEF L!Request, L!AttemptAuth, L!Wake
  <2>3. ASSUME L!AuthDone PROVE held'[d] = held[d]  BY <1>5, <1>11, <2>3
  <2>4. QED BY <1>2, <1>3, <1>4, <1>6, <2>1, <2>2, <2>3 DEF Quiet
<1>12. QED BY <1>7, <1>8, <1>9, <1>10, <1>11

\* What a step that is no fault publishes.
LEMMA QuietWire ==
    ASSUME L!Limits, ControlTyped, Quiet, NEW m \in wire'
    PROVE  \/ m \in wire
           \/ \E c \in Calls :
                 /\ m.attempt = attempt[c] /\ m.token = held'[c]
                 /\ \/ L!AttemptCached(c)
                    \/ L!AuthDone /\ call[c] = "auth"
                    \/ call[c] = "conn" /\ held' = held
<1> USE DEF L!callVars, L!tokenVars, L!authVars, L!connVars, L!closeVars, L!envVars
<1>p. ASSUME NEW c \in Calls
      PROVE  L!Published(c).attempt = attempt[c] /\ L!Published(c).token = held'[c]
  BY DEF L!Published
<1>1. ASSUME NEW c \in Calls, L!AttemptCached(c) PROVE m \in wire \/ m = L!Published(c)
  BY <1>1 DEF L!AttemptCached
<1>2. ASSUME L!AuthDone
      PROVE  m \in wire \/ \E c \in Calls : call[c] = "auth" /\ m = L!Published(c)
  BY <1>2 DEF L!AuthDone
<1>3. ASSUME L!ConnectDone
      PROVE  held' = held /\ (m \in wire \/ \E c \in Calls : call[c] = "conn" /\ m = L!Published(c))
  BY <1>3 DEF L!ConnectDone
<1>4. ASSUME NEW c \in Calls, L!Request(c) \/ L!AttemptAuth(c) \/ L!Wake(c) \/ L!ReplyOk(c)
                              \/ L!ReplyExpired(c) \/ L!ReplyBusy(c) \/ L!ReplyDenied(c)
      PROVE  m \in wire
  BY <1>4
  DEF L!Request, L!AttemptAuth, L!Wake, L!ReplyOk, L!ReplyExpired, L!ReplyBusy, L!ReplyDenied,
      L!Answered
<1>5. ASSUME L!AuthAttempt \/ L!AuthClosed \/ L!AuthWake \/ L!AuthRefused \/ L!AuthServe
             \/ L!ConnectLost
             \/ L!Close \/ L!CloseDrains \/ L!Age
      PROVE  m \in wire
  BY <1>5
  DEF L!AuthAttempt, L!AuthClosed, L!AuthWake, L!AuthRefused, L!AuthServe, L!ConnectLost, L!Close,
              L!CloseDrains, L!Age
<1>6. ASSUME NEW n \in wire, L!Serve(n) PROVE m \in wire  BY <1>6 DEF L!Serve
<1>7. CASE \E c \in Calls : L!AttemptCached(c)
  <2>1. PICK c \in Calls : L!AttemptCached(c)  BY <1>7
  <2>2. QED BY <1>1, <1>p, <2>1
<1>8. CASE L!AuthDone  BY <1>2, <1>p, <1>8
<1>9. CASE L!ConnectDone  BY <1>3, <1>p, <1>9
<1>10. QED BY <1>4, <1>5, <1>6, <1>7, <1>8, <1>9 DEF Quiet

\* The replies after a step that is no fault.
LEMMA QuietReplies ==
    ASSUME L!Limits, ControlTyped, Quiet, troubles' = troubles, troubles # 2, NEW d \in Calls
    PROVE  /\ \/ reply'[d] \in {reply[d], L!NoReply}
              \/ /\ reply'[d].kind \in {"ok", "denied", "expired"} /\ UNCHANGED <<call, attempt>>
                 /\ call[d] = "sent"
                 /\ reply'[d].kind = "expired" =>
                       \E m \in wire : m.token = "bad" /\ m.attempt = attempt[d]
           /\ L!ReplyExpired(d) \/ L!ReplyBusy(d) => reply'[d] = L!NoReply
<1> USE DEF L!callVars, L!tokenVars, L!authVars, L!connVars, L!closeVars, L!envVars
<1>t. /\ reply \in [Calls -> Replies] /\ troubles \in 0 .. 2
      /\ \A m \in wire : m.call \in Calls /\ m.token \in {"good", "bad"}
  BY Loose
<1>1. ASSUME NEW c \in Calls, L!ReplyOk(c) \/ L!ReplyExpired(c) \/ L!ReplyBusy(c)
           \/ L!ReplyDenied(c)
      PROVE  reply' = [reply EXCEPT ![c] = L!NoReply]
  BY <1>1 DEF L!ReplyOk, L!ReplyExpired, L!ReplyBusy, L!ReplyDenied, L!Answered
<1>2. ASSUME NEW c \in Calls, L!Request(c) \/ L!AttemptCached(c) \/ L!AttemptAuth(c) \/ L!Wake(c)
      PROVE  reply' = reply
  BY <1>2 DEF L!Request, L!AttemptCached, L!AttemptAuth, L!Wake
<1>3. ASSUME L!AuthAttempt \/ L!AuthClosed \/ L!AuthWake \/ L!AuthDone \/ L!AuthRefused
             \/ L!AuthServe
             \/ L!ConnectDone \/ L!ConnectLost \/ L!Close \/ L!CloseDrains \/ L!Age
      PROVE  reply' = reply
  BY <1>3
  DEF L!AuthAttempt, L!AuthClosed, L!AuthWake, L!AuthDone, L!AuthRefused, L!AuthServe,
      L!ConnectDone,
              L!ConnectLost, L!Close, L!CloseDrains, L!Age
<1>4. ASSUME NEW m \in wire, L!Serve(m)
      PROVE  \/ reply'[d] = reply[d]
             \/ /\ reply'[d].kind \in {"ok", "denied", "expired"} /\ UNCHANGED <<call, attempt>>
                /\ call[d] = "sent"
                /\ reply'[d].kind = "expired" => m.token = "bad" /\ m.attempt = attempt[d]
  <2>1. PICK kind \in L!ReplyKinds :
           /\ kind \in IF m.token = "good" THEN {"ok", "busy", "denied"} ELSE {"expired"}
           /\ reply' = IF L!Awaited(m)
                       THEN [reply EXCEPT ![m.call] = [kind |-> kind, epoch |-> epoch]]
                       ELSE reply
           /\ IF kind = "busy" THEN L!Fault ELSE UNCHANGED troubles
    BY <1>4 DEF L!Serve, L!Verdicts, L!ReplyKinds
  <2>2. kind # "busy"  BY <1>t, <2>1 DEF L!Fault
  <2>3. m.call \in Calls /\ m.token \in {"good", "bad"}  BY <1>t
  <2>4. UNCHANGED <<call, attempt>>  BY <1>4 DEF L!Serve
  <2>5. CASE L!Awaited(m) /\ m.call = d
    <3>1. reply'[d] = [kind |-> kind, epoch |-> epoch]  BY <1>t, <2>1, <2>3, <2>5
    <3>2. reply'[d].kind = kind  BY <3>1
    <3>3. call[d] = "sent" /\ attempt[d] = m.attempt  BY <2>5 DEF L!Awaited
    <3>4. kind = "expired" => m.token = "bad"  BY <2>1, <2>3
    <3>5. kind \in {"ok", "denied", "expired"}  BY <2>2 DEF L!ReplyKinds
    <3>6. QED BY <2>4, <3>2, <3>3, <3>4, <3>5
  <2>6. CASE ~L!Awaited(m) \/ m.call # d  BY <1>t, <2>1, <2>3, <2>6
  <2>7. QED BY <2>5, <2>6
<1>5. L!ReplyExpired(d) \/ L!ReplyBusy(d) => reply'[d] = L!NoReply
  BY <1>t DEF L!ReplyExpired, L!ReplyBusy, L!Answered
<1>6. CASE \E c \in Calls : L!ReplyOk(c) \/ L!ReplyExpired(c) \/ L!ReplyBusy(c)
           \/ L!ReplyDenied(c)
  BY <1>t, <1>1, <1>5, <1>6
<1>7. CASE \E m \in wire : L!Serve(m)  BY <1>4, <1>5, <1>7
<1>8. QED BY <1>2, <1>3, <1>5, <1>6, <1>7 DEF Quiet

\* Before the first fault no attempt is repeated.
LEMMA FirstTriesStep ==
    ASSUME L!Limits, ControlTyped, Unspoiled, FirstTries, Quiet, troubles' = troubles,
           troubles # 2
    PROVE  FirstTries'
<1>1. ASSUME NEW d \in Calls
      PROVE  attempt'[d] = 1 /\ call'[d] # "sleep" /\ reply'[d].kind # "busy"
  <2>1. /\ attempt[d] = 1 /\ call[d] # "sleep" /\ reply[d].kind # "busy"
        /\ reply[d].kind # "expired"
    BY DEF FirstTries, Unspoiled
  <2>2. ~L!ReplyExpired(d) /\ ~L!ReplyBusy(d)  BY <2>1 DEF L!ReplyExpired, L!ReplyBusy, L!Answered
  <2>3. attempt'[d] = 1 /\ call'[d] # "sleep"  BY <2>1, <2>2, QuietCalls
  <2>4. L!NoReply.kind # "busy"  BY DEF L!NoReply
  <2>5. reply'[d].kind # "busy"  BY <2>1, <2>4, QuietReplies
  <2>6. QED BY <2>3, <2>5
<1>2. ASSUME NEW m \in wire' PROVE m.attempt = 1
  BY QuietWire DEF FirstTries
<1>3. QED BY <1>1, <1>2 DEF FirstTries

\* A restart that is the first fault leaves one token in the cache that is of before it, or
\* one on its way, and nobody has tried twice.
LEMMA FirstRestart ==
    ASSUME L!Limits, ControlTyped, Unspoiled, FirstTries, L!Restart
    PROVE  OnceRestarted'
<1> USE DEF L!callVars, L!tokenVars, L!authVars, L!connVars, L!closeVars, L!envVars
<1>1. /\ UNCHANGED <<call, attempt, reply>> /\ token' = L!Spoiled(token)
      /\ wire' = {[m EXCEPT !.token = L!Spoiled(@)] : m \in wire}
  BY DEF L!Restart
<1>2. \A c \in Calls : /\ attempt'[c] = 1 /\ call'[c] # "sleep" /\ reply'[c].kind # "busy"
                       /\ reply'[c].kind # "expired"
  BY <1>1 DEF FirstTries, Unspoiled
<1>3. token' # "good"  BY <1>1 DEF L!Spoiled
<1>4. \A m \in wire' : m.attempt <= 2
  <2>1. SUFFICES ASSUME NEW n \in wire' PROVE n.attempt <= 2  OBVIOUS
  <2>2. PICK m \in wire : n = [m EXCEPT !.token = L!Spoiled(@)]  BY <1>1
  <2>3. n.attempt = m.attempt  BY <2>2
  <2>4. QED BY <2>3 DEF FirstTries
<1>5. QED BY <1>2, <1>3, <1>4 DEF OnceRestarted, Tried

\* How often a call has tried grows only with the answer that its token expired.
LEMMA TriedGrows ==
    ASSUME L!Limits, ControlTyped, OnceRestarted, Quiet, NEW d \in Calls
    PROVE  /\ ~L!ReplyExpired(d) => /\ Tried(d, 1) => Tried(d, 1)'
                                    /\ Tried(d, 2) => Tried(d, 2)'
           /\ L!ReplyExpired(d) /\ Tried(d, 1) => Tried(d, 2)'
<1>1. attempt[d] \in Nat /\ attempt[d] >= 1  BY Loose
<1>2. ~L!ReplyBusy(d)  BY DEF L!ReplyBusy, L!Answered, OnceRestarted
<1>3. \/ attempt'[d] = attempt[d]
      \/ call[d] = "sleep" /\ call'[d] = "start" /\ attempt'[d] = attempt[d] + 1
  BY QuietCalls
<1>4. call'[d] = "sleep" => call[d] = "sleep" \/ L!ReplyExpired(d)  BY <1>2, QuietCalls
<1>5. L!ReplyExpired(d) => call[d] = "sent"  BY DEF L!ReplyExpired, L!Answered
<1>6. QED BY <1>1, <1>3, <1>4, <1>5 DEF Tried

\* With one restart and no other fault an attempt fails at most twice for its token.
LEMMA OnceRestartedStep ==
    ASSUME L!Limits, ControlTyped, OnceRestarted, Quiet, troubles' = troubles, troubles # 2
    PROVE  OnceRestarted'
<1>t. \A c \in Calls : attempt[c] \in Nat /\ attempt[c] >= 1
  BY Loose
<1>3. 2 < MaxAttempts /\ token \in L!Tokens /\ issued \in L!Tokens  BY Loose DEF L!Limits
<1>n. L!NoReply.kind = "none"  BY DEF L!NoReply
<1>e. ASSUME NEW c \in Calls, L!ReplyExpired(c) PROVE attempt[c] <= 2 /\ token' = "none"
  <2>1. reply[c].kind = "expired"  BY <1>e DEF L!ReplyExpired, L!Answered
  <2>2. attempt[c] <= 2  BY <2>1 DEF OnceRestarted
  <2>3. attempt[c] < MaxAttempts  BY <1>t, <1>3, <2>2 DEF L!Limits
  <2>4. QED BY <1>e, <2>2, <2>3, QuietTokens
\* A call that takes up a token of before the restart has not tried too often.
<1>u. ASSUME NEW c \in Calls, L!AttemptCached(c)
      PROVE  /\ call[c] = "start" /\ token # "none" /\ held'[c] = token
             /\ token = "bad" => attempt[c] <= 2
             /\ issued = "bad" => Tried(c, 1)
  <2>1. call[c] = "start" /\ token # "none" /\ held'[c] = token
    BY <1>u, QuietTokens DEF L!AttemptCached
  <2>2. token = "bad" => attempt[c] <= 2
    BY <1>t, <2>1 DEF OnceRestarted, Tried
  <2>3. issued = "bad" => token = "bad"  BY <1>3, <2>1 DEF OnceRestarted, L!Tokens
  <2>4. QED BY <2>1, <2>2, <2>3 DEF OnceRestarted
<1>v. ASSUME NEW c \in Calls, L!AuthDone, call[c] = "auth"
      PROVE  held'[c] = issued /\ (issued = "bad" => attempt[c] <= 2)
  <2>1. held'[c] = issued  BY <1>v, QuietTokens
  <2>2. issued = "bad" => Tried(c, 2)  BY DEF OnceRestarted
  <2>3. QED BY <1>t, <1>v, <2>1, <2>2 DEF Tried
<1>1. ASSUME NEW d \in Calls
      PROVE  /\ reply'[d].kind # "busy"
             /\ reply'[d].kind = "expired" => attempt'[d] <= 2 /\ call'[d] # "sleep"
  <2>1. /\ reply[d].kind # "busy"
        /\ reply[d].kind = "expired" => attempt[d] <= 2 /\ call[d] # "sleep"
    BY DEF OnceRestarted
  <2>2. CASE reply'[d] = L!NoReply  BY <1>n, <2>2
  <2>3. CASE reply'[d] = reply[d] /\ reply'[d] # L!NoReply
    <3>1. ~L!ReplyExpired(d) /\ ~L!ReplyBusy(d)  BY <2>3, QuietReplies
    <3>2. call'[d] = "sleep" => call[d] = "sleep"  BY <3>1, QuietCalls
    <3>3. call[d] # "sleep" => attempt'[d] = attempt[d]  BY QuietCalls
    <3>4. QED BY <2>1, <2>3, <3>2, <3>3
  <2>4. CASE reply'[d] \notin {reply[d], L!NoReply}
    <3>1. /\ reply'[d].kind # "busy" /\ UNCHANGED <<call, attempt>> /\ call[d] = "sent"
          /\ reply'[d].kind = "expired" => \E m \in wire : m.token = "bad" /\ m.attempt = attempt[d]
      BY <2>4, QuietReplies
    <3>2. QED BY <3>1 DEF OnceRestarted
  <2>5. QED BY <2>2, <2>3, <2>4
<1>2. ASSUME NEW d \in Calls, call'[d] = "conn", held'[d] = "bad" PROVE attempt'[d] <= 2
  <2>1. attempt'[d] = attempt[d]  BY <1>2, QuietCalls
  <2>2. CASE call[d] = "conn"
    <3>1. held'[d] = held[d]  BY <1>2, <2>2, QuietTokens
    <3>2. QED BY <1>2, <2>1, <2>2, <3>1 DEF OnceRestarted
  <2>3. CASE L!AttemptCached(d)  BY <1>2, <1>u, <2>1, <2>3
  <2>4. CASE L!AuthDone /\ call[d] = "auth"  BY <1>2, <1>v, <2>1, <2>4
  <2>5. QED BY <1>2, <2>2, <2>3, <2>4, QuietCalls
<1>4. ASSUME NEW m \in wire', m.token = "bad" PROVE m.attempt <= 2
  <2>1. CASE m \in wire  BY <1>4, <2>1 DEF OnceRestarted
  <2>2. CASE m \notin wire
    <3>1. PICK c \in Calls :
             /\ m.attempt = attempt[c] /\ m.token = held'[c]
             /\ \/ L!AttemptCached(c)
                \/ L!AuthDone /\ call[c] = "auth"
                \/ call[c] = "conn" /\ held' = held
      BY <2>2, QuietWire
    <3>2. CASE L!AttemptCached(c)  BY <1>4, <1>u, <3>1, <3>2
    <3>3. CASE L!AuthDone /\ call[c] = "auth"  BY <1>4, <1>v, <3>1, <3>3
    <3>4. CASE call[c] = "conn" /\ held' = held  BY <1>4, <3>1, <3>4 DEF OnceRestarted
    <3>5. QED BY <3>1, <3>2, <3>3, <3>4
  <2>3. QED BY <2>1, <2>2
<1>5. ASSUME token' = "bad", NEW d \in Calls
      PROVE  Tried(d, 2)' /\ (issued' = "bad" => Tried(d, 1)')
  <2>1. ~L!ReplyExpired(d)  BY <1>5, <1>e
  <2>2. \/ issued' \in {issued, "good"} /\ token = "bad"
        \/ issued = "bad" /\ issued' = "none"
    BY <1>5, QuietTokens
  <2>3. Tried(d, 2)  BY <2>2 DEF OnceRestarted
  <2>4. issued' = "bad" => issued = "bad" /\ token = "bad"  BY <2>2
  <2>5. issued' = "bad" => Tried(d, 1)  BY <2>4 DEF OnceRestarted
  <2>6. QED BY <2>1, <2>3, <2>5, TriedGrows
<1>6. ASSUME issued' = "bad" PROVE issued = "bad" /\ token' # "good"
  <2>1. issued = "bad" /\ token' \in {"none", token}  BY <1>6, QuietTokens
  <2>2. QED BY <2>1 DEF OnceRestarted
<1>7. ASSUME issued' = "bad", NEW d \in Calls
      PROVE  Tried(d, 2)' /\ (call'[d] \in {"conn", "sent"} => Tried(d, 1)')
  <2>1. issued = "bad" /\ Tried(d, 2)  BY <1>6, <1>7 DEF OnceRestarted
  <2>2. L!ReplyExpired(d) => Tried(d, 1)
    BY <2>1 DEF OnceRestarted, L!ReplyExpired, L!Answered
  <2>3. Tried(d, 2)'  BY <2>1, <2>2, TriedGrows
  <2>4. ASSUME call'[d] \in {"conn", "sent"} PROVE Tried(d, 1)'
    <3>1. ~L!ReplyExpired(d)
      BY <2>4, Loose DEF L!ReplyExpired, L!AfterError
    <3>2. ~L!AuthDone  BY <1>7, QuietTokens DEF L!AuthDone
    <3>3. CASE call[d] \in {"conn", "sent"}
      BY <2>1, <3>1, <3>3, TriedGrows DEF OnceRestarted
    <3>4. CASE L!AttemptCached(d)
      BY <1>u, <2>1, <3>1, <3>4, TriedGrows
    <3>5. QED BY <2>4, <3>2, <3>3, <3>4, QuietCalls
  <2>5. QED BY <2>3, <2>4
<1>8. QED BY <1>1, <1>2, <1>4, <1>5, <1>6, <1>7 DEF OnceRestarted

\* No step but the answer to it makes a call refused.
LEMMA RefusedOnlyByReply ==
    ASSUME L!Limits, ControlTyped, L!Next, NEW d \in Calls, call[d] # "refused",
           ~L!ReplyExpired(d)
    PROVE  call'[d] # "refused"
<1> USE DEF L!callVars, L!tokenVars, L!authVars, L!connVars, L!closeVars, L!envVars
<1>t. call \in [Calls -> L!CallStates] /\ \A c \in Calls : L!AfterError(c, "failed") # "refused"
  BY Loose DEF L!AfterError
<1>1. CASE Quiet  BY <1>1, QuietCalls
<1>2. ASSUME NEW c \in Calls, L!Timeout(c) PROVE call'[d] # "refused"
  BY <1>t, <1>2 DEF L!Timeout
<1>3. CASE L!AuthTimeout
  <2>1. \/ call' = call
        \/ call' = [c \in Calls |-> IF call[c] = "auth" THEN L!AfterError(c, "failed") ELSE call[c]]
    BY <1>3 DEF L!AuthTimeout, L!AuthError, L!AuthEnds
  <2>2. QED BY <1>t, <2>1
<1>4. CASE L!ConnectFails
  <2>1. PICK ends \in BOOLEAN :
           call' = [c \in Calls |-> IF call[c] = "conn" \/ (call[c] = "auth" /\ ends)
                                    THEN L!AfterError(c, "failed") ELSE call[c]]
    <3>1. (auth = "conn" /\ authAttempt = MaxAttempts) \in BOOLEAN  OBVIOUS
    <3>2. QED BY <1>4, <3>1 DEF L!ConnectFails
  <2>2. QED BY <1>t, <2>1
<1>5. CASE L!ConnectionDies \/ L!Restart
  BY <1>5 DEF L!ConnectionDies, L!Restart
<1>6. QED BY <1>1, <1>2, <1>3, <1>4, <1>5 DEF L!Next, L!CallStep, L!AuthStep, L!ConnectionStep, Quiet

\* Faults and what follows from them.
LEMMA FaultsStep ==
    ASSUME L!Limits, ControlTyped, FaultsCounted, [L!Next]_(L!vars)
    PROVE  FaultsCounted'
<1>t. troubles \in 0 .. 2  BY Loose
<1>1. CASE UNCHANGED L!vars
  BY <1>1
  DEF L!vars, L!callVars, L!tokenVars, L!authVars, L!connVars, L!closeVars, L!envVars,
      FaultsCounted,
              Unspoiled, FirstTries, OnceRestarted, Tried, L!RefusedTakesTwoFaults
<1>2. CASE L!Next /\ troubles' = 2
  BY <1>2 DEF FaultsCounted, L!RefusedTakesTwoFaults
<1>3. CASE L!Next /\ troubles' # 2 /\ troubles' = troubles
  <2>1. Quiet /\ ~L!Restart /\ troubles # 2  BY <1>t, <1>3, QuietOrFault
  <2>2. Unspoiled => Unspoiled'  BY <1>3, <2>1, UnspoiledStep
  <2>3. troubles = 0 => Unspoiled' /\ FirstTries'
    BY <1>3, <2>1, <2>2, FirstTriesStep DEF FaultsCounted
  <2>4. troubles = 1 => Unspoiled' \/ OnceRestarted'
    BY <1>3, <2>1, <2>2, OnceRestartedStep DEF FaultsCounted
  <2>5. L!RefusedTakesTwoFaults'
    <3>1. SUFFICES ASSUME NEW d \in Calls, call'[d] = "refused" PROVE FALSE
      BY DEF L!RefusedTakesTwoFaults
    <3>2. call[d] # "refused"  BY <2>1 DEF FaultsCounted, L!RefusedTakesTwoFaults
    <3>3. L!ReplyExpired(d) /\ attempt[d] >= MaxAttempts  BY <2>1, <3>1, <3>2, QuietCalls
    <3>4. reply[d].kind = "expired"  BY <3>3 DEF L!ReplyExpired, L!Answered
    <3>5. OnceRestarted  BY <1>t, <2>1, <3>4 DEF FaultsCounted, Unspoiled
    <3>6. attempt[d] <= 2  BY <3>4, <3>5 DEF OnceRestarted
    <3>7. attempt[d] \in Nat  BY Loose
    <3>8. QED BY <3>3, <3>6, <3>7 DEF L!Limits
  <2>6. QED BY <1>3, <2>3, <2>4, <2>5 DEF FaultsCounted
<1>4. CASE L!Next /\ troubles' # 2 /\ troubles' # troubles
  <2>1. L!Fault  BY <1>t, <1>4, QuietOrFault
  <2>2. troubles = 0 /\ troubles' = 1  BY <1>t, <1>4, <2>1 DEF L!Fault
  <2>3. Unspoiled /\ FirstTries  BY <2>2 DEF FaultsCounted
  <2>4. CASE L!Restart
    <3>1. OnceRestarted'  BY <2>3, <2>4, FirstRestart
    <3>2. call' = call  BY <2>4 DEF L!Restart
    <3>3. ~ \E c \in Calls : call[c] = "refused"
      BY <2>2 DEF FaultsCounted, L!RefusedTakesTwoFaults
    <3>4. QED BY <2>2, <3>1, <3>2, <3>3 DEF FaultsCounted, L!RefusedTakesTwoFaults
  <2>5. CASE ~L!Restart
    <3>1. Unspoiled'  BY <1>4, <2>3, <2>5, UnspoiledStep
    <3>2. ASSUME NEW d \in Calls PROVE call'[d] # "refused"
      <4>1. call[d] # "refused"  BY <2>2 DEF FaultsCounted, L!RefusedTakesTwoFaults
      <4>2. ~L!ReplyExpired(d)  BY <2>3 DEF Unspoiled, L!ReplyExpired, L!Answered
      <4>3. QED BY <1>4, <4>1, <4>2, <2>1, <2>2, RefusedOnlyByReply
    <3>3. QED BY <2>2, <3>1, <3>2 DEF FaultsCounted, L!RefusedTakesTwoFaults
  <2>6. QED BY <2>4, <2>5
<1>5. QED BY <1>1, <1>2, <1>3, <1>4

\* The invariant holds, and with it the promises of the control.
LEMMA ControlNext == L!Limits /\ ControlInv /\ [L!Next]_(L!vars) => ControlInv'
<1> SUFFICES ASSUME L!Limits, ControlInv, [L!Next]_(L!vars) PROVE ControlInv'  OBVIOUS
<1>1. /\ CallsTyped /\ TokensTyped /\ ConnTyped /\ RuntimeTyped /\ WireTyped
      /\ ControlTyped /\ OneId /\ Closing /\ FaultsCounted
  BY DEF ControlInv, ControlTyped
<1>2. CallsTyped'  BY <1>1, CallsStep
<1>3. TokensTyped' /\ ConnTyped' /\ RuntimeTyped'
  BY <1>1, TokensStep, ConnStep, RuntimeStep
<1>4. WireTyped'  BY <1>1, <1>2, WireStep
<1>5. OneId' /\ Closing' /\ FaultsCounted'  BY <1>1, OneIdStep, ClosingStep, FaultsStep
<1>6. QED BY <1>2, <1>3, <1>4, <1>5 DEF ControlInv, ControlTyped

\* Any number of request() calls that share the token, its refresh and the connection, with
\* three attempts or more and any number of restarts of the Runtime: one idempotency key
\* takes effect once, no call is refused for its token unless two faults happened, and
\* after close() no connect() comes to an end with a connection.
THEOREM ControlIsSound ==
    ASSUME L!Limits
    PROVE  L!Spec => [](L!TypeOK /\ L!OneEffectPerKey
                        /\ L!RefusedTakesTwoFaults /\ L!ClosedForGood)
<1>1. L!Init => ControlInv  BY ControlInit
<1>2. ControlInv /\ [L!Next]_(L!vars) => ControlInv'  BY ControlNext
<1>3. ASSUME ControlInv
      PROVE  L!TypeOK /\ L!OneEffectPerKey /\ L!RefusedTakesTwoFaults /\ L!ClosedForGood
  <2>1. L!TypeOK
    <3>1. \A c \in Calls : reply[c] = L!NoReply \/ reply[c].kind \in L!ReplyKinds
      BY <1>3 DEF ControlInv, ControlTyped, RuntimeTyped, Replies
    <3>2. QED BY <1>3, <3>1 DEF ControlInv, ControlTyped, CallsTyped, TokensTyped, ConnTyped,
                               RuntimeTyped, L!TypeOK
  <2>2. ASSUME NEW k \in L!Keys PROVE Cardinality(applied[k]) <= 1
    <3>1. applied[k] = {} \/ applied[k] = {<<k, 1>>}
      BY <1>3 DEF ControlInv, OneId
    <3>2. Cardinality(applied[k]) \in {0, 1}  BY <3>1, FS_EmptySet, FS_Singleton
    <3>3. QED BY <3>2
  <2>c. ASSUME NEW S PROVE L!Cardinality(S) = Cardinality(S)
    BY DEF L!Cardinality, Cardinality
  <2>3. L!OneEffectPerKey  BY <2>2, <2>c DEF L!OneEffectPerKey
  <2>4. L!RefusedTakesTwoFaults /\ L!ClosedForGood
    <3>1. L!RefusedTakesTwoFaults  BY <1>3 DEF ControlInv, FaultsCounted
    <3>2. L!ClosedForGood  BY <1>3 DEF ControlInv, Closing, L!ClosedForGood
    <3>3. QED BY <3>1, <3>2
  <2>5. QED BY <2>1, <2>3, <2>4
<1>4. QED BY <1>1, <1>2, <1>3, PTL DEF L!Spec

-----------------------------------------------------------------------------
(* The signers of a transfer, and the grants of integrity audits.           *)

CONSTANTS Owners, Audits, Challenges, Callers, Requests, MaxGrants, MaxAwaiting, MaxJobs, Crowds,
    MaxTroubles, None
VARIABLES stage, recovery, integrity, installed, covers, signer, aborted, job, cache, submission,
    sending, published, caller, request, promise, mishaps

I == INSTANCE IntegritySigning WITH
    pc <- stage, registered <- installed, pending <- promise, troubles <- mishaps

\* Finite sets and how many elements they have are what they are elsewhere.
LEMMA SameCounting ==
    ASSUME NEW S
    PROVE  I!Cardinality(S) = Cardinality(S) /\ (I!IsFiniteSet(S) <=> IsFiniteSet(S))
BY DEF I!Cardinality, Cardinality, I!IsFiniteSet, IsFiniteSet

Grants == [challenge : Challenges, by : Owners, state : {"signing", "fresh", "stale", "failed"}]
Asked(states) == [state : states, challenge : Challenges \union {I!NoChallenge}, job : 0..MaxJobs,
                  at : Owners \union {None}]
CallerStates == {"absent", "idle", "waiting", "done", "error"}
RequestStates == {"absent", "idle", "waiting", "answered", "retry", "dropped"}

\* The signers: what is registered signs.
SignersTyped ==
    /\ stage \in [Owners -> {"idle", "subscribing", "attaching", "running", "half", "failed",
                            "over"}]
    /\ aborted \subseteq Owners /\ recovery \subseteq Owners /\ integrity \subseteq Owners
    /\ installed \in Owners \union {None} /\ signer = installed

\* The grants, with no more entries in the cache than fit.
GrantsTyped ==
    /\ job \in [I!Jobs -> Grants \union {I!NoJob}]
    /\ cache \in [Audits -> 0..MaxJobs] /\ submission \in [Audits -> 0..MaxJobs]
    /\ sending \in [I!Jobs -> 0..1] /\ published \subseteq I!Jobs
    /\ promise \in [Owners -> 0..MaxJobs]
    /\ Cardinality({a \in Audits : cache[a] # 0}) <= MaxGrants

\* Those who ask, with no more waiting at a subscription than are allowed.
AskersTyped ==
    /\ caller \in [Callers -> Asked(CallerStates)]
    /\ request \in [Requests -> Asked(RequestStates)]
    /\ \A c \in Callers : caller[c].state # "absent" => caller[c].challenge \in Challenges
    /\ \A r \in Requests : request[r].state # "absent" => request[r].challenge \in Challenges
    /\ \A o \in Owners : Cardinality(I!Awaiting(o)) <= MaxAwaiting

\* What is registered is installed, and its stop() covers the integrity subscription as soon
\* as it is attached, unless the flush rejected.
Installed ==
    \A o \in Owners : installed = o =>
        /\ stage[o] \in {"attaching", "running", "half"}
        /\ o \in integrity /\ ~covers => stage[o] \in {"attaching", "half"}

\* The cache holds grants of its audit that the signer of now has signed; who has not yet been
\* installed has signed none.
CacheHolds ==
    /\ \A a \in Audits : cache[a] # 0 =>
          /\ job[cache[a]] # I!NoJob /\ job[cache[a]].by = signer
          /\ I!Audit(job[cache[a]].challenge) = a
    /\ \A i \in I!Jobs : job[i] # I!NoJob => stage[job[i].by] \notin {"idle", "subscribing"}

\* A submission is of the grants in the cache, under way or accepted; what is under way and
\* still in the cache is in the map.
SubmissionHolds ==
    /\ \A a \in Audits : submission[a] # 0 =>
          /\ submission[a] = cache[a]
          /\ sending[cache[a]] = 1 \/ cache[a] \in published
    /\ \A i \in I!Jobs : sending[i] = 1 =>
          /\ job[i] # I!NoJob
          /\ cache[I!Audit(job[i].challenge)] = i => submission[I!Audit(job[i].challenge)] = i

\* A signing that is under way is in the cache, unless its signer has been replaced.
OneSigning ==
    /\ \A i \in I!Jobs : job[i].state = "signing" =>
          cache[I!Audit(job[i].challenge)] = i \/ signer # job[i].by
    /\ \A i, k \in I!Jobs :
          /\ job[i].state = "signing" /\ job[k].state = "signing" /\ job[i].by = job[k].by
          /\ I!Audit(job[i].challenge) = I!Audit(job[k].challenge)
          => i = k

\* Whoever waits, or has an answer, has it of a signing for its own challenge.
Promised(x) == x.job # 0 /\ job[x.job] # I!NoJob /\ job[x.job].challenge = x.challenge
AnswersHold ==
    /\ \A c \in Callers : caller[c].state \in {"waiting", "done"} => Promised(caller[c])
    /\ \A c \in Callers : caller[c].state = "done" => caller[c].job \in published
    /\ \A r \in Requests : request[r].state \in {"waiting", "answered"} => Promised(request[r])
    /\ \A o \in Owners : promise[o] # 0 => job[promise[o]] # I!NoJob

GrantsInv == /\ SignersTyped /\ GrantsTyped /\ AskersTyped /\ Installed /\ I!NoSubscriptionLeft
             /\ CacheHolds /\ SubmissionHolds /\ OneSigning /\ AnswersHold

\* The least number of a set.
LEMMA LeastUnused ==
    ASSUME I!Limits, I!Unused # {}
    PROVE  I!NewJob \in I!Jobs /\ job[I!NewJob] = I!NoJob
<1> DEFINE LessThan == {p \in Nat \X Nat : p[1] < p[2]}
<1>1. IsWellFoundedOn(LessThan, Nat)  BY NatLessThanWellFounded DEF OpToRel
<1>j. I!Unused \in SUBSET Nat  BY DEF I!Unused, I!Jobs
<1>2. PICK m \in I!Unused : \A y \in I!Unused : ~ (<<y, m>> \in LessThan)
  <2> HIDE DEF LessThan
  <2>1. QED BY <1>1, <1>j, WFMin
<1>3. ASSUME NEW k \in I!Unused PROVE m <= k
  <2>1. <<k, m>> \in Nat \X Nat /\ k \in Nat /\ m \in Nat  BY <1>j
  <2>2. ~ (<<k, m>>[1] < <<k, m>>[2])  BY <1>2, <2>1
  <2>3. QED BY <2>1, <2>2
<1>4. I!NewJob \in I!Unused  BY <1>3 DEF I!NewJob
<1>5. QED BY <1>4 DEF I!Unused

\* Nobody is installed and nothing is signed.
LEMMA GrantsInit == I!Limits /\ I!Init => GrantsInv
<1> SUFFICES ASSUME I!Limits, I!Init PROVE GrantsInv  OBVIOUS
<1>1. SignersTyped /\ Installed /\ I!NoSubscriptionLeft
  <2>1. stage \in [Owners -> {"idle"}]  BY DEF I!Init
  <2>2. installed = None /\ signer = None /\ recovery = {} /\ integrity = {} /\ aborted = {}
    BY DEF I!Init
  <2>3. QED BY <2>1, <2>2 DEF SignersTyped, Installed, I!NoSubscriptionLeft, I!Limits
<1>2. GrantsTyped
  <2>1. MaxJobs \in Nat /\ MaxGrants \in Nat  BY DEF I!Limits
  <2>2. {a \in Audits : cache[a] # 0} = {}  BY DEF I!Init
  <2>3. Cardinality({a \in Audits : cache[a] # 0}) = 0  BY <2>2, FS_EmptySet
  <2>4. 0 \in 0..MaxJobs /\ 0 \in 0..1  BY <2>1
  <2>5. QED BY <2>1, <2>3, <2>4 DEF I!Init, GrantsTyped
<1>3. AskersTyped /\ AnswersHold
  <2>1. PICK crowd \in Crowds : /\ caller = [c \in Callers |-> I!Asks(c, crowd)]
                                /\ request = [r \in Requests |-> I!Asks(r, crowd)]
    BY DEF I!Init
  <2>2. MaxJobs \in Nat /\ MaxAwaiting \in Nat  BY DEF I!Limits
  <2>3. ASSUME NEW x
        PROVE  /\ I!Asks(x, crowd) \in Asked({"absent", "idle"})
               /\ I!Asks(x, crowd).state # "absent" => I!Asks(x, crowd).challenge \in Challenges
    <3>1. x \in DOMAIN crowd => crowd[x] \in Challenges  BY DEF I!Limits
    <3>2. 0 \in 0..MaxJobs  BY <2>2
    <3>3. CASE x \in DOMAIN crowd
      BY <3>1, <3>2, <3>3 DEF I!Asks, I!Idle, Asked, I!NoChallenge
    <3>4. CASE x \notin DOMAIN crowd
      BY <3>2, <3>4 DEF I!Asks, I!Idle, Asked, I!NoChallenge
    <3>5. QED BY <3>3, <3>4
  <2>4. /\ \A c \in Callers : caller[c] = I!Asks(c, crowd)
        /\ \A r \in Requests : request[r] = I!Asks(r, crowd)
    BY <2>1
  <2>5. /\ \A c \in Callers : caller[c] \in Asked(CallerStates)
              /\ caller[c].state \in {"absent", "idle"}
        /\ \A r \in Requests : request[r] \in Asked(RequestStates)
              /\ request[r].state \in {"absent", "idle"}
    BY <2>3, <2>4 DEF Asked, CallerStates, RequestStates
  <2>6. caller \in [Callers -> Asked(CallerStates)]
           /\ request \in [Requests -> Asked(RequestStates)]
    BY <2>1, <2>4, <2>5
  <2>7. \A o \in Owners : I!Awaiting(o) = {}  BY <2>5 DEF I!Awaiting
  <2>8. \A o \in Owners : Cardinality(I!Awaiting(o)) <= MaxAwaiting
    <3>1. Cardinality({}) = 0  BY FS_EmptySet
    <3>2. QED BY <2>2, <2>7, <3>1
  <2>9. AskersTyped  BY <2>3, <2>4, <2>6, <2>8 DEF AskersTyped
  <2>10. \A o \in Owners : promise[o] = 0  BY DEF I!Init
  <2>11. AnswersHold  BY <2>5, <2>10 DEF AnswersHold
  <2>12. QED BY <2>9, <2>11
<1>4. CacheHolds /\ SubmissionHolds /\ OneSigning
  <2>1. /\ \A i \in I!Jobs : job[i] = I!NoJob /\ sending[i] = 0
        /\ \A a \in Audits : cache[a] = 0 /\ submission[a] = 0
    BY DEF I!Init
  <2>2. I!NoJob.state = "none"  BY DEF I!NoJob
  <2>3. CacheHolds  BY <2>1 DEF CacheHolds
  <2>4. SubmissionHolds  BY <2>1 DEF SubmissionHolds
  <2>5. OneSigning  BY <2>1, <2>2 DEF OneSigning
  <2>6. QED BY <2>3, <2>4, <2>5
<1>5. QED BY <1>1, <1>2, <1>3, <1>4 DEF GrantsInv

\* What a step of the signers does: it leaves the grants alone, or drops them with the signer
\* that signed them, and whoever signs from then on has signed nothing yet.
Forward ==
    \A o \in Owners : stage'[o] \in {"idle", "subscribing"} => stage[o] \in {"idle", "subscribing"}
Dropped ==
    /\ I!DropGrants
    /\ signer' = None \/ \E o \in Owners : signer' = o /\ stage[o] = "subscribing"
SignersMove ==
    /\ UNCHANGED <<job, sending, published, caller, request, promise>>
    /\ Forward
    /\ UNCHANGED <<cache, submission, signer>> \/ Dropped

\* The grants follow.
LEMMA MovesKeepGrants ==
    ASSUME I!Limits, GrantsInv, SignersMove
    PROVE  /\ GrantsTyped' /\ AskersTyped' /\ CacheHolds' /\ SubmissionHolds'
           /\ OneSigning' /\ AnswersHold'
<1> USE DEF SignersMove
<1>a. /\ GrantsTyped /\ AskersTyped /\ CacheHolds /\ SubmissionHolds /\ OneSigning /\ AnswersHold
      /\ SignersTyped
  BY DEF GrantsInv
<1>j. I!Jobs' = I!Jobs  BY DEF I!Jobs
<1>1. \A i \in I!Jobs : job[i] # I!NoJob => job[i] \in Grants  BY <1>a DEF GrantsTyped
<1>2. \A i \in I!Jobs : job[i] # I!NoJob => job[i].by \in Owners  BY <1>1 DEF Grants
<1>3. \A i \in I!Jobs : job[i] # I!NoJob => stage'[job[i].by] \notin {"idle", "subscribing"}
  BY <1>a, <1>2 DEF CacheHolds, Forward
<1>4. AskersTyped'
  BY <1>a DEF AskersTyped, I!Awaiting, Asked, I!NoChallenge
<1>5. AnswersHold'
  BY <1>a DEF AnswersHold, Promised, I!NoJob, I!NoChallenge
<1>6. CASE UNCHANGED <<cache, submission, signer>>
  <2>1. GrantsTyped'  BY <1>a, <1>6 DEF GrantsTyped, Grants, I!NoJob, I!NoChallenge, I!Jobs
  <2>2. CacheHolds'  BY <1>a, <1>3, <1>6 DEF CacheHolds, I!NoJob, I!NoChallenge, I!Jobs, I!Audit
  <2>3. SubmissionHolds'
    BY <1>a, <1>6 DEF SubmissionHolds, I!NoJob, I!NoChallenge, I!Jobs, I!Audit
  <2>4. OneSigning'  BY <1>a, <1>6 DEF OneSigning, I!Jobs, I!Audit
  <2>5. QED BY <1>4, <1>5, <2>1, <2>2, <2>3, <2>4
<1>7. CASE Dropped
  <2>1. \A a \in Audits : cache'[a] = 0 /\ submission'[a] = 0
    <3>1. \A a \in Audits : submission[a] # 0 => cache[a] # 0  BY <1>a DEF SubmissionHolds
    <3>2. QED BY <1>7, <3>1 DEF Dropped, I!DropGrants
  <2>2. \A a \in Audits : a \in DOMAIN cache' /\ a \in DOMAIN submission'
    BY <1>7 DEF Dropped, I!DropGrants
  <2>3. GrantsTyped'
    <3>1. MaxJobs \in Nat /\ MaxGrants \in Nat  BY DEF I!Limits
    <3>2. {a \in Audits : cache'[a] # 0} = {}  BY <2>1
    <3>3. Cardinality({a \in Audits : cache'[a] # 0}) <= MaxGrants  BY <3>1, <3>2, FS_EmptySet
    <3>4. 0 \in 0..MaxJobs  BY <3>1
    <3>5. cache' \in [Audits -> 0..MaxJobs] /\ submission' \in [Audits -> 0..MaxJobs]
      <4>1. cache \in [Audits -> 0..MaxJobs] /\ submission \in [Audits -> 0..MaxJobs]
        BY <1>a DEF GrantsTyped
      <4>2. QED BY <1>7, <3>4, <4>1 DEF Dropped, I!DropGrants
    <3>6. QED BY <1>a, <3>3, <3>5 DEF GrantsTyped, Grants, I!NoJob, I!NoChallenge, I!Jobs
  <2>4. CacheHolds'  BY <1>3, <2>1 DEF CacheHolds, I!NoJob, I!NoChallenge, I!Jobs
  <2>5. SubmissionHolds'
    <3>1. ASSUME NEW i \in I!Jobs, sending'[i] = 1
          PROVE  job'[i] # I!NoJob /\ cache'[I!Audit(job'[i].challenge)] # i
      <4>1. job[i] # I!NoJob  BY <1>a, <3>1 DEF SubmissionHolds
      <4>2. I!Audit(job[i].challenge) \in Audits  BY <1>1, <4>1 DEF Grants, I!Limits
      <4>3. i # 0  BY DEF I!Jobs
      <4>4. QED BY <2>1, <4>1, <4>2, <4>3
    <3>2. QED BY <1>j, <2>1, <3>1 DEF SubmissionHolds, I!NoJob, I!NoChallenge, I!Audit
  <2>6. OneSigning'
    <3>1. ASSUME NEW i \in I!Jobs, job[i].state = "signing" PROVE signer' # job[i].by
      <4>1. job[i] # I!NoJob  BY <3>1 DEF I!NoJob
      <4>2. job[i].by \in Owners /\ stage[job[i].by] # "subscribing"
        BY <1>a, <1>2, <4>1 DEF CacheHolds
      <4>3. None \notin Owners  BY DEF I!Limits
      <4>4. QED BY <1>7, <4>2, <4>3 DEF Dropped
    <3>2. \A i \in I!Jobs : job'[i] = job[i]  OBVIOUS
    <3>3. QED BY <1>a, <1>j, <3>1, <3>2 DEF OneSigning, I!Audit
  <2>7. QED BY <1>4, <1>5, <2>3, <2>4, <2>5, <2>6
<1>8. QED BY <1>6, <1>7

\* Each step of the signers is of this kind.
LEMMA SignersStep ==
    ASSUME I!Limits, GrantsInv,
           \/ I!Stop
           \/ \E o \in Owners : \/ I!Start(o) \/ I!Subscribed(o) \/ I!SubscribeFails(o)
                                \/ I!Attached(o) \/ I!AttachFails(o) \/ I!Abort(o)
    PROVE  SignersMove /\ SignersTyped' /\ Installed' /\ I!NoSubscriptionLeft'
<1> USE DEF I!At, I!StopSigner, I!Replace
<1>a. SignersTyped /\ Installed /\ I!NoSubscriptionLeft  BY DEF GrantsInv
<1>n. None \notin Owners  BY DEF I!Limits
<1>t. /\ stage \in [Owners -> {"idle", "subscribing", "attaching", "running", "half", "failed",
                              "over"}]
      /\ installed \in Owners \union {None} /\ signer = installed
      /\ aborted \subseteq Owners /\ recovery \subseteq Owners /\ integrity \subseteq Owners
  BY <1>a DEF SignersTyped
<1>1. CASE I!Stop
  <2>1. /\ UNCHANGED <<stage, aborted, job, sending, published, caller, request, promise>>
        /\ recovery' = recovery \ {installed} /\ I!DropGrants
        /\ integrity' = IF covers THEN integrity \ {installed} ELSE integrity
        /\ installed' = None /\ covers' = FALSE /\ signer' = None
    BY <1>1 DEF I!Stop
  <2>2. SignersMove  BY <2>1 DEF SignersMove, Dropped, Forward
  <2>3. SignersTyped'  BY <1>t, <2>1 DEF SignersTyped
  <2>4. Installed'  BY <1>n, <2>1 DEF Installed
  <2>5. I!NoSubscriptionLeft'
    BY <1>a, <1>t, <2>1 DEF I!NoSubscriptionLeft, Installed
  <2>6. QED BY <2>2, <2>3, <2>4, <2>5
<1>2. ASSUME NEW o \in Owners, I!Start(o)
      PROVE  SignersMove /\ SignersTyped' /\ Installed' /\ I!NoSubscriptionLeft'
  <2>1. /\ UNCHANGED <<aborted, job, sending, published, caller, request, promise>>
        /\ stage[o] = "idle" /\ stage' = [stage EXCEPT ![o] = "subscribing"]
        /\ recovery' = (recovery \ {installed}) \union {o} /\ I!DropGrants
        /\ integrity' = IF covers THEN integrity \ {installed} ELSE integrity
        /\ installed' = None /\ covers' = FALSE /\ signer' = None
    BY <1>2 DEF I!Start
  <2>2. SignersMove  BY <1>t, <2>1 DEF SignersMove, Dropped, Forward
  <2>3. SignersTyped'  BY <1>t, <2>1 DEF SignersTyped
  <2>4. Installed'  BY <1>n, <2>1 DEF Installed
  <2>5. I!NoSubscriptionLeft'
    BY <1>a, <1>t, <2>1 DEF I!NoSubscriptionLeft, Installed
  <2>6. QED BY <2>2, <2>3, <2>4, <2>5
<1>3. ASSUME NEW o \in Owners, I!Subscribed(o)
      PROVE  SignersMove /\ SignersTyped' /\ Installed' /\ I!NoSubscriptionLeft'
  <2>1. CASE o \in aborted
    <3>1. /\ UNCHANGED <<aborted, job, sending, published, caller, request, promise>>
          /\ stage[o] = "subscribing" /\ stage' = [stage EXCEPT ![o] = "over"]
          /\ recovery' = recovery \ {o}
          /\ UNCHANGED <<integrity, installed, covers, signer, cache, submission>>
      BY <1>3, <2>1 DEF I!Subscribed
    <3>2. SignersMove  BY <1>t, <3>1 DEF SignersMove, Forward
    <3>3. SignersTyped'  BY <1>t, <3>1 DEF SignersTyped
    <3>4. Installed'  BY <1>a, <1>t, <3>1 DEF Installed
    <3>5. I!NoSubscriptionLeft'  BY <1>a, <1>t, <3>1 DEF I!NoSubscriptionLeft
    <3>6. QED BY <3>2, <3>3, <3>4, <3>5
  <2>2. CASE o \notin aborted
    <3>1. /\ UNCHANGED <<aborted, job, sending, published, caller, request, promise>>
          /\ stage[o] = "subscribing" /\ stage' = [stage EXCEPT ![o] = "attaching"]
          /\ recovery' = (recovery \ {installed}) \union {o} /\ I!DropGrants
          /\ integrity' = (IF covers THEN integrity \ {installed} ELSE integrity) \union {o}
          /\ installed' = o /\ covers' = FALSE /\ signer' = o
      BY <1>3, <2>2 DEF I!Subscribed
    <3>2. SignersMove
      <4>1. Forward  BY <1>t, <3>1 DEF Forward
      <4>2. Dropped  BY <3>1 DEF Dropped
      <4>3. QED BY <3>1, <4>1, <4>2 DEF SignersMove
    <3>3. SignersTyped'  BY <1>t, <3>1 DEF SignersTyped
    <3>4. Installed'  BY <1>t, <3>1 DEF Installed
    <3>5. I!NoSubscriptionLeft'
      BY <1>a, <1>t, <3>1 DEF I!NoSubscriptionLeft, Installed
    <3>6. QED BY <3>2, <3>3, <3>4, <3>5
  <2>3. QED BY <2>1, <2>2
<1>4. ASSUME NEW o \in Owners, I!Attached(o)
      PROVE  SignersMove /\ SignersTyped' /\ Installed' /\ I!NoSubscriptionLeft'
  <2>1. /\ UNCHANGED <<installed, signer, aborted, I!grantVars, published, caller, request,
                       promise>>
        /\ stage[o] = "attaching" /\ stage' = [stage EXCEPT ![o] = "running"]
        /\ \/ /\ recovery' = recovery \ {o} /\ integrity' = integrity \ {o} /\ covers' = covers
           \/ /\ installed = o /\ covers' = TRUE /\ recovery' = recovery /\ integrity' = integrity
    BY <1>4 DEF I!Attached, I!Replaced
  <2>2. SignersMove  BY <1>t, <2>1 DEF SignersMove, Forward, I!grantVars
  <2>3. SignersTyped'  BY <1>t, <2>1 DEF SignersTyped
  <2>4. Installed'  BY <1>a, <1>t, <2>1 DEF Installed
  <2>5. I!NoSubscriptionLeft'  BY <1>a, <1>t, <2>1 DEF I!NoSubscriptionLeft
  <2>6. QED BY <2>2, <2>3, <2>4, <2>5
<1>5. ASSUME NEW o \in Owners, I!AttachFails(o)
      PROVE  SignersMove /\ SignersTyped' /\ Installed' /\ I!NoSubscriptionLeft'
  <2>1. /\ UNCHANGED <<covers, aborted, job, sending, published, caller, request, promise>>
        /\ stage[o] = "attaching"
        /\ \/ stage' = [stage EXCEPT ![o] = "running"] /\ integrity' = integrity \ {o}
           \/ stage' = [stage EXCEPT ![o] = "half"] /\ UNCHANGED integrity
        /\ \/ /\ installed = o /\ recovery' = recovery \ {o} /\ installed' = None
              /\ signer' = None /\ I!DropGrants
           \/ UNCHANGED <<recovery, installed, signer, cache, submission>>
    BY <1>5 DEF I!AttachFails
  <2>2. SignersMove  BY <1>t, <2>1 DEF SignersMove, Dropped, Forward
  <2>3. SignersTyped'  BY <1>t, <2>1 DEF SignersTyped
  <2>4. Installed'  BY <1>a, <1>n, <1>t, <2>1 DEF Installed
  <2>5. I!NoSubscriptionLeft'  BY <1>a, <1>t, <2>1 DEF I!NoSubscriptionLeft, Installed
  <2>6. QED BY <2>2, <2>3, <2>4, <2>5
<1>6. ASSUME NEW o \in Owners, I!Abort(o)
      PROVE  SignersMove /\ SignersTyped' /\ Installed' /\ I!NoSubscriptionLeft'
  <2>1. /\ UNCHANGED <<stage, job, sending, published, caller, request, promise>>
        /\ aborted' = aborted \union {o}
        /\ \/ /\ recovery' = recovery \ {installed} /\ I!DropGrants
              /\ integrity' = IF covers THEN integrity \ {installed} ELSE integrity
              /\ installed' = None /\ covers' = FALSE /\ signer' = None
           \/ UNCHANGED <<I!subscriptionVars, cache, submission>>
    BY <1>6 DEF I!Abort, I!StopOwned
  <2>2. SignersMove  BY <2>1 DEF SignersMove, Dropped, Forward, I!subscriptionVars
  <2>3. SignersTyped'  BY <1>t, <2>1 DEF SignersTyped, I!subscriptionVars
  <2>4. Installed'  BY <1>a, <1>n, <2>1 DEF Installed, I!subscriptionVars
  <2>5. I!NoSubscriptionLeft'
    BY <1>a, <1>t, <2>1 DEF I!NoSubscriptionLeft, Installed, I!subscriptionVars
  <2>6. QED BY <2>2, <2>3, <2>4, <2>5
<1>7. ASSUME NEW o \in Owners, I!SubscribeFails(o)
      PROVE  SignersMove /\ SignersTyped' /\ Installed' /\ I!NoSubscriptionLeft'
  <2>1. /\ UNCHANGED <<aborted, job, sending, published, caller, request, promise>>
        /\ stage[o] = "subscribing" /\ stage' = [stage EXCEPT ![o] = "failed"]
        /\ recovery' \in {recovery, recovery \ {o}}
        /\ UNCHANGED <<integrity, installed, covers, signer, cache, submission>>
    BY <1>7 DEF I!SubscribeFails, I!grantVars
  <2>2. SignersMove  BY <1>t, <2>1 DEF SignersMove, Forward
  <2>3. SignersTyped'  BY <1>t, <2>1 DEF SignersTyped
  <2>4. Installed'  BY <1>a, <1>t, <2>1 DEF Installed
  <2>5. I!NoSubscriptionLeft'  BY <1>a, <1>t, <2>1 DEF I!NoSubscriptionLeft
  <2>6. QED BY <2>2, <2>3, <2>4, <2>5
<1>8. QED BY <1>1, <1>2, <1>3, <1>4, <1>5, <1>6, <1>7

\* The grants that a caller gets, of the cache or of a new signing.
LEMMA ObtainFacts ==
    ASSUME I!Limits, GrantsInv, NEW ch \in Challenges, ~I!Refused(ch), I!Obtain(ch)
    PROVE  LET i == I!Granted(ch) IN
           /\ i \in I!Jobs /\ I!Audit(ch) \in Audits
           /\ job' \in [I!Jobs -> Grants \union {I!NoJob}]
           /\ \A k \in I!Jobs : job[k] # I!NoJob \/ k # i => job'[k] = job[k]
           /\ job'[i] # I!NoJob /\ job'[i].challenge = ch /\ job'[i].by = signer
           /\ cache' = [cache EXCEPT ![I!Audit(ch)] = i]
           /\ I!Usable(ch) => job' = job /\ cache' = cache
           /\ ~I!Usable(ch) => job[i] = I!NoJob /\ job'[i].state = "signing" /\ signer \in Owners
<1> DEFINE i == I!Granted(ch)
<1>a. GrantsTyped /\ CacheHolds /\ SignersTyped  BY DEF GrantsInv
<1>c. I!Audit(ch) \in Audits /\ MaxJobs \in Nat  BY DEF I!Limits
<1>t. /\ job \in [I!Jobs -> Grants \union {I!NoJob}] /\ cache \in [Audits -> 0..MaxJobs]
  BY <1>a DEF GrantsTyped
<1>1. CASE I!Usable(ch)
  <2>1. /\ i = cache[I!Audit(ch)] /\ i # 0 /\ job[i].challenge = ch /\ job' = job
              /\ cache' = cache
    BY <1>1 DEF I!Granted, I!Refused, I!Changed, I!Cached, I!Entry, I!Obtain, I!Usable
  <2>2. i \in I!Jobs  BY <1>c, <1>t, <2>1 DEF I!Jobs
  <2>3. job[i] # I!NoJob /\ job[i].by = signer  BY <1>a, <1>c, <2>1 DEF CacheHolds
  <2>4. cache' = [cache EXCEPT ![I!Audit(ch)] = i]  BY <1>c, <1>t, <2>1
  <2>5. QED BY <1>1, <1>c, <1>t, <2>1, <2>2, <2>3, <2>4
<1>2. CASE ~I!Usable(ch)
  <2>1. /\ I!Unused # {} /\ i = I!NewJob
        /\ job' = [job EXCEPT ![i] = [challenge |-> ch, by |-> signer, state |-> "signing"]]
        /\ cache' = [cache EXCEPT ![I!Audit(ch)] = i] /\ signer # None
    BY <1>2 DEF I!Granted, I!Refused, I!Obtain
  <2>2. i \in I!Jobs /\ job[i] = I!NoJob  BY <2>1, LeastUnused
  <2>3. signer \in Owners  BY <1>a, <2>1 DEF SignersTyped
  <2>4. [challenge |-> ch, by |-> signer, state |-> "signing"] \in Grants  BY <2>3 DEF Grants
  <2>5. job'[i] = [challenge |-> ch, by |-> signer, state |-> "signing"]  BY <1>t, <2>1, <2>2
  <2>6. job'[i] # I!NoJob  BY <2>5 DEF I!NoJob
  <2>7. job' \in [I!Jobs -> Grants \union {I!NoJob}]  BY <1>t, <2>1, <2>4
  <2>8. QED BY <1>2, <1>c, <1>t, <2>1, <2>2, <2>3, <2>5, <2>6, <2>7
<1>3. QED BY <1>1, <1>2

\* They fit into the cache, which holds grants of the signer, one signing of each audit.
LEMMA ObtainKeeps ==
    ASSUME I!Limits, GrantsInv, NEW ch \in Challenges, ~I!Refused(ch), I!Obtain(ch),
           UNCHANGED <<stage, signer>>
    PROVE  /\ cache' \in [Audits -> 0..MaxJobs]
           /\ Cardinality({a \in Audits : cache'[a] # 0}) <= MaxGrants
           /\ CacheHolds' /\ OneSigning'
<1> DEFINE i == I!Granted(ch)
<1> DEFINE A == I!Audit(ch)
<1> DEFINE full == {a \in Audits : cache[a] # 0}
<1> DEFINE full2 == {a \in Audits : cache'[a] # 0}
<1>a. GrantsTyped /\ CacheHolds /\ OneSigning /\ SignersTyped /\ Installed  BY DEF GrantsInv
<1>b. IsFiniteSet(Audits) /\ MaxGrants \in Nat /\ MaxJobs \in Nat  BY SameCounting DEF I!Limits
<1>t. /\ job \in [I!Jobs -> Grants \union {I!NoJob}] /\ cache \in [Audits -> 0..MaxJobs]
      /\ Cardinality(full) <= MaxGrants
  BY <1>a DEF GrantsTyped
<1>j. I!Jobs' = I!Jobs /\ I!Jobs \subseteq 0..MaxJobs  BY <1>b DEF I!Jobs
<1>f. /\ i \in I!Jobs /\ A \in Audits
      /\ \A k \in I!Jobs : job[k] # I!NoJob \/ k # i => job'[k] = job[k]
      /\ job'[i] # I!NoJob /\ job'[i].challenge = ch /\ job'[i].by = signer
      /\ cache' = [cache EXCEPT ![A] = i]
      /\ I!Usable(ch) => job' = job /\ cache' = cache
      /\ ~I!Usable(ch) => job[i] = I!NoJob /\ job'[i].state = "signing" /\ signer \in Owners
  BY ObtainFacts
<1>g. \A k \in I!Jobs : k # 0  BY <1>b DEF I!Jobs
<1> HIDE DEF i, A
<1>1. cache' \in [Audits -> 0..MaxJobs]  BY <1>f, <1>j, <1>t
<1>2. Cardinality(full2) <= MaxGrants
  <2>1. CASE I!Usable(ch)  BY <1>f, <1>t, <2>1
  <2>2. CASE ~I!Usable(ch) /\ cache[A] # 0
    <3>1. full2 = full  BY <1>f, <1>t, <1>g, <2>2
    <3>2. QED BY <1>t, <3>1
  <2>3. CASE ~I!Usable(ch) /\ cache[A] = 0
    <3>1. ~(Cardinality(full) >= MaxGrants)
      BY <2>3, SameCounting DEF I!Refused, I!Cached, I!Full, A
    <3>2. full2 = full \union {A}  BY <1>f, <1>t, <1>g
    <3>3. IsFiniteSet(full) /\ Cardinality(full) \in Nat
      <4>1. full \subseteq Audits  OBVIOUS
      <4>2. QED BY <1>b, <4>1, FS_Subset, FS_CardinalityType
    <3>4. Cardinality(full2) = Cardinality(full) + 1
      BY <2>3, <3>2, <3>3, FS_AddElement
    <3>5. QED BY <1>b, <3>1, <3>3, <3>4
  <2>4. QED BY <2>1, <2>2, <2>3
<1>3. CacheHolds'
  <2>1. ASSUME NEW a \in Audits, cache'[a] # 0
        PROVE  job'[cache'[a]] # I!NoJob /\ I!Audit(job'[cache'[a]].challenge) = a
               /\ job'[cache'[a]].by = signer
    <3>1. CASE a = A
      <4>1. cache'[a] = i  BY <1>f, <1>t, <3>1
      <4>2. QED BY <1>f, <3>1, <4>1 DEF A
    <3>2. CASE a # A
      <4>1. cache'[a] = cache[a] /\ cache[a] # 0  BY <1>f, <1>t, <2>1, <3>2
      <4>2. cache[a] \in I!Jobs  BY <1>b, <1>t, <4>1 DEF I!Jobs
      <4>3. job[cache[a]] # I!NoJob  BY <1>a, <4>1 DEF CacheHolds
      <4>4. job'[cache[a]] = job[cache[a]]  BY <1>f, <4>2, <4>3
      <4>5. QED BY <1>a, <4>1, <4>4 DEF CacheHolds
    <3>3. QED BY <3>1, <3>2
  <2>2. ASSUME NEW k \in I!Jobs, job'[k] # I!NoJob
        PROVE  stage[job'[k].by] \notin {"idle", "subscribing"}
    <3>1. CASE job[k] # I!NoJob
      BY <1>a, <1>f, <3>1 DEF CacheHolds
    <3>2. CASE job[k] = I!NoJob
      <4>1. k = i /\ ~I!Usable(ch)  BY <1>f, <2>2, <3>2
      <4>2. job'[k].by = signer /\ signer \in Owners /\ installed = signer
        BY <1>a, <1>f, <4>1 DEF SignersTyped
      <4>3. stage[signer] \in {"attaching", "running", "half"}  BY <1>a, <4>2 DEF Installed
      <4>4. QED BY <4>2, <4>3
    <3>3. QED BY <3>1, <3>2
  <2>3. QED BY <1>j, <2>1, <2>2 DEF CacheHolds, I!NoJob, I!NoChallenge, I!Audit
<1>4. OneSigning'
  <2>1. CASE I!Usable(ch)
    <3>1. job' = job /\ cache' = cache  BY <1>f, <2>1
    <3>2. QED BY <1>a, <1>j, <3>1 DEF OneSigning, I!Audit
  <2>2. CASE ~I!Usable(ch)
    <3>1. ASSUME NEW k \in I!Jobs, k # i, job'[k].state = "signing"
          PROVE  /\ job'[k] = job[k] /\ job[k].state = "signing"
                 /\ I!Audit(job[k].challenge) = A => signer # job[k].by
                 /\ cache'[I!Audit(job[k].challenge)] = k \/ signer # job[k].by
      <4>1. job'[k] = job[k]  BY <1>f, <3>1
      <4>2. job[k] # I!NoJob  BY <3>1, <4>1 DEF I!NoJob
      <4>3. I!Audit(job[k].challenge) \in Audits
        <5>1. job[k] \in Grants  BY <1>t, <4>2
        <5>2. QED BY <5>1 DEF Grants, I!Limits
      <4>4. cache[I!Audit(job[k].challenge)] = k \/ signer # job[k].by
        BY <1>a, <3>1, <4>1 DEF OneSigning
      <4>5. ASSUME I!Audit(job[k].challenge) = A PROVE signer # job[k].by
        <5>1. SUFFICES ASSUME cache[A] = k PROVE FALSE  BY <4>4, <4>5
        <5>2. I!Usable(ch)  BY <1>g, <3>1, <4>1, <5>1 DEF I!Usable, I!Cached, I!Entry, A
        <5>3. QED BY <2>2, <5>2
      <4>6. I!Audit(job[k].challenge) # A =>
              cache'[I!Audit(job[k].challenge)] = cache[I!Audit(job[k].challenge)]
        BY <1>f, <1>t, <4>3
      <4>7. QED BY <3>1, <4>1, <4>4, <4>5, <4>6
    <3>2. cache'[A] = i  BY <1>f, <1>t
    <3>3. job'[i].by = signer /\ I!Audit(job'[i].challenge) = A  BY <1>f DEF A
    <3>4. \A k \in I!Jobs : job'[k].state = "signing" =>
             cache'[I!Audit(job'[k].challenge)] = k \/ signer # job'[k].by
      BY <3>1, <3>2, <3>3
    <3>5. ASSUME NEW k \in I!Jobs, NEW l \in I!Jobs, job'[k].state = "signing",
                 job'[l].state = "signing",
                 job'[k].by = job'[l].by,
                 I!Audit(job'[k].challenge) = I!Audit(job'[l].challenge), k # l
          PROVE  FALSE
      <4>1. CASE k = i  BY <3>1, <3>3, <3>5, <4>1
      <4>2. CASE l = i  BY <3>1, <3>3, <3>5, <4>2
      <4>3. CASE k # i /\ l # i
        <5>1. job'[k] = job[k] /\ job'[l] = job[l]  BY <3>1, <3>5, <4>3
        <5>2. QED BY <1>a, <3>5, <5>1 DEF OneSigning
      <4>4. QED BY <4>1, <4>2, <4>3
    <3>6. \A k, l \in I!Jobs :
            /\ job'[k].state = "signing" /\ job'[l].state = "signing" /\ job'[k].by = job'[l].by
            /\ I!Audit(job'[k].challenge) = I!Audit(job'[l].challenge)
            => k = l
      BY <3>5
    <3>7. QED BY <1>j, <3>4, <3>6 DEF OneSigning, I!Audit
  <2>3. QED BY <2>1, <2>2
<1>5. QED BY <1>1, <1>2, <1>3, <1>4

\* A step of those who ask leaves the signers alone.
LEMMA SignersStay ==
    ASSUME GrantsInv, UNCHANGED <<stage, I!subscriptionVars, aborted>>
    PROVE  SignersTyped' /\ Installed' /\ I!NoSubscriptionLeft'
<1>1. SignersTyped /\ Installed /\ I!NoSubscriptionLeft  BY DEF GrantsInv
<1>2. QED BY <1>1 DEF SignersTyped, Installed, I!NoSubscriptionLeft, I!subscriptionVars

\* A step that neither signs nor drops leaves the cache alone.
LEMMA GrantsStay ==
    ASSUME GrantsInv, UNCHANGED <<stage, signer, job, cache>>
    PROVE  CacheHolds' /\ OneSigning'
<1>1. CacheHolds /\ OneSigning  BY DEF GrantsInv
<1>2. QED BY <1>1 DEF CacheHolds, OneSigning, I!Jobs, I!NoJob, I!NoChallenge, I!Audit

\* No more requests wait at a subscription than before.
LEMMA AwaitingShrinks ==
    ASSUME I!Limits, AskersTyped, NEW o \in Owners, I!Awaiting(o)' \subseteq I!Awaiting(o)
    PROVE  Cardinality(I!Awaiting(o)') <= MaxAwaiting
<1>1. IsFiniteSet(Requests) /\ MaxAwaiting \in Nat  BY SameCounting DEF I!Limits
<1>2. I!Awaiting(o) \subseteq Requests  BY DEF I!Awaiting
<1>3. IsFiniteSet(I!Awaiting(o)) /\ Cardinality(I!Awaiting(o)) <= MaxAwaiting
  BY <1>1, <1>2, FS_Subset DEF AskersTyped
<1>4. Cardinality(I!Awaiting(o)') <= Cardinality(I!Awaiting(o)) /\ IsFiniteSet(I!Awaiting(o)')
  BY <1>3, FS_Subset
<1>5. Cardinality(I!Awaiting(o)') \in Nat /\ Cardinality(I!Awaiting(o)) \in Nat
  BY <1>3, <1>4, FS_CardinalityType
<1>6. QED BY <1>1, <1>3, <1>4, <1>5

\* A signing keeps its challenge.
JobsLast ==
    \A k \in I!Jobs : job[k] # I!NoJob
       => job'[k] # I!NoJob /\ job'[k].challenge = job[k].challenge

\* Whoever waits or was answered before has what was promised.
LEMMA AnswersKeep ==
    ASSUME I!Limits, GrantsInv, JobsLast, published \subseteq published',
           \A c \in Callers : caller'[c].state \in {"waiting", "done"} =>
               \/ /\ caller[c].state \in {"waiting", "done"}
                  /\ caller'[c].job = caller[c].job /\ caller'[c].challenge = caller[c].challenge
               \/ Promised(caller[c])',
           \A c \in Callers : caller'[c].state = "done" => caller'[c].job \in published',
           \A r \in Requests : request'[r].state \in {"waiting", "answered"} =>
               \/ /\ request[r].state \in {"waiting", "answered"}
                  /\ request'[r].job = request[r].job
                  /\ request'[r].challenge = request[r].challenge
               \/ Promised(request[r])',
           \A o \in Owners : promise'[o] # 0 =>
               promise'[o] = promise[o] \/ job'[promise'[o]] # I!NoJob
    PROVE  AnswersHold'
<1>a. AnswersHold /\ AskersTyped /\ GrantsTyped  BY DEF GrantsInv
<1>b. MaxJobs \in Nat  BY DEF I!Limits
<1>1. ASSUME NEW x, NEW y, x.job \in 0..MaxJobs, Promised(x), y.job = x.job,
             y.challenge = x.challenge
      PROVE  y.job # 0 /\ job'[y.job] # I!NoJob /\ job'[y.job].challenge = y.challenge
  <2>1. x.job \in I!Jobs  BY <1>1, <1>b DEF Promised, I!Jobs
  <2>2. QED BY <1>1, <2>1 DEF Promised, JobsLast
<1>2. ASSUME NEW c \in Callers, caller'[c].state \in {"waiting", "done"}
      PROVE  Promised(caller[c])'
  <2>1. CASE Promised(caller[c])'  BY <2>1
  <2>2. CASE /\ caller[c].state \in {"waiting", "done"}
             /\ caller'[c].job = caller[c].job /\ caller'[c].challenge = caller[c].challenge
    <3>1. Promised(caller[c])  BY <1>a, <2>2 DEF AnswersHold
    <3>2. caller[c].job \in 0..MaxJobs  BY <1>a DEF AskersTyped, Asked
    <3>3. /\ caller'[c].job # 0 /\ job'[caller'[c].job] # I!NoJob
          /\ job'[caller'[c].job].challenge = caller'[c].challenge
      BY <1>1, <2>2, <3>1, <3>2
    <3>4. QED BY <3>3 DEF Promised, I!NoJob, I!NoChallenge
  <2>3. QED BY <1>2, <2>1, <2>2
<1>3. ASSUME NEW r \in Requests, request'[r].state \in {"waiting", "answered"}
      PROVE  Promised(request[r])'
  <2>1. CASE Promised(request[r])'  BY <2>1
  <2>2. CASE /\ request[r].state \in {"waiting", "answered"}
             /\ request'[r].job = request[r].job /\ request'[r].challenge = request[r].challenge
    <3>1. Promised(request[r])  BY <1>a, <2>2 DEF AnswersHold
    <3>2. request[r].job \in 0..MaxJobs  BY <1>a DEF AskersTyped, Asked
    <3>3. /\ request'[r].job # 0 /\ job'[request'[r].job] # I!NoJob
          /\ job'[request'[r].job].challenge = request'[r].challenge
      BY <1>1, <2>2, <3>1, <3>2
    <3>4. QED BY <3>3 DEF Promised, I!NoJob, I!NoChallenge
  <2>3. QED BY <1>3, <2>1, <2>2
<1>4. ASSUME NEW o \in Owners, promise'[o] # 0 PROVE job'[promise'[o]] # I!NoJob
  <2>1. CASE promise'[o] = promise[o]
    <3>1. promise[o] \in I!Jobs /\ job[promise[o]] # I!NoJob
      BY <1>4, <1>a, <1>b, <2>1 DEF AnswersHold, GrantsTyped, I!Jobs
    <3>2. QED BY <2>1, <3>1 DEF JobsLast
  <2>2. QED BY <1>4, <2>1
<1>5. QED BY <1>2, <1>3, <1>4 DEF AnswersHold, I!NoJob, I!NoChallenge

\* A status call gets its answer, or waits for one.
LEMMA EndsFacts ==
    ASSUME I!Limits, AskersTyped, NEW c \in Callers, NEW i \in 0..MaxJobs,
           NEW how \in CallerStates,
           how # "absent", I!Ends(c, i, how), caller[c].state = "idle", UNCHANGED request
    PROVE  /\ AskersTyped'
           /\ caller'[c].state = how /\ caller'[c].job = i
           /\ caller'[c].challenge = caller[c].challenge /\ caller[c].challenge \in Challenges
           /\ \A d \in Callers : d # c => caller'[d] = caller[d]
<1>1. caller \in [Callers -> Asked(CallerStates)] /\ caller[c].challenge \in Challenges
  BY DEF AskersTyped
<1>2. caller' = [caller EXCEPT ![c] = [caller[c] EXCEPT !.state = how, !.job = i]]
  BY <1>1 DEF I!Ends
<1>3. caller[c] \in Asked(CallerStates)  BY <1>1
<1>4. /\ [caller[c] EXCEPT !.state = how, !.job = i] \in Asked(CallerStates)
      /\ [caller[c] EXCEPT !.state = how, !.job = i].state = how
      /\ [caller[c] EXCEPT !.state = how, !.job = i].job = i
      /\ [caller[c] EXCEPT !.state = how, !.job = i].challenge = caller[c].challenge
  BY <1>3 DEF Asked
<1>5. /\ caller' \in [Callers -> Asked(CallerStates)]
      /\ caller'[c] = [caller[c] EXCEPT !.state = how, !.job = i]
      /\ \A d \in Callers : d # c => caller'[d] = caller[d]
  BY <1>1, <1>2, <1>4
<1>6. \A d \in Callers : caller'[d].state # "absent" => caller'[d].challenge \in Challenges
  BY <1>1, <1>4, <1>5 DEF AskersTyped
<1>7. AskersTyped'
  BY <1>5, <1>6 DEF AskersTyped, Asked, I!NoChallenge, I!Awaiting, CallerStates, RequestStates
<1>8. QED BY <1>1, <1>4, <1>5, <1>7

\* transferStatus with a challenge: refused, shared, or a signing of its own.
LEMMA CallerStep ==
    ASSUME I!Limits, GrantsInv, NEW c \in Callers, I!SubmitIfPresent(c)
    PROVE  GrantsInv'
<1> DEFINE ch == caller[c].challenge
<1> DEFINE A == I!Audit(ch)
<1>a. /\ GrantsTyped /\ AskersTyped /\ SubmissionHolds /\ CacheHolds /\ AnswersHold
  BY DEF GrantsInv
<1>b. MaxJobs \in Nat  BY DEF I!Limits
<1>u. /\ caller[c].state = "idle"
      /\ UNCHANGED <<stage, I!subscriptionVars, aborted, published, request, promise, mishaps>>
  BY DEF I!SubmitIfPresent
<1>c. ch \in Challenges /\ A \in Audits
  BY <1>a, <1>u DEF AskersTyped, I!Limits
<1>t. /\ job \in [I!Jobs -> Grants \union {I!NoJob}] /\ cache \in [Audits -> 0..MaxJobs]
      /\ submission \in [Audits -> 0..MaxJobs] /\ sending \in [I!Jobs -> 0..1]
  BY <1>a DEF GrantsTyped
<1>j. I!Jobs' = I!Jobs /\ I!Jobs \subseteq 0..MaxJobs /\ \A k \in I!Jobs : k # 0
  BY <1>b DEF I!Jobs
<1>s. SignersTyped' /\ Installed' /\ I!NoSubscriptionLeft'  BY <1>u, SignersStay
<1>1. ASSUME NEW i \in 0..MaxJobs, NEW how \in {"done", "waiting", "error"}, I!Ends(c, i, how),
             UNCHANGED I!grantVars,
             how # "error" => i # 0 /\ job[i] # I!NoJob /\ job[i].challenge = ch,
             how = "done" => i \in published
      PROVE  GrantsInv'
  <2>1. how \in CallerStates /\ how # "absent"  BY DEF CallerStates
  <2>2. /\ AskersTyped' /\ caller'[c].state = how /\ caller'[c].job = i
        /\ caller'[c].challenge = ch /\ \A d \in Callers : d # c => caller'[d] = caller[d]
    BY <1>1, <1>a, <1>u, <2>1, EndsFacts
  <2>3. JobsLast  BY <1>1 DEF JobsLast, I!grantVars
  <2>4. how # "error" => Promised(caller[c])'
    BY <1>1, <2>2 DEF Promised, I!NoJob, I!NoChallenge, I!grantVars
  <2>5. AnswersHold'
    <3>1. \A d \in Callers : caller'[d].state \in {"waiting", "done"} =>
               \/ /\ caller[d].state \in {"waiting", "done"}
                  /\ caller'[d].job = caller[d].job /\ caller'[d].challenge = caller[d].challenge
               \/ Promised(caller[d])'
      BY <2>2, <2>4
    <3>2. \A d \in Callers : caller'[d].state = "done" => caller'[d].job \in published'
      BY <1>1, <1>a, <1>u, <2>2 DEF AnswersHold
    <3>3. QED BY <1>u, <2>3, <3>1, <3>2, AnswersKeep
  <2>6. CacheHolds' /\ OneSigning'
    <3>1. UNCHANGED <<stage, signer, job, cache>>
      BY <1>1, <1>u DEF I!grantVars, I!subscriptionVars
    <3>2. QED BY <3>1, GrantsStay
  <2>7. GrantsTyped'
    BY <1>1, <1>a, <1>u DEF GrantsTyped, I!grantVars, I!Jobs, Grants, I!NoJob, I!NoChallenge
  <2>8. SubmissionHolds'
    BY <1>1, <1>a, <1>u DEF SubmissionHolds, I!grantVars, I!Jobs, I!NoJob, I!NoChallenge, I!Audit
  <2>9. QED BY <1>s, <2>2, <2>5, <2>6, <2>7, <2>8 DEF GrantsInv
<1>2. CASE I!Ends(c, 0, "error") /\ UNCHANGED I!grantVars
  <2>1. 0 \in 0..MaxJobs  BY <1>b
  <2>2. QED BY <1>1, <1>2, <2>1
<1>3. CASE /\ ~I!Changed(ch) /\ I!Submitted(ch) /\ UNCHANGED I!grantVars
           /\ I!Ends(c, submission[A], IF I!Fulfilled(submission[A]) THEN "done" ELSE "waiting")
  <2> DEFINE i == submission[A]
  <2>1. i # 0 /\ i = cache[A] /\ (sending[i] = 1 \/ i \in published)
    BY <1>3, <1>a, <1>c DEF I!Submitted, SubmissionHolds
  <2>2. i \in 0..MaxJobs  BY <1>c, <1>t
  <2>3. job[i] # I!NoJob  BY <1>a, <1>c, <2>1 DEF CacheHolds
  <2>4. job[i].challenge = ch  BY <1>3, <2>1 DEF I!Changed, I!Cached, I!Entry
  <2>5. I!Fulfilled(i) => i \in published  BY <2>1 DEF I!Fulfilled
  <2>6. QED BY <1>1, <1>3, <2>1, <2>2, <2>3, <2>4, <2>5
<1>4. CASE /\ ~I!Changed(ch) /\ ~I!Submitted(ch) /\ ~I!Refused(ch)
           /\ I!Obtain(ch) /\ I!Ends(c, I!Granted(ch), "waiting")
           /\ submission' = [submission EXCEPT ![A] = I!Granted(ch)]
           /\ sending' = [sending EXCEPT ![I!Granted(ch)] = @ + 1]
  <2> DEFINE i == I!Granted(ch)
  <2>1. /\ i \in I!Jobs
        /\ job' \in [I!Jobs -> Grants \union {I!NoJob}]
        /\ \A k \in I!Jobs : job[k] # I!NoJob \/ k # i => job'[k] = job[k]
        /\ job'[i] # I!NoJob /\ job'[i].challenge = ch
        /\ cache' = [cache EXCEPT ![A] = i]
        /\ I!Usable(ch) => job' = job /\ cache' = cache
        /\ ~I!Usable(ch) => job[i] = I!NoJob
    BY <1>4, <1>c, ObtainFacts
  <2>2. /\ cache' \in [Audits -> 0..MaxJobs]
        /\ Cardinality({a \in Audits : cache'[a] # 0}) <= MaxGrants
        /\ CacheHolds' /\ OneSigning'
    BY <1>4, <1>c, <1>u, ObtainKeeps DEF I!subscriptionVars
  <2>i. i # 0 /\ i \in 0..MaxJobs  BY <1>j, <2>1
  <2>e. I!Ends(c, i, "waiting") /\ submission' = [submission EXCEPT ![A] = i]
        /\ sending' = [sending EXCEPT ![i] = @ + 1]
    BY <1>4
  <2>o. ~I!Submitted(ch)  BY <1>4
  <2> HIDE DEF i
  <2>3. sending[i] = 0
    <3>1. SUFFICES ASSUME sending[i] = 1 PROVE FALSE  BY <1>t, <2>1
    <3>2. job[i] # I!NoJob
             /\ (cache[I!Audit(job[i].challenge)] = i => submission[I!Audit(job[i].challenge)] = i)
      BY <1>a, <2>1, <3>1 DEF SubmissionHolds
    <3>3. I!Usable(ch) /\ job[i].challenge = ch  BY <2>1, <3>2
    <3>4. cache[A] = i  BY <1>c, <1>t, <2>1, <3>3
    <3>5. submission[A] = i  BY <3>2, <3>3, <3>4
    <3>6. QED BY <2>i, <2>o, <3>3, <3>5 DEF I!Submitted
  <2>4. /\ submission' \in [Audits -> 0..MaxJobs] /\ sending' \in [I!Jobs -> 0..1]
        /\ sending'[i] = 1 /\ \A k \in I!Jobs : k # i => sending'[k] = sending[k]
        /\ submission'[A] = i /\ cache'[A] = i
        /\ \A a \in Audits : a # A => submission'[a] = submission[a] /\ cache'[a] = cache[a]
    BY <1>c, <1>t, <2>1, <2>i, <2>e, <2>3
  <2>5. GrantsTyped'
    BY <1>a, <1>u, <2>1, <2>2, <2>4 DEF GrantsTyped, I!Jobs, Grants, I!NoJob, I!NoChallenge
  <2>6. SubmissionHolds'
    <3>1. ASSUME NEW a \in Audits, submission'[a] # 0
          PROVE  submission'[a] = cache'[a]
                    /\ (sending'[cache'[a]] = 1 \/ cache'[a] \in published')
      <4>1. CASE a = A  BY <2>4, <4>1
      <4>2. CASE a # A
        <5>1. /\ submission'[a] = submission[a] /\ cache'[a] = cache[a]
              /\ submission[a] # 0 /\ submission[a] = cache[a]
              /\ (sending[cache[a]] = 1 \/ cache[a] \in published)
          BY <1>a, <2>4, <3>1, <4>2 DEF SubmissionHolds
        <5>2. cache[a] \in I!Jobs  BY <1>b, <1>t, <5>1 DEF I!Jobs
        <5>3. QED BY <1>u, <2>4, <5>1, <5>2
      <4>3. QED BY <4>1, <4>2
    <3>2. ASSUME NEW k \in I!Jobs, sending'[k] = 1
          PROVE  /\ job'[k] # I!NoJob
                 /\ cache'[I!Audit(job'[k].challenge)] = k
                       => submission'[I!Audit(job'[k].challenge)] = k
      <4>1. CASE k = i  BY <2>1, <2>4, <4>1
      <4>2. CASE k # i
        <5>1. /\ sending[k] = 1 /\ job'[k] = job[k] /\ job[k] # I!NoJob
              /\ cache[I!Audit(job[k].challenge)] = k => submission[I!Audit(job[k].challenge)] = k
          BY <1>a, <2>1, <2>4, <3>2, <4>2 DEF SubmissionHolds
        <5>2. I!Audit(job[k].challenge) \in Audits
          <6>1. job[k] \in Grants  BY <1>t, <5>1
          <6>2. QED BY <6>1 DEF Grants, I!Limits
        <5>3. QED BY <2>4, <4>2, <5>1, <5>2
      <4>3. QED BY <4>1, <4>2
    <3>3. QED BY <1>j, <3>1, <3>2 DEF SubmissionHolds, I!NoJob, I!NoChallenge, I!Audit
  <2>7. JobsLast  BY <2>1 DEF JobsLast
  <2>8. /\ AskersTyped' /\ caller'[c].state = "waiting" /\ caller'[c].job = i
        /\ caller'[c].challenge = ch /\ \A d \in Callers : d # c => caller'[d] = caller[d]
    <3>1. "waiting" \in CallerStates  BY DEF CallerStates
    <3>2. QED BY <1>a, <1>u, <2>e, <2>i, <3>1, EndsFacts
  <2>9. Promised(caller[c])'
    BY <2>1, <2>i, <2>8 DEF Promised, I!NoJob, I!NoChallenge
  <2>10. AnswersHold'
    <3>1. \A d \in Callers : caller'[d].state \in {"waiting", "done"} =>
               \/ /\ caller[d].state \in {"waiting", "done"}
                  /\ caller'[d].job = caller[d].job /\ caller'[d].challenge = caller[d].challenge
               \/ Promised(caller[d])'
      BY <2>8, <2>9
    <3>2. \A d \in Callers : caller'[d].state = "done" => caller'[d].job \in published'
      BY <1>a, <1>u, <2>8 DEF AnswersHold
    <3>3. QED BY <1>u, <2>7, <3>1, <3>2, AnswersKeep
  <2>11. QED BY <1>s, <2>2, <2>5, <2>6, <2>8, <2>10 DEF GrantsInv
<1>5. QED BY <1>2, <1>3, <1>4 DEF I!SubmitIfPresent

\* A message gets its answer, or waits for one.
LEMMA RepliedFacts ==
    ASSUME I!Limits, AskersTyped, NEW r \in Requests, NEW o \in Owners, NEW i \in 0..MaxJobs,
           NEW how \in RequestStates, how # "absent", I!Replied(r, o, i, how),
           request[r].state = "idle", UNCHANGED caller,
           how = "waiting" => Cardinality(I!Awaiting(o)) < MaxAwaiting
    PROVE  /\ AskersTyped'
           /\ request'[r].state = how /\ request'[r].job = i
           /\ request'[r].challenge = request[r].challenge /\ request[r].challenge \in Challenges
           /\ \A q \in Requests : q # r => request'[q] = request[q]
<1>1. request \in [Requests -> Asked(RequestStates)] /\ request[r].challenge \in Challenges
  BY DEF AskersTyped
<1>2. request' = [request EXCEPT ![r] = [request[r] EXCEPT !.state = how, !.job = i, !.at = o]]
  BY <1>1 DEF I!Replied
<1>3. request[r] \in Asked(RequestStates)  BY <1>1
<1> DEFINE new == [request[r] EXCEPT !.state = how, !.job = i, !.at = o]
<1>4. /\ new \in Asked(RequestStates) /\ new.state = how /\ new.job = i /\ new.at = o
      /\ new.challenge = request[r].challenge
  BY <1>3 DEF Asked
<1>5. /\ request' \in [Requests -> Asked(RequestStates)] /\ request'[r] = new
      /\ \A q \in Requests : q # r => request'[q] = request[q]
  BY <1>1, <1>2, <1>4
<1>6. \A q \in Requests : request'[q].state # "absent" => request'[q].challenge \in Challenges
  BY <1>1, <1>4, <1>5 DEF AskersTyped
<1>7. ASSUME NEW p \in Owners PROVE Cardinality(I!Awaiting(p)') <= MaxAwaiting
  <2>1. CASE p # o \/ how # "waiting"
    <3>1. r \notin I!Awaiting(p)'  BY <1>4, <1>5, <2>1 DEF I!Awaiting
    <3>2. I!Awaiting(p)' \subseteq I!Awaiting(p)  BY <1>5, <3>1 DEF I!Awaiting
    <3>3. QED BY <3>2, AwaitingShrinks
  <2>2. CASE p = o /\ how = "waiting"
    <3>1. IsFiniteSet(Requests) /\ MaxAwaiting \in Nat  BY SameCounting DEF I!Limits
    <3>2. IsFiniteSet(I!Awaiting(o)) /\ Cardinality(I!Awaiting(o)) \in Nat
      <4>1. I!Awaiting(o) \subseteq Requests  BY DEF I!Awaiting
      <4>2. QED BY <3>1, <4>1, FS_Subset, FS_CardinalityType
    <3>3. r \notin I!Awaiting(o)  BY DEF I!Awaiting
    <3>4. I!Awaiting(o)' = I!Awaiting(o) \union {r}  BY <1>4, <1>5, <2>2 DEF I!Awaiting
    <3>5. Cardinality(I!Awaiting(o) \union {r}) = Cardinality(I!Awaiting(o)) + 1
      BY <3>2, <3>3, FS_AddElement
    <3>6. Cardinality(I!Awaiting(o)) < MaxAwaiting  BY <2>2
    <3>7. QED BY <2>2, <3>1, <3>2, <3>4, <3>5, <3>6
  <2>3. QED BY <2>1, <2>2
<1>8. AskersTyped'
  BY <1>5, <1>6, <1>7 DEF AskersTyped, Asked, I!NoChallenge, CallerStates, RequestStates
<1>9. QED BY <1>1, <1>4, <1>5, <1>8

\* A message of the Runtime: put off, joined to a signing, answered, or a signing of its own.
LEMMA MessageStep ==
    ASSUME I!Limits, GrantsInv, NEW r \in Requests, NEW o \in Owners, I!Message(r, o)
    PROVE  GrantsInv'
<1> DEFINE ch == request[r].challenge
<1> DEFINE A == I!Audit(ch)
<1>a. /\ GrantsTyped /\ AskersTyped /\ SubmissionHolds /\ CacheHolds /\ AnswersHold
  BY DEF GrantsInv
<1>b. MaxJobs \in Nat /\ MaxAwaiting \in Nat  BY DEF I!Limits
<1>u. /\ request[r].state = "idle"
      /\ UNCHANGED <<stage, I!subscriptionVars, aborted, sending, published, caller, mishaps>>
  BY DEF I!Message
<1>c. ch \in Challenges /\ A \in Audits
  BY <1>a, <1>u DEF AskersTyped, I!Limits
<1>t. /\ job \in [I!Jobs -> Grants \union {I!NoJob}] /\ cache \in [Audits -> 0..MaxJobs]
      /\ submission \in [Audits -> 0..MaxJobs] /\ sending \in [I!Jobs -> 0..1]
      /\ promise \in [Owners -> 0..MaxJobs]
  BY <1>a DEF GrantsTyped
<1>j. I!Jobs' = I!Jobs /\ I!Jobs \subseteq 0..MaxJobs /\ \A k \in I!Jobs : k # 0
  BY <1>b DEF I!Jobs
<1>s. SignersTyped' /\ Installed' /\ I!NoSubscriptionLeft'  BY <1>u, SignersStay
<1>k. Cardinality(I!Awaiting(o)) \in Nat
  <2>1. IsFiniteSet(Requests) /\ I!Awaiting(o) \subseteq Requests
    BY SameCounting DEF I!Awaiting, I!Limits
  <2>2. QED BY <2>1, FS_Subset, FS_CardinalityType
<1>1. ASSUME NEW i \in 0..MaxJobs, NEW how \in {"retry", "waiting", "answered"},
             I!Replied(r, o, i, how), UNCHANGED <<job, cache, submission, promise>>,
             how = "waiting" => Cardinality(I!Awaiting(o)) < MaxAwaiting,
             how # "retry" => i # 0 /\ job[i] # I!NoJob /\ job[i].challenge = ch
      PROVE  GrantsInv'
  <2>1. how \in RequestStates /\ how # "absent"  BY DEF RequestStates
  <2>2. /\ AskersTyped' /\ request'[r].state = how /\ request'[r].job = i
        /\ request'[r].challenge = ch /\ \A q \in Requests : q # r => request'[q] = request[q]
    BY <1>1, <1>a, <1>u, <2>1, RepliedFacts
  <2>3. JobsLast  BY <1>1 DEF JobsLast
  <2>4. how # "retry" => Promised(request[r])'
    BY <1>1, <2>2 DEF Promised, I!NoJob, I!NoChallenge
  <2>5. AnswersHold'
    <3>1. \A q \in Requests : request'[q].state \in {"waiting", "answered"} =>
               \/ /\ request[q].state \in {"waiting", "answered"}
                  /\ request'[q].job = request[q].job
                  /\ request'[q].challenge = request[q].challenge
               \/ Promised(request[q])'
      BY <2>2, <2>4
    <3>2. \A d \in Callers : caller'[d].state = "done" => caller'[d].job \in published'
      BY <1>a, <1>u DEF AnswersHold
    <3>3. QED BY <1>1, <1>u, <2>3, <3>1, <3>2, AnswersKeep
  <2>6. CacheHolds' /\ OneSigning'
    <3>1. UNCHANGED <<stage, signer, job, cache>>  BY <1>1, <1>u DEF I!subscriptionVars
    <3>2. QED BY <3>1, GrantsStay
  <2>7. GrantsTyped'
    BY <1>1, <1>a, <1>u DEF GrantsTyped, I!Jobs, Grants, I!NoJob, I!NoChallenge
  <2>8. SubmissionHolds'
    BY <1>1, <1>a, <1>u DEF SubmissionHolds, I!Jobs, I!NoJob, I!NoChallenge, I!Audit
  <2>9. QED BY <1>s, <2>2, <2>5, <2>6, <2>7, <2>8 DEF GrantsInv
<1>2. CASE I!Replied(r, o, 0, "retry") /\ UNCHANGED <<job, cache, submission, promise>>
  <2>1. 0 \in 0..MaxJobs  BY <1>b
  <2>2. QED BY <1>1, <1>2, <2>1
<1>3. CASE /\ ~(Cardinality(I!Awaiting(o)) >= MaxAwaiting) /\ ~I!Conflict(o, ch) /\ promise[o] # 0
           /\ I!Replied(r, o, promise[o], "waiting")
           /\ UNCHANGED <<job, cache, submission, promise>>
  <2>1. promise[o] \in 0..MaxJobs /\ job[promise[o]] # I!NoJob
    BY <1>3, <1>a, <1>t DEF AnswersHold
  <2>2. job[promise[o]].challenge = ch  BY <1>3 DEF I!Conflict
  <2>3. Cardinality(I!Awaiting(o)) < MaxAwaiting  BY <1>3, <1>b, <1>k
  <2>4. QED BY <1>1, <1>3, <2>1, <2>2, <2>3
<1>4. CASE /\ ~I!Refused(ch) /\ I!Usable(ch) /\ I!Replied(r, o, I!Granted(ch), "answered")
           /\ UNCHANGED <<job, cache, submission, promise>>
  <2> DEFINE i == cache[A]
  <2>1. I!Granted(ch) = i /\ i # 0 /\ job[i].challenge = ch
    BY <1>4 DEF I!Granted, I!Refused, I!Changed, I!Cached, I!Entry, I!Usable
  <2>2. job[i] # I!NoJob /\ i \in 0..MaxJobs  BY <1>a, <1>c, <1>t, <2>1 DEF CacheHolds
  <2>3. I!Replied(r, o, i, "answered")  BY <1>4, <2>1
  <2> HIDE DEF i
  <2>4. QED BY <1>1, <1>4, <2>1, <2>2, <2>3
<1>5. CASE /\ ~(Cardinality(I!Awaiting(o)) >= MaxAwaiting) /\ ~I!Refused(ch)
           /\ I!Obtain(ch) /\ I!Replied(r, o, I!Granted(ch), "waiting")
           /\ submission' = IF I!Usable(ch) THEN submission ELSE [submission EXCEPT ![A] = 0]
           /\ promise' = [promise EXCEPT ![o] = I!Granted(ch)]
  <2> DEFINE i == I!Granted(ch)
  <2>1. /\ i \in I!Jobs
        /\ job' \in [I!Jobs -> Grants \union {I!NoJob}]
        /\ \A k \in I!Jobs : job[k] # I!NoJob \/ k # i => job'[k] = job[k]
        /\ job'[i] # I!NoJob /\ job'[i].challenge = ch
        /\ cache' = [cache EXCEPT ![A] = i]
        /\ I!Usable(ch) => job' = job /\ cache' = cache
        /\ ~I!Usable(ch) => job[i] = I!NoJob
    BY <1>5, <1>c, ObtainFacts
  <2>2. /\ cache' \in [Audits -> 0..MaxJobs]
        /\ Cardinality({a \in Audits : cache'[a] # 0}) <= MaxGrants
        /\ CacheHolds' /\ OneSigning'
    BY <1>5, <1>c, <1>u, ObtainKeeps DEF I!subscriptionVars
  <2>i. i # 0 /\ i \in 0..MaxJobs  BY <1>j, <2>1
  <2>e. /\ I!Replied(r, o, i, "waiting") /\ promise' = [promise EXCEPT ![o] = i]
        /\ submission' = IF I!Usable(ch) THEN submission ELSE [submission EXCEPT ![A] = 0]
        /\ Cardinality(I!Awaiting(o)) < MaxAwaiting
    BY <1>5, <1>b, <1>k
  <2> HIDE DEF i
  <2>3. /\ submission' \in [Audits -> 0..MaxJobs] /\ promise' \in [Owners -> 0..MaxJobs]
        /\ \A p \in Owners : promise'[p] \in {promise[p], i}
        /\ \A a \in Audits : a # A => submission'[a] = submission[a] /\ cache'[a] = cache[a]
        /\ cache'[A] = i /\ (~I!Usable(ch) => submission'[A] = 0)
    <3>1. 0 \in 0..MaxJobs  BY <1>b
    <3>2. QED BY <1>c, <1>t, <2>1, <2>i, <2>e, <3>1
  <2>4. GrantsTyped'
    BY <1>a, <1>u, <2>1, <2>2, <2>3 DEF GrantsTyped, I!Jobs, Grants, I!NoJob, I!NoChallenge
  <2>5. SubmissionHolds'
    <3>1. CASE I!Usable(ch)
      <4>1. UNCHANGED <<submission, cache, job, sending, published>>
        BY <1>u, <2>1, <2>e, <3>1
      <4>2. QED BY <1>a, <4>1 DEF SubmissionHolds, I!Jobs, I!NoJob, I!NoChallenge, I!Audit
    <3>2. CASE ~I!Usable(ch)
      <4>1. ASSUME NEW a \in Audits, submission'[a] # 0
            PROVE  submission'[a] = cache'[a]
                      /\ (sending'[cache'[a]] = 1 \/ cache'[a] \in published')
        <5>1. a # A  BY <2>3, <3>2, <4>1
        <5>2. submission'[a] = submission[a] /\ cache'[a] = cache[a]  BY <2>3, <5>1
        <5>3. QED BY <1>a, <1>u, <4>1, <5>2 DEF SubmissionHolds
      <4>2. ASSUME NEW k \in I!Jobs, sending'[k] = 1
            PROVE  /\ job'[k] # I!NoJob
                   /\ cache'[I!Audit(job'[k].challenge)] = k
                         => submission'[I!Audit(job'[k].challenge)] = k
        <5>1. /\ job[k] # I!NoJob
              /\ cache[I!Audit(job[k].challenge)] = k => submission[I!Audit(job[k].challenge)] = k
          BY <1>a, <1>u, <4>2 DEF SubmissionHolds
        <5>2. k # i /\ job'[k] = job[k]  BY <2>1, <3>2, <5>1
        <5>3. I!Audit(job[k].challenge) \in Audits
          <6>1. job[k] \in Grants  BY <1>t, <5>1
          <6>2. QED BY <6>1 DEF Grants, I!Limits
        <5>4. QED BY <2>3, <5>1, <5>2, <5>3
      <4>3. QED BY <1>j, <4>1, <4>2 DEF SubmissionHolds, I!NoJob, I!NoChallenge, I!Audit
    <3>3. QED BY <3>1, <3>2
  <2>6. JobsLast  BY <2>1 DEF JobsLast
  <2>7. /\ AskersTyped' /\ request'[r].state = "waiting" /\ request'[r].job = i
        /\ request'[r].challenge = ch /\ \A q \in Requests : q # r => request'[q] = request[q]
    <3>1. "waiting" \in RequestStates  BY DEF RequestStates
    <3>2. QED BY <1>a, <1>u, <2>e, <2>i, <3>1, RepliedFacts
  <2>8. Promised(request[r])'
    BY <2>1, <2>i, <2>7 DEF Promised, I!NoJob, I!NoChallenge
  <2>9. AnswersHold'
    <3>1. \A q \in Requests : request'[q].state \in {"waiting", "answered"} =>
               \/ /\ request[q].state \in {"waiting", "answered"}
                  /\ request'[q].job = request[q].job
                  /\ request'[q].challenge = request[q].challenge
               \/ Promised(request[q])'
      BY <2>7, <2>8
    <3>2. \A d \in Callers : caller'[d].state = "done" => caller'[d].job \in published'
      BY <1>a, <1>u DEF AnswersHold
    <3>3. \A p \in Owners : promise'[p] # 0
             => promise'[p] = promise[p] \/ job'[promise'[p]] # I!NoJob
      BY <2>1, <2>3
    <3>4. QED BY <1>u, <2>6, <3>1, <3>2, <3>3, AnswersKeep
  <2>10. QED BY <1>s, <2>2, <2>4, <2>5, <2>7, <2>9 DEF GrantsInv
<1>6. QED BY <1>2, <1>3, <1>4, <1>5, SameCounting DEF I!Message

\* A signing goes on.
LEMMA JobMoves ==
    ASSUME GrantsTyped, NEW i \in I!Jobs, job[i].state # "none", NEW new \in {"fresh", "failed",
           "stale"},
           job' = [job EXCEPT ![i].state = new]
    PROVE  /\ job' \in [I!Jobs -> Grants \union {I!NoJob}]
           /\ \A k \in I!Jobs : k # i => job'[k] = job[k]
           /\ \A k \in I!Jobs : /\ job'[k].challenge = job[k].challenge /\ job'[k].by = job[k].by
                                /\ job[k] # I!NoJob <=> job'[k] # I!NoJob
           /\ job'[i].state = new
<1>1. job \in [I!Jobs -> Grants \union {I!NoJob}] /\ job[i] # I!NoJob  BY DEF GrantsTyped, I!NoJob
<1>2. job[i] \in Grants  BY <1>1
<1> DEFINE moved == [job[i] EXCEPT !.state = new]
<1>3. /\ moved \in Grants /\ moved.state = new /\ moved.challenge = job[i].challenge
      /\ moved.by = job[i].by
  BY <1>2 DEF Grants
<1>4. moved # I!NoJob  BY <1>3 DEF I!NoJob
<1>5. job' = [job EXCEPT ![i] = moved]  BY <1>1
<1> HIDE DEF moved
<1>6. job'[i] = moved /\ \A k \in I!Jobs : k # i => job'[k] = job[k]  BY <1>1, <1>5
<1>7. QED BY <1>1, <1>3, <1>4, <1>5, <1>6

\* The callers that wait for a submission end with it.
LEMMA CallersEndFacts ==
    ASSUME AskersTyped, NEW i, NEW how \in {"done", "error"}, I!CallersEnd(i, how)
    PROVE  /\ caller' \in [Callers -> Asked(CallerStates)]
           /\ \A c \in Callers :
                 /\ caller'[c].challenge = caller[c].challenge /\ caller'[c].job = caller[c].job
                 /\ \/ caller'[c].state = caller[c].state
                    \/ caller[c].state = "waiting" /\ caller[c].job = i /\ caller'[c].state = how
<1>1. caller \in [Callers -> Asked(CallerStates)]  BY DEF AskersTyped
<1>2. ASSUME NEW c \in Callers
      PROVE  /\ caller'[c] \in Asked(CallerStates)
             /\ caller'[c].challenge = caller[c].challenge /\ caller'[c].job = caller[c].job
             /\ \/ caller'[c].state = caller[c].state
                \/ caller[c].state = "waiting" /\ caller[c].job = i /\ caller'[c].state = how
  <2>1. caller[c] \in Asked(CallerStates)  BY <1>1
  <2>2. caller'[c] = IF caller[c].state = "waiting" /\ caller[c].job = i
                     THEN [caller[c] EXCEPT !.state = how] ELSE caller[c]
    BY DEF I!CallersEnd
  <2>3. /\ [caller[c] EXCEPT !.state = how] \in Asked(CallerStates)
        /\ [caller[c] EXCEPT !.state = how].state = how
        /\ [caller[c] EXCEPT !.state = how].challenge = caller[c].challenge
        /\ [caller[c] EXCEPT !.state = how].job = caller[c].job
    BY <2>1 DEF Asked, CallerStates
  <2>4. QED BY <2>1, <2>2, <2>3
<1>3. caller' = [c \in Callers |-> caller'[c]]  BY DEF I!CallersEnd
<1>4. caller' \in [Callers -> Asked(CallerStates)]  BY <1>2, <1>3
<1>5. QED BY <1>2, <1>4

\* Those who ask only come to an end.
LEMMA AskersEnd ==
    ASSUME I!Limits, AskersTyped,
           caller' \in [Callers -> Asked(CallerStates)],
           request' \in [Requests -> Asked(RequestStates)],
           \A c \in Callers : /\ caller'[c].challenge = caller[c].challenge
                              /\ caller[c].state = "absent" => caller'[c].state = "absent",
           \A r \in Requests : /\ request'[r].challenge = request[r].challenge
                               /\ request[r].state = "absent" => request'[r].state = "absent"
                               /\ request'[r].state = "waiting" => request'[r] = request[r]
    PROVE  AskersTyped'
<1>1. ASSUME NEW o \in Owners PROVE Cardinality(I!Awaiting(o)') <= MaxAwaiting
  <2>1. I!Awaiting(o)' \subseteq I!Awaiting(o)  BY DEF I!Awaiting
  <2>2. QED BY <2>1, AwaitingShrinks
<1>2. \A c \in Callers : caller'[c].state # "absent" => caller'[c].challenge \in Challenges
  BY DEF AskersTyped
<1>3. \A r \in Requests : request'[r].state # "absent" => request'[r].challenge \in Challenges
  BY DEF AskersTyped
<1>4. QED BY <1>1, <1>2, <1>3 DEF AskersTyped, Asked, I!NoChallenge, CallerStates, RequestStates

\* Entries only leave the cache, and signings only end.
LEMMA GrantsShrink ==
    ASSUME I!Limits, GrantsInv, UNCHANGED <<stage, signer>>,
           job' \in [I!Jobs -> Grants \union {I!NoJob}],
           \A k \in I!Jobs : /\ job'[k].challenge = job[k].challenge /\ job'[k].by = job[k].by
                             /\ job[k] # I!NoJob <=> job'[k] # I!NoJob
                             /\ job'[k].state = "signing" => job[k].state = "signing",
           cache' \in [Audits -> 0..MaxJobs],
           \A a \in Audits : cache'[a] = cache[a] \/ /\ cache'[a] = 0 /\ cache[a] \in I!Jobs
                                                     /\ job'[cache[a]].state # "signing"
    PROVE  /\ CacheHolds' /\ OneSigning' /\ JobsLast
           /\ Cardinality({a \in Audits : cache'[a] # 0}) <= MaxGrants
<1>a. GrantsTyped /\ CacheHolds /\ OneSigning  BY DEF GrantsInv
<1>b. MaxJobs \in Nat /\ MaxGrants \in Nat /\ IsFiniteSet(Audits)  BY SameCounting DEF I!Limits
<1>j. I!Jobs' = I!Jobs  BY DEF I!Jobs
<1>1. CacheHolds'
  <2>1. ASSUME NEW a \in Audits, cache'[a] # 0
        PROVE  /\ job'[cache'[a]] # I!NoJob /\ I!Audit(job'[cache'[a]].challenge) = a
               /\ job'[cache'[a]].by = signer
    <3>1. cache'[a] = cache[a]  BY <2>1
    <3>2. cache[a] \in I!Jobs  BY <1>a, <1>b, <2>1, <3>1 DEF GrantsTyped, I!Jobs
    <3>3. QED BY <1>a, <2>1, <3>1, <3>2 DEF CacheHolds
  <2>2. \A k \in I!Jobs : job'[k] # I!NoJob => stage[job'[k].by] \notin {"idle", "subscribing"}
    BY <1>a DEF CacheHolds
  <2>3. QED BY <1>j, <2>1, <2>2 DEF CacheHolds, I!NoJob, I!NoChallenge, I!Audit
<1>2. OneSigning'
  <2>1. ASSUME NEW k \in I!Jobs, job'[k].state = "signing"
        PROVE  cache'[I!Audit(job'[k].challenge)] = k \/ signer # job'[k].by
    <3>1. cache[I!Audit(job[k].challenge)] = k \/ signer # job[k].by
      BY <1>a, <2>1 DEF OneSigning
    <3>2. job[k] # I!NoJob
      <4>1. job[k].state = "signing"  BY <2>1
      <4>2. QED BY <4>1 DEF I!NoJob
    <3>3. I!Audit(job[k].challenge) \in Audits
      <4>1. job[k] \in Grants  BY <1>a, <3>2 DEF GrantsTyped
      <4>2. QED BY <4>1 DEF Grants, I!Limits
    <3>4. QED BY <2>1, <3>1, <3>3
  <2>2. ASSUME NEW k \in I!Jobs, NEW l \in I!Jobs, job'[k].state = "signing",
               job'[l].state = "signing",
               job'[k].by = job'[l].by, I!Audit(job'[k].challenge) = I!Audit(job'[l].challenge)
        PROVE  k = l
    BY <1>a, <2>2 DEF OneSigning
  <2>3. QED BY <1>j, <2>1, <2>2 DEF OneSigning, I!Audit
<1>3. Cardinality({a \in Audits : cache'[a] # 0}) <= MaxGrants
  <2> DEFINE full == {a \in Audits : cache[a] # 0}
  <2> DEFINE full2 == {a \in Audits : cache'[a] # 0}
  <2>1. full2 \subseteq full /\ full \subseteq Audits  OBVIOUS
  <2>2. Cardinality(full) <= MaxGrants  BY <1>a DEF GrantsTyped
  <2> HIDE DEF full, full2
  <2>3. IsFiniteSet(full) /\ IsFiniteSet(full2) /\ Cardinality(full2) <= Cardinality(full)
    BY <1>b, <2>1, FS_Subset
  <2>4. Cardinality(full) \in Nat /\ Cardinality(full2) \in Nat  BY <2>3, FS_CardinalityType
  <2>5. Cardinality(full2) <= MaxGrants  BY <1>b, <2>2, <2>3, <2>4
  <2>6. QED BY <2>5 DEF full2
<1>4. JobsLast  BY DEF JobsLast
<1>5. QED BY <1>1, <1>2, <1>3, <1>4

\* Less than 30 seconds are left.
LEMMA AgeStep ==
    ASSUME I!Limits, GrantsInv, NEW i \in I!Jobs, I!Age(i)
    PROVE  GrantsInv'
<1>a. GrantsTyped /\ AskersTyped /\ SubmissionHolds /\ CacheHolds /\ AnswersHold
  BY DEF GrantsInv
<1>u. /\ job[i].state = "fresh" /\ job' = [job EXCEPT ![i].state = "stale"]
      /\ UNCHANGED <<stage, I!subscriptionVars, aborted, cache, submission, sending, published,
                     caller,
                     request, promise>>
  BY DEF I!Age
<1>j. I!Jobs' = I!Jobs  BY DEF I!Jobs
<1>s. SignersTyped' /\ Installed' /\ I!NoSubscriptionLeft'  BY <1>u, SignersStay
<1>1. /\ job' \in [I!Jobs -> Grants \union {I!NoJob}]
      /\ \A k \in I!Jobs : k # i => job'[k] = job[k]
      /\ \A k \in I!Jobs : /\ job'[k].challenge = job[k].challenge /\ job'[k].by = job[k].by
                           /\ job[k] # I!NoJob <=> job'[k] # I!NoJob
      /\ job'[i].state = "stale"
  BY <1>a, <1>u, JobMoves
<1>2. CacheHolds' /\ OneSigning' /\ JobsLast
         /\ Cardinality({a \in Audits : cache'[a] # 0}) <= MaxGrants
  <2>1. cache' = cache /\ cache' \in [Audits -> 0..MaxJobs]  BY <1>a, <1>u DEF GrantsTyped
  <2>2. UNCHANGED <<stage, signer>>  BY <1>u DEF I!subscriptionVars
  <2>3. \A k \in I!Jobs : job'[k].state = "signing" => job[k].state = "signing"  BY <1>1
  <2>4. QED BY <1>1, <2>1, <2>2, <2>3, GrantsShrink
<1>3. GrantsTyped'
  BY <1>a, <1>u, <1>1, <1>2 DEF GrantsTyped, I!Jobs, Grants, I!NoJob, I!NoChallenge
<1>4. SubmissionHolds'
  BY <1>a, <1>u, <1>1, <1>j DEF SubmissionHolds, I!NoJob, I!NoChallenge, I!Audit
<1>5. AskersTyped'
  BY <1>a, <1>u DEF AskersTyped, Asked, I!NoChallenge, I!Awaiting, CallerStates, RequestStates
<1>6. AnswersHold'
  <2>1. \A d \in Callers : caller'[d].state = "done" => caller'[d].job \in published'
    BY <1>a, <1>u DEF AnswersHold
  <2>2. QED BY <1>u, <1>2, <2>1, AnswersKeep
<1>7. QED BY <1>s, <1>2, <1>3, <1>4, <1>5, <1>6 DEF GrantsInv

\* transfer.integrity_audit_grants is accepted, or fails and is forgotten.
LEMMA SubmitStep ==
    ASSUME I!Limits, GrantsInv, NEW i \in I!Jobs, NEW ok \in BOOLEAN, I!Submit(i, ok)
    PROVE  GrantsInv'
<1> DEFINE how == IF ok THEN "done" ELSE "error"
<1>a. GrantsTyped /\ AskersTyped /\ SubmissionHolds /\ CacheHolds /\ AnswersHold
  BY DEF GrantsInv
<1>b. MaxJobs \in Nat  BY DEF I!Limits
<1>t. /\ cache \in [Audits -> 0..MaxJobs] /\ submission \in [Audits -> 0..MaxJobs]
      /\ sending \in [I!Jobs -> 0..1] /\ published \subseteq I!Jobs
  BY <1>a DEF GrantsTyped
<1>u. /\ sending[i] > 0 /\ sending' = [sending EXCEPT ![i] = @ - 1]
      /\ I!CallersEnd(i, how)
      /\ ok => published' = published \union {i} /\ submission' = submission
      /\ ~ok => published' = published /\ I!Forget(i)
      /\ UNCHANGED <<stage, I!subscriptionVars, aborted, job, cache, request, promise>>
  BY DEF I!Submit
<1>j. I!Jobs' = I!Jobs /\ i # 0  BY <1>b DEF I!Jobs
<1>s. SignersTyped' /\ Installed' /\ I!NoSubscriptionLeft'  BY <1>u, SignersStay
<1>1. CacheHolds' /\ OneSigning'
  <2>1. UNCHANGED <<stage, signer, job, cache>>  BY <1>u DEF I!subscriptionVars
  <2>2. QED BY <2>1, GrantsStay
<1>2. /\ sending' \in [I!Jobs -> 0..1] /\ sending'[i] = 0
      /\ \A k \in I!Jobs : k # i => sending'[k] = sending[k]
  <2>1. sending[i] = 1  BY <1>t, <1>u
  <2>2. QED BY <1>t, <1>u, <2>1
<1>3. /\ submission' \in [Audits -> 0..MaxJobs] /\ published' \subseteq I!Jobs
      /\ published \subseteq published'
      /\ \A a \in Audits : submission'[a] # 0 =>
            submission'[a] = submission[a] /\ (submission[a] = i => ok)
      /\ \A a \in Audits : submission[a] # i => submission'[a] = submission[a]
      /\ ok => i \in published'
  <2>1. CASE ok  BY <1>t, <1>u, <2>1
  <2>2. CASE ~ok
    <3>1. submission' = [a \in Audits |-> IF submission[a] = i THEN 0 ELSE submission[a]]
      BY <1>u, <2>2 DEF I!Forget
    <3>2. 0 \in 0..MaxJobs  BY <1>b
    <3>3. QED BY <1>t, <1>u, <2>2, <3>1, <3>2
  <2>3. QED BY <2>1, <2>2
<1>4. GrantsTyped'
  BY <1>a, <1>u, <1>2, <1>3 DEF GrantsTyped, I!Jobs, Grants, I!NoJob, I!NoChallenge
<1>5. SubmissionHolds'
  <2>1. ASSUME NEW a \in Audits, submission'[a] # 0
        PROVE  submission'[a] = cache'[a] /\ (sending'[cache'[a]] = 1 \/ cache'[a] \in published')
    <3>1. /\ submission'[a] = submission[a] /\ cache'[a] = cache[a] /\ submission[a] = cache[a]
          /\ (sending[cache[a]] = 1 \/ cache[a] \in published) /\ (cache[a] = i => ok)
      BY <1>a, <1>3, <1>u, <2>1 DEF SubmissionHolds
    <3>2. cache[a] \in I!Jobs  BY <1>b, <1>t, <2>1, <3>1 DEF I!Jobs
    <3>3. QED BY <1>2, <1>3, <3>1, <3>2
  <2>2. ASSUME NEW k \in I!Jobs, sending'[k] = 1
        PROVE  /\ job'[k] # I!NoJob
               /\ cache'[I!Audit(job'[k].challenge)] = k
                     => submission'[I!Audit(job'[k].challenge)] = k
    <3>1. k # i /\ sending[k] = 1  BY <1>2, <2>2
    <3>2. /\ job[k] # I!NoJob
          /\ cache[I!Audit(job[k].challenge)] = k => submission[I!Audit(job[k].challenge)] = k
      BY <1>a, <3>1 DEF SubmissionHolds
    <3>3. I!Audit(job[k].challenge) \in Audits
      <4>1. job[k] \in Grants  BY <1>a, <3>2 DEF GrantsTyped
      <4>2. QED BY <4>1 DEF Grants, I!Limits
    <3>4. QED BY <1>3, <1>u, <3>1, <3>2, <3>3
  <2>3. QED BY <1>j, <2>1, <2>2 DEF SubmissionHolds, I!NoJob, I!NoChallenge, I!Audit
<1>6. /\ caller' \in [Callers -> Asked(CallerStates)]
      /\ \A c \in Callers :
            /\ caller'[c].challenge = caller[c].challenge /\ caller'[c].job = caller[c].job
            /\ \/ caller'[c].state = caller[c].state
               \/ caller[c].state = "waiting" /\ caller[c].job = i /\ caller'[c].state = how
  <2>1. how \in {"done", "error"}  OBVIOUS
  <2>2. QED BY <1>a, <1>u, <2>1, CallersEndFacts
<1>7. AskersTyped'
  <2>1. request' \in [Requests -> Asked(RequestStates)] /\ request' = request
    BY <1>a, <1>u DEF AskersTyped
  <2>2. QED BY <1>6, <1>a, <2>1, AskersEnd
<1>8. AnswersHold'
  <2>1. JobsLast  BY <1>u DEF JobsLast
  <2>2. \A c \in Callers : caller'[c].state = "done" => caller'[c].job \in published'
    BY <1>3, <1>6, <1>a DEF AnswersHold
  <2>3. \A c \in Callers : caller'[c].state \in {"waiting", "done"} =>
            /\ caller[c].state \in {"waiting", "done"}
            /\ caller'[c].job = caller[c].job /\ caller'[c].challenge = caller[c].challenge
    BY <1>6
  <2>4. QED BY <1>3, <1>u, <2>1, <2>2, <2>3, AnswersKeep
<1>9. QED BY <1>s, <1>1, <1>4, <1>5, <1>7, <1>8 DEF GrantsInv

\* buildProviderIntegrityAuditGrants settles.
LEMMA SignedStep ==
    ASSUME I!Limits, GrantsInv, NEW i \in I!Jobs, NEW ok \in BOOLEAN, I!Signed(i, ok)
    PROVE  GrantsInv'
<1>a. GrantsTyped /\ AskersTyped /\ SubmissionHolds /\ CacheHolds /\ AnswersHold
  BY DEF GrantsInv
<1>b. MaxJobs \in Nat  BY DEF I!Limits
<1>t. /\ cache \in [Audits -> 0..MaxJobs] /\ submission \in [Audits -> 0..MaxJobs]
      /\ sending \in [I!Jobs -> 0..1] /\ promise \in [Owners -> 0..MaxJobs]
      /\ request \in [Requests -> Asked(RequestStates)]
  BY <1>a DEF GrantsTyped, AskersTyped
<1>u. /\ job[i].state = "signing"
      /\ job' = [job EXCEPT ![i].state = IF ok THEN "fresh" ELSE "failed"]
      /\ promise' = [o \in Owners |-> IF promise[o] = i THEN 0 ELSE promise[o]]
      /\ ok => UNCHANGED <<cache, submission, sending, caller>>
      /\ ~ok => /\ cache' = [a \in Audits |-> IF cache[a] = i THEN 0 ELSE cache[a]]
                /\ sending' = [sending EXCEPT ![i] = 0]
                /\ I!CallersEnd(i, "error") /\ I!Forget(i)
      /\ UNCHANGED <<stage, I!subscriptionVars, aborted, published>>
  BY DEF I!Signed
<1>j. I!Jobs' = I!Jobs /\ i # 0  BY <1>b DEF I!Jobs
<1>z. 0 \in 0..MaxJobs  BY <1>b
<1>s. SignersTyped' /\ Installed' /\ I!NoSubscriptionLeft'  BY <1>u, SignersStay
<1>1. /\ job' \in [I!Jobs -> Grants \union {I!NoJob}]
      /\ \A k \in I!Jobs : k # i => job'[k] = job[k]
      /\ \A k \in I!Jobs : /\ job'[k].challenge = job[k].challenge /\ job'[k].by = job[k].by
                           /\ job[k] # I!NoJob <=> job'[k] # I!NoJob
      /\ job'[i].state \in {"fresh", "failed"}
  <2>1. (IF ok THEN "fresh" ELSE "failed") \in {"fresh", "failed", "stale"}  OBVIOUS
  <2>2. QED BY <1>a, <1>u, <2>1, JobMoves
<1>2. /\ cache' \in [Audits -> 0..MaxJobs] /\ submission' \in [Audits -> 0..MaxJobs]
      /\ sending' \in [I!Jobs -> 0..1] /\ promise' \in [Owners -> 0..MaxJobs]
      /\ \A a \in Audits : cache'[a] = cache[a] \/ (cache'[a] = 0 /\ cache[a] = i)
      /\ \A a \in Audits : submission'[a] # 0 =>
            submission'[a] = submission[a] /\ (submission[a] = i => ok)
               /\ (cache[a] # i => cache'[a] = cache[a])
      /\ \A a \in Audits : submission[a] # i => submission'[a] = submission[a]
      /\ \A k \in I!Jobs : k # i => sending'[k] = sending[k]
      /\ sending'[i] = 1 => ok
      /\ ok => UNCHANGED <<cache, submission, sending>>
  <2>1. CASE ok  BY <1>t, <1>u, <1>z, <2>1
  <2>2. CASE ~ok
    <3>1. submission' = [a \in Audits |-> IF submission[a] = i THEN 0 ELSE submission[a]]
      BY <1>u, <2>2 DEF I!Forget
    <3>2. 0 \in 0..1  OBVIOUS
    <3>3. QED BY <1>t, <1>u, <1>z, <2>2, <3>1, <3>2
  <2>3. QED BY <2>1, <2>2
<1>3. CacheHolds' /\ OneSigning' /\ JobsLast
         /\ Cardinality({a \in Audits : cache'[a] # 0}) <= MaxGrants
  <2>1. UNCHANGED <<stage, signer>>  BY <1>u DEF I!subscriptionVars
  <2>2. \A k \in I!Jobs : job'[k].state = "signing" => job[k].state = "signing"  BY <1>1
  <2>3. \A a \in Audits : cache'[a] = cache[a] \/ /\ cache'[a] = 0 /\ cache[a] \in I!Jobs
                                                  /\ job'[cache[a]].state # "signing"
    BY <1>1, <1>2
  <2>4. QED BY <1>1, <1>2, <2>1, <2>2, <2>3, GrantsShrink
<1>4. GrantsTyped'
  BY <1>a, <1>u, <1>1, <1>2, <1>3 DEF GrantsTyped, I!Jobs, Grants, I!NoJob, I!NoChallenge
<1>5. SubmissionHolds'
  <2>1. ASSUME NEW a \in Audits, submission'[a] # 0
        PROVE  submission'[a] = cache'[a] /\ (sending'[cache'[a]] = 1 \/ cache'[a] \in published')
    <3>1. /\ submission'[a] = submission[a] /\ submission[a] = cache[a]
          /\ (sending[cache[a]] = 1 \/ cache[a] \in published) /\ (cache[a] = i => ok)
      BY <1>a, <1>2, <2>1 DEF SubmissionHolds
    <3>2. cache[a] \in I!Jobs  BY <1>b, <1>t, <2>1, <3>1 DEF I!Jobs
    <3>3. CASE ok  BY <1>2, <1>u, <3>1, <3>3
    <3>4. CASE ~ok  BY <1>2, <1>u, <3>1, <3>2, <3>4
    <3>5. QED BY <3>3, <3>4
  <2>2. ASSUME NEW k \in I!Jobs, sending'[k] = 1
        PROVE  /\ job'[k] # I!NoJob
               /\ cache'[I!Audit(job'[k].challenge)] = k
                     => submission'[I!Audit(job'[k].challenge)] = k
    <3>1. k = i => ok  BY <1>2, <2>2
    <3>2. sending[k] = 1  BY <1>2, <2>2, <3>1
    <3>3. /\ job[k] # I!NoJob
          /\ cache[I!Audit(job[k].challenge)] = k => submission[I!Audit(job[k].challenge)] = k
      BY <1>a, <3>2 DEF SubmissionHolds
    <3>4. I!Audit(job[k].challenge) \in Audits
      <4>1. job[k] \in Grants  BY <1>a, <3>3 DEF GrantsTyped
      <4>2. QED BY <4>1 DEF Grants, I!Limits
    <3>5. k # 0  BY <1>b DEF I!Jobs
    <3>6. CASE ok  BY <1>1, <1>2, <3>3, <3>6
    <3>7. CASE ~ok
      <4>1. k # i  BY <3>1, <3>7
      <4>2. ASSUME cache'[I!Audit(job[k].challenge)] = k
            PROVE  submission'[I!Audit(job[k].challenge)] = k
        <5>1. cache[I!Audit(job[k].challenge)] = k  BY <1>2, <3>4, <3>5, <4>2
        <5>2. submission[I!Audit(job[k].challenge)] = k  BY <3>3, <5>1
        <5>3. QED BY <1>2, <3>4, <4>1, <5>2
      <4>3. QED BY <1>1, <3>3, <4>2
    <3>8. QED BY <3>6, <3>7
  <2>3. QED BY <1>j, <2>1, <2>2 DEF SubmissionHolds, I!NoJob, I!NoChallenge, I!Audit
<1>6. /\ caller' \in [Callers -> Asked(CallerStates)]
      /\ \A c \in Callers :
            /\ caller'[c].challenge = caller[c].challenge /\ caller'[c].job = caller[c].job
            /\ \/ caller'[c].state = caller[c].state
               \/ caller[c].state = "waiting" /\ caller'[c].state = "error"
  <2>1. CASE ok  BY <1>a, <1>u, <2>1 DEF AskersTyped
  <2>2. CASE ~ok
    <3>1. I!CallersEnd(i, "error")  BY <1>u, <2>2
    <3>2. "error" \in {"done", "error"}  OBVIOUS
    <3>3. /\ caller' \in [Callers -> Asked(CallerStates)]
          /\ \A c \in Callers :
                /\ caller'[c].challenge = caller[c].challenge /\ caller'[c].job = caller[c].job
                /\ \/ caller'[c].state = caller[c].state
                   \/ caller[c].state = "waiting" /\ caller[c].job = i
                         /\ caller'[c].state = "error"
      BY <1>a, <3>1, <3>2, CallersEndFacts
    <3>4. QED BY <3>3
  <2>3. QED BY <2>1, <2>2
<1>7. /\ request' \in [Requests -> Asked(RequestStates)]
      /\ \A r \in Requests :
            /\ request'[r].challenge = request[r].challenge /\ request'[r].job = request[r].job
            /\ \/ request'[r] = request[r]
               \/ request[r].state = "waiting"
                     /\ request'[r].state \in {"retry", "answered", "dropped"}
  <2>1. PICK f : /\ \A r \in Requests : f[r] \in {"retry", "answered", "dropped"}
                 /\ request' = [r \in Requests |->
                       IF request[r].state # "waiting" \/ request[r].job # i THEN request[r]
                       ELSE [request[r] EXCEPT !.state = f[r]]]
    <3> DEFINE f == [r \in Requests |-> IF ~ok THEN "retry"
                                        ELSE IF request[r].at \in integrity THEN "answered"
                                        ELSE "dropped"]
    <3>1. request' = [r \in Requests |->
             IF request[r].state # "waiting" \/ request[r].job # i THEN request[r]
             ELSE [request[r] EXCEPT !.state = f[r]]]
      BY DEF I!Signed
    <3>2. \A r \in Requests : f[r] \in {"retry", "answered", "dropped"}  OBVIOUS
    <3> HIDE DEF f
    <3>3. QED BY <3>1, <3>2
  <2>2. ASSUME NEW r \in Requests
        PROVE  /\ request'[r] \in Asked(RequestStates)
               /\ request'[r].challenge = request[r].challenge /\ request'[r].job = request[r].job
               /\ \/ request'[r] = request[r]
                  \/ request[r].state = "waiting"
                        /\ request'[r].state \in {"retry", "answered", "dropped"}
    <3>1. request[r] \in Asked(RequestStates)  BY <1>t
    <3>2. /\ [request[r] EXCEPT !.state = f[r]] \in Asked(RequestStates)
          /\ [request[r] EXCEPT !.state = f[r]].state = f[r]
          /\ [request[r] EXCEPT !.state = f[r]].challenge = request[r].challenge
          /\ [request[r] EXCEPT !.state = f[r]].job = request[r].job
      BY <2>1, <3>1 DEF Asked, RequestStates
    <3>3. QED BY <2>1, <3>1, <3>2
  <2>3. QED BY <2>1, <2>2
<1>8. AskersTyped'
  <2>1. \A c \in Callers : /\ caller'[c].challenge = caller[c].challenge
                           /\ caller[c].state = "absent" => caller'[c].state = "absent"
    BY <1>6
  <2>2. \A r \in Requests : /\ request'[r].challenge = request[r].challenge
                            /\ request[r].state = "absent" => request'[r].state = "absent"
                            /\ request'[r].state = "waiting" => request'[r] = request[r]
    BY <1>7
  <2>3. QED BY <1>6, <1>7, <1>a, <2>1, <2>2, AskersEnd
<1>9. AnswersHold'
  <2>1. published \subseteq published'  BY <1>u
  <2>2. \A c \in Callers : caller'[c].state = "done" => caller'[c].job \in published'
    BY <1>6, <1>a, <1>u DEF AnswersHold
  <2>3. \A c \in Callers : caller'[c].state \in {"waiting", "done"} =>
            /\ caller[c].state \in {"waiting", "done"}
            /\ caller'[c].job = caller[c].job /\ caller'[c].challenge = caller[c].challenge
    BY <1>6
  <2>4. \A r \in Requests : request'[r].state \in {"waiting", "answered"} =>
            /\ request[r].state \in {"waiting", "answered"}
            /\ request'[r].job = request[r].job
            /\ request'[r].challenge = request[r].challenge
    BY <1>7
  <2>5. \A o \in Owners : promise'[o] # 0 => promise'[o] = promise[o]  BY <1>u
  <2>6. QED BY <1>3, <2>1, <2>2, <2>3, <2>4, <2>5, AnswersKeep
<1>10. QED BY <1>s, <1>3, <1>4, <1>5, <1>8, <1>9 DEF GrantsInv

\* Every step keeps the invariant.
LEMMA GrantsNext == I!Limits /\ GrantsInv /\ [I!Next]_(I!vars) => GrantsInv'
<1> SUFFICES ASSUME I!Limits, GrantsInv, [I!Next]_(I!vars) PROVE GrantsInv'  OBVIOUS
<1>1. CASE \/ I!Stop
           \/ \E o \in Owners : \/ I!Start(o) \/ I!Subscribed(o) \/ I!SubscribeFails(o)
                                \/ I!Attached(o) \/ I!AttachFails(o) \/ I!Abort(o)
  <2>1. SignersMove /\ SignersTyped' /\ Installed' /\ I!NoSubscriptionLeft'  BY <1>1, SignersStep
  <2>2. QED BY <2>1, MovesKeepGrants DEF GrantsInv
<1>2. CASE \E c \in Callers : I!SubmitIfPresent(c)  BY <1>2, CallerStep
<1>3. CASE \E r \in Requests, o \in Owners : I!Message(r, o)  BY <1>3, MessageStep
<1>4. CASE \E i \in I!Jobs, ok \in BOOLEAN : I!Signed(i, ok) \/ I!Submit(i, ok)
  BY <1>4, SignedStep, SubmitStep
<1>5. CASE \E i \in I!Jobs : I!Age(i)  BY <1>5, AgeStep
<1>6. CASE UNCHANGED I!vars
  <2>1. UNCHANGED <<stage, I!subscriptionVars, aborted, I!grantVars, published, caller, request,
                    promise>>
    BY <1>6 DEF I!vars
  <2>2. SignersTyped' /\ Installed' /\ I!NoSubscriptionLeft'  BY <2>1, SignersStay
  <2>3. SignersMove  BY <2>1 DEF SignersMove, Forward, I!subscriptionVars, I!grantVars
  <2>4. QED BY <2>2, <2>3, MovesKeepGrants DEF GrantsInv
<1>7. QED BY <1>1, <1>2, <1>3, <1>4, <1>5, <1>6 DEF I!Next

\* Any number of owners that start, abort and stop, of status calls and of messages: only the
\* registered signer keeps subscriptions, and a start whose flush rejected the one that it
\* flushed; what signedIntegrityGrants has cached is of the signer installed now and not more
\* than fits, an audit is signed once at a time and submitted once, and whoever is given grants
\* has those of its own challenge, a status call only once the Runtime accepted them.
THEOREM GrantsAreSound ==
    ASSUME I!Limits
    PROVE  I!Spec => [](I!TypeOK /\ I!NoSubscriptionLeft /\ I!GrantsOfTheSigner
                        /\ I!SharedSigning /\ I!OwnGrants)
<1>1. I!Init => GrantsInv  BY GrantsInit
<1>2. GrantsInv /\ [I!Next]_(I!vars) => GrantsInv'  BY GrantsNext
<1>3. ASSUME GrantsInv
      PROVE  I!TypeOK /\ I!NoSubscriptionLeft /\ I!GrantsOfTheSigner /\ I!SharedSigning
                /\ I!OwnGrants
  <2>a. /\ SignersTyped /\ GrantsTyped /\ AskersTyped /\ I!NoSubscriptionLeft /\ CacheHolds
        /\ OneSigning /\ AnswersHold
    BY <1>3 DEF GrantsInv
  <2>1. I!TypeOK
    <3>1. job \in [I!Jobs -> [challenge : Challenges \union {I!NoChallenge},
                              by : Owners \union {None},
                              state : {"none", "signing", "fresh", "stale", "failed"}]]
      <4>1. \A g \in Grants \union {I!NoJob} :
               g \in [challenge : Challenges \union {I!NoChallenge}, by : Owners \union {None},
                      state : {"none", "signing", "fresh", "stale", "failed"}]
        BY DEF Grants, I!NoJob
      <4>2. QED BY <2>a, <4>1 DEF GrantsTyped
    <3>2. /\ \A c \in Callers : caller[c].state \in {"absent", "idle", "waiting", "done", "error"}
          /\ \A r \in Requests :
                request[r].state \in {"absent", "idle", "waiting", "answered", "retry", "dropped"}
      <4>1. /\ \A c \in Callers : caller[c] \in Asked(CallerStates)
            /\ \A r \in Requests : request[r] \in Asked(RequestStates)
        BY <2>a DEF AskersTyped
      <4>2. QED BY <4>1 DEF Asked, CallerStates, RequestStates
    <3>3. QED BY <2>a, <3>1, <3>2, SameCounting DEF I!TypeOK, SignersTyped, GrantsTyped,
          AskersTyped
  <2>2. I!GrantsOfTheSigner  BY <2>a DEF CacheHolds, I!GrantsOfTheSigner
  <2>3. I!SharedSigning
    <3>1. \A i \in I!Jobs : sending[i] <= 1  BY <2>a DEF GrantsTyped
    <3>2. QED BY <2>a, <3>1 DEF OneSigning, I!SharedSigning
  <2>4. I!OwnGrants  BY <2>a DEF AnswersHold, Promised, I!OwnGrants
  <2>5. QED BY <2>a, <2>1, <2>2, <2>3, <2>4
<1>4. QED BY <1>1, <1>2, <1>3, PTL DEF I!Spec

-----------------------------------------------------------------------------
(* What is signed of a plan: routes, and the grants of audits.             *)

CONSTANTS Plans, SourceKind, DestinationKind, ChunkSize, MaxPart, PageSize, ExpiresIn, HubLife,
    Jobs, MaxTime
VARIABLES plan, now, replaced, work, leg, route, delivered, slips

R == INSTANCE RouteSigning WITH job <- work, troubles <- slips

\* Finite sets and how many elements they have are what they are elsewhere.
LEMMA SameCountingR ==
    ASSUME NEW S
    PROVE  R!Cardinality(S) = Cardinality(S)
BY DEF R!Cardinality, Cardinality, R!IsFiniteSet, IsFiniteSet

\* A range of a planned chunk, with the part that the chunk is.
InPlace(s, g, part, offset, size) ==
    /\ s \in R!Sources /\ g \in R!Chunks(s) /\ part = R!PartNumber(s, g)
    /\ offset >= R!SourceOffset(s, g)
    /\ offset + size <= R!SourceOffset(s, g) + R!SizeOfChunk(s, g)

JobRecords == [state : {"idle", "asked", "ready"}, kind : {"none", "route", "audit"},
               source : Nat, chunk : Nat, offset : Int, size : Int, bound : Nat, ends : Nat,
               pinned : BOOLEAN, says : Nat]
LegRecords == [state : {"none", "due", "asked", "ready"}, part : Int, bound : Nat, ends : Nat,
               says : Nat]
RouteRecords == [source : Nat, chunk : Nat, destination : Nat, part : Int, offset : Int,
                 size : Int, pinned : BOOLEAN, sourceEnds : Nat, sourceSays : Nat,
                 destinationEnds : Nat, destinationSays : Nat]

SigningTyped ==
    /\ plan \in Plans /\ now \in Nat
    /\ work \in [Jobs -> JobRecords] /\ leg \in [Jobs -> [R!Destinations -> LegRecords]]
    /\ route \in RouteRecords /\ delivered \in [source : Nat, planned : BOOLEAN]

\* A job is about a range of its chunk; its grant lasts as long as it says.
JobInPlace(j) == work[j].state # "idle" =>
    /\ InPlace(work[j].source, work[j].chunk, R!PartNumber(work[j].source, work[j].chunk),
               work[j].offset, work[j].size)
    /\ work[j].kind # "none" /\ work[j].bound <= now + ExpiresIn
    /\ work[j].state = "ready" => /\ work[j].says <= work[j].ends
                                  /\ work[j].pinned = R!Pinned(SourceKind[work[j].source])

\* So does the URL of a destination; its part is that of the job's chunk.
LegInPlace(j, d) == leg[j][d].state # "none" =>
    /\ work[j].state # "idle"
    /\ leg[j][d].part = R!PartNumber(work[j].source, work[j].chunk)
    /\ leg[j][d].state = "asked" => leg[j][d].bound <= now + ExpiresIn
    /\ leg[j][d].state = "ready" => leg[j][d].says <= leg[j][d].ends

\* And so does a route.
RouteInPlace ==
    /\ route.source # 0 =>
          /\ InPlace(route.source, route.chunk, route.part, route.offset, route.size)
          /\ route.pinned = R!Pinned(SourceKind[route.source])
    /\ route.sourceSays <= route.sourceEnds /\ route.destinationSays <= route.destinationEnds

SigningInv ==
    /\ SigningTyped /\ RouteInPlace /\ R!PlannedVersionOnly
    /\ \A j \in Jobs : JobInPlace(j) /\ \A d \in R!Destinations : LegInPlace(j, d)

\* What the plan says of a source and of its chunks are numbers.
LEMMA SourceFacts ==
    ASSUME R!Limits, plan \in Plans, NEW s \in R!Sources
    PROVE  /\ s \in Nat /\ s # 0 /\ SourceKind[s] \in R!Kinds
           /\ plan[s] \in R!Descriptors
<1>1. /\ plan \in Seq(R!Descriptors)
      /\ \A r \in DOMAIN plan : SourceKind[r] \in R!Kinds
  BY DEF R!Limits
<1>2. s \in 1..Len(plan) /\ Len(plan) \in Nat  BY <1>1 DEF R!Sources
<1>3. plan[s] \in R!Descriptors
  BY <1>1, <1>2
<1>4. SourceKind[s] \in R!Kinds  BY <1>1 DEF R!Sources
<1>5. QED BY <1>2, <1>3, <1>4

LEMMA ChunkFacts ==
    ASSUME R!Limits, plan \in Plans, NEW s \in R!Sources, NEW g \in R!Chunks(s)
    PROVE  /\ g \in Nat /\ R!PartNumber(s, g) \in Int /\ R!SourceOffset(s, g) \in Int
           /\ R!SizeOfChunk(s, g) \in Int /\ ChunkSize \in Nat
<1>1. plan[s] \in R!Descriptors  BY SourceFacts
<1>2. /\ plan[s].size \in Nat /\ plan[s].chunk_count \in Nat
      /\ plan[s].global_chunk_start \in Nat /\ ChunkSize \in Nat
  BY <1>1 DEF R!Limits, R!Descriptors
<1>3. g \in Nat /\ g >= plan[s].global_chunk_start  BY <1>2 DEF R!Chunks
<1>4. R!SourceOffset(s, g) \in Int  BY <1>2, <1>3 DEF R!SourceOffset
<1>5. R!PartNumber(s, g) \in Int  BY <1>2, <1>3 DEF R!PartNumber
<1>6. R!SizeOfChunk(s, g) \in Int  BY <1>2, <1>4 DEF R!SizeOfChunk, R!Lesser
<1>7. QED BY <1>2, <1>3, <1>4, <1>5, <1>6

\* A whole chunk is a range of itself.
LEMMA WholeChunk ==
    ASSUME R!Limits, plan \in Plans, NEW s \in R!Sources, NEW g \in R!Chunks(s)
    PROVE  InPlace(s, g, R!PartNumber(s, g), R!SourceOffset(s, g), R!SizeOfChunk(s, g))
BY ChunkFacts DEF InPlace

\* The fields of a request, whichever of them is wrong.
LEMMA RequestFacts ==
    ASSUME R!Limits, plan \in Plans, NEW q \in R!Requested
    PROVE  /\ q.source \in R!Sources /\ q.destination \in R!Destinations
           /\ q.chunk \in Nat /\ q.part \in Int /\ q.offset \in Int /\ q.size \in Int
<1> DEFINE Good(r) == /\ r.source \in R!Sources /\ r.destination \in R!Destinations
                      /\ r.chunk \in Nat /\ r.part \in Int /\ r.offset \in Int /\ r.size \in Int
<1> DEFINE Fields == {"source", "chunk", "destination", "part", "delivery", "offset", "size"}
<1>1. ASSUME NEW r \in R!Planned PROVE Good(r) /\ DOMAIN r = Fields
  <2>1. PICK c \in R!Coordinates :
          r = [source |-> c[1], chunk |-> c[2], destination |-> c[3],
               part |-> R!PartNumber(c[1], c[2]),
               delivery |-> R!DeliveryIndex(c[1], c[2], c[3]),
               offset |-> R!SourceOffset(c[1], c[2]),
               size |-> R!SizeOfChunk(c[1], c[2])]
    BY <1>1 DEF R!Planned
  <2>2. PICK s \in R!Sources : c \in {s} \X R!Chunks(s) \X R!Destinations  BY DEF R!Coordinates
  <2>3. c[1] = s /\ c[2] \in R!Chunks(s) /\ c[3] \in R!Destinations  BY <2>2
  <2>4. /\ c[2] \in Nat /\ R!PartNumber(s, c[2]) \in Int /\ R!SourceOffset(s, c[2]) \in Int
        /\ R!SizeOfChunk(s, c[2]) \in Int
    BY <2>3, ChunkFacts
  <2>5. QED BY <2>1, <2>3, <2>4
<1>2. CASE q \in R!Planned  BY <1>1, <1>2
<1>3. CASE q \notin R!Planned
  <2>1. PICK r \in R!Planned :
          q \in {[r EXCEPT !.source = (@ % Len(plan)) + 1], [r EXCEPT !.chunk = @ + 1],
                 [r EXCEPT !.part = @ + 1], [r EXCEPT !.delivery = @ + 1],
                 [r EXCEPT !.offset = @ + 1], [r EXCEPT !.size = 1]}
    BY <1>3 DEF R!Requested
  <2>2. Good(r) /\ DOMAIN r = Fields  BY <1>1
  <2>3. R!Sources = 1..Len(plan) /\ Len(plan) \in Nat  BY DEF R!Sources, R!Limits
  <2>4. (r.source % Len(plan)) + 1 \in R!Sources
    <3>1. r.source \in Nat /\ Len(plan) > 0  BY <2>2, <2>3
    <3>2. r.source % Len(plan) \in 0..Len(plan) - 1  BY <2>3, <3>1
    <3>3. QED BY <2>3, <3>2
  <2>5. CASE q = [r EXCEPT !.source = (@ % Len(plan)) + 1]
    <3>1. q.source = (r.source % Len(plan)) + 1 /\ q.destination = r.destination
          /\ q.chunk = r.chunk /\ q.part = r.part /\ q.offset = r.offset /\ q.size = r.size
      BY <2>2, <2>5
    <3>2. QED BY <2>2, <2>4, <3>1
  <2>6. CASE q = [r EXCEPT !.chunk = @ + 1]
    <3>1. q.chunk = r.chunk + 1 /\ q.destination = r.destination
          /\ q.source = r.source /\ q.part = r.part /\ q.offset = r.offset /\ q.size = r.size
      BY <2>2, <2>6
    <3>2. QED BY <2>2, <3>1
  <2>7. CASE \/ q = [r EXCEPT !.part = @ + 1] \/ q = [r EXCEPT !.delivery = @ + 1]
             \/ q = [r EXCEPT !.offset = @ + 1] \/ q = [r EXCEPT !.size = 1]
    <3>1. /\ q.source = r.source /\ q.destination = r.destination /\ q.chunk = r.chunk
          /\ q.part \in {r.part, r.part + 1} /\ q.offset \in {r.offset, r.offset + 1}
          /\ q.size \in {r.size, 1}
      BY <2>2, <2>7
    <3>2. QED BY <2>2, <3>1
  <2>8. QED BY <2>1, <2>5, <2>6, <2>7
<1>4. QED BY <1>2, <1>3

\* A URL lasts as long as boundedGrantExpiry says, whichever provider signed it and when.
LEMMA ExpiryHonest ==
    ASSUME R!Limits, now \in Nat, NEW kind \in R!Kinds, NEW bound \in Nat,
           bound <= now + ExpiresIn,
           NEW ends \in R!Ends(kind, bound) \union R!UploadEnds(kind, bound)
    PROVE  /\ ends \in Nat /\ R!BoundedGrantExpiry(kind, ends, bound) \in Nat
           /\ R!BoundedGrantExpiry(kind, ends, bound) <= ends
<1>0. ExpiresIn \in Nat /\ HubLife \in Nat  BY DEF R!Limits
<1>1. CASE kind = "s3"
  BY <1>0, <1>1 DEF R!Ends, R!UploadEnds, R!BoundedGrantExpiry, R!Visible, R!Lesser
<1>2. CASE kind = "hippius"
  <2>1. ends \in bound..now + ExpiresIn  BY <1>2 DEF R!Ends, R!UploadEnds
  <2>2. R!BoundedGrantExpiry(kind, ends, bound) = bound
    BY <1>2 DEF R!BoundedGrantExpiry, R!Visible
  <2>3. QED BY <1>0, <2>1, <2>2
<1>3. CASE kind = "huggingface"
  BY <1>0, <1>3 DEF R!Ends, R!UploadEnds, R!BoundedGrantExpiry, R!Visible, R!Lesser
<1>4. QED BY <1>1, <1>2, <1>3 DEF R!Kinds

LEMMA SigningInit == R!Limits /\ R!Init => SigningInv
<1> SUFFICES ASSUME R!Limits, R!Init PROVE SigningInv  OBVIOUS
<1> USE DEF R!Init, R!NoJob, R!NoLeg, R!NoRoute, R!NoRead
<1>1. SigningTyped  BY DEF SigningTyped, JobRecords, LegRecords, RouteRecords
<1>2. \A j \in Jobs : JobInPlace(j) /\ \A d \in R!Destinations : LegInPlace(j, d)
  BY DEF JobInPlace, LegInPlace
<1>3. RouteInPlace /\ R!PlannedVersionOnly  BY DEF RouteInPlace, R!PlannedVersionOnly
<1>4. QED BY <1>1, <1>2, <1>3 DEF SigningInv

\* What is asked for is of the types above.
LEMMA AskedLegTyped ==
    ASSUME R!Limits, now \in Nat, NEW part \in Int
    PROVE  R!Asked(part) \in LegRecords
<1>1. R!NoLeg \in LegRecords  BY DEF R!NoLeg, LegRecords
<1>2. now + ExpiresIn \in Nat  BY DEF R!Limits
<1>3. QED BY <1>1, <1>2 DEF R!Asked, LegRecords

LEMMA AskedJobTyped ==
    ASSUME R!Limits, now \in Nat, NEW kind \in {"route", "audit"}, NEW s \in Nat, NEW g \in Nat,
           NEW offset \in Int, NEW size \in Int
    PROVE  R!SourceJob(kind, s, g, offset, size) \in JobRecords
<1> DEFINE named == [R!NoJob EXCEPT !.state = "asked", !.kind = kind, !.source = s, !.chunk = g]
<1>1. R!NoJob \in JobRecords  BY DEF R!NoJob, JobRecords
<1>2. named \in JobRecords  BY <1>1 DEF JobRecords
<1>3. R!SourceJob(kind, s, g, offset, size)
        = [named EXCEPT !.offset = offset, !.size = size, !.bound = now + ExpiresIn]
  BY DEF R!SourceJob
<1>4. now + ExpiresIn \in Nat  BY DEF R!Limits
<1> HIDE DEF named
<1>5. [named EXCEPT !.offset = offset, !.size = size, !.bound = now + ExpiresIn] \in JobRecords
  BY <1>2, <1>4 DEF JobRecords
<1>6. QED BY <1>3, <1>5

\* What no step touches stays right.
LEMMA JobStays ==
    ASSUME SigningInv, UNCHANGED plan, R!Limits, now' \in Nat, now <= now', NEW j \in Jobs,
           work'[j] = work[j]
    PROVE  JobInPlace(j)'
<1>1. JobInPlace(j) /\ work[j] \in JobRecords /\ now \in Nat /\ ExpiresIn \in Nat
  BY DEF SigningInv, SigningTyped, R!Limits
<1>2. work[j].bound <= now + ExpiresIn => work[j].bound <= now' + ExpiresIn
  BY <1>1 DEF JobRecords
<1>3. QED
  BY <1>1, <1>2
  DEF JobInPlace, InPlace, R!Sources, R!Chunks, R!PartNumber, R!SourceOffset, R!SizeOfChunk

LEMMA LegStays ==
    ASSUME SigningInv, UNCHANGED plan, R!Limits, now' \in Nat, now <= now', NEW j \in Jobs,
           NEW d \in R!Destinations, leg'[j][d] = leg[j][d], 
           work[j].state # "idle"
              => /\ work'[j].state # "idle" /\ work'[j].source = work[j].source
                                     /\ work'[j].chunk = work[j].chunk
    PROVE  LegInPlace(j, d)'
<1>1. LegInPlace(j, d) /\ leg[j][d] \in LegRecords /\ now \in Nat /\ ExpiresIn \in Nat
  BY DEF SigningInv, SigningTyped, R!Limits
<1>2. leg[j][d].bound <= now + ExpiresIn => leg[j][d].bound <= now' + ExpiresIn
  BY <1>1 DEF LegRecords
<1>3. QED BY <1>1, <1>2 DEF LegInPlace, R!PartNumber

LEMMA RouteStays ==
    ASSUME SigningInv, UNCHANGED <<plan, route>>
    PROVE  RouteInPlace'
BY DEF SigningInv, RouteInPlace, InPlace, R!Sources, R!Chunks, R!PartNumber, R!SourceOffset,
    R!SizeOfChunk

\* A job begins.
LEMMA JobStarts ==
    ASSUME R!Limits, SigningInv, NEW j \in Jobs, NEW kind \in {"route", "audit"},
           NEW s \in R!Sources, NEW g \in R!Chunks(s), NEW offset \in Int, NEW size \in Int,
           InPlace(s, g, R!PartNumber(s, g), offset, size),
           NEW legs \in [R!Destinations -> LegRecords],
           \A d \in R!Destinations :
               \/ legs[d].state = "none"
               \/ /\ legs[d].state = "due" /\ legs[d].part = R!PartNumber(s, g)
               \/ /\ legs[d].state = "asked" /\ legs[d].part = R!PartNumber(s, g)
                  /\ legs[d].bound <= now + ExpiresIn,
           work' = [work EXCEPT ![j] = R!SourceJob(kind, s, g, offset, size)],
           leg' = [leg EXCEPT ![j] = legs],
           route' = R!NoRoute, delivered' = R!NoRead, UNCHANGED <<plan, now>>
    PROVE  SigningInv'
<1> DEFINE new == R!SourceJob(kind, s, g, offset, size)
<1>a. SigningTyped  BY DEF SigningInv
<1>t. /\ work \in [Jobs -> JobRecords] /\ leg \in [Jobs -> [R!Destinations -> LegRecords]]
      /\ plan \in Plans /\ now \in Nat /\ ExpiresIn \in Nat
  BY <1>a DEF SigningTyped, R!Limits
<1>1. s \in Nat /\ g \in Nat  BY <1>t, SourceFacts, ChunkFacts
<1>2. /\ new \in JobRecords /\ new.state = "asked" /\ new.kind = kind /\ new.source = s
      /\ new.chunk = g /\ new.offset = offset /\ new.size = size /\ new.bound = now + ExpiresIn
  <2>1. R!NoJob \in JobRecords  BY DEF R!NoJob, JobRecords
  <2>2. new \in JobRecords  BY <1>1, <1>t, AskedJobTyped
  <2>3. QED BY <2>1, <2>2 DEF R!SourceJob, JobRecords
<1> HIDE DEF new
<1>3. /\ work' \in [Jobs -> JobRecords] /\ work'[j] = new
      /\ \A k \in Jobs : k # j => work'[k] = work[k]
  BY <1>2, <1>t DEF new
<1>4. /\ leg' \in [Jobs -> [R!Destinations -> LegRecords]] /\ leg'[j] = legs
      /\ \A k \in Jobs : k # j => leg'[k] = leg[k]
  BY <1>t
<1>5. SigningTyped'
  BY <1>3, <1>4, <1>t DEF SigningTyped, R!NoRoute, R!NoRead, RouteRecords, JobRecords, LegRecords,
                          R!Destinations
<1>6. JobInPlace(j)'
  <2>1. InPlace(s, g, R!PartNumber(s, g), offset, size)'
    BY DEF InPlace, R!Sources, R!Chunks, R!PartNumber, R!SourceOffset, R!SizeOfChunk
  <2>2. QED
    BY <1>2, <1>3, <1>t, <2>1
    DEF JobInPlace, InPlace, R!Sources, R!Chunks, R!PartNumber, R!SourceOffset, R!SizeOfChunk
<1>7. ASSUME NEW d \in R!Destinations PROVE LegInPlace(j, d)'
  BY <1>2, <1>3, <1>4 DEF LegInPlace, R!PartNumber
<1>8. ASSUME NEW k \in Jobs, k # j
      PROVE  JobInPlace(k)' /\ \A d \in R!Destinations : LegInPlace(k, d)'
  <2>1. work'[k] = work[k] /\ leg'[k] = leg[k] /\ now <= now'  BY <1>3, <1>4, <1>8, <1>t
  <2>2. QED BY <2>1, <1>t, JobStays, LegStays
<1>9. RouteInPlace' /\ R!PlannedVersionOnly'
  BY DEF RouteInPlace, R!PlannedVersionOnly, R!NoRoute, R!NoRead
<1>10. QED BY <1>5, <1>6, <1>7, <1>8, <1>9 DEF SigningInv, R!Destinations

\* The requests, and which of them a job follows.
LEMMA StartStep ==
    ASSUME R!Limits, SigningInv, NEW j \in Jobs,
           \/ \E s \in R!Sources : \E g \in R!Chunks(s) : R!SignChunk(j, s, g)
           \/ \E q \in R!Requested : R!Recover(j, q) \/ R!Audit(j, q)
    PROVE  SigningInv'
<1>t. plan \in Plans /\ now \in Nat /\ ExpiresIn \in Nat
  BY DEF SigningInv, SigningTyped, R!Limits
<1>d. ASSUME NEW part \in Int
      PROVE  /\ R!Due(part) \in LegRecords /\ R!Due(part).state = "due" /\ R!Due(part).part = part
             /\ R!NoLeg \in LegRecords /\ R!NoLeg.state = "none"
             /\ R!Asked(part) \in LegRecords /\ R!Asked(part).state = "asked"
             /\ R!Asked(part).part = part /\ R!Asked(part).bound <= now + ExpiresIn
  <2>1. R!NoLeg \in LegRecords /\ R!NoLeg.state = "none"  BY DEF R!NoLeg, LegRecords
  <2>2. now + ExpiresIn \in Nat /\ now + ExpiresIn <= now + ExpiresIn  BY <1>t
  <2>3. R!Due(part) \in LegRecords /\ R!Asked(part) \in LegRecords
    BY <2>1, <2>2 DEF R!Due, R!Asked, LegRecords
  <2>4. QED BY <2>1, <2>2, <2>3 DEF R!Due, R!Asked, LegRecords
<1>1. ASSUME NEW s \in R!Sources, NEW g \in R!Chunks(s), R!SignChunk(j, s, g) PROVE SigningInv'
  <2> DEFINE legs == [d \in R!Destinations |-> R!Due(R!PartNumber(s, g))]
  <2>1. /\ R!PartNumber(s, g) \in Int /\ R!SourceOffset(s, g) \in Int
        /\ R!SizeOfChunk(s, g) \in Int
        /\ InPlace(s, g, R!PartNumber(s, g), R!SourceOffset(s, g), R!SizeOfChunk(s, g))
    BY <1>t, ChunkFacts, WholeChunk
  <2>2. /\ work'
              = [work EXCEPT ![j]
                 = R!SourceJob("route", s, g, R!SourceOffset(s, g), R!SizeOfChunk(s, g))]
        /\ leg' = [leg EXCEPT ![j] = legs]
        /\ route' = R!NoRoute /\ delivered' = R!NoRead /\ UNCHANGED <<plan, now>>
    BY <1>1 DEF R!SignChunk
  <2>3. /\ legs \in [R!Destinations -> LegRecords]
        /\ \A d \in R!Destinations : legs[d].state = "due" /\ legs[d].part = R!PartNumber(s, g)
    BY <1>d, <2>1
  <2> HIDE DEF legs
  <2>4. QED BY <2>1, <2>2, <2>3, JobStarts
<1>2. ASSUME NEW q \in R!Requested, R!Recover(j, q) PROVE SigningInv'
  <2> DEFINE s == q.source
  <2> DEFINE g == q.chunk
  <2> DEFINE legs == [d \in R!Destinations |-> IF d = q.destination THEN R!Due(q.part)
     ELSE R!NoLeg]
  <2>1. s \in R!Sources /\ q.part \in Int  BY <1>t, RequestFacts
  <2>2. g \in R!Chunks(s) /\ q.part = R!PartNumber(s, g)
    BY <1>2 DEF R!Recover, R!RecoveryAccepted, R!PartMatches
  <2>3. /\ work'
              = [work EXCEPT ![j]
                 = R!SourceJob("route", s, g, R!SourceOffset(s, g), R!SizeOfChunk(s, g))]
        /\ leg' = [leg EXCEPT ![j] = legs]
        /\ route' = R!NoRoute /\ delivered' = R!NoRead /\ UNCHANGED <<plan, now>>
    BY <1>2 DEF R!Recover
  <2>4. /\ legs \in [R!Destinations -> LegRecords]
        /\ \A d \in R!Destinations : \/ legs[d].state = "none"
                                     \/ legs[d].state = "due" /\ legs[d].part = R!PartNumber(s, g)
    BY <1>d, <2>1, <2>2
  <2> HIDE DEF legs, s, g
  <2>5. /\ R!SourceOffset(s, g) \in Int /\ R!SizeOfChunk(s, g) \in Int
        /\ InPlace(s, g, R!PartNumber(s, g), R!SourceOffset(s, g), R!SizeOfChunk(s, g))
    BY <1>t, <2>1, <2>2, ChunkFacts, WholeChunk
  <2>6. QED BY <2>1, <2>2, <2>3, <2>4, <2>5, JobStarts
<1>3. ASSUME NEW q \in R!Requested, R!Audit(j, q) PROVE SigningInv'
  <2> DEFINE s == q.source
  <2> DEFINE g == q.chunk
  <2> DEFINE legs == [d \in R!Destinations |-> IF d = q.destination
     THEN R!Asked(R!PartNumber(s, g)) ELSE R!NoLeg]
  <2>1. s \in R!Sources /\ q.offset \in Int /\ q.size \in Int  BY <1>t, RequestFacts
  <2>2. g \in R!Chunks(s) /\ R!InsideChunk(q)  BY <1>3 DEF R!Audit
  <2>3. /\ work' = [work EXCEPT ![j] = R!SourceJob("audit", s, g, q.offset, q.size)]
        /\ leg' = [leg EXCEPT ![j] = legs]
        /\ route' = R!NoRoute /\ delivered' = R!NoRead /\ UNCHANGED <<plan, now>>
    BY <1>3 DEF R!Audit
  <2>4. R!PartNumber(s, g) \in Int  BY <1>t, <2>1, <2>2, ChunkFacts
  <2>5. /\ legs \in [R!Destinations -> LegRecords]
        /\ \A d \in R!Destinations :
              \/ legs[d].state = "none"
              \/ /\ legs[d].state = "asked" /\ legs[d].part = R!PartNumber(s, g)
                 /\ legs[d].bound <= now + ExpiresIn
    BY <1>d, <2>4
  <2>6. InPlace(s, g, R!PartNumber(s, g), q.offset, q.size)
    BY <2>1, <2>2 DEF InPlace, R!InsideChunk
  <2> HIDE DEF legs, s, g
  <2>7. QED BY <2>1, <2>2, <2>3, <2>5, <2>6, JobStarts
<1>4. QED BY <1>1, <1>2, <1>3

\* The source grant, from the provider.
LEMMA SourceStep ==
    ASSUME R!Limits, SigningInv, NEW j \in Jobs, R!SourceGrant(j)
    PROVE  SigningInv'
<1>a. SigningTyped /\ JobInPlace(j) /\ \A d \in R!Destinations : LegInPlace(j, d)
  BY DEF SigningInv
<1>t. /\ work \in [Jobs -> JobRecords] /\ leg \in [Jobs -> [R!Destinations -> LegRecords]]
      /\ plan \in Plans /\ now \in Nat
  BY <1>a DEF SigningTyped
<1>u. UNCHANGED <<plan, now, replaced, leg, route, delivered>> /\ work[j].state = "asked"
  BY DEF R!SourceGrant
<1> DEFINE kind == SourceKind[work[j].source]
<1> DEFINE bound == work[j].bound
<1>1. PICK ends \in R!Ends(kind, bound) :
         work' = [work EXCEPT ![j].state = "ready", ![j].ends = ends,
                              ![j].pinned = R!Pinned(kind),
                              ![j].says = R!BoundedGrantExpiry(kind, ends, bound)]
  BY DEF R!SourceGrant, R!SourceBound
<1>2. /\ work[j].source \in R!Sources /\ bound \in Nat /\ bound <= now + ExpiresIn
  BY <1>a, <1>t, <1>u DEF JobInPlace, InPlace, JobRecords
<1>3. kind \in R!Kinds  BY <1>2, <1>t, SourceFacts
<1> DEFINE says == R!BoundedGrantExpiry(kind, ends, bound)
<1>4. ends \in Nat /\ says \in Nat /\ says <= ends  BY <1>2, <1>3, <1>t, ExpiryHonest
<1>5. R!Pinned(kind) \in BOOLEAN  BY DEF R!Pinned
<1> DEFINE new == [work[j] EXCEPT !.state = "ready", !.ends = ends, !.pinned = R!Pinned(kind),
                                  !.says = says]
<1>6. work' = [work EXCEPT ![j] = new]  BY <1>1, <1>t
<1> HIDE DEF kind, bound, says
<1>7. /\ new \in JobRecords /\ new.state = "ready" /\ new.ends = ends /\ new.says = says
      /\ new.pinned = R!Pinned(kind) /\ new.kind = work[j].kind /\ new.source = work[j].source
      /\ new.chunk = work[j].chunk /\ new.offset = work[j].offset /\ new.size = work[j].size
      /\ new.bound = work[j].bound
  <2>1. work[j] \in JobRecords  BY <1>t
  <2>2. new \in JobRecords  BY <1>4, <1>5, <2>1 DEF JobRecords
  <2>3. QED BY <2>1, <2>2 DEF JobRecords
<1> HIDE DEF new
<1>8. /\ work' \in [Jobs -> JobRecords] /\ work'[j] = new
      /\ \A k \in Jobs : k # j => work'[k] = work[k]
  BY <1>6, <1>7, <1>t
<1>9. SigningTyped'
  BY <1>8, <1>a, <1>u
  DEF SigningTyped, JobRecords, LegRecords, RouteRecords, R!Destinations
<1>10. JobInPlace(j)'
  BY <1>a, <1>u, <1>4, <1>7, <1>8
  DEF JobInPlace, InPlace, R!Sources, R!Chunks, R!PartNumber, R!SourceOffset, R!SizeOfChunk, kind
<1>11. ASSUME NEW k \in Jobs
       PROVE  (k # j => JobInPlace(k)') /\ \A d \in R!Destinations : LegInPlace(k, d)'
  <2>1. /\ leg'[k] = leg[k] /\ now <= now' /\ now' \in Nat /\ work'[k].source = work[k].source
        /\ work'[k].chunk = work[k].chunk /\ (work[k].state # "idle" => work'[k].state # "idle")
    BY <1>7, <1>8, <1>t, <1>u
  <2>2. QED BY <1>8, <1>u, <2>1, JobStays, LegStays
<1>12. RouteInPlace' /\ R!PlannedVersionOnly'
  BY <1>u, RouteStays DEF SigningInv, R!PlannedVersionOnly
<1>13. QED BY <1>9, <1>10, <1>11, <1>12 DEF SigningInv, R!Destinations

\* A destination's URL, from asking to its end: the job stays.
LEMMA LegMoves ==
    ASSUME R!Limits, SigningInv, NEW j \in Jobs, NEW d \in R!Destinations,
           NEW new \in LegRecords, leg' = [leg EXCEPT ![j][d] = new],
           UNCHANGED <<plan, now, work, route, delivered>>,
           leg[j][d].state # "none", new.part = leg[j][d].part,
           new.state = "asked" => new.bound <= now + ExpiresIn,
           new.state = "ready" => new.says <= new.ends
    PROVE  SigningInv'
<1>a. SigningTyped /\ LegInPlace(j, d)  BY DEF SigningInv
<1>t. /\ work \in [Jobs -> JobRecords] /\ leg \in [Jobs -> [R!Destinations -> LegRecords]]
      /\ plan \in Plans /\ now \in Nat
  BY <1>a DEF SigningTyped
<1> DEFINE legs == [leg[j] EXCEPT ![d] = new]
<1>1. /\ legs \in [R!Destinations -> LegRecords] /\ legs[d] = new
      /\ \A e \in R!Destinations : e # d => legs[e] = leg[j][e]
  BY <1>t
<1>2. leg' = [leg EXCEPT ![j] = legs]  BY <1>t
<1> HIDE DEF legs
<1>3. /\ leg' \in [Jobs -> [R!Destinations -> LegRecords]] /\ leg'[j] = legs
      /\ \A k \in Jobs : k # j => leg'[k] = leg[k]
  BY <1>1, <1>2, <1>t
<1>4. SigningTyped'
  BY <1>3, <1>a DEF SigningTyped, JobRecords, LegRecords, RouteRecords, R!Destinations
<1>5. LegInPlace(j, d)'
  BY <1>1, <1>3, <1>a DEF LegInPlace, R!PartNumber
<1>6. ASSUME NEW k \in Jobs, NEW e \in R!Destinations, k # j \/ e # d PROVE LegInPlace(k, e)'
  <2>1. leg'[k][e] = leg[k][e] /\ now <= now' /\ now' \in Nat  BY <1>1, <1>3, <1>6, <1>t
  <2>2. QED BY <2>1, LegStays
<1>7. ASSUME NEW k \in Jobs PROVE JobInPlace(k)'
  <2>1. now <= now' /\ now' \in Nat  BY <1>t
  <2>2. QED BY <2>1, JobStays
<1>8. RouteInPlace' /\ R!PlannedVersionOnly'
  BY RouteStays DEF SigningInv, R!PlannedVersionOnly
<1>9. QED BY <1>4, <1>5, <1>6, <1>7, <1>8 DEF SigningInv, R!Destinations

LEMMA LegStep ==
    ASSUME R!Limits, SigningInv, NEW j \in Jobs, NEW d \in R!Destinations,
           R!AskDestination(j, d) \/ R!DestinationReady(j, d) \/ R!AuditDestinationReady(j, d)
    PROVE  SigningInv'
<1>a. SigningTyped /\ LegInPlace(j, d)  BY DEF SigningInv
<1>t. /\ leg \in [Jobs -> [R!Destinations -> LegRecords]] /\ leg[j][d] \in LegRecords
      /\ now \in Nat /\ ExpiresIn \in Nat /\ now + ExpiresIn \in Nat
  BY <1>a DEF SigningTyped, R!Limits
<1> DEFINE part == leg[j][d].part
<1> DEFINE bound == leg[j][d].bound
<1> DEFINE kind == DestinationKind[d]
<1>f. part \in Int /\ bound \in Nat  BY <1>t DEF LegRecords
<1>k. kind \in R!Kinds
  <2>1. DestinationKind \in Seq(R!Kinds) /\ d \in 1..Len(DestinationKind)
    BY DEF R!Limits, R!Destinations
  <2>2. QED BY <2>1
<1>1. CASE R!AskDestination(j, d)
  <2>1. /\ leg[j][d].state = "due" /\ leg' = [leg EXCEPT ![j][d] = R!Asked(part)]
        /\ UNCHANGED <<plan, now, work, route, delivered>>
    BY <1>1 DEF R!AskDestination
  <2>2. R!NoLeg \in LegRecords  BY DEF R!NoLeg, LegRecords
  <2>3. /\ R!Asked(part) \in LegRecords /\ R!Asked(part).state = "asked"
        /\ R!Asked(part).part = part
        /\ R!Asked(part).bound = now + ExpiresIn
    <3> HIDE DEF part
    <3>1. R!Asked(part) \in LegRecords  BY <1>f, <1>t, AskedLegTyped
    <3>2. QED BY <2>2, <3>1 DEF R!Asked, LegRecords
  <2>4. R!Asked(part).bound <= now + ExpiresIn  BY <1>t, <2>3
  <2>5. QED BY <2>1, <2>3, <2>4, LegMoves
<1>2. CASE R!DestinationReady(j, d) \/ R!AuditDestinationReady(j, d)
  <2>1. PICK ends \in R!Ends(kind, bound) \union R!UploadEnds(kind, bound) :
           leg' = [leg EXCEPT ![j][d].state = "ready", ![j][d].ends = ends,
                              ![j][d].says = R!BoundedGrantExpiry(kind, ends, bound)]
    BY <1>2 DEF R!DestinationReady, R!AuditDestinationReady, R!DestinationGrant
  <2>2. leg[j][d].state = "asked" /\ UNCHANGED <<plan, now, work, route, delivered>>
    BY <1>2 DEF R!DestinationReady, R!AuditDestinationReady, R!DestinationGrant
  <2> DEFINE says == R!BoundedGrantExpiry(kind, ends, bound)
  <2>3. bound <= now + ExpiresIn  BY <1>a, <2>2 DEF LegInPlace
  <2>4. ends \in Nat /\ says \in Nat /\ says <= ends
    BY <1>f, <1>k, <1>t, <2>3, ExpiryHonest
  <2> DEFINE new == [leg[j][d] EXCEPT !.state = "ready", !.ends = ends, !.says = says]
  <2>5. leg' = [leg EXCEPT ![j][d] = new]  BY <1>t, <2>1
  <2> HIDE DEF says
  <2>6. /\ new \in LegRecords /\ new.state = "ready" /\ new.part = part /\ new.says = says
        /\ new.ends = ends
    BY <1>t, <2>4 DEF LegRecords
  <2> HIDE DEF new
  <2>7. QED BY <2>2, <2>4, <2>5, <2>6, LegMoves
<1>3. QED BY <1>1, <1>2

\* The route, which says the shorter of two lifetimes, or the two grants of an audit.
LEMMA SignStep ==
    ASSUME R!Limits, SigningInv, NEW j \in Jobs, NEW d \in R!Destinations, R!Sign(j, d)
    PROVE  SigningInv'
<1>a. SigningTyped /\ JobInPlace(j) /\ LegInPlace(j, d)  BY DEF SigningInv
<1>t. /\ work \in [Jobs -> JobRecords] /\ leg \in [Jobs -> [R!Destinations -> LegRecords]]
      /\ plan \in Plans /\ now \in Nat /\ work[j] \in JobRecords /\ leg[j][d] \in LegRecords
  BY <1>a DEF SigningTyped
<1>u. /\ work[j].state = "ready" /\ leg[j][d].state = "ready"
      /\ UNCHANGED <<plan, now, replaced, delivered>>
      /\ leg' = [leg EXCEPT ![j][d] = R!NoLeg]
      /\ work' = IF \A e \in R!Destinations \ {d} : leg[j][e].state = "none"
                 THEN [work EXCEPT ![j] = R!NoJob] ELSE work
  BY DEF R!Sign
<1>n. /\ R!NoJob \in JobRecords /\ R!NoJob.state = "idle" /\ R!NoLeg \in LegRecords
      /\ R!NoLeg.state = "none"
  BY DEF R!NoJob, JobRecords, R!NoLeg, LegRecords
<1>1. RouteInPlace' /\ route' \in RouteRecords
  <2> DEFINE x == work[j]
  <2> DEFINE y == leg[j][d]
  <2> DEFINE both == R!Lesser(x.says, y.says)
  <2>1. route' = [source |-> x.source, chunk |-> x.chunk, destination |-> d, part |-> y.part,
                  offset |-> x.offset, size |-> x.size, pinned |-> x.pinned,
                  sourceEnds |-> x.ends, destinationEnds |-> y.ends,
                  sourceSays |-> IF x.kind = "audit" THEN x.says ELSE both,
                  destinationSays |-> IF x.kind = "audit" THEN y.says ELSE both]
    BY DEF R!Sign
  <2>2. /\ InPlace(x.source, x.chunk, R!PartNumber(x.source, x.chunk), x.offset, x.size)
        /\ x.says <= x.ends /\ x.pinned = R!Pinned(SourceKind[x.source])
        /\ y.part = R!PartNumber(x.source, x.chunk) /\ y.says <= y.ends
    BY <1>a, <1>u DEF JobInPlace, LegInPlace
  <2>3. /\ x.source \in Nat /\ x.chunk \in Nat /\ x.offset \in Int /\ x.size \in Int
        /\ x.pinned \in BOOLEAN /\ x.ends \in Nat /\ x.says \in Nat
        /\ y.part \in Int /\ y.ends \in Nat /\ y.says \in Nat /\ d \in Nat
    <3>1. x \in JobRecords /\ y \in LegRecords  BY <1>t
    <3>2. d \in Nat  BY DEF R!Destinations, R!Limits
    <3> HIDE DEF x, y, both
    <3>3. /\ x.source \in Nat /\ x.chunk \in Nat /\ x.offset \in Int /\ x.size \in Int
          /\ x.pinned \in BOOLEAN /\ x.ends \in Nat /\ x.says \in Nat
      BY <3>1 DEF JobRecords
    <3>4. y.part \in Int /\ y.ends \in Nat /\ y.says \in Nat  BY <3>1 DEF LegRecords
    <3>5. QED BY <3>2, <3>3, <3>4
  <2> HIDE DEF x, y
  <2>4. both \in Nat /\ both <= x.says /\ both <= y.says  BY <2>3 DEF R!Lesser
  <2> HIDE DEF both
  <2>5. /\ route'.source = x.source /\ route'.chunk = x.chunk /\ route'.part = y.part
        /\ route'.offset = x.offset /\ route'.size = x.size /\ route'.pinned = x.pinned
        /\ route'.sourceEnds = x.ends /\ route'.destinationEnds = y.ends
        /\ route'.sourceSays \in {x.says, both} /\ route'.destinationSays \in {y.says, both}
    BY <2>1
  <2>6. route' \in RouteRecords  BY <2>1, <2>3, <2>4 DEF RouteRecords
  <2>7. InPlace(x.source, x.chunk, y.part, x.offset, x.size)  BY <2>2
  <2>8. RouteInPlace'
    BY <1>u, <2>2, <2>3, <2>4, <2>5, <2>7
    DEF RouteInPlace, InPlace, R!Sources, R!Chunks, R!PartNumber, R!SourceOffset, R!SizeOfChunk
  <2>9. QED BY <2>6, <2>8
<1> DEFINE legs == [leg[j] EXCEPT ![d] = R!NoLeg]
<1>2. /\ legs \in [R!Destinations -> LegRecords] /\ legs[d] = R!NoLeg
      /\ \A e \in R!Destinations : e # d => legs[e] = leg[j][e]
  BY <1>n, <1>t
<1>3. leg' = [leg EXCEPT ![j] = legs]  BY <1>t, <1>u
<1> HIDE DEF legs
<1>4. /\ leg' \in [Jobs -> [R!Destinations -> LegRecords]] /\ leg'[j] = legs
      /\ \A k \in Jobs : k # j => leg'[k] = leg[k]
  BY <1>2, <1>3, <1>t
<1>5. /\ work' \in [Jobs -> JobRecords] /\ \A k \in Jobs : k # j => work'[k] = work[k]
      /\ work'[j] \in {R!NoJob, work[j]}
      /\ work'[j] # work[j] => \A e \in R!Destinations : e # d => leg[j][e].state = "none"
  BY <1>n, <1>t, <1>u
<1>6. SigningTyped'
  BY <1>1, <1>4, <1>5, <1>a, <1>u
  DEF SigningTyped, JobRecords, LegRecords, RouteRecords, R!Destinations
<1>7. ASSUME NEW k \in Jobs, work'[k] = work[k]
      PROVE  JobInPlace(k)' /\ \A e \in R!Destinations : LegInPlace(k, e)'
  <2>1. now <= now' /\ now' \in Nat  BY <1>t, <1>u
  <2>2. JobInPlace(k)'  BY <1>7, <1>u, <2>1, JobStays
  <2>3. ASSUME NEW e \in R!Destinations PROVE LegInPlace(k, e)'
    <3>1. CASE k = j /\ e = d  BY <1>2, <1>4, <1>n, <3>1 DEF LegInPlace
    <3>2. CASE k # j \/ e # d
      <4>1. leg'[k][e] = leg[k][e]  BY <1>2, <1>4, <3>2
      <4>2. QED BY <1>7, <1>u, <2>1, <4>1, LegStays
    <3>3. QED BY <3>1, <3>2
  <2>4. QED BY <2>2, <2>3
<1>8. ASSUME work'[j] # work[j]
      PROVE  JobInPlace(j)' /\ \A e \in R!Destinations : LegInPlace(j, e)'
  <2>1. work'[j].state = "idle"  BY <1>5, <1>8, <1>n
  <2>2. \A e \in R!Destinations : leg'[j][e].state = "none"  BY <1>2, <1>4, <1>5, <1>8, <1>n
  <2>3. QED BY <2>1, <2>2 DEF JobInPlace, LegInPlace
<1>9. R!PlannedVersionOnly'  BY <1>u DEF SigningInv, R!PlannedVersionOnly
<1>10. QED BY <1>1, <1>5, <1>6, <1>7, <1>8, <1>9 DEF SigningInv, R!Destinations

\* A signing that fails leaves nothing of its job.
LEMMA FailStep ==
    ASSUME R!Limits, SigningInv, NEW j \in Jobs, R!SigningFails(j)
    PROVE  SigningInv'
<1>a. SigningTyped  BY DEF SigningInv
<1>t. /\ work \in [Jobs -> JobRecords] /\ leg \in [Jobs -> [R!Destinations -> LegRecords]]
      /\ now \in Nat
  BY <1>a DEF SigningTyped
<1>u. /\ UNCHANGED <<plan, now, replaced, route, delivered>>
      /\ work' = [work EXCEPT ![j] = R!NoJob]
      /\ leg' = [leg EXCEPT ![j] = [d \in R!Destinations |-> R!NoLeg]]
  BY DEF R!SigningFails
<1>n. /\ R!NoJob \in JobRecords /\ R!NoJob.state = "idle" /\ R!NoLeg \in LegRecords
      /\ R!NoLeg.state = "none"
  BY DEF R!NoJob, JobRecords, R!NoLeg, LegRecords
<1>1. /\ work' \in [Jobs -> JobRecords] /\ leg' \in [Jobs -> [R!Destinations -> LegRecords]]
      /\ work'[j].state = "idle" /\ \A d \in R!Destinations : leg'[j][d].state = "none"
      /\ \A k \in Jobs : k # j => work'[k] = work[k] /\ leg'[k] = leg[k]
  BY <1>n, <1>t, <1>u
<1>2. SigningTyped'
  BY <1>1, <1>a, <1>u DEF SigningTyped, JobRecords, LegRecords, RouteRecords, R!Destinations
<1>3. JobInPlace(j)' /\ \A d \in R!Destinations : LegInPlace(j, d)'
  BY <1>1 DEF JobInPlace, LegInPlace
<1>4. ASSUME NEW k \in Jobs, k # j
      PROVE  JobInPlace(k)' /\ \A d \in R!Destinations : LegInPlace(k, d)'
  <2>1. now <= now' /\ now' \in Nat  BY <1>t, <1>u
  <2>2. QED BY <1>1, <1>4, <1>u, <2>1, JobStays, LegStays
<1>5. RouteInPlace' /\ R!PlannedVersionOnly'
  BY <1>u, RouteStays DEF SigningInv, R!PlannedVersionOnly
<1>6. QED BY <1>2, <1>3, <1>4, <1>5 DEF SigningInv, R!Destinations

\* The world: time passes, an object is replaced, a worker reads.
LEMMA WorldStep ==
    ASSUME R!Limits, SigningInv,
           R!Tick \/ R!Read \/ UNCHANGED R!vars \/ \E s \in R!Sources : R!Overwrite(s)
    PROVE  SigningInv'
<1>a. SigningTyped /\ RouteInPlace /\ R!PlannedVersionOnly  BY DEF SigningInv
<1>t. now \in Nat /\ route \in RouteRecords  BY <1>a DEF SigningTyped
<1>1. /\ UNCHANGED <<plan, work, leg, route>> /\ now' \in Nat /\ now <= now'
      /\ delivered' = delivered
         \/ /\ route.source # 0 /\ (route.pinned => route.source \notin replaced)
            /\ delivered' = [source |-> route.source, planned |-> route.source \notin replaced]
  <2>1. CASE R!Tick  BY <1>t, <2>1 DEF R!Tick
  <2>2. CASE R!Read  BY <1>t, <2>2 DEF R!Read
  <2>3. CASE UNCHANGED R!vars  BY <1>t, <2>3 DEF R!vars
  <2>4. CASE \E s \in R!Sources : R!Overwrite(s)  BY <1>t, <2>4 DEF R!Overwrite
  <2>5. QED BY <2>1, <2>2, <2>3, <2>4
<1>2. delivered' \in [source : Nat, planned : BOOLEAN] /\ R!PlannedVersionOnly'
  <2>1. CASE delivered' = delivered  BY <1>a, <2>1 DEF SigningTyped, R!PlannedVersionOnly
  <2>2. CASE delivered' # delivered
    <3>1. /\ delivered'.source = route.source
          /\ delivered'.planned = (route.source \notin replaced)
          /\ route.source # 0 /\ (route.pinned => route.source \notin replaced)
      BY <1>1, <2>2
    <3>2. route.source \in Nat  BY <1>t DEF RouteRecords
    <3>3. SourceKind[route.source] = "s3" => route.pinned
      BY <1>a, <3>1 DEF RouteInPlace, R!Pinned
    <3>4. QED BY <1>1, <2>2, <3>1, <3>2, <3>3 DEF R!PlannedVersionOnly
  <2>3. QED BY <2>1, <2>2
<1>3. SigningTyped'
  BY <1>1, <1>2, <1>a DEF SigningTyped, JobRecords, LegRecords, RouteRecords, R!Destinations
<1>4. ASSUME NEW k \in Jobs
      PROVE  JobInPlace(k)' /\ \A d \in R!Destinations : LegInPlace(k, d)'
  BY <1>1, JobStays, LegStays
<1>5. RouteInPlace'  BY <1>1, RouteStays
<1>6. QED BY <1>2, <1>3, <1>4, <1>5 DEF SigningInv, R!Destinations

LEMMA SigningNext == R!Limits /\ SigningInv /\ [R!Next]_(R!vars) => SigningInv'
BY StartStep, SourceStep, LegStep, SignStep, FailStep, WorldStep
DEF R!Next, R!SourceReady, R!AuditSourceReady

\* What a division and its remainder are, with a divisor that is not known.
LEMMA Dividing ==
    ASSUME NEW n \in Nat, NEW k \in Nat \ {0}
    PROVE  /\ n \div k \in Nat /\ n % k \in 0..k - 1 /\ n = (k * (n \div k)) + (n % k)
           /\ (n \div k) * k = k * (n \div k) /\ k * (n \div k) \in Nat
<1>1. n \div k \in Nat  OBVIOUS
<1>2. n % k \in 0..k - 1  OBVIOUS
<1>3. n = (k * (n \div k)) + (n % k)  OBVIOUS
<1>4. (n \div k) * k = k * (n \div k) /\ k * (n \div k) \in Nat  OBVIOUS
<1>5. QED BY <1>1, <1>2, <1>3, <1>4

\* A smaller factor gives a smaller product.
LEMMA ProductGrows ==
    ASSUME NEW m \in Nat, NEW n \in Nat, NEW k \in Nat, m <= n
    PROVE  m * k <= n * k
<1> DEFINE d == n - m
<1>1. d \in Nat /\ n = m + d  OBVIOUS
<1> HIDE DEF d
<1>2. n * k = (m * k) + (d * k)  BY <1>1
<1>3. d * k \in Nat /\ m * k \in Nat  BY <1>1
<1>4. QED BY <1>2, <1>3

\* A multiple leaves nothing.
LEMMA Multiple ==
    ASSUME NEW q \in Nat, NEW k \in Nat \ {0}
    PROVE  q * k \in Nat /\ (q * k) % k = 0
OBVIOUS

\* The pages of a group hold its parts.
LEMMA Pages == R!Limits => R!PagesHoldParts
<1> SUFFICES ASSUME R!Limits PROVE R!PagesHoldParts  OBVIOUS
<1>0. PageSize \in Nat \ {0} /\ MaxPart \in Nat  BY DEF R!Limits
<1>1. ASSUME NEW count \in 1..MaxPart, NEW part \in 1..count
      PROVE  \E m \in R!PageMarkers(count) :
                m = R!PageIndex(part) * PageSize /\ m < part /\ part <= m + PageSize
  <2> DEFINE q == (part - 1) \div PageSize
  <2> DEFINE r == (part - 1) % PageSize
  <2> DEFINE m == q * PageSize
  <2>1. count \in Nat /\ part \in Nat /\ part - 1 \in Nat /\ part <= count  BY <1>0
  <2>2. /\ q \in Nat /\ r \in 0..PageSize - 1 /\ part - 1 = PageSize * q + r
        /\ m = PageSize * q /\ m \in Nat
    BY <1>0, <2>1, Dividing
  <2>3. m % PageSize = 0  BY <1>0, <2>2, Multiple
  <2>4. m = R!PageIndex(part) * PageSize  BY DEF R!PageIndex
  <2> HIDE DEF q, r, m
  <2>5. m < part /\ part <= m + PageSize /\ m \in 0..count - 1  BY <1>0, <2>1, <2>2
  <2>6. m \in R!PageMarkers(count)  BY <2>3, <2>5 DEF R!PageMarkers
  <2>7. QED BY <2>4, <2>5, <2>6
<1>2. ASSUME NEW count \in 1..MaxPart, NEW m \in R!PageMarkers(count)
      PROVE  \E part \in 1..count : part > m
  <2>1. count \in Nat /\ m \in 0..count - 1  BY <1>0 DEF R!PageMarkers
  <2>2. count \in 1..count /\ count > m  BY <2>1
  <2>3. QED BY <2>2
<1>3. QED BY <1>1, <1>2 DEF R!PagesHoldParts

\* A range of a chunk is one of the source, in terms of its own numbers.
LEMMA RangeFits ==
    ASSUME R!Limits, plan \in Plans, NEW s \in Nat, NEW g \in Nat, NEW part \in Int,
           NEW offset \in Int,
           NEW size \in Int, InPlace(s, g, part, offset, size)
    PROVE  LET k == g - plan[s].global_chunk_start IN
           /\ k \in 0..plan[s].chunk_count - 1 /\ part = k + 1 /\ offset >= k * ChunkSize
           /\ offset + size <= R!Lesser((k + 1) * ChunkSize, plan[s].size)
<1>1. s \in R!Sources /\ g \in R!Chunks(s)  BY DEF InPlace
<1>2. /\ plan[s].size \in Nat /\ plan[s].chunk_count \in Nat /\ plan[s].global_chunk_start \in Nat
      /\ ChunkSize \in Nat
  BY <1>1, SourceFacts DEF R!Limits, R!Descriptors
<1> DEFINE k == g - plan[s].global_chunk_start
<1>3. k \in 0..plan[s].chunk_count - 1  BY <1>1, <1>2 DEF R!Chunks
<1>4. part = k + 1 /\ offset >= k * ChunkSize  BY DEF InPlace, R!PartNumber, R!SourceOffset
<1>5. offset + size <= k * ChunkSize + R!Lesser(ChunkSize, plan[s].size - k * ChunkSize)
  BY DEF InPlace, R!SourceOffset, R!SizeOfChunk
<1>6. k \in Nat /\ k * ChunkSize \in Nat /\ (k + 1) * ChunkSize = k * ChunkSize + ChunkSize
  BY <1>2, <1>3
<1> DEFINE from == k * ChunkSize
<1> DEFINE to == (k + 1) * ChunkSize
<1>7. /\ offset + size <= from + R!Lesser(ChunkSize, plan[s].size - from)
      /\ from \in Nat /\ to = from + ChunkSize
  BY <1>5, <1>6
<1>8. offset + size <= R!Lesser(to, plan[s].size)
  <2> HIDE DEF from, to
  <2>1. QED BY <1>2, <1>7 DEF R!Lesser
<1>9. QED BY <1>3, <1>4, <1>8

\* For any plan, any number of jobs and any providers: what signProviderRoute and the recovery
\* (client.ts) sign lies in its planned chunk whatever was asked for, a route never says that
\* it is good for longer than its URLs are (boundedGrantExpiry), listings hold each part, and a
\* source on S3 is read only as it was planned.
THEOREM RoutesAreSound ==
    ASSUME R!Limits
    PROVE  R!Spec
              => [](R!SignedInPlace /\ R!HonestExpiry /\ R!PagesHoldParts /\ R!PlannedVersionOnly)
<1>1. R!Init => SigningInv  BY SigningInit
<1>2. SigningInv /\ [R!Next]_(R!vars) => SigningInv'  BY SigningNext
<1>3. ASSUME SigningInv
      PROVE  R!SignedInPlace /\ R!HonestExpiry /\ R!PagesHoldParts /\ R!PlannedVersionOnly
  <2>a. SigningTyped /\ RouteInPlace /\ R!PlannedVersionOnly  BY <1>3 DEF SigningInv
  <2>t. plan \in Plans /\ now \in Nat /\ route \in RouteRecords  BY <2>a DEF SigningTyped
  <2>1. R!HonestExpiry
    <3>1. /\ route.sourceSays \in Nat /\ route.sourceEnds \in Nat
          /\ route.destinationSays \in Nat /\ route.destinationEnds \in Nat
      BY <2>t DEF RouteRecords
    <3>2. QED BY <2>a, <2>t, <3>1 DEF RouteInPlace, R!HonestExpiry
  <2>2. R!SignedInPlace
    <3>1. SUFFICES ASSUME route.source # 0 PROVE R!SignedInPlace  BY DEF R!SignedInPlace
    <3>2. InPlace(route.source, route.chunk, route.part, route.offset, route.size)
      BY <2>a, <3>1 DEF RouteInPlace
    <3>3. /\ route.source \in Nat /\ route.chunk \in Nat /\ route.part \in Int
          /\ route.offset \in Int /\ route.size \in Int
      BY <2>t DEF RouteRecords
    <3> DEFINE k == route.chunk - plan[route.source].global_chunk_start
    <3>4. /\ k \in 0..plan[route.source].chunk_count - 1 /\ route.part = k + 1
          /\ route.offset >= k * ChunkSize
          /\ route.offset + route.size <= R!Lesser((k + 1) * ChunkSize, plan[route.source].size)
      BY <2>t, <3>2, <3>3, RangeFits
    <3>5. route.chunk \in R!Chunks(route.source)  BY <3>2 DEF InPlace
    <3>6. QED BY <3>4, <3>5 DEF R!SignedInPlace
  <2>3. QED BY <2>1, <2>2, <2>a, Pages
<1>4. QED BY <1>1, <1>2, <1>3, PTL DEF R!Spec

\* A number has one quotient.
LEMMA OneQuotient ==
    ASSUME NEW k \in Nat \ {0}, NEW i \in Nat, NEW j \in Nat, NEW b \in Nat,
           i * k <= b, b < i * k + k, j * k <= b, b < j * k + k
    PROVE  i = j
<1>1. i * k \in Nat /\ j * k \in Nat  OBVIOUS
<1>2. CASE i < j
  <2>1. (i + 1) * k <= j * k /\ (i + 1) * k = i * k + k  BY <1>2
  <2>2. QED BY <1>1, <2>1
<1>3. CASE j < i
  <2>1. (j + 1) * k <= i * k /\ (j + 1) * k = j * k + k  BY <1>3
  <2>2. QED BY <1>1, <2>1
<1>4. QED BY <1>2, <1>3

\* A set of numbers has a least one.
LEMMA Least ==
    ASSUME NEW S \in SUBSET Nat, S # {}
    PROVE  \E m \in S : \A k \in S : m <= k
<1> DEFINE LessThan == {p \in Nat \X Nat : p[1] < p[2]}
<1>1. IsWellFoundedOn(LessThan, Nat)  BY NatLessThanWellFounded DEF OpToRel
<1>2. PICK m \in S : \A y \in S : ~ (<<y, m>> \in LessThan)
  <2> HIDE DEF LessThan
  <2>1. QED BY <1>1, WFMin
<1>3. ASSUME NEW k \in S PROVE m <= k
  <2>1. <<k, m>> \in Nat \X Nat /\ k \in Nat /\ m \in Nat  OBVIOUS
  <2>2. ~ (<<k, m>>[1] < <<k, m>>[2])  BY <1>2, <2>1
  <2>3. QED BY <2>1, <2>2
<1>4. QED BY <1>3

\* What is known of a plan that is laid out.
Starts(s) == plan[s].global_chunk_start
Count(s) == plan[s].chunk_count

LEMMA Layout ==
    ASSUME R!Limits, plan \in Plans, R!LaidOut(plan)
    PROVE  /\ Len(plan) \in Nat /\ R!Sources = 1..Len(plan) /\ ChunkSize \in Nat \ {0}
           /\ \A s \in R!Sources : /\ Starts(s) \in Nat /\ Count(s) \in Nat
                 /\ plan[s].size \in Nat
                                   /\ Count(s) = (plan[s].size + ChunkSize - 1) \div ChunkSize
                                   /\ R!Chunks(s) = Starts(s)..Starts(s) + Count(s) - 1
           /\ 1 \in R!Sources => Starts(1) = 0
           /\ \A s \in R!Sources : s > 1 => Starts(s) = Starts(s - 1) + Count(s - 1)
<1>1. plan \in Seq(R!Descriptors) /\ ChunkSize \in Nat \ {0}  BY DEF R!Limits
<1>2. Len(plan) \in Nat /\ R!Sources = 1..Len(plan)  BY <1>1 DEF R!Sources
<1>3. ASSUME NEW s \in R!Sources
      PROVE  /\ Starts(s) \in Nat /\ Count(s) \in Nat /\ plan[s].size \in Nat
             /\ Count(s) = (plan[s].size + ChunkSize - 1) \div ChunkSize
             /\ R!Chunks(s) = Starts(s)..Starts(s) + Count(s) - 1
  <2>1. plan[s] \in R!Descriptors  BY SourceFacts
  <2>2. plan[s].chunk_count = (plan[s].size + ChunkSize - 1) \div ChunkSize
    BY <1>2 DEF R!LaidOut
  <2>3. QED BY <2>1, <2>2 DEF R!Descriptors, Starts, Count, R!Chunks
<1>4. 1 \in R!Sources => Starts(1) = 0
  <2>1. SUFFICES ASSUME 1 \in R!Sources PROVE Starts(1) = 0  OBVIOUS
  <2>2. Len(plan) # 0  BY <1>2, <2>1
  <2>3. plan # <<>>  BY <2>2
  <2>4. QED BY <2>3 DEF R!LaidOut, Starts
<1>5. ASSUME NEW s \in R!Sources, s > 1
      PROVE  Starts(s) = Starts(s - 1) + Count(s - 1)
  <2>1. s - 1 \in 1..Len(plan) - 1 /\ s = (s - 1) + 1  BY <1>2, <1>5
  <2>2. plan[(s - 1) + 1].global_chunk_start
          = plan[s - 1].global_chunk_start + plan[s - 1].chunk_count
    BY <2>1 DEF R!LaidOut
  <2>3. QED BY <2>1, <2>2 DEF Starts, Count
<1>6. QED BY <1>1, <1>2, <1>3, <1>4, <1>5

\* The chunks of a source come before those of the next ones.
LEMMA Ordered ==
    ASSUME R!Limits, plan \in Plans, R!LaidOut(plan), NEW s \in R!Sources, NEW t \in R!Sources,
           s < t
    PROVE  Starts(s) + Count(s) <= Starts(t)
<1> DEFINE Bad == {u \in R!Sources : s < u /\ ~ (Starts(s) + Count(s) <= Starts(u))}
<1>l. /\ Len(plan) \in Nat /\ R!Sources = 1..Len(plan)
      /\ \A u \in R!Sources : Starts(u) \in Nat /\ Count(u) \in Nat
      /\ \A u \in R!Sources : u > 1 => Starts(u) = Starts(u - 1) + Count(u - 1)
  BY Layout
<1>1. SUFFICES ASSUME Bad # {} PROVE FALSE  OBVIOUS
<1>2. Bad \in SUBSET Nat  BY <1>l
<1>3. PICK m \in Bad : \A u \in Bad : m <= u
  <2> HIDE DEF Bad
  <2>1. QED BY <1>1, <1>2, Least
<1>4. m \in R!Sources /\ s < m /\ ~ (Starts(s) + Count(s) <= Starts(m))  BY <1>3
<1>5. /\ m \in Nat /\ s \in Nat /\ m > 1 /\ m - 1 \in R!Sources
      /\ Starts(m) = Starts(m - 1) + Count(m - 1)
  BY <1>l, <1>4
<1>6. CASE m - 1 = s  BY <1>4, <1>5, <1>6, <1>l
<1>7. CASE m - 1 # s
  <2>1. s < m - 1  BY <1>4, <1>5, <1>7
  <2>2. m - 1 \notin Bad
    <3>1. ~ (m <= m - 1)  BY <1>5
    <3>2. QED BY <1>3, <3>1
  <2>3. Starts(s) + Count(s) <= Starts(m - 1)  BY <1>5, <2>1, <2>2
  <2>4. /\ Starts(s) \in Nat /\ Count(s) \in Nat
        /\ Starts(m - 1) \in Nat /\ Count(m - 1) \in Nat
    BY <1>5, <1>l
  <2>5. Starts(s) + Count(s) <= Starts(m)  BY <1>5, <2>3, <2>4
  <2>6. QED BY <1>4, <2>5
<1>8. QED BY <1>6, <1>7

\* How many chunks the plan has, numbered from 0 on without a gap.
Total == IF Len(plan) = 0 THEN 0 ELSE Starts(Len(plan)) + Count(Len(plan))

LEMMA ChunksNumbered ==
    ASSUME R!Limits, plan \in Plans, R!LaidOut(plan)
    PROVE  /\ Total \in Nat
           /\ \A s \in R!Sources : R!Chunks(s) \subseteq 0..Total - 1
           /\ \A g \in 0..Total - 1 : \E s \in R!Sources : g \in R!Chunks(s)
<1>l. /\ Len(plan) \in Nat /\ R!Sources = 1..Len(plan)
      /\ \A u \in R!Sources : /\ Starts(u) \in Nat /\ Count(u) \in Nat
                              /\ R!Chunks(u) = Starts(u)..Starts(u) + Count(u) - 1
      /\ \A u \in R!Sources : u > 1 => Starts(u) = Starts(u - 1) + Count(u - 1)
      /\ 1 \in R!Sources => Starts(1) = 0
  BY Layout
<1>1. Total \in Nat
  <2>1. Len(plan) # 0 => Len(plan) \in R!Sources  BY <1>l
  <2>2. QED BY <1>l, <2>1 DEF Total
<1>2. ASSUME NEW s \in R!Sources PROVE R!Chunks(s) \subseteq 0..Total - 1
  <2>1. Len(plan) \in R!Sources /\ Len(plan) # 0 /\ s <= Len(plan) /\ s \in Nat  BY <1>l
  <2>2. Total = Starts(Len(plan)) + Count(Len(plan))  BY <2>1 DEF Total
  <2>3. Starts(s) + Count(s) <= Total
    <3>1. CASE s = Len(plan)  BY <1>1, <2>2, <3>1
    <3>2. CASE s < Len(plan)
      <4>1. Starts(s) + Count(s) <= Starts(Len(plan))  BY <2>1, <3>2, Ordered
      <4>2. QED BY <1>l, <2>1, <2>2, <4>1
    <3>3. QED BY <1>l, <2>1, <3>1, <3>2
  <2>4. QED BY <1>1, <1>l, <2>3
<1>3. ASSUME NEW g \in 0..Total - 1 PROVE \E s \in R!Sources : g \in R!Chunks(s)
  <2> DEFINE After == {s \in R!Sources : g < Starts(s) + Count(s)}
  <2>1. Len(plan) # 0  BY DEF Total
  <2>2. Len(plan) \in R!Sources  BY <1>l, <2>1
  <2>3. Len(plan) \in After  BY <1>1, <2>1, <2>2 DEF Total
  <2>4. After \in SUBSET Nat  BY <1>l
  <2>5. PICK s \in After : \A u \in After : s <= u
    <3> HIDE DEF After
    <3>1. QED BY <2>3, <2>4, Least
  <2>6. s \in R!Sources /\ s \in Nat /\ g \in Nat /\ g < Starts(s) + Count(s)  BY <1>1, <1>l, <2>5
  <2>7. Starts(s) <= g
    <3>1. CASE s = 1  BY <1>l, <2>6, <3>1
    <3>2. CASE s > 1
      <4>1. s - 1 \in R!Sources /\ ~ (s <= s - 1)  BY <1>l, <2>6, <3>2
      <4>2. s - 1 \notin After  BY <2>5, <4>1
      <4>3. ~ (g < Starts(s - 1) + Count(s - 1))  BY <4>1, <4>2
      <4>4. Starts(s) = Starts(s - 1) + Count(s - 1)  BY <1>l, <2>6, <3>2
      <4>5. QED BY <1>l, <2>6, <4>1, <4>3, <4>4
    <3>3. QED BY <1>l, <2>6, <3>1, <3>2
  <2>8. QED BY <1>l, <2>6, <2>7
<1>4. QED BY <1>1, <1>2, <1>3

\* A chunk is of one source.
LEMMA OneSource ==
    ASSUME R!Limits, plan \in Plans, R!LaidOut(plan), NEW s \in R!Sources, NEW t \in R!Sources,
           NEW g \in R!Chunks(s), g \in R!Chunks(t)
    PROVE  s = t
<1>l. /\ Len(plan) \in Nat /\ R!Sources = 1..Len(plan)
      /\ \A u \in R!Sources : /\ Starts(u) \in Nat /\ Count(u) \in Nat
                              /\ R!Chunks(u) = Starts(u)..Starts(u) + Count(u) - 1
  BY Layout
<1>1. /\ g \in Nat /\ Starts(s) <= g /\ g < Starts(s) + Count(s)
      /\ Starts(t) <= g /\ g < Starts(t) + Count(t)
  BY <1>l
<1>2. ~ (s < t)
  <2>1. SUFFICES ASSUME s < t PROVE FALSE  OBVIOUS
  <2>2. QED BY <1>l, <1>1, <2>1, Ordered
<1>3. ~ (t < s)
  <2>1. SUFFICES ASSUME t < s PROVE FALSE  OBVIOUS
  <2>2. QED BY <1>l, <1>1, <2>1, Ordered
<1>4. QED BY <1>l, <1>2, <1>3

\* Each byte of a source is in one chunk.
LEMMA BytesOnce ==
    ASSUME R!Limits, plan \in Plans, R!LaidOut(plan), NEW s \in R!Sources,
           NEW b \in 0..plan[s].size - 1
    PROVE  Cardinality({g \in R!Chunks(s) : R!SourceOffset(s, g) <= b
                                            /\ b < R!SourceOffset(s, g) + R!SizeOfChunk(s,
                                                                                        g)}) = 1
<1> DEFINE C == ChunkSize
<1> DEFINE z == plan[s].size
<1> DEFINE k == b \div C
<1> DEFINE Holds(g) == R!SourceOffset(s, g) <= b /\ b < R!SourceOffset(s, g) + R!SizeOfChunk(s, g)
<1>1. /\ C \in Nat \ {0} /\ z \in Nat /\ Starts(s) \in Nat /\ Count(s) \in Nat
      /\ Count(s) = (z + C - 1) \div C /\ R!Chunks(s) = Starts(s)..Starts(s) + Count(s) - 1
  BY Layout
<1>2. b \in Nat /\ b < z /\ z + C - 1 \in Nat
  <2>1. b \in 0..z - 1  OBVIOUS
  <2> HIDE DEF z, C
  <2>2. QED BY <1>1, <2>1
<1>3. k \in Nat /\ k * C \in Nat /\ k * C <= b /\ b < k * C + C
  <2>1. k \in Nat /\ b % C \in 0..C - 1 /\ b = (C * k) + (b % C) /\ k * C = C * k /\ C * k \in Nat
    BY <1>1, <1>2, Dividing
  <2> DEFINE r == b % C
  <2>2. /\ k \in Nat /\ k * C \in Nat /\ r \in 0..C - 1 /\ b = (k * C) + r /\ C \in Nat
    BY <1>1, <2>1
  <2> HIDE DEF k, C, r
  <2>3. QED BY <2>2
<1>4. k < Count(s)
  <2> DEFINE n == z + C - 1
  <2> DEFINE q == Count(s)
  <2>1. q \in Nat /\ n % C \in 0..C - 1 /\ n = (C * q) + (n % C) /\ q * C = C * q /\ C * q \in Nat
    BY <1>1, <1>2, Dividing
  <2>2. z <= q * C
    <3> DEFINE m == q * C
    <3>1. m \in Nat /\ n % C \in 0..C - 1 /\ n = m + (n % C)  BY <2>1
    <3> DEFINE r == n % C
    <3>2. r \in 0..C - 1 /\ z + C - 1 = m + r  BY <3>1
    <3> HIDE DEF m, r, z, C
    <3>3. z <= m  BY <1>1, <3>1, <3>2
    <3>4. QED BY <3>3 DEF m
  <2>3. SUFFICES ASSUME q <= k PROVE FALSE  BY <1>3, <2>1
  <2>4. q * C <= k * C
    <3>1. q \in Nat /\ k \in Nat /\ C \in Nat /\ q <= k  BY <1>1, <1>3, <2>1, <2>3
    <3> HIDE DEF q, k, C
    <3>2. QED BY <3>1, ProductGrows
  <2> DEFINE from == k * C
  <2> DEFINE to == q * C
  <2>5. /\ from \in Nat /\ to \in Nat /\ from <= b /\ b < z /\ z <= to /\ to <= from
        /\ b \in Nat /\ z \in Nat
    BY <1>1, <1>2, <1>3, <2>1, <2>2, <2>4
  <2> HIDE DEF from, to, z
  <2>6. QED BY <2>5
<1>5. ASSUME NEW j \in 0..Count(s) - 1
      PROVE  /\ R!SourceOffset(s, Starts(s) + j) = j * C /\ j * C \in Nat
             /\ R!SizeOfChunk(s, Starts(s) + j) = R!Lesser(C, z - j * C)
  <2>1. (Starts(s) + j) - Starts(s) = j /\ j \in Nat  BY <1>1
  <2>2. R!SourceOffset(s, Starts(s) + j) = j * C  BY <2>1 DEF R!SourceOffset, Starts
  <2>3. QED BY <1>1, <2>1, <2>2 DEF R!SizeOfChunk
<1>6. ASSUME NEW j \in 0..Count(s) - 1
      PROVE  Holds(Starts(s) + j) <=> j = k
  <2>1. /\ j \in Nat /\ j * C \in Nat /\ R!SourceOffset(s, Starts(s) + j) = j * C
        /\ R!SizeOfChunk(s, Starts(s) + j) = R!Lesser(C, z - j * C)
    BY <1>1, <1>5
  <2> DEFINE f == j * C
  <2>2. Holds(Starts(s) + j) <=> f <= b /\ b < f + R!Lesser(C, z - f)  BY <2>1
  <2>3. f <= b /\ b < f + R!Lesser(C, z - f) <=> f <= b /\ b < f + C
    <3> HIDE DEF f, z, C
    <3>1. f \in Nat  BY <2>1 DEF f, C
    <3>2. QED BY <1>1, <1>2, <3>1 DEF R!Lesser
  <2>4. f <= b /\ b < f + C => j = k  BY <1>1, <1>2, <1>3, <2>1, OneQuotient
  <2>5. QED BY <1>3, <2>2, <2>3, <2>4
<1>7. ASSUME NEW g \in R!Chunks(s) PROVE Holds(g) <=> g = Starts(s) + k
  <2> DEFINE j == g - Starts(s)
  <2>1. j \in 0..Count(s) - 1 /\ g = Starts(s) + j  BY <1>1
  <2>2. Holds(Starts(s) + j) <=> j = k
    <3> HIDE DEF Holds, k, j
    <3>1. QED BY <1>6, <2>1
  <2>3. Holds(g) <=> j = k
    <3> HIDE DEF Holds, k, j
    <3>1. QED BY <2>1, <2>2
  <2>4. QED BY <1>1, <1>3, <2>1, <2>3
<1>8. Starts(s) + k \in R!Chunks(s)  BY <1>1, <1>3, <1>4
<1>9. {g \in R!Chunks(s) : Holds(g)} = {Starts(s) + k}
  <2> HIDE DEF Holds, k
  <2>1. QED BY <1>7, <1>8
<1>10. QED BY <1>9, FS_Singleton

\* The delivery indices are the pairs of a chunk's number and a destination's, in order.
LEMMA Deliveries ==
    ASSUME R!Limits, plan \in Plans, R!LaidOut(plan)
    PROVE  {R!DeliveryIndex(c[1], c[2], c[3]) : c \in R!Coordinates}
              = 0..Cardinality(R!Coordinates) - 1
<1> DEFINE D == Len(DestinationKind)
<1> DEFINE All == 0..Total * D - 1
<1> DEFINE Index == [c \in R!Coordinates |-> R!DeliveryIndex(c[1], c[2], c[3])]
<1>1. /\ D \in Nat /\ R!Destinations = 1..D /\ Total \in Nat /\ Total * D \in Nat
  <2>1. DestinationKind \in Seq(R!Kinds)  BY DEF R!Limits
  <2>2. D \in Nat /\ R!Destinations = 1..D  BY <2>1 DEF R!Destinations
  <2>3. Total \in Nat  BY ChunksNumbered
  <2> HIDE DEF D
  <2>4. Total * D \in Nat  BY <2>2, <2>3
  <2>5. QED BY <2>2, <2>3, <2>4
<1>2. ASSUME NEW c \in R!Coordinates
      PROVE  /\ c[1] \in R!Sources /\ c[2] \in R!Chunks(c[1]) /\ c[2] \in 0..Total - 1
             /\ c[3] \in 1..D /\ c = <<c[1], c[2], c[3]>>
  <2>1. PICK s \in R!Sources : c \in {s} \X R!Chunks(s) \X R!Destinations  BY DEF R!Coordinates
  <2>2. /\ c[1] = s /\ c[2] \in R!Chunks(s) /\ c[3] \in R!Destinations
        /\ c = <<c[1], c[2], c[3]>>
    BY <2>1
  <2>3. R!Chunks(s) \subseteq 0..Total - 1  BY ChunksNumbered
  <2>4. QED BY <1>1, <2>2, <2>3
<1>3. ASSUME NEW s \in R!Sources, NEW g \in R!Chunks(s), NEW d \in 1..D
      PROVE  <<s, g, d>> \in R!Coordinates
  <2>1. <<s, g, d>> \in {s} \X R!Chunks(s) \X R!Destinations  BY <1>1
  <2>2. QED BY <2>1 DEF R!Coordinates
<1>4. ASSUME NEW g \in 0..Total - 1, NEW d \in 1..D
      PROVE  /\ g * D + (d - 1) \in All /\ g * D \in Nat
             /\ g * D <= g * D + (d - 1) /\ g * D + (d - 1) < g * D + D
  <2> HIDE DEF D
  <2>1. g \in Nat /\ g * D \in Nat /\ (g + 1) * D = g * D + D  BY <1>1
  <2>2. (g + 1) * D <= Total * D  BY <1>1, <2>1
  <2> DEFINE from == g * D
  <2> DEFINE end == Total * D
  <2>3. from \in Nat /\ end \in Nat /\ from + D <= end  BY <1>1, <2>1, <2>2
  <2>4. from + (d - 1) \in 0..end - 1 /\ from <= from + (d - 1) /\ from + (d - 1) < from + D
    <3> HIDE DEF from, end
    <3>1. QED BY <1>1, <2>3
  <2>5. QED BY <2>3, <2>4
<1>5. ASSUME NEW c \in R!Coordinates
      PROVE  /\ Index[c] = c[2] * D + (c[3] - 1) /\ Index[c] \in All
  BY <1>2, <1>4 DEF R!DeliveryIndex
<1>6. ASSUME NEW c \in R!Coordinates, NEW e \in R!Coordinates, Index[c] = Index[e]
      PROVE  c = e
  <2> DEFINE i == Index[c]
  <2>1. /\ i = c[2] * D + (c[3] - 1) /\ i = e[2] * D + (e[3] - 1)  BY <1>5, <1>6
  <2>2. /\ c[2] * D \in Nat /\ c[2] * D <= i /\ i < c[2] * D + D
        /\ e[2] * D \in Nat /\ e[2] * D <= i /\ i < e[2] * D + D /\ i \in Nat
    <3>1. i \in All  BY <1>5
    <3>2. i \in Nat  BY <3>1
    <3> HIDE DEF i, D
    <3>3. QED BY <1>2, <1>4, <2>1, <3>2
  <2>3. /\ c[2] \in Nat /\ e[2] \in Nat /\ D \in Nat \ {0} /\ c[3] \in Int /\ e[3] \in Int
    BY <1>1, <1>2
  <2>4. c[2] = e[2]
    <3> HIDE DEF i, D
    <3>1. QED BY <2>2, <2>3, OneQuotient
  <2>5. c[3] = e[3]
    <3> DEFINE m == c[2] * D
    <3>1. i = m + (c[3] - 1) /\ i = m + (e[3] - 1) /\ m \in Nat  BY <2>1, <2>2, <2>4
    <3> HIDE DEF m, i
    <3>2. QED BY <2>3, <3>1
  <2>6. c[1] = e[1]  BY <1>2, <2>4, OneSource
  <2>7. QED BY <1>2, <2>4, <2>5, <2>6
<1>7. ASSUME NEW i \in All PROVE \E c \in R!Coordinates : Index[c] = i
  <2> DEFINE g == i \div D
  <2> DEFINE r == i % D
  <2>0. i \in Nat /\ i < Total * D /\ D \in Nat \ {0}
    <3>1. i \in Nat /\ i < Total * D  BY <1>1
    <3>2. D # 0
      <4>1. SUFFICES ASSUME D = 0 PROVE FALSE  OBVIOUS
      <4>2. Total * D = 0
        <5> HIDE DEF D
        <5>1. QED BY <1>1, <4>1
      <4>3. QED BY <3>1, <4>2
    <3>3. QED BY <1>1, <3>1, <3>2
  <2>1. g \in Nat /\ r \in 0..D - 1 /\ i = (D * g) + r /\ g * D = D * g /\ D * g \in Nat
    <3> HIDE DEF D
    <3>1. QED BY <2>0, Dividing
  <2> HIDE DEF g, r, D
  <2>2. g < Total
    <3>1. SUFFICES ASSUME Total <= g PROVE FALSE  BY <1>1, <2>1
    <3>2. Total * D <= g * D  BY <1>1, <2>0, <2>1, <3>1
    <3>3. QED BY <1>1, <2>0, <2>1, <3>2
  <2>3. g \in 0..Total - 1  BY <1>1, <2>1, <2>2
  <2>4. PICK s \in R!Sources : g \in R!Chunks(s)  BY <2>3, ChunksNumbered
  <2>5. r + 1 \in 1..D  BY <2>0, <2>1
  <2>6. <<s, g, r + 1>> \in R!Coordinates  BY <1>3, <2>4, <2>5
  <2>7. Index[<<s, g, r + 1>>] = g * D + ((r + 1) - 1)  BY <1>5, <2>6
  <2>8. g * D + ((r + 1) - 1) = i  BY <2>0, <2>1
  <2>9. QED BY <2>6, <2>7, <2>8
<1>8. {R!DeliveryIndex(c[1], c[2], c[3]) : c \in R!Coordinates} = All
  <2>1. {R!DeliveryIndex(c[1], c[2], c[3]) : c \in R!Coordinates}
           = {Index[c] : c \in R!Coordinates}
    OBVIOUS
  <2> HIDE DEF Index, All
  <2>2. QED BY <1>5, <1>7, <2>1
<1>9. Cardinality(R!Coordinates) = Total * D
  <2>1. Index \in [R!Coordinates -> All]
    <3> HIDE DEF All
    <3>1. QED BY <1>5
  <2> HIDE DEF Index
  <2>2. Index \in Injection(R!Coordinates, All)
    BY <1>6, <2>1 DEF Injection, IsInjective
  <2>3. Index \in Surjection(R!Coordinates, All)  BY <1>7, <2>1 DEF Surjection
  <2> DEFINE n == Total * D
  <2>4. n \in Nat /\ All = 0..n - 1  BY <1>1
  <2>5. IsFiniteSet(All) /\ Cardinality(All) = n
    <3> HIDE DEF n, All
    <3>1. 0 \in Int /\ n - 1 \in Int  BY <2>4
    <3>2. IsFiniteSet(0..n - 1) /\ Cardinality(0..n - 1) = IF 0 > n - 1 THEN 0 ELSE n - 1 - 0 + 1
      BY <3>1, FS_Interval
    <3>3. QED BY <2>4, <3>2
  <2> HIDE DEF n, All
  <2>6. Cardinality(R!Coordinates) = Cardinality(All)  BY <2>2, <2>3, <2>5, FS_Injection
  <2>7. QED BY <2>5, <2>6 DEF n
<1>10. QED BY <1>8, <1>9

\* For any plan whose sources BeamCore lays out one after the other, as client.ts reads it
\* (materializePlanChunk): each byte of a source is in one chunk, and the delivery indices are
\* numbered without a gap or a repetition.
THEOREM PlansTile ==
    ASSUME R!Limits, \A p \in Plans : R!LaidOut(p)
    PROVE  R!Spec => []R!PlanTiles
<1>1. R!Init => SigningInv  BY SigningInit
<1>2. SigningInv /\ [R!Next]_(R!vars) => SigningInv'  BY SigningNext
<1>3. ASSUME SigningInv PROVE R!PlanTiles
  <2>1. plan \in Plans /\ R!LaidOut(plan)  BY <1>3 DEF SigningInv, SigningTyped
  <2>2. QED BY <2>1, BytesOnce, Deliveries, SameCountingR DEF R!PlanTiles
<1>4. QED BY <1>1, <1>2, <1>3, PTL DEF R!Spec

-----------------------------------------------------------------------------
(* A transfer to Hugging Face, from the Hub's part size to its commit.     *)

CONSTANTS Targets, Size, Lengths, PartSizes, PlanSizes
VARIABLES phase, target, hub, partSize, layout, body, read, partBytes, etags, hashing, parts,
    committed, surprises

H == INSTANCE HubStaging WITH pc <- phase, plan <- layout, troubles <- surprises

HubAnswers == [state : {"none", "stored", "single", "multipart"}, chunk : Nat, urls : Nat]
HubTyped ==
    /\ phase \in {"planning", "preparing", "checking", "streaming", "closing", "closed", "failed"}
    /\ target \in Nat \ {0} /\ hub \in [Targets -> HubAnswers] /\ partSize \in Nat
    /\ layout \in [chunk : Nat, count : Nat]
    /\ body \in [Targets -> Nat] /\ read \in [Targets -> Nat] /\ partBytes \in [Targets -> Nat]
    /\ etags \in [Targets -> Seq(Nat \X Nat)] /\ hashing \subseteq Targets
    /\ parts \in [Targets -> SUBSET [number : Nat, bytes : Nat \X Nat]]
    /\ committed \subseteq Targets /\ surprises \in Nat

\* The part size of the Hub is the same for every destination that has one.
UploadHolds(t) ==
    /\ hub[t].state = "multipart" <=> hub[t].chunk # 0
    /\ hub[t].chunk # 0 => hub[t].chunk = partSize /\ hub[t].urls = H!Ceil(Size, hub[t].chunk)
PlanningHolds ==
    /\ phase = "planning" => /\ target \in Targets
                             /\ \A t \in Targets : t >= target <=> hub[t].state = "none"
    /\ phase \notin {"planning", "failed"} => \A t \in Targets : hub[t].state # "none"

\* Whole parts so far, and the bytes of the next one.
Whole(t) == [i \in 1..Len(etags[t]) |-> H!Interval((i - 1) * hub[t].chunk, i * hub[t].chunk)]
HashHolds(t) ==
    /\ hub[t].chunk = 0 => t \notin hashing /\ read[t] = 0 /\ partBytes[t] = 0 /\ etags[t] = <<>>
    /\ t \in hashing => /\ partBytes[t] < hub[t].chunk /\ read[t] <= body[t]
                        /\ read[t] = Len(etags[t]) * hub[t].chunk + partBytes[t]
                        /\ etags[t] = Whole(t)

\* What is uploaded is a chunk of a plan that fits.
PartHolds(t, p) == /\ p.number \in 1..layout.count /\ p.bytes = H!Chunk(p.number - 1)
                   /\ layout.chunk # 0 /\ layout.count = H!Ceil(Size, layout.chunk) /\ H!Fits(t)
PlanHolds ==
    /\ phase \in {"checking", "streaming", "closing", "closed"} =>
             layout.chunk # 0 /\ layout.count = H!Ceil(Size, layout.chunk)
    /\ phase \in {"planning", "preparing", "checking"} => \A t \in Targets : parts[t] = {}
    /\ phase \in {"streaming", "closing", "closed"} => \A t \in Targets : H!Fits(t)
    /\ \A t \in Targets : \A p \in parts[t] : PartHolds(t, p)

CommitHolds ==
    /\ phase \in {"planning", "preparing", "checking", "streaming"} => committed = {}
    /\ phase = "closing" => target \in Targets /\ committed = 1..target - 1
    /\ phase = "closed" => committed = Targets

QuietHolds ==
    /\ phase = "checking" /\ surprises = 0 => H!Adopts(layout.chunk)
    /\ phase = "failed" => \/ surprises > 0
                           \/ \E t \in Targets : body[t] # Size \/ hub[t].state = "stored"

HubInv == /\ HubTyped
          /\ PlanningHolds /\ PlanHolds /\ CommitHolds /\ QuietHolds /\ H!EtagsFollowParts
          /\ \A t \in Targets : UploadHolds(t) /\ HashHolds(t)

\* What a division rounded up is.
LEMMA Ceiling ==
    ASSUME NEW n \in Nat, NEW c \in Nat \ {0}
    PROVE  H!Ceil(n, c) \in Nat /\ n <= H!Ceil(n, c) * c /\ H!Ceil(n, c) * c < n + c
<1> DEFINE m == n + c - 1
<1>1. m \in Nat  OBVIOUS
<1> HIDE DEF m
<1>2. m \div c \in Nat  BY <1>1
<1>3. (m \div c) * c <= m /\ m < (m \div c) * c + c  BY <1>1
<1>4. H!Ceil(n, c) = m \div c  BY DEF H!Ceil, m
<1> DEFINE r == (m \div c) * c
<1>5. r \in Nat /\ r <= m /\ m < r + c  BY <1>2, <1>3
<1> HIDE DEF r
<1>6. n <= r /\ r < n + c  BY <1>5 DEF m
<1>7. QED BY <1>2, <1>4, <1>6 DEF r

LEMMA CeilingIs ==
    ASSUME NEW n \in Nat, NEW c \in Nat \ {0}, NEW q \in Nat, n <= q * c, q * c < n + c
    PROVE  H!Ceil(n, c) = q
<1> DEFINE d == H!Ceil(n, c)
<1>1. d \in Nat /\ n <= d * c /\ d * c < n + c  BY Ceiling
<1> HIDE DEF d
<1>2. q * c \in Nat /\ d * c \in Nat  BY <1>1
<1>3. CASE d < q
  <2>1. (d + 1) * c <= q * c /\ (d + 1) * c = d * c + c  BY <1>1, <1>3
  <2>2. QED BY <1>1, <1>2, <2>1
<1>4. CASE q < d
  <2>1. (q + 1) * c <= d * c /\ (q + 1) * c = q * c + c  BY <1>1, <1>4
  <2>2. QED BY <1>1, <1>2, <2>1
<1>5. QED BY <1>1, <1>3, <1>4 DEF d

\* Sequences one after the other.
LEMMA Joined ==
    ASSUME NEW S, NEW e \in Seq(S), NEW f \in Nat, NEW G \in [1..f -> S]
    PROVE  /\ e \o G \in [1..Len(e) + f -> S]
           /\ \A i \in 1..Len(e) : (e \o G)[i] = e[i]
           /\ \A j \in 1..f : (e \o G)[Len(e) + j] = G[j]
<1>1. G = [j \in 1..f |-> G[j]] /\ \A j \in 1..f : G[j] \in S  OBVIOUS
<1>2. G \in Seq(S)
  <2>1. [j \in 1..f |-> G[j]] \in Seq(S)  BY <1>1
  <2>2. QED BY <1>1, <2>1
<1>3. Len(G) = f
  <2>1. DOMAIN G = 1..f  BY <1>1
  <2>2. Len(G) \in Nat /\ DOMAIN G = 1..Len(G)  BY <1>2, LenProperties
  <2>3. QED BY <2>1, <2>2
<1>4. Len(e) \in Nat  BY LenProperties
<1>5. /\ e \o G \in Seq(S) /\ Len(e \o G) = Len(e) + f
      /\ \A i \in 1..Len(e) + f : (e \o G)[i] = IF i <= Len(e) THEN e[i] ELSE G[i - Len(e)]
  BY <1>2, <1>3, ConcatProperties
<1>6. e \o G \in [1..Len(e) + f -> S]  BY <1>5, LenProperties
<1>7. ASSUME NEW i \in 1..Len(e) PROVE (e \o G)[i] = e[i]
  <2>1. i \in 1..Len(e) + f /\ i <= Len(e)  BY <1>4
  <2>2. QED BY <1>5, <2>1
<1>8. ASSUME NEW j \in 1..f PROVE (e \o G)[Len(e) + j] = G[j]
  <2>1. /\ Len(e) + j \in 1..Len(e) + f /\ ~(Len(e) + j <= Len(e))
        /\ (Len(e) + j) - Len(e) = j
    BY <1>4
  <2>2. QED BY <1>5, <2>1
<1>9. QED BY <1>6, <1>7, <1>8

\* The parts that are closed by n more bytes follow those before, and fewer bytes are left.
LEMMA PieceIs ==
    ASSUME HubTyped, NEW t \in Targets, hub[t].chunk # 0, HashHolds(t), t \in hashing,
           NEW n \in Nat
    PROVE  LET c == hub[t].chunk
               q == Len(etags[t]) + H!Full(n, partBytes[t], c)
           IN /\ q \in Nat /\ c \in Nat \ {0} /\ H!Piece(t, n).partBytes \in 0..c - 1
              /\ read[t] + n = q * c + H!Piece(t, n).partBytes
              /\ H!Piece(t, n).etags = [i \in 1..q |-> H!Interval((i - 1) * c, i * c)]
<1> DEFINE c == hub[t].chunk
<1> DEFINE old == Len(etags[t])
<1> DEFINE b == partBytes[t]
<1> DEFINE f == H!Full(n, b, c)
<1> DEFINE from == read[t] - b
<1>1. /\ c \in Nat \ {0} /\ old \in Nat /\ b \in Nat /\ etags[t] \in Seq(Nat \X Nat)
      /\ read[t] \in Nat /\ read[t] = old * c + b /\ old * c \in Nat
      /\ etags[t] = [i \in 1..old |-> H!Interval((i - 1) * c, i * c)]
  BY DEF HubTyped, HubAnswers, HashHolds, Whole
<1>2. from = old * c
  <2> DEFINE m == old * c
  <2>1. m \in Nat /\ read[t] = m + b  BY <1>1
  <2> HIDE DEF m
  <2>2. QED BY <1>1, <2>1 DEF m
<1>3. f \in Nat /\ f * c \in Nat /\ f * c <= n + b /\ n + b < f * c + c
  <2> DEFINE m == n + b
  <2>0. b \in Nat /\ c \in Nat \ {0}  BY <1>1
  <2> HIDE DEF b, c
  <2>1. m \in Nat  BY <2>0
  <2> HIDE DEF m
  <2>2. m \div c \in Nat  BY <2>0, <2>1
  <2>3. (m \div c) * c \in Nat /\ (m \div c) * c <= m /\ m < (m \div c) * c + c
    BY <2>0, <2>1
  <2>4. f = m \div c  BY DEF H!Full, m
  <2>5. QED BY <2>2, <2>3, <2>4 DEF m
<1>n. old \in Nat /\ f \in Nat /\ etags[t] \in Seq(Nat \X Nat)  BY <1>1, <1>3
<1>4. H!Piece(t, n).partBytes = n + b - f * c  BY DEF H!Piece
<1>5. H!Piece(t, n).partBytes \in 0..c - 1
  <2> DEFINE m == f * c
  <2>1. m \in Nat /\ m <= n + b /\ n + b < m + c  BY <1>3
  <2> HIDE DEF m
  <2>2. n + b - m \in 0..c - 1
    <3> HIDE DEF b, c
    <3>1. QED BY <1>1, <2>1
  <2>3. QED BY <1>4, <2>2 DEF m
<1>6. read[t] + n = (old + f) * c + H!Piece(t, n).partBytes
  <2> DEFINE k == old * c
  <2> DEFINE m == f * c
  <2> DEFINE p == H!Piece(t, n).partBytes
  <2>1. (old + f) * c = k + m
    <3> HIDE DEF c, b, old, f
    <3>1. QED BY <1>1, <1>3
  <2>2. read[t] = k + b /\ k \in Nat /\ m \in Nat /\ p = n + b - m  BY <1>1, <1>3, <1>4
  <2>3. read[t] + n = (k + m) + p
    <3> HIDE DEF k, m, p, b
    <3>1. QED BY <1>1, <2>2
  <2>4. QED BY <2>1, <2>3
<1>7. H!Piece(t, n).etags
        = etags[t] \o [i \in 1..f |-> H!Interval(from + (i - 1) * c, from + i * c)]
  BY DEF H!Piece
<1>8. ASSUME NEW i \in 1..f
      PROVE  /\ from + (i - 1) * c = ((old + i) - 1) * c /\ from + i * c = (old + i) * c
  <2> HIDE DEF c, b, old, f, from
  <2>1. i \in Nat  BY <1>3
  <2>2. (old + i) * c = old * c + i * c /\ ((old + i) - 1) * c = old * c + (i - 1) * c
    BY <1>1, <2>1
  <2>3. QED BY <1>2, <2>2
<1>9. H!Piece(t, n).etags = [i \in 1..old + f |-> H!Interval((i - 1) * c, i * c)]
  <2> DEFINE more == [i \in 1..f |-> H!Interval(from + (i - 1) * c, from + i * c)]
  <2>1. ASSUME NEW i \in 1..f
        PROVE  more[i] = H!Interval(((old + i) - 1) * c, (old + i) * c) /\ more[i] \in Nat \X Nat
    <3>1. more[i] = H!Interval(((old + i) - 1) * c, (old + i) * c)  BY <1>8
    <3>2. ((old + i) - 1) * c \in Nat /\ (old + i) * c \in Nat
      <4> HIDE DEF old, c, f
      <4>1. i \in Nat /\ old + i \in Nat /\ (old + i) - 1 \in Nat  BY <1>1, <1>3
      <4>2. QED BY <1>1, <4>1
    <3>3. QED BY <3>1, <3>2 DEF H!Interval
  <2>2. more \in [1..f -> Nat \X Nat]
    <3>1. more = [i \in 1..f |-> more[i]]  OBVIOUS
    <3> HIDE DEF more, f
    <3>2. QED BY <2>1, <3>1
  <2>3. /\ etags[t] \o more \in [1..old + f -> Nat \X Nat]
        /\ \A i \in 1..old : (etags[t] \o more)[i] = etags[t][i]
        /\ \A j \in 1..f : (etags[t] \o more)[old + j] = more[j]
    <3> DEFINE e == etags[t]
    <3>1. e \in Seq(Nat \X Nat) /\ f \in Nat /\ more \in [1..f -> Nat \X Nat]  BY <1>n, <2>2
    <3> HIDE DEF more, f, e
    <3>2. /\ e \o more \in [1..Len(e) + f -> Nat \X Nat]
          /\ \A i \in 1..Len(e) : (e \o more)[i] = e[i]
          /\ \A j \in 1..f : (e \o more)[Len(e) + j] = more[j]
      BY <3>1, Joined
    <3>3. QED BY <3>2 DEF e
  <2>4. ASSUME NEW i \in 1..old + f
        PROVE  (etags[t] \o more)[i] = H!Interval((i - 1) * c, i * c)
    <3>1. CASE i <= old
      <4>1. i \in 1..old
        <5> HIDE DEF old, f
        <5>1. QED BY <1>n, <3>1
      <4>2. etags[t][i] = H!Interval((i - 1) * c, i * c)  BY <1>1, <4>1
      <4>3. QED BY <2>3, <4>1, <4>2
    <3>2. CASE ~(i <= old)
      <4> DEFINE j == i - old
      <4>1. j \in 1..f /\ old + j = i
        <5> HIDE DEF old, f
        <5>1. QED BY <1>n, <3>2
      <4>2. more[j] = H!Interval(((old + j) - 1) * c, (old + j) * c)  BY <2>1, <4>1
      <4>3. more[j] = H!Interval((i - 1) * c, i * c)  BY <4>1, <4>2
      <4>4. (etags[t] \o more)[old + j] = more[j]
        <5> HIDE DEF j, more, old, f
        <5>1. QED BY <2>3, <4>1
      <4>5. QED BY <4>1, <4>3, <4>4
    <3>3. QED BY <3>1, <3>2
  <2>5. H!Piece(t, n).etags = etags[t] \o more  BY <1>7
  <2> HIDE DEF more, old, f, c
  <2>6. QED BY <2>3, <2>4, <2>5
<1>10. old + f \in Nat  BY <1>1, <1>3
<1>11. QED BY <1>1, <1>5, <1>6, <1>9, <1>10

\* A function on 1..q with pairs as values is a sequence of length q.
LEMMA Pairs ==
    ASSUME NEW q \in Nat, NEW E, NEW S, E \in [1..q -> S]
    PROVE  E \in Seq(S) /\ Len(E) = q
<1>1. E = [i \in 1..q |-> E[i]] /\ \A i \in 1..q : E[i] \in S  OBVIOUS
<1>2. E \in Seq(S)
  <2>1. [i \in 1..q |-> E[i]] \in Seq(S)  BY <1>1
  <2>2. QED BY <1>1, <2>1
<1>3. DOMAIN E = 1..q  BY <1>1
<1>4. Len(E) \in Nat /\ DOMAIN E = 1..Len(E)  BY <1>2, LenProperties
<1>5. QED BY <1>2, <1>3, <1>4

\* q whole parts, and the parts of a body of z bytes, the last one with what is left over.
WholeParts(q, c) == [i \in 1..q |-> H!Interval((i - 1) * c, i * c)]
AllParts(z, c) == [i \in 1..H!Ceil(z, c) |-> H!Interval((i - 1) * c, H!Least(i * c, z))]

LEMMA LastPart ==
    ASSUME NEW q \in Nat, NEW c \in Nat \ {0}, NEW p \in 0..c - 1, NEW z \in Nat, z = q * c + p
    PROVE  (IF p > 0 THEN Append(WholeParts(q, c), H!Interval(z - p, z)) ELSE WholeParts(q, c))
              = AllParts(z, c)
<1> DEFINE E == WholeParts(q, c)
<1> DEFINE m == q * c
<1>e. E = [i \in 1..q |-> H!Interval((i - 1) * c, i * c)]  BY DEF WholeParts
<1> HIDE DEF E
<1>1. m \in Nat /\ z = m + p /\ p \in Nat  OBVIOUS
<1>2. ASSUME NEW i \in 1..q
      PROVE  /\ (i - 1) * c \in Nat /\ i * c \in Nat /\ i * c <= m
             /\ H!Least(i * c, z) = i * c
  <2>1. i \in Nat /\ i - 1 \in Nat /\ i <= q  OBVIOUS
  <2>2. (i - 1) * c \in Nat /\ i * c \in Nat /\ i * c <= q * c  BY <2>1
  <2> DEFINE k == i * c
  <2>3. k \in Nat /\ k <= m  BY <2>2
  <2> HIDE DEF k, m
  <2>4. H!Least(k, z) = k  BY <1>1, <2>3 DEF H!Least
  <2>5. QED BY <2>2, <2>3, <2>4 DEF k
<1>3. E \in Seq(Nat \X Nat) /\ Len(E) = q
  <2>1. E \in [1..q -> Nat \X Nat]  BY <1>2, <1>e DEF H!Interval
  <2>2. QED BY <2>1, Pairs
<1>4. CASE ~(p > 0)
  <2>1. H!Ceil(z, c) = q
    <3>1. z <= q * c /\ q * c < z + c  BY <1>1, <1>4
    <3>2. QED BY <3>1, CeilingIs
  <2>2. ASSUME NEW i \in 1..q
        PROVE  H!Interval((i - 1) * c, i * c) = H!Interval((i - 1) * c, H!Least(i * c, z))
    BY <1>2
  <2>3. E = [i \in 1..q |-> H!Interval((i - 1) * c, H!Least(i * c, z))]  BY <1>e, <2>2
  <2>4. QED BY <1>4, <2>1, <2>3 DEF AllParts, E
<1>5. CASE p > 0
  <2>1. (q + 1) * c = m + c  OBVIOUS
  <2>2. H!Ceil(z, c) = q + 1
    <3>1. m + c \in Nat /\ z <= m + c /\ m + c < z + c
      <4> HIDE DEF m
      <4>1. QED BY <1>1, <1>5
    <3>2. z <= (q + 1) * c /\ (q + 1) * c < z + c  BY <2>1, <3>1
    <3>3. q + 1 \in Nat  OBVIOUS
    <3>4. QED BY <3>2, <3>3, CeilingIs
  <2>3. z - p = ((q + 1) - 1) * c /\ H!Least((q + 1) * c, z) = z
    <3>1. z - p = m /\ H!Least(m + c, z) = z
      <4> HIDE DEF m
      <4>1. QED BY <1>1, <1>5 DEF H!Least
    <3>2. ((q + 1) - 1) * c = m  OBVIOUS
    <3>3. QED BY <2>1, <3>1, <3>2
  <2> DEFINE last == H!Interval(z - p, z)
  <2>4. last \in Nat \X Nat
    <3>1. z - p \in Nat
      <4> HIDE DEF m
      <4>1. QED BY <1>1
    <3>2. QED BY <3>1 DEF H!Interval
  <2>5. /\ Append(E, last) \in [1..q + 1 -> Nat \X Nat]
        /\ \A i \in 1..q : Append(E, last)[i] = E[i]
        /\ Append(E, last)[q + 1] = last
    <3> HIDE DEF last
    <3>1. /\ Append(E, last) \in Seq(Nat \X Nat) /\ Len(Append(E, last)) = q + 1
          /\ \A i \in 1..q : Append(E, last)[i] = E[i]
          /\ Append(E, last)[q + 1] = last
      BY <1>3, <2>4, AppendProperties
    <3>2. QED BY <3>1, LenProperties
  <2>6. ASSUME NEW i \in 1..q + 1
        PROVE  Append(E, last)[i] = H!Interval((i - 1) * c, H!Least(i * c, z))
    <3>1. CASE i = q + 1  BY <2>3, <2>5, <3>1
    <3>2. CASE i # q + 1
      <4>1. i \in 1..q  BY <3>2
      <4>2. E[i] = H!Interval((i - 1) * c, i * c)  BY <1>e, <4>1
      <4>3. QED BY <1>2, <2>5, <4>1, <4>2
    <3>3. QED BY <3>1, <3>2
  <2>7. Append(E, last) = [i \in 1..q + 1 |-> H!Interval((i - 1) * c, H!Least(i * c, z))]
    <3> HIDE DEF last
    <3>1. QED BY <2>5, <2>6
  <2>8. QED BY <1>5, <2>2, <2>7 DEF AllParts, E
<1>6. QED BY <1>4, <1>5

\* What has not changed holds as before.
LEMMA HashStays ==
    ASSUME HubTyped, hub' = hub, UNCHANGED H!hashVars, H!EtagsFollowParts,
           \A t \in Targets : HashHolds(t)
    PROVE  H!EtagsFollowParts' /\ \A t \in Targets : HashHolds(t)'
BY DEF H!hashVars, H!EtagsFollowParts, HashHolds, Whole

LEMMA UploadsStay ==
    ASSUME UNCHANGED <<hub, partSize>>, \A t \in Targets : UploadHolds(t)
    PROVE  \A t \in Targets : UploadHolds(t)'
BY DEF UploadHolds

LEMMA PartsStay ==
    ASSUME UNCHANGED <<hub, layout, parts>>,
           \A t \in Targets : \A p \in parts[t] : PartHolds(t, p)
    PROVE  \A t \in Targets : \A p \in parts'[t] : PartHolds(t, p)'
BY DEF PartHolds, H!Chunk, H!Fits

\* Bytes of a source arrive.
LEMMA HashStep ==
    ASSUME H!Limits, HubInv, NEW t \in Targets, NEW n \in Nat, H!Hash(t, n)
    PROVE  HubInv'
<1> DEFINE c == hub[t].chunk
<1> DEFINE p == H!Piece(t, n).partBytes
<1> DEFINE q == Len(etags[t]) + H!Full(n, partBytes[t], c)
<1> DEFINE E == H!Piece(t, n).etags
<1> DEFINE done == read[t] + n = body[t]
<1>0. HubTyped /\ H!EtagsFollowParts /\ \A u \in Targets : UploadHolds(u) /\ HashHolds(u)
  BY DEF HubInv
<1>1. /\ t \in hashing /\ n <= body[t] - read[t] /\ read' = [read EXCEPT ![t] = read[t] + n]
      /\ etags' = [etags EXCEPT ![t] = IF done /\ p > 0
                                       THEN Append(E, H!Interval(body[t] - p, body[t])) ELSE E]
      /\ partBytes' = [partBytes EXCEPT ![t] = p]
      /\ hashing' = IF done THEN hashing \ {t} ELSE hashing
      /\ UNCHANGED <<phase, target, hub, partSize, layout, body, parts, committed, surprises>>
  BY DEF H!Hash, H!hubVars
<1>2. c # 0 /\ HashHolds(t)  BY <1>0, <1>1 DEF HashHolds
<1>3. /\ q \in Nat /\ c \in Nat \ {0} /\ p \in 0..c - 1 /\ read[t] + n = q * c + p
      /\ E = [i \in 1..q |-> H!Interval((i - 1) * c, i * c)]
  BY <1>0, <1>1, <1>2, PieceIs
<1>t. /\ read[t] \in Nat /\ body[t] \in Nat /\ read \in [Targets -> Nat]
      /\ partBytes \in [Targets -> Nat] /\ etags \in [Targets -> Seq(Nat \X Nat)]
      /\ body \in [Targets -> Nat]
  BY <1>0 DEF HubTyped
<1> HIDE DEF c, p, q, E
<1>4. E \in Seq(Nat \X Nat) /\ Len(E) = q
  <2>1. ASSUME NEW i \in 1..q PROVE (i - 1) * c \in Nat /\ i * c \in Nat
    <3>1. i \in Nat /\ i - 1 \in Nat  OBVIOUS
    <3>2. QED BY <1>3, <3>1
  <2>2. E \in [1..q -> Nat \X Nat]  BY <1>3, <2>1 DEF H!Interval
  <2>3. QED BY <1>3, <2>2, Pairs
<1>5. done => etags'[t] = AllParts(body[t], c)
  <2>1. SUFFICES ASSUME done PROVE etags'[t] = AllParts(body[t], c)  OBVIOUS
  <2>2. body[t] = q * c + p  BY <1>3, <2>1
  <2>3. etags'[t] = IF p > 0 THEN Append(E, H!Interval(body[t] - p, body[t])) ELSE E
    BY <1>1, <2>1, <1>t
  <2>4. E = WholeParts(q, c)  BY <1>3 DEF WholeParts
  <2>5. (IF p > 0 THEN Append(WholeParts(q, c), H!Interval(body[t] - p, body[t]))
         ELSE WholeParts(q, c)) = AllParts(body[t], c)
    BY <1>3, <1>t, <2>2, LastPart
  <2>6. QED BY <2>3, <2>4, <2>5
<1>6. HubTyped'
  <2>1. read[t] + n \in Nat /\ p \in Nat  BY <1>3, <1>t
  <2>2. etags'[t] \in Seq(Nat \X Nat)
    <3>1. CASE done /\ p > 0
      <4>1. body[t] - p \in Nat
        <5> DEFINE m == q * c
        <5>1. m \in Nat /\ body[t] = m + p  BY <1>3, <3>1
        <5> HIDE DEF m
        <5>2. QED BY <1>3, <5>1
      <4>2. H!Interval(body[t] - p, body[t]) \in Nat \X Nat  BY <1>t, <4>1 DEF H!Interval
      <4>3. Append(E, H!Interval(body[t] - p, body[t])) \in Seq(Nat \X Nat)
        BY <1>4, <4>2, AppendProperties
      <4>4. QED BY <1>1, <1>t, <3>1, <4>3
    <3>2. CASE ~(done /\ p > 0)  BY <1>1, <1>4, <1>t, <3>2
    <3>3. QED BY <3>1, <3>2
  <2>3. etags' \in [Targets -> Seq(Nat \X Nat)]  BY <1>1, <1>t, <2>2
  <2>4. read' \in [Targets -> Nat] /\ partBytes' \in [Targets -> Nat]  BY <1>1, <1>t, <2>1
  <2>5. hashing' \subseteq Targets  BY <1>0, <1>1 DEF HubTyped
  <2>6. QED BY <1>0, <1>1, <2>3, <2>4, <2>5 DEF HubTyped
<1>7. ASSUME NEW u \in Targets PROVE HashHolds(u)'
  <2>1. CASE u # t
    <3>1. /\ read'[u] = read[u] /\ etags'[u] = etags[u] /\ partBytes'[u] = partBytes[u]
          /\ (u \in hashing' <=> u \in hashing)
      BY <1>1, <1>t, <2>1
    <3>2. QED BY <1>0, <1>1, <3>1 DEF HashHolds, Whole
  <2>2. CASE u = t
    <3>1. c # 0 /\ hub'[t].chunk = c /\ body' = body  BY <1>1, <1>2 DEF c
    <3>2. CASE done
      <4>1. t \notin hashing'  BY <1>1, <3>2
      <4>2. QED BY <2>2, <3>1, <4>1 DEF HashHolds
    <3>3. CASE ~done
      <4>1. read'[t] = read[t] + n /\ etags'[t] = E /\ partBytes'[t] = p  BY <1>1, <1>t, <3>3
      <4>2. read'[t] <= body[t] /\ partBytes'[t] < c  BY <1>1, <1>3, <1>t, <4>1
      <4>3. read'[t] = Len(etags'[t]) * c + partBytes'[t]  BY <1>3, <1>4, <4>1
      <4>4. etags'[t] = [i \in 1..Len(etags'[t]) |-> H!Interval((i - 1) * c, i * c)]
        BY <1>3, <1>4, <4>1
      <4>5. etags'[t] = Whole(t)'  BY <3>1, <4>4 DEF Whole
      <4>6. QED BY <2>2, <3>1, <4>2, <4>3, <4>5 DEF HashHolds
    <3>4. QED BY <3>2, <3>3
  <2>3. QED BY <2>1, <2>2
<1>8. H!EtagsFollowParts'
  <2>1. SUFFICES ASSUME NEW u \in Targets, hub[u].state = "multipart", u \notin hashing'
                 PROVE  etags'[u] = [i \in 1..H!Ceil(body[u], hub[u].chunk) |->
                           H!Interval((i - 1) * hub[u].chunk, H!Least(i * hub[u].chunk, body[u]))]
    BY <1>1 DEF H!EtagsFollowParts
  <2>2. CASE u = t
    <3>1. done  BY <1>1, <2>1, <2>2
    <3>2. QED BY <1>5, <2>2, <3>1 DEF c, AllParts
  <2>3. CASE u # t
    <3>1. u \notin hashing /\ etags'[u] = etags[u]  BY <1>1, <1>t, <2>1, <2>3
    <3>2. QED BY <1>0, <2>1, <3>1 DEF H!EtagsFollowParts
  <2>4. QED BY <2>2, <2>3
<1>9. \A u \in Targets : UploadHolds(u)'  BY <1>0, <1>1, UploadsStay
<1>10. PlanHolds'
  <2>1. PlanHolds  BY DEF HubInv
  <2>2. \A u \in Targets : \A r \in parts'[u] : PartHolds(u, r)'
    BY <1>1, <2>1, PartsStay DEF PlanHolds
  <2>3. QED BY <1>1, <2>1, <2>2 DEF PlanHolds, H!Fits
<1>11. PlanningHolds' /\ CommitHolds' /\ QuietHolds'
  BY <1>1 DEF HubInv, PlanningHolds, CommitHolds, QuietHolds, H!Adopts
<1>12. QED BY <1>6, <1>7, <1>8, <1>9, <1>10, <1>11 DEF HubInv

\* Nothing is planned, read, uploaded or committed.
LEMMA HubInit == H!Limits /\ H!Init => HubInv
<1> SUFFICES ASSUME H!Limits, H!Init PROVE HubInv  OBVIOUS
<1>1. PICK m \in Nat \ {0} : Targets = 1..m  BY DEF H!Limits
<1>2. HubTyped
  <2>1. [chunk |-> 0, count |-> 0] \in [chunk : Nat, count : Nat]  OBVIOUS
  <2>2. H!NoUpload \in HubAnswers  BY DEF H!NoUpload, HubAnswers
  <2>3. /\ hub \in [Targets -> HubAnswers] /\ body \in [Targets -> Nat]
        /\ read \in [Targets -> Nat] /\ partBytes \in [Targets -> Nat]
    BY <2>2 DEF H!Init, H!Limits
  <2>4. <<>> \in Seq(Nat \X Nat)  OBVIOUS
  <2>5. etags \in [Targets -> Seq(Nat \X Nat)]  BY <2>4 DEF H!Init
  <2>6. parts \in [Targets -> SUBSET [number : Nat, bytes : Nat \X Nat]]  BY DEF H!Init
  <2>7. QED BY <2>1, <2>3, <2>5, <2>6 DEF H!Init, HubTyped
<1>3. PlanningHolds  BY <1>1 DEF H!Init, PlanningHolds, H!NoUpload
<1>4. PlanHolds /\ CommitHolds /\ QuietHolds  BY DEF H!Init, PlanHolds, CommitHolds, QuietHolds
<1>5. H!EtagsFollowParts /\ \A t \in Targets : UploadHolds(t) /\ HashHolds(t)
  BY DEF H!Init, H!EtagsFollowParts, UploadHolds, HashHolds, H!NoUpload
<1>6. QED BY <1>2, <1>3, <1>4, <1>5 DEF HubInv

\* The Hub answers for a destination.
LEMMA PlannedStep ==
    ASSUME H!Limits, HubInv, phase = "planning", NEW given \in HubAnswers, H!Planned(given),
           given.state # "none", given.state = "multipart" <=> given.chunk # 0,
           given.chunk = 0 => UNCHANGED <<partSize, hashing>>,
           given.chunk # 0 => /\ partSize \in {0, given.chunk} /\ partSize' = given.chunk
                               /\ given.urls = H!Ceil(Size, given.chunk)
                               /\ hashing' = hashing \union {target},
           UNCHANGED <<layout, body, read, partBytes, etags, parts, committed, surprises>>
    PROVE  HubInv'
<1>0. /\ HubTyped /\ PlanningHolds /\ PlanHolds /\ CommitHolds /\ H!EtagsFollowParts
      /\ \A u \in Targets : UploadHolds(u) /\ HashHolds(u)
  BY DEF HubInv
<1>1. PICK m \in Nat \ {0} : Targets = 1..m  BY DEF H!Limits
<1>2. /\ target \in Targets /\ target \in Nat
      /\ \A t \in Targets : t >= target <=> hub[t].state = "none"
  BY <1>0, <1>1 DEF PlanningHolds
<1>3. /\ hub[target].state = "none" /\ hub[target].chunk = 0 /\ target \notin hashing
      /\ read[target] = 0 /\ partBytes[target] = 0 /\ etags[target] = <<>>
  BY <1>0, <1>2 DEF UploadHolds, HashHolds
<1>4. /\ hub' = [hub EXCEPT ![target] = given] /\ target' = target + 1
      /\ phase' = IF target + 1 \in Targets THEN "planning" ELSE "preparing"
  BY DEF H!Planned
<1>5. /\ hub \in [Targets -> HubAnswers] /\ given.chunk \in Nat /\ given.urls \in Nat
      /\ hub'[target] = given
      /\ \A t \in Targets : t # target => hub'[t] = hub[t]
  <2>1. hub \in [Targets -> HubAnswers]  BY <1>0 DEF HubTyped
  <2>2. given.chunk \in Nat /\ given.urls \in Nat  BY DEF HubAnswers
  <2>3. hub'[target] = given /\ \A t \in Targets : t # target => hub'[t] = hub[t]
    BY <1>2, <1>4, <2>1
  <2>4. QED BY <2>1, <2>2, <2>3
<1>6. HubTyped'
  <2>1. hub' \in [Targets -> HubAnswers]  BY <1>4, <1>5
  <2>2. target' \in Nat \ {0}  BY <1>2, <1>4
  <2>3. partSize' \in Nat /\ hashing' \subseteq Targets
    <3>1. partSize \in Nat /\ hashing \subseteq Targets  BY <1>0 DEF HubTyped
    <3>2. CASE given.chunk = 0  BY <3>1, <3>2
    <3>3. CASE given.chunk # 0  BY <1>2, <1>5, <3>1, <3>3
    <3>4. QED BY <3>2, <3>3
  <2>4. QED BY <1>0, <1>4, <2>1, <2>2, <2>3 DEF HubTyped
<1>7. ASSUME NEW t \in Targets PROVE UploadHolds(t)'
  <2>1. CASE t = target  BY <1>5, <2>1 DEF UploadHolds
  <2>2. CASE t # target
    <3>1. hub'[t] = hub[t] /\ UploadHolds(t)  BY <1>0, <1>5, <2>2
    <3>2. hub[t].chunk # 0 => partSize' = partSize  BY <3>1 DEF UploadHolds
    <3>3. QED BY <3>1, <3>2 DEF UploadHolds
  <2>3. QED BY <2>1, <2>2
<1>8. ASSUME NEW t \in Targets PROVE HashHolds(t)'
  <2>1. CASE t = target
    <3>1. /\ read'[t] = 0 /\ partBytes'[t] = 0 /\ etags'[t] = <<>> /\ hub'[t].chunk = given.chunk
          /\ body'[t] \in Nat
      BY <1>0, <1>3, <1>5, <2>1 DEF HubTyped
    <3>2. given.chunk = 0 => t \notin hashing'  BY <1>3, <2>1
    <3>3. etags'[t] = Whole(t)'
      <4>1. Len(etags'[t]) = 0  BY <3>1
      <4>2. QED BY <3>1, <4>1 DEF Whole
    <3>4. Len(etags'[t]) * hub'[t].chunk + partBytes'[t] = 0  BY <1>5, <3>1
    <3>5. given.chunk # 0 => 0 < given.chunk  BY <1>5
    <3>6. QED BY <3>1, <3>2, <3>3, <3>4, <3>5 DEF HashHolds
  <2>2. CASE t # target
    <3>1. hub'[t] = hub[t] /\ HashHolds(t) /\ (t \in hashing' <=> t \in hashing)
      BY <1>0, <1>5, <2>2
    <3>2. QED BY <3>1 DEF HashHolds, Whole
  <2>3. QED BY <2>1, <2>2
<1>9. H!EtagsFollowParts'
  <2>1. SUFFICES ASSUME NEW u \in Targets, hub'[u].state = "multipart", u \notin hashing'
                 PROVE  etags'[u] = [i \in 1..H!Ceil(body'[u], hub'[u].chunk) |->
                          H!Interval((i - 1) * hub'[u].chunk,
                                     H!Least(i * hub'[u].chunk, body'[u]))]
    BY DEF H!EtagsFollowParts
  <2>2. u # target  BY <1>5, <2>1
  <2>3. hub'[u] = hub[u] /\ u \notin hashing  BY <1>5, <2>1, <2>2
  <2>4. QED BY <1>0, <2>1, <2>3 DEF H!EtagsFollowParts
<1>10. PlanningHolds'
  <2>1. \A t \in Targets : hub'[t].state = "none" <=> t > target  BY <1>1, <1>2, <1>5
  <2>2. CASE target + 1 \in Targets  BY <1>1, <1>2, <1>4, <2>1, <2>2 DEF PlanningHolds
  <2>3. CASE target + 1 \notin Targets
    <3>1. \A t \in Targets : ~(t > target)  BY <1>1, <1>2, <2>3
    <3>2. QED BY <1>4, <2>1, <2>3, <3>1 DEF PlanningHolds
  <2>4. QED BY <2>2, <2>3
<1>11. PlanHolds' /\ CommitHolds' /\ QuietHolds'
  <2>1. phase' \in {"planning", "preparing"}  BY <1>4
  <2>2. (\A t \in Targets : parts[t] = {}) /\ committed = {}  BY <1>0 DEF PlanHolds, CommitHolds
  <2>3. QED BY <2>1, <2>2 DEF PlanHolds, CommitHolds, QuietHolds
<1>12. QED BY <1>6, <1>7, <1>8, <1>9, <1>10, <1>11 DEF HubInv

LEMMA PlanningStep ==
    ASSUME H!Limits, HubInv,
           H!Refused \/ H!Stored \/ H!SinglePart
              \/ \E c \in PartSizes, urls \in 0..Size : H!Multipart(c, urls)
    PROVE  HubInv'
<1>0. HubTyped /\ surprises \in Nat  BY DEF HubInv, HubTyped
<1>1. ASSUME phase = "planning", phase' = "failed", surprises' = surprises + 1,
             UNCHANGED <<target, hub, partSize, layout, body, read, partBytes, etags, hashing,
                         parts,
                         committed>>
      PROVE  HubInv'
  <2>1. HubTyped'  BY <1>0, <1>1 DEF HubTyped
  <2>2. H!EtagsFollowParts' /\ \A t \in Targets : HashHolds(t)'
    BY <1>0, <1>1, HashStays DEF HubInv, H!hashVars
  <2>3. \A t \in Targets : UploadHolds(t)'  BY <1>1, UploadsStay DEF HubInv
  <2>4. PlanHolds'  BY <1>1 DEF HubInv, PlanHolds
  <2>5. PlanningHolds' /\ CommitHolds' /\ QuietHolds'
    BY <1>0, <1>1 DEF PlanningHolds, CommitHolds, QuietHolds
  <2>6. QED BY <2>1, <2>2, <2>3, <2>4, <2>5 DEF HubInv
<1>2. CASE H!Refused  BY <1>1, <1>2 DEF H!Refused, H!Trouble, H!hashVars, H!hubVars
<1>3. CASE H!Stored
  <2> DEFINE given == [H!NoUpload EXCEPT !.state = "stored"]
  <2>1. given \in HubAnswers /\ given.state = "stored" /\ given.chunk = 0
    BY DEF H!NoUpload, HubAnswers
  <2> HIDE DEF given
  <2>2. H!Planned(given)  BY <1>3 DEF H!Stored, given
  <2>3. QED BY <1>3, <2>1, <2>2, PlannedStep DEF H!Stored, H!hashVars, H!hubVars
<1>4. CASE H!SinglePart
  <2> DEFINE given == [state |-> "single", chunk |-> 0, urls |-> 1]
  <2>1. given \in HubAnswers /\ given.state = "single" /\ given.chunk = 0  BY DEF HubAnswers
  <2> HIDE DEF given
  <2>2. H!Planned(given)  BY <1>4 DEF H!SinglePart, given
  <2>3. QED BY <1>4, <2>1, <2>2, PlannedStep DEF H!SinglePart, H!hashVars, H!hubVars
<1>5. ASSUME NEW c \in PartSizes, NEW urls \in 0..Size, H!Multipart(c, urls)
      PROVE  HubInv'
  <2>0. c \in Nat \ {0} /\ urls \in Nat  BY DEF H!Limits
  <2>1. CASE urls # H!Ceil(Size, c) \/ H!Disagree(c)
    BY <1>1, <1>5, <2>1 DEF H!Multipart, H!Trouble, H!hubVars
  <2>2. CASE ~(urls # H!Ceil(Size, c) \/ H!Disagree(c))
    <3> DEFINE given == [state |-> "multipart", chunk |-> c, urls |-> urls]
    <3>1. /\ given \in HubAnswers /\ given.state = "multipart" /\ given.chunk = c
          /\ given.urls = urls
      BY <2>0 DEF HubAnswers
    <3>2. urls = H!Ceil(Size, c) /\ partSize \in {0, c}  BY <2>2 DEF H!Disagree
    <3>3. /\ phase = "planning" /\ H!Planned(given) /\ partSize' = c
          /\ hashing' = hashing \union {target}
          /\ UNCHANGED <<layout, body, read, partBytes, etags, parts, committed, surprises>>
      BY <1>5, <2>2 DEF H!Multipart, H!hubVars
    <3> HIDE DEF given
    <3>4. QED BY <2>0, <3>1, <3>2, <3>3, PlannedStep
  <2>3. QED BY <2>1, <2>2
<1>6. QED BY <1>2, <1>3, <1>4, <1>5

\* BeamCore's plan.
LEMMA PrepareStep ==
    ASSUME H!Limits, HubInv, NEW c \in PlanSizes, H!Prepare(c)
    PROVE  HubInv'
<1>0. HubTyped /\ surprises \in Nat  BY DEF HubInv, HubTyped
<1>1. c \in Nat \ {0} /\ Size \in Nat  BY DEF H!Limits
<1>2. /\ phase = "preparing" /\ phase' = "checking"
      /\ layout' = [chunk |-> c, count |-> H!Ceil(Size, c)]
      /\ surprises' \in Nat /\ (surprises' = 0 => H!Adopts(c))
      /\ UNCHANGED <<target, hub, partSize, body, read, partBytes, etags, hashing, parts,
                     committed>>
  BY <1>0 DEF H!Prepare, H!Trouble, H!hashVars, H!hubVars
<1>3. layout'.chunk = c /\ layout'.count = H!Ceil(Size, c) /\ H!Ceil(Size, c) \in Nat
  BY <1>1, <1>2, Ceiling
<1>4. HubTyped'
  <2>1. layout' \in [chunk : Nat, count : Nat]  BY <1>1, <1>2, <1>3
  <2>2. QED BY <1>0, <1>2, <2>1 DEF HubTyped
<1>5. H!EtagsFollowParts' /\ \A t \in Targets : HashHolds(t)'
  BY <1>0, <1>2, HashStays DEF HubInv, H!hashVars
<1>6. \A t \in Targets : UploadHolds(t)'  BY <1>2, UploadsStay DEF HubInv
<1>7. PlanHolds'
  <2>1. \A t \in Targets : parts[t] = {}  BY <1>2 DEF HubInv, PlanHolds
  <2>2. QED BY <1>1, <1>2, <1>3, <2>1 DEF PlanHolds
<1>8. PlanningHolds' /\ CommitHolds'
  BY <1>2 DEF HubInv, PlanningHolds, CommitHolds
<1>9. QuietHolds'
  <2>1. H!Adopts(c) => H!Adopts(layout.chunk)'  BY <1>2, <1>3 DEF H!Adopts
  <2>2. QED BY <1>2, <2>1 DEF QuietHolds
<1>10. QED BY <1>4, <1>5, <1>6, <1>7, <1>8, <1>9 DEF HubInv

\* A plan that adopts the part size of the Hub fits every destination.
LEMMA AdoptedFits ==
    ASSUME H!Limits, HubInv, phase = "checking", H!Adopts(layout.chunk), NEW t \in Targets
    PROVE  H!Fits(t)
<1>1. /\ layout.chunk \in Nat \ {0} /\ layout.count = H!Ceil(Size, layout.chunk)
      /\ Size \in Nat \ {0}
      /\ hub[t].chunk \in Nat /\ UploadHolds(t)
  BY DEF HubInv, PlanHolds, HubTyped, HubAnswers, H!Limits
<1>2. CASE hub[t].chunk = 0
  <2>1. layout.chunk >= Size  BY <1>2 DEF H!Adopts
  <2>2. Size <= 1 * layout.chunk /\ 1 * layout.chunk < Size + layout.chunk  BY <1>1, <2>1
  <2>3. H!Ceil(Size, layout.chunk) = 1  BY <1>1, <2>2, CeilingIs
  <2>4. QED BY <1>1, <1>2, <2>3 DEF H!Fits
<1>3. CASE hub[t].chunk # 0
  <2>1. hub[t].chunk = partSize /\ hub[t].urls = H!Ceil(Size, hub[t].chunk)
    BY <1>1, <1>3 DEF UploadHolds
  <2>2. partSize \in {0, layout.chunk}  BY DEF H!Adopts
  <2>3. QED BY <1>1, <1>3, <2>1, <2>2 DEF H!Fits
<1>4. QED BY <1>2, <1>3

\* assertHuggingFacePlan, and the first of the steps of the close.
LEMMA ControlStep ==
    ASSUME H!Limits, HubInv, H!Check \/ H!Transferred
    PROVE  HubInv'
<1>0. HubTyped /\ surprises \in Nat  BY DEF HubInv, HubTyped
<1>f. PICK m \in Nat \ {0} : Targets = 1..m  BY DEF H!Limits
<1>1. /\ phase' \in {"streaming", "failed", "closing"} /\ target' \in {target, 1}
      /\ UNCHANGED <<hub, partSize, layout, body, read, partBytes, etags, hashing, parts,
                     committed,
                     surprises>>
  BY DEF H!Check, H!Transferred, H!hashVars, H!hubVars
<1>2. HubTyped'  BY <1>0, <1>1 DEF HubTyped
<1>3. H!EtagsFollowParts' /\ \A t \in Targets : HashHolds(t)'
  BY <1>0, <1>1, HashStays DEF HubInv, H!hashVars
<1>4. \A t \in Targets : UploadHolds(t)'  BY <1>1, UploadsStay DEF HubInv
<1>5. \A t \in Targets : \A p \in parts'[t] : PartHolds(t, p)'
  BY <1>1, PartsStay DEF HubInv, PlanHolds
<1>6. /\ phase \in {"checking", "streaming"} /\ committed = {}
      /\ layout.chunk # 0 /\ layout.count = H!Ceil(Size, layout.chunk)
      /\ \A t \in Targets : hub[t].state # "none"
  BY DEF HubInv, PlanHolds, PlanningHolds, CommitHolds, H!Check, H!Transferred
<1>7. PlanHolds'
  <2>1. phase' \in {"streaming", "closing"} => \A t \in Targets : H!Fits(t)
    BY DEF H!Check, H!Transferred, HubInv, PlanHolds
  <2>2. phase' \in {"streaming", "closing"} => \A t \in Targets : H!Fits(t)'
    BY <1>1, <2>1 DEF H!Fits
  <2>3. QED BY <1>1, <1>5, <1>6, <2>2 DEF PlanHolds
<1>8. PlanningHolds'  BY <1>1, <1>6 DEF PlanningHolds
<1>9. CommitHolds'
  <2>1. CASE H!Check  BY <1>6, <2>1 DEF H!Check, CommitHolds, H!hubVars
  <2>2. CASE H!Transferred
    <3>1. phase' = "closing" /\ target' = 1 /\ committed' = {} /\ 1 \in Targets
      BY <1>6, <1>f, <2>2 DEF H!Transferred, H!hubVars
    <3>2. {} = 1..1 - 1  OBVIOUS
    <3>3. QED BY <3>1, <3>2 DEF CommitHolds
  <2>3. QED BY <2>1, <2>2
<1>10. QuietHolds'
  <2>1. SUFFICES ASSUME phase' = "failed", surprises = 0 PROVE FALSE
    BY <1>0, <1>1 DEF QuietHolds
  <2>2. H!Check /\ phase = "checking" /\ ~ \A t \in Targets : H!Fits(t)
    BY <2>1 DEF H!Check, H!Transferred
  <2>3. H!Adopts(layout.chunk)  BY <2>1, <2>2 DEF HubInv, QuietHolds
  <2>4. QED BY <2>2, <2>3, AdoptedFits
<1>11. QED BY <1>2, <1>3, <1>4, <1>7, <1>8, <1>9, <1>10 DEF HubInv

\* A chunk is two positions.
LEMMA ChunkIs ==
    ASSUME HubTyped, H!Limits, NEW k \in Nat
    PROVE  H!Chunk(k) \in Nat \X Nat
<1>1. layout.chunk \in Nat /\ Size \in Nat  BY DEF HubTyped, H!Limits
<1>2. k * layout.chunk \in Nat /\ (k + 1) * layout.chunk \in Nat  BY <1>1
<1>3. H!Least((k + 1) * layout.chunk, Size) \in Nat  BY <1>1, <1>2 DEF H!Least
<1>4. QED BY <1>2, <1>3 DEF H!Chunk, H!Interval

\* A chunk is uploaded.
LEMMA RouteStep ==
    ASSUME H!Limits, HubInv, NEW t \in Targets, NEW k \in 0..layout.count - 1, H!Route(t, k)
    PROVE  HubInv'
<1>0. HubTyped /\ surprises \in Nat /\ layout.count \in Nat  BY DEF HubInv, HubTyped
<1>1. /\ phase = "streaming"
      /\ UNCHANGED <<target, hub, partSize, layout, body, read, partBytes, etags, hashing,
                     committed,
                     surprises>>
      /\ phase' = IF H!Url(t, k) THEN phase ELSE "failed"
      /\ parts' = IF H!Url(t, k)
                  THEN [parts EXCEPT ![t]
                     = parts[t] \union {[number |-> k + 1, bytes |-> H!Chunk(k)]}]
                  ELSE parts
  BY DEF H!Route, H!hashVars
<1> DEFINE new == [number |-> k + 1, bytes |-> H!Chunk(k)]
<1>k. k \in Nat /\ k < layout.count  BY <1>0
<1>2. new \in [number : Nat, bytes : Nat \X Nat]
  <2>1. H!Chunk(k) \in Nat \X Nat  BY <1>0, <1>k, ChunkIs
  <2>2. QED BY <1>k, <2>1
<1>3. HubTyped'
  <2>1. parts \in [Targets -> SUBSET [number : Nat, bytes : Nat \X Nat]]  BY <1>0 DEF HubTyped
  <2>2. parts' \in [Targets -> SUBSET [number : Nat, bytes : Nat \X Nat]]
    <3> HIDE DEF new
    <3>1. parts' = IF H!Url(t, k) THEN [parts EXCEPT ![t] = parts[t] \union {new}] ELSE parts
      BY <1>1 DEF new
    <3>2. QED BY <1>2, <2>1, <3>1
  <2>3. QED BY <1>0, <1>1, <2>2 DEF HubTyped
<1>4. H!EtagsFollowParts' /\ \A u \in Targets : HashHolds(u)'
  BY <1>0, <1>1, HashStays DEF HubInv, H!hashVars
<1>5. \A u \in Targets : UploadHolds(u)'  BY <1>1, UploadsStay DEF HubInv
<1>6. /\ layout.chunk # 0 /\ layout.count = H!Ceil(Size, layout.chunk)
      /\ \A u \in Targets : H!Fits(u) /\ hub[u].state # "none"
      /\ \A u \in Targets : \A p \in parts[u] : PartHolds(u, p)
  BY <1>1 DEF HubInv, PlanHolds, PlanningHolds
<1>7. PlanHolds'
  <2>1. PartHolds(t, new)
    <3>0. new.number = k + 1 /\ new.bytes = H!Chunk(k)  OBVIOUS
    <3>1. new.number \in 1..layout.count /\ new.number - 1 = k
      <4> HIDE DEF new
      <4>1. QED BY <1>0, <1>k, <3>0
    <3> HIDE DEF new
    <3>2. QED BY <1>6, <3>0, <3>1 DEF PartHolds
  <2>2. ASSUME NEW u \in Targets, NEW p \in parts'[u] PROVE PartHolds(u, p)'
    <3>1. p \in parts[u] \/ (u = t /\ p = new)  BY <1>0, <1>1 DEF HubTyped
    <3>2. PartHolds(u, p)  BY <1>6, <2>1, <3>1
    <3>3. QED BY <1>1, <3>2 DEF PartHolds, H!Chunk, H!Fits
  <2>3. \A u \in Targets : H!Fits(u)'  BY <1>1, <1>6 DEF H!Fits
  <2>4. QED BY <1>1, <1>6, <2>2, <2>3 DEF PlanHolds
<1>8. PlanningHolds' /\ CommitHolds'
  BY <1>1, <1>6 DEF HubInv, PlanningHolds, CommitHolds
<1>9. QuietHolds'
  <2>1. SUFFICES ASSUME ~H!Url(t, k) PROVE hub[t].state = "stored"  BY <1>1 DEF QuietHolds
  <2>2. /\ H!Fits(t) /\ UploadHolds(t) /\ hub[t].state # "none"
        /\ hub[t].state \in {"none", "stored", "single", "multipart"} /\ hub[t].urls \in Nat
    BY <1>0, <1>6 DEF HubInv, HubTyped, HubAnswers
  <2>3. hub[t].chunk = 0
    <3>1. SUFFICES ASSUME hub[t].chunk # 0 PROVE FALSE  OBVIOUS
    <3>2. layout.count = hub[t].urls  BY <2>2, <3>1 DEF H!Fits
    <3>3. QED BY <1>k, <2>1, <2>2, <3>1, <3>2 DEF H!Url
  <2>4. QED BY <2>1, <2>2, <2>3 DEF H!Url, UploadHolds
<1>10. QED BY <1>3, <1>4, <1>5, <1>7, <1>8, <1>9 DEF HubInv

\* The Hub accepts the ETags of a source that was read as it was prepared.
LEMMA Accepted ==
    ASSUME H!Limits, HubInv, phase = "closing", target \notin hashing, target \in Targets,
           hub[target].state = "multipart", body[target] = Size
    PROVE  Len(etags[target]) = hub[target].urls /\ H!Matches(target)
<1> DEFINE c == hub[target].chunk
<1>1. /\ c \in Nat \ {0} /\ hub[target].urls = H!Ceil(Size, c) /\ Size \in Nat
      /\ etags[target] \in Seq(Nat \X Nat)
  BY DEF HubInv, HubTyped, HubAnswers, UploadHolds, H!Limits
<1>2. etags[target] = [i \in 1..H!Ceil(Size, c) |-> H!Interval((i - 1) * c, H!Least(i * c, Size))]
  BY DEF HubInv, H!EtagsFollowParts
<1>3. H!Ceil(Size, c) \in Nat  BY <1>1, Ceiling
<1>4. Len(etags[target]) = hub[target].urls
  <2>1. DOMAIN etags[target] = 1..H!Ceil(Size, c)  BY <1>2
  <2>2. Len(etags[target]) \in Nat /\ DOMAIN etags[target] = 1..Len(etags[target])
    BY <1>1, LenProperties
  <2> HIDE DEF c
  <2>3. QED BY <1>1, <1>3, <2>1, <2>2
<1>5. ASSUME NEW p \in parts[target] PROVE etags[target][p.number] = p.bytes
  <2>1. PartHolds(target, p)  BY DEF HubInv, PlanHolds
  <2>2. /\ p.number \in 1..layout.count /\ p.bytes = H!Chunk(p.number - 1)
        /\ layout.chunk = c /\ layout.count = H!Ceil(Size, c)
    BY <1>1, <2>1 DEF PartHolds, H!Fits
  <2>3. p.number \in Nat /\ (p.number - 1) + 1 = p.number  BY <1>3, <2>2
  <2>4. p.bytes = H!Interval((p.number - 1) * c, H!Least(p.number * c, Size))
    BY <2>2, <2>3 DEF H!Chunk
  <2>5. QED BY <1>2, <2>2, <2>4
<1>6. QED BY <1>4, <1>5 DEF H!Matches

\* A destination is finalized.
LEMMA FinalizeStep ==
    ASSUME H!Limits, HubInv, H!Finalize
    PROVE  HubInv'
<1>0. HubTyped /\ surprises \in Nat  BY DEF HubInv, HubTyped
<1>f. PICK m \in Nat \ {0} : Targets = 1..m  BY DEF H!Limits
<1>1. /\ phase = "closing" /\ target \notin hashing
      /\ UNCHANGED <<hub, partSize, layout, body, read, partBytes, etags, hashing, parts,
                     surprises>>
  BY DEF H!Finalize, H!hashVars
<1>2. target \in Targets /\ committed = 1..target - 1 /\ target \in Nat \ {0}
  BY <1>0, <1>1 DEF HubInv, CommitHolds, HubTyped
<1> DEFINE Fails == /\ hub[target].state = "multipart"
                    /\ Len(etags[target]) # hub[target].urls \/ ~H!Matches(target)
<1>3. Fails => phase' = "failed" /\ UNCHANGED <<target, committed>>  BY DEF H!Finalize
<1>4. ~Fails => /\ committed' = committed \union {target} /\ target' = target + 1
                /\ phase' = IF target + 1 \in Targets THEN "closing" ELSE "closed"
  BY DEF H!Finalize
<1>5. HubTyped'
  <2>1. /\ phase' \in {"failed", "closing", "closed"} /\ target' \in Nat \ {0}
        /\ committed' \subseteq Targets
    <3>1. CASE Fails  BY <1>0, <1>3, <3>1 DEF HubTyped
    <3>2. CASE ~Fails
      <4>1. committed \subseteq Targets  BY <1>0 DEF HubTyped
      <4>2. committed' = committed \union {target} /\ target' = target + 1
            /\ phase' \in {"closing", "closed"}
        BY <1>4, <3>2
      <4> HIDE DEF Fails
      <4>3. QED BY <1>2, <4>1, <4>2
    <3>3. QED BY <3>1, <3>2
  <2>2. QED BY <1>0, <1>1, <2>1 DEF HubTyped
<1>6. H!EtagsFollowParts' /\ \A u \in Targets : HashHolds(u)'
  BY <1>0, <1>1, HashStays DEF HubInv, H!hashVars
<1>7. \A u \in Targets : UploadHolds(u)'  BY <1>1, UploadsStay DEF HubInv
<1>8. PlanHolds' /\ PlanningHolds'
  <2>1. /\ layout.chunk # 0 /\ layout.count = H!Ceil(Size, layout.chunk)
        /\ \A u \in Targets : H!Fits(u) /\ hub[u].state # "none"
    BY <1>1 DEF HubInv, PlanHolds, PlanningHolds
  <2>2. \A u \in Targets : \A p \in parts'[u] : PartHolds(u, p)'
    BY <1>1, PartsStay DEF HubInv, PlanHolds
  <2>3. \A u \in Targets : H!Fits(u)'  BY <1>1, <2>1 DEF H!Fits
  <2>4. phase' \in {"failed", "closing", "closed"}  BY <1>3, <1>4
  <2>5. QED BY <1>1, <2>1, <2>2, <2>3, <2>4 DEF PlanHolds, PlanningHolds
<1>9. CommitHolds'
  <2>1. CASE Fails  BY <1>3, <2>1 DEF CommitHolds
  <2>2. CASE ~Fails
    <3>1. committed' = 1..target' - 1
      <4>1. committed' = committed \union {target} /\ target' = target + 1  BY <1>4, <2>2
      <4>2. (1..target - 1) \union {target} = 1..(target + 1) - 1  BY <1>2
      <4>3. QED BY <1>2, <4>1, <4>2
    <3>2. target + 1 \notin Targets => 1..target = Targets  BY <1>2, <1>f
    <3>3. target' - 1 = target  BY <1>2, <1>4, <2>2
    <3>4. QED BY <1>4, <2>2, <3>1, <3>2, <3>3 DEF CommitHolds
  <2>3. QED BY <2>1, <2>2
<1>10. QuietHolds'
  <2>1. CASE Fails
    <3>1. body[target] # Size  BY <1>1, <1>2, <2>1, Accepted
    <3>2. QED BY <1>1, <1>2, <1>3, <2>1, <3>1 DEF QuietHolds
  <2>2. CASE ~Fails  BY <1>4, <2>2 DEF QuietHolds
  <2>3. QED BY <2>1, <2>2
<1>11. QED BY <1>5, <1>6, <1>7, <1>8, <1>9, <1>10 DEF HubInv

LEMMA HubNext == H!Limits /\ HubInv /\ [H!Next]_(H!vars) => HubInv'
<1> SUFFICES ASSUME H!Limits, HubInv, [H!Next]_(H!vars) PROVE HubInv'  OBVIOUS
<1>1. CASE UNCHANGED H!vars
  <2>1. /\ HubTyped /\ PlanHolds
        /\ UNCHANGED <<phase, target, hub, partSize, layout, parts, committed, surprises,
                       H!hashVars>>
    BY <1>1 DEF HubInv, H!vars, H!hashVars
  <2>2. HubTyped'  BY <2>1 DEF HubTyped, H!hashVars
  <2>3. H!EtagsFollowParts' /\ \A t \in Targets : HashHolds(t)'  BY <2>1, HashStays DEF HubInv
  <2>4. \A t \in Targets : UploadHolds(t)'  BY <2>1, UploadsStay DEF HubInv
  <2>5. \A t \in Targets : \A p \in parts'[t] : PartHolds(t, p)'
    BY <2>1, PartsStay DEF PlanHolds
  <2>6. PlanHolds'  BY <2>1, <2>5 DEF PlanHolds, H!Fits
  <2>7. PlanningHolds' /\ CommitHolds' /\ QuietHolds'
    BY <2>1 DEF HubInv, PlanningHolds, CommitHolds, QuietHolds, H!Adopts, H!hashVars
  <2>8. QED BY <2>2, <2>3, <2>4, <2>6, <2>7 DEF HubInv
<1>2. CASE \E t \in Targets, n \in 1..Size + 1 : H!Hash(t, n)
  <2>1. PICK t \in Targets, n \in 1..Size + 1 : H!Hash(t, n)  BY <1>2
  <2>2. n \in Nat  BY DEF H!Limits
  <2>3. QED BY <2>1, <2>2, HashStep
<1>3. QED BY <1>1, <1>2, PlanningStep, PrepareStep, ControlStep, RouteStep,
      FinalizeStep DEF H!Next

\* For any number of destinations, any sizes of parts and chunks and any pieces that a body
\* arrives in: the ETags of hashSourceStream (huggingface.ts) are those of the Hub's parts, each
\* uploaded part holds the bytes of its part once assertHuggingFacePlan (client.ts) let the
\* plan pass, and an upload that nothing disturbs is committed everywhere.
THEOREM StagingIsSound ==
    ASSUME H!Limits
    PROVE  H!Spec => [](H!EtagsFollowParts /\ H!PartsAsIssued /\ H!QuietUploadCommits)
<1>1. H!Init => HubInv  BY HubInit
<1>2. HubInv /\ [H!Next]_(H!vars) => HubInv'  BY HubNext
<1>3. ASSUME HubInv PROVE H!EtagsFollowParts /\ H!PartsAsIssued /\ H!QuietUploadCommits
  <2>1. H!EtagsFollowParts  BY <1>3 DEF HubInv
  <2>2. H!PartsAsIssued
    <3>1. SUFFICES ASSUME NEW t \in Targets, NEW p \in parts[t]
          PROVE  p.bytes = IF hub[t].chunk = 0 THEN H!Interval(0, Size)
                           ELSE H!Interval((p.number - 1) * hub[t].chunk,
                                           H!Least(p.number * hub[t].chunk, Size))
      BY DEF H!PartsAsIssued
    <3>2. /\ PartHolds(t, p) /\ layout.chunk \in Nat \ {0} /\ layout.count \in Nat
          /\ Size \in Nat \ {0}
      BY <1>3 DEF HubInv, PlanHolds, PartHolds, HubTyped, H!Limits
    <3>3. p.number \in 1..layout.count /\ p.bytes = H!Chunk(p.number - 1) /\ H!Fits(t)
      BY <3>2 DEF PartHolds
    <3>4. p.number \in Nat /\ (p.number - 1) + 1 = p.number  BY <3>2, <3>3
    <3>5. p.bytes
             = H!Interval((p.number - 1) * layout.chunk, H!Least(p.number * layout.chunk, Size))
      BY <3>3, <3>4 DEF H!Chunk
    <3>6. CASE hub[t].chunk = 0
      <4>1. layout.count = 1 /\ H!Ceil(Size, layout.chunk) = 1
        BY <3>2, <3>3, <3>6 DEF H!Fits, PartHolds
      <4>2. Size <= layout.chunk
        <5>1. Size <= 1 * layout.chunk  BY <3>2, <4>1, Ceiling
        <5>2. QED BY <3>2, <5>1
      <4>3. p.number = 1  BY <3>3, <4>1
      <4>4. (p.number - 1) * layout.chunk = 0 /\ H!Least(p.number * layout.chunk, Size) = Size
        <5>1. p.number * layout.chunk = layout.chunk /\ (p.number - 1) * layout.chunk = 0
          BY <3>2, <4>3
        <5>2. QED BY <3>2, <4>2, <5>1 DEF H!Least
      <4>5. QED BY <3>5, <3>6, <4>4
    <3>7. CASE hub[t].chunk # 0
      <4>1. layout.chunk = hub[t].chunk  BY <3>3, <3>7 DEF H!Fits
      <4>2. QED BY <3>5, <3>7, <4>1
    <3>8. QED BY <3>6, <3>7
  <2>3. H!QuietUploadCommits
    BY <1>3 DEF HubInv, QuietHolds, CommitHolds, H!QuietUploadCommits
  <2>4. QED BY <2>1, <2>2, <2>3
<1>4. QED BY <1>1, <1>2, <1>3, PTL DEF H!Spec
=============================================================================
