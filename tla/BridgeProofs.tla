---------------------------- MODULE BridgeProofs ----------------------------
(***************************************************************************)
(* Proofs about Bridge.  What holds of the requests must hold of every     *)
(* snapshot a restart may begin with, the file and the queue before it;    *)
(* and each snapshot must follow from the ones before it.                  *)
(***************************************************************************)
EXTENDS Bridge, WellFoundedInduction, NaturalsInduction, FiniteSetTheorems, TLAPS

\* The minimum of a nonempty set of numbers is its least element.
LEMMA MinNat ==
    ASSUME NEW T, T \in SUBSET Nat, T # {}
    PROVE  Min(T) \in T /\ \A k \in T : Min(T) <= k
<1> DEFINE LessThan == {p \in Nat \X Nat : p[1] < p[2]}
<1>1. IsWellFoundedOn(LessThan, Nat)  BY NatLessThanWellFounded DEF OpToRel
<1>2. PICK m \in T : \A y \in T : ~ (<<y, m>> \in LessThan)
  <2> HIDE DEF LessThan
  <2>1. QED BY <1>1, WFMin
<1>3. ASSUME NEW k \in T PROVE m <= k
  <2>1. <<k, m>> \in Nat \X Nat /\ k \in Nat /\ m \in Nat  OBVIOUS
  <2>2. ~ (<<k, m>>[1] < <<k, m>>[2])  BY <1>2, <2>1
  <2>3. QED BY <2>1, <2>2
<1>4. QED BY <1>3 DEF Min

Distinct(rs) == \A i, j \in DOMAIN rs : rs[i].id = rs[j].id => i = j

\* Attempts within the bound of the mode; who is not answered has one left.
Bounded(r) ==
    /\ r.attempts <= (IF from = "cre" THEN MaxAttempts ELSE MaxFailures)
    /\ from = "contract" /\ Unanswered(r) => r.attempts < MaxFailures

Sound(r) == Bounded(r) /\ HasEvidence(r)

Good(rs) == Distinct(rs) /\ \A i \in DOMAIN rs : Sound(rs[i])

SnapshotsGood ==
    /\ Good(requests) /\ Good(file.requests) /\ Len(file.reports) <= MaxReports
    /\ \A k \in DOMAIN queue : Good(queue[k].state.requests) /\ Len(queue[k].state.reports) <= MaxReports

\* b comes after a: what is not dropped is still there, and replies are kept.
Follows(a, b, gone) ==
    \A i \in DOMAIN a : a[i].id \notin gone =>
        \E j \in DOMAIN b : b[j].id = a[i].id /\ (Unanswered(a[i]) \/ b[j].reply = a[i].reply)

\* The file, the queue and the requests follow one another.
Succession ==
    /\ Follows(file.requests, requests, dropped)
    /\ \A k \in DOMAIN queue : /\ Follows(file.requests, queue[k].state.requests, dropped)
                               /\ Follows(queue[k].state.requests, requests, dropped)
    /\ \A j, k \in DOMAIN queue :
          j < k => Follows(queue[j].state.requests, queue[k].state.requests, dropped)

Acknowledged ==
    /\ acked \ dropped \subseteq IdsOf(file.requests)
    /\ \A k \in DOMAIN queue : queue[k].by \in Ids => queue[k].by \in IdsOf(queue[k].state.requests)

\* The pump's round and the reports that are handled.
RoundSound ==
    /\ \A h \in Handlers : handler[h].pc # "idle" => from = "cre"
    /\ pump.pc = "forward" =>
          /\ from = "cre"
          /\ \A i \in DOMAIN requests : requests[i].id \in pump.batch => requests[i].attempts < MaxAttempts
    /\ pump.pc \in {"lookup", "request"} =>
          /\ from = "contract" /\ pump.todo \subseteq IdsOf(requests)
          /\ \A i \in DOMAIN requests : requests[i].id \in pump.todo => Unanswered(requests[i])
    /\ pump.pc = "request" => pump.todo # {}

PumpStates == [pc : {"idle", "forward", "lookup", "request", "saving"}, batch : SUBSET Ids,
               todo : SUBSET Ids, changed : BOOLEAN, opened : Openings]
HandlerStates == [pc : {"idle", "signers", "refresh", "saving"}, report : Submissions]
ChainStates == [open : SUBSET Subjects, recorded : SUBSET Subjects, closed : Openings,
                closings : 0..MaxClosings]
Saves == [by : Ids \cup Handlers \cup {"pump"}, state : Snapshots]

\* The types of TypeOK, and the state the environment is in.
Typed ==
    /\ \E scenario \in Scenarios : from = scenario.from /\ message = scenario.message
    /\ requests \in Seq(Requests) /\ reports \in Seq({Digest(r) : r \in Submissions})
    /\ file \in Snapshots /\ queue \in Seq(Saves) /\ broken \in BOOLEAN
    /\ acked \subseteq Ids /\ dropped \subseteq Ids
    /\ Len(reports) <= MaxReports
    /\ pump \in PumpStates /\ handler \in [Handlers -> HandlerStates]
    /\ don \in 1..Len(Signers) /\ cache \in 0..don
    /\ chain \in ChainStates
    /\ \A s \in DOMAIN chain.closed : chain.closed[s] <= chain.closings

BInv == Typed /\ SnapshotsGood /\ Succession /\ Acknowledged /\ RoundSound

-----------------------------------------------------------------------------
(* The records the operators make.                                         *)

\* The mode.
LEMMA ModeTyped == ASSUME Typed PROVE from \in {"cre", "contract"}
BY ScenariosAssumption DEF Typed

\* What an id asks about.
LEMMA AskedTyped == ASSUME Typed, NEW id \in Ids PROVE Asked(id) \in Subjects
BY DEF Typed, Asked, Subjects

\* Each kind of reply is one.
LEMMA RepliesTyped ==
    ASSUME NEW s \in Subjects
    PROVE  \A kind \in {None, "reply_too_large", "no_finished_receipt", "not_recorded",
                        "chain_unavailable", "receipt", "closure"} :
              Reply(kind, s, 0, {}) \in Replies
BY BoundsAssumption, SignersAssumption DEF Reply, Replies

\* A new request is unanswered.
LEMMA RequestTyped ==
    ASSUME NEW id \in Ids
    PROVE  /\ Request(id) \in Requests /\ Request(id).id = id
           /\ Request(id).attempts = 0 /\ Unanswered(Request(id))
<1>1. None \in Subjects  BY DEF Subjects
<1>2. NoReply \in Replies /\ NoReply.kind = None  BY <1>1, BoundsAssumption, SignersAssumption DEF NoReply, Reply, Replies
<1>3. QED BY <1>2 DEF Request, Requests, Unanswered

\* A report's reply is one of its kind, about its subject.
LEMMA ReplyOfTyped ==
    ASSUME NEW r \in Submissions, NEW set \in 0..Len(Signers)
    PROVE  /\ ReplyOf(r, set) \in Replies /\ ReplyOf(r, set).subject = r.subject
           /\ ReplyOf(r, set).kind \in {"receipt", "closure"} =>
                 ReplyOf(r, set).set = set /\ ReplyOf(r, set).sigs = r.sigs
<1>1. r.subject \in Subjects  BY DEF Subjects
<1>2. CASE r.kind = "huge"  BY <1>1, <1>2, BoundsAssumption, SignersAssumption DEF ReplyOf, Reply, Replies
<1>3. CASE r.kind # "huge"
  BY <1>1, <1>3, SubmissionsAssumption DEF ReplyOf, Reply, Replies
<1>4. QED BY <1>2, <1>3

\* A request that is stored keeps all but the flag of time.
LEMMA StoredFacts ==
    ASSUME NEW rs \in Seq(Requests)
    PROVE  /\ Stored(rs) \in Seq(Requests) /\ DOMAIN Stored(rs) = DOMAIN rs
           /\ \A i \in DOMAIN rs : /\ Stored(rs)[i].id = rs[i].id
                                   /\ Stored(rs)[i].attempts = rs[i].attempts
                                   /\ Stored(rs)[i].since = rs[i].since
                                   /\ Stored(rs)[i].reply = rs[i].reply
<1> DEFINE st(r) == [r EXCEPT !.forwarded = IF @ = "due" THEN "waiting" ELSE @]
<1>1. \A r \in Requests : /\ st(r) \in Requests /\ st(r).id = r.id /\ st(r).attempts = r.attempts
                          /\ st(r).since = r.since /\ st(r).reply = r.reply
  BY DEF Requests
<1>2. Stored(rs) = [i \in DOMAIN rs |-> st(rs[i])]  BY DEF Stored
<1> HIDE DEF st
<1>3. QED BY <1>1, <1>2
\* A save keeps every request's id.
LEMMA StoredIds == ASSUME NEW rs \in Seq(Requests) PROVE IdsOf(Stored(rs)) = IdsOf(rs)
<1>1. DOMAIN Stored(rs) = DOMAIN rs  BY StoredFacts
<1>2. \A i \in DOMAIN rs : Stored(rs)[i].id = rs[i].id  BY StoredFacts
<1>3. QED BY <1>1, <1>2 DEF IdsOf

\* Requests that are changed one by one stay requests.
LEMMA SameLength ==
    ASSUME NEW rs \in Seq(Requests), NEW qs, qs = [i \in DOMAIN rs |-> qs[i]],
           \A i \in DOMAIN rs : qs[i] \in Requests
    PROVE  qs \in Seq(Requests) /\ DOMAIN qs = DOMAIN rs
<1>1. DOMAIN rs = 1..Len(rs) /\ Len(rs) \in Nat  OBVIOUS
<1>2. QED BY <1>1

-----------------------------------------------------------------------------
(* Successions of snapshots.                                               *)

\* Nothing is lost when nothing changes.
LEMMA FollowsItself == ASSUME NEW a, NEW gone PROVE Follows(a, a, gone)
BY DEF Follows

\* More may be gone.
LEMMA FollowsMore ==
    ASSUME NEW a, NEW b, NEW gone, NEW more, gone \subseteq more, Follows(a, b, gone)
    PROVE  Follows(a, b, more)
BY DEF Follows

\* What follows what follows, follows.
LEMMA FollowsOn ==
    ASSUME NEW a, NEW b, NEW c, NEW gone, Follows(a, b, gone), Follows(b, c, gone)
    PROVE  Follows(a, c, gone)
<1> SUFFICES ASSUME NEW i \in DOMAIN a, a[i].id \notin gone
             PROVE  \E j \in DOMAIN c : c[j].id = a[i].id /\ (Unanswered(a[i]) \/ c[j].reply = a[i].reply)
  BY DEF Follows
<1>1. PICK j \in DOMAIN b : b[j].id = a[i].id /\ (Unanswered(a[i]) \/ b[j].reply = a[i].reply)
  BY DEF Follows
<1>2. PICK k \in DOMAIN c : c[k].id = b[j].id /\ (Unanswered(b[j]) \/ c[k].reply = b[j].reply)
  BY <1>1 DEF Follows
<1>3. QED BY <1>1, <1>2 DEF Unanswered

\* What is stored follows what is in memory, and the other way round.
LEMMA FollowsStored ==
    ASSUME NEW a, NEW rs \in Seq(Requests), NEW gone, Follows(a, rs, gone)
    PROVE  Follows(a, Stored(rs), gone) /\ Follows(Stored(rs), rs, gone)
BY StoredFacts DEF Follows, Unanswered

\* The ids that stay.
LEMMA FollowsIds ==
    ASSUME NEW a, NEW b, NEW gone, Follows(a, b, gone)
    PROVE  IdsOf(a) \ gone \subseteq IdsOf(b)
BY DEF Follows, IdsOf

-----------------------------------------------------------------------------
(* Evidence stays evidence: the registry and the contract only move on.    *)

Onward ==
    /\ from' = from /\ message' = message /\ don <= don' /\ don' \in Nat
    /\ chain.recorded \subseteq chain'.recorded
    /\ \A s \in Subjects : ClosedAt(s) \in Nat /\ ClosedAt(s)' \in Nat /\ ClosedAt(s) <= ClosedAt(s)'

\* A request that is sound stays so as the world goes on.
LEMMA SoundStays ==
    ASSUME Typed, Onward, NEW r \in Requests, Sound(r)
    PROVE  Sound(r)'
<1>1. Bounded(r)'  BY DEF Sound, Bounded, Onward
<1>2. HasEvidence(r)'
  <2> SUFFICES ASSUME r.reply.kind \in {"receipt", "closure"}
               PROVE  /\ r.reply.subject = Asked(r.id)'
                      /\ IF from' = "cre"
                         THEN r.reply.set <= don' /\ Cardinality(r.reply.sigs \cap Signers[r.reply.set]) > F
                         ELSE IF r.reply.kind = "receipt" THEN r.reply.subject \in chain'.recorded
                         ELSE r.since # 0 /\ ClosedAt(r.reply.subject)' >= r.since
    BY DEF HasEvidence
  <2>1. r.reply.set \in Nat /\ r.since \in Nat /\ r.reply.subject \in Subjects /\ don \in Nat /\ don' \in Nat
    BY BoundsAssumption, SignersAssumption, SMTT(30) DEF Requests, Replies, Blocks, Typed, Onward
  <2>2. r.reply.subject = Asked(r.id)'  BY DEF Sound, HasEvidence, Onward, Asked
  <2>3. CASE from = "cre"
    BY <2>1, <2>2, <2>3 DEF Sound, HasEvidence, Onward
  <2>4. CASE from # "cre" /\ r.reply.kind = "receipt"
    BY <2>1, <2>2, <2>4 DEF Sound, HasEvidence, Onward
  <2>5. CASE from # "cre" /\ r.reply.kind # "receipt"
    <3>1. r.since # 0 /\ ClosedAt(r.reply.subject) >= r.since  BY <2>5 DEF Sound, HasEvidence
    <3>2. ClosedAt(r.reply.subject) <= ClosedAt(r.reply.subject)' /\ ClosedAt(r.reply.subject) \in Nat
             /\ ClosedAt(r.reply.subject)' \in Nat
      BY <2>1 DEF Onward
    <3>3. ClosedAt(r.reply.subject)' >= r.since  BY <2>1, <3>1, <3>2
    <3>4. QED BY <2>2, <2>5, <3>1, <3>3 DEF Onward
  <2>6. QED BY <2>3, <2>4, <2>5
<1>3. QED BY <1>1, <1>2 DEF Sound

\* So do the requests of a list.
LEMMA GoodStays ==
    ASSUME Typed, Onward, NEW rs \in Seq(Requests), Good(rs)
    PROVE  Good(rs)'
<1>1. \A i \in DOMAIN rs : rs[i] \in Requests  OBVIOUS
<1>2. \A i \in DOMAIN rs : Sound(rs[i])'  BY <1>1, SoundStays DEF Good
<1>3. QED BY <1>2 DEF Good, Distinct

\* So do they when they are stored.
LEMMA GoodStored ==
    ASSUME NEW rs \in Seq(Requests), Good(rs)'
    PROVE  Good(Stored(rs))'
<1>1. Distinct(Stored(rs))  BY StoredFacts DEF Good, Distinct
<1>2. ASSUME NEW i \in DOMAIN rs PROVE Sound(Stored(rs)[i])'
  <2>1. Sound(rs[i])'  BY DEF Good
  <2>2. QED BY <2>1, StoredFacts DEF Sound, Bounded, HasEvidence, Unanswered
<1>3. QED BY <1>1, <1>2, StoredFacts DEF Good, Distinct

\* The snapshots there are.
LEMMA SnapshotsTyped ==
    ASSUME Typed
    PROVE  /\ file \in Snapshots /\ queue \in Seq(Saves) /\ file.requests \in Seq(Requests)
           /\ \A k \in DOMAIN queue : queue[k] \in Saves /\ queue[k].state.requests \in Seq(Requests)
<1>1. file \in Snapshots /\ queue \in Seq(Saves)  BY DEF Typed
<1>2. \A s \in Snapshots : s.requests \in Seq(Requests)  BY DEF Snapshots
<1>3. \A k \in DOMAIN queue : queue[k] \in Saves  BY <1>1
<1>4. \A s \in Saves : s.state \in Snapshots  BY DEF Saves
<1>5. QED BY <1>1, <1>2, <1>3, <1>4

-----------------------------------------------------------------------------
(* What every step does to the environment.                                *)

\* When a request closes.
LEMMA ClosedAtTyped ==
    ASSUME Typed, NEW s \in Subjects
    PROVE  ClosedAt(s) \in Nat
<1>1. \A t \in DOMAIN chain.closed : chain.closed[t] \in Nat
  BY BoundsAssumption, SignersAssumption DEF Typed, ChainStates, Openings, Blocks
<1>2. QED BY <1>1 DEF ClosedAt
\* A step that leaves the world alone lets it go on.
LEMMA EnvironmentStill == ASSUME Typed, UNCHANGED <<from, message, don, chain>> PROVE Onward
<1>1. \A s \in Subjects : ClosedAt(s)' = ClosedAt(s) /\ ClosedAt(s) \in Nat
  BY ClosedAtTyped DEF ClosedAt
<1>2. don \in Nat  BY BoundsAssumption, SignersAssumption DEF Typed
<1>3. QED BY <1>1, <1>2 DEF Onward

\* What a step does to the requests, and to the queue when it saves them.
Advances ==
    /\ Onward /\ UNCHANGED <<file, acked>>
    /\ dropped \subseteq dropped' /\ dropped' \subseteq Ids
    /\ requests' \in Seq(Requests) /\ Good(requests)'
    /\ Follows(requests, requests', dropped')
    /\ reports' \in Seq({Digest(r) : r \in Submissions}) /\ Len(reports') <= MaxReports

SavedBy(by) == queue' = Append(queue, [by |-> by, state |-> [requests |-> Stored(requests'), reports |-> reports']])

\* The files, the queue and the history are kept by a step that advances the
\* requests and saves nothing.
Carried ==
    /\ file' \in Snapshots /\ queue' \in Seq(Saves) /\ acked' \subseteq Ids /\ dropped' \subseteq Ids
    /\ SnapshotsGood' /\ Succession' /\ Acknowledged'

\* A step that only changes requests in memory carries every promise.
LEMMA AdvanceCarries ==
    ASSUME BInv, Advances, queue' = queue
    PROVE  Carried
<1> USE DEF Advances
<1>1. Typed  BY DEF BInv
<1>2. file \in Snapshots /\ queue \in Seq(Saves) /\ file.requests \in Seq(Requests) /\ acked \subseteq Ids
  BY <1>1, SnapshotsTyped DEF Typed
<1>3. \A k \in DOMAIN queue : queue[k].state.requests \in Seq(Requests)
  BY <1>1, SnapshotsTyped
<1>g. \A rs \in Seq(Requests) : Good(rs) => Good(rs)'  BY <1>1, GoodStays
<1>4. SnapshotsGood'
  <2>1. Good(file.requests)'  BY <1>2, <1>g DEF BInv, SnapshotsGood
  <2>2. ASSUME NEW k \in DOMAIN queue PROVE Good(queue[k].state.requests)'
    BY <1>3, <1>g DEF BInv, SnapshotsGood
  <2>3. QED BY <2>1, <2>2 DEF BInv, SnapshotsGood
<1>5. Succession'
  <2>1. \A a, b : Follows(a, b, dropped) => Follows(a, b, dropped')  BY FollowsMore
  <2>2. \A a : Follows(a, requests, dropped) => Follows(a, requests', dropped')
    BY <2>1, FollowsOn
  <2>3. QED BY <2>1, <2>2 DEF BInv, Succession
<1>6. Acknowledged'  BY DEF BInv, Acknowledged, IdsOf
<1>7. QED BY <1>2, <1>4, <1>5, <1>6 DEF Carried

\* ... and by one that saves what it advanced.
LEMMA SaveCarries ==
    ASSUME BInv, Advances, NEW by \in Ids \cup Handlers \cup {"pump"},
           by \in Ids => by \in IdsOf(requests'), SavedBy(by)
    PROVE  Carried
<1> USE DEF Advances
<1>1. Typed  BY DEF BInv
<1>2. file \in Snapshots /\ queue \in Seq(Saves) /\ file.requests \in Seq(Requests) /\ acked \subseteq Ids
  BY <1>1, SnapshotsTyped DEF Typed
<1>3. \A k \in DOMAIN queue : queue[k].state.requests \in Seq(Requests)
  BY <1>1, SnapshotsTyped
<1>g. \A rs \in Seq(Requests) : Good(rs) => Good(rs)'  BY <1>1, GoodStays
<1> DEFINE save == [by |-> by, state |-> [requests |-> Stored(requests'), reports |-> reports']]
           n == Len(queue) + 1
<1>4. /\ save \in Saves /\ save.by = by /\ save.state.requests = Stored(requests')
      /\ save.state.reports = reports'
  BY StoredFacts DEF Saves, Snapshots, Digest
<1>q. queue' = Append(queue, save)  BY DEF SavedBy
<1> HIDE DEF save
<1>5. /\ queue' \in Seq(Saves) /\ DOMAIN queue' = DOMAIN queue \cup {n} /\ queue'[n] = save
      /\ n \notin DOMAIN queue /\ \A k \in DOMAIN queue : queue'[k] = queue[k] /\ k < n
  BY <1>2, <1>4, <1>q
<1> HIDE DEF n
<1>6. SnapshotsGood'
  <2>1. Good(file.requests)'  BY <1>2, <1>g DEF BInv, SnapshotsGood
  <2>2. ASSUME NEW k \in DOMAIN queue, NEW rs, rs = queue[k].state.requests PROVE Good(rs)'
    BY <1>3, <1>g, <2>2 DEF BInv, SnapshotsGood
  <2>3. \A rs \in Seq(Requests) : Good(rs)' => Good(Stored(rs))'  BY GoodStored
  <2>4. QED BY <1>4, <1>5, <2>1, <2>2, <2>3 DEF BInv, SnapshotsGood
<1>7. Succession'
  <2>1. \A a, b : Follows(a, b, dropped) => Follows(a, b, dropped')  BY FollowsMore
  <2>2. \A a : Follows(a, requests, dropped) =>
                  Follows(a, requests', dropped') /\ Follows(a, Stored(requests'), dropped')
    BY <2>1, FollowsOn, FollowsStored
  <2>3. Follows(Stored(requests'), requests', dropped')  BY FollowsItself, FollowsStored
  <2>4. ASSUME NEW k \in DOMAIN queue'
        PROVE  Follows(file.requests, queue'[k].state.requests, dropped')
                  /\ Follows(queue'[k].state.requests, requests', dropped')
    BY <1>4, <1>5, <2>1, <2>2, <2>3 DEF BInv, Succession
  <2>5. ASSUME NEW j \in DOMAIN queue', NEW k \in DOMAIN queue', j < k
        PROVE  Follows(queue'[j].state.requests, queue'[k].state.requests, dropped')
    <3>1. CASE k \in DOMAIN queue
      <4>1. j \in DOMAIN queue  BY <1>2, <1>5, <2>5, <3>1 DEF n
      <4>2. QED BY <1>5, <2>1, <2>5, <3>1, <4>1 DEF BInv, Succession
    <3>2. CASE k = n
      <4>1. j \in DOMAIN queue  BY <1>2, <1>5, <2>5, <3>2 DEF n
      <4>2. QED BY <1>4, <1>5, <2>2, <3>2, <4>1 DEF BInv, Succession
    <3>3. QED BY <1>5, <3>1, <3>2
  <2>6. QED BY <2>2, <2>4, <2>5 DEF BInv, Succession
<1>8. Acknowledged'
  <2>1. \A rs \in Seq(Requests) : IdsOf(Stored(rs)) = IdsOf(rs)  BY StoredIds
  <2>2. acked' \ dropped' \subseteq IdsOf(file'.requests)  BY DEF BInv, Acknowledged
  <2>3. ASSUME NEW k \in DOMAIN queue', queue'[k].by \in Ids
        PROVE  queue'[k].by \in IdsOf(queue'[k].state.requests)
    BY <1>4, <1>5, <2>1, <2>3 DEF BInv, Acknowledged
  <2>4. QED BY <2>2, <2>3 DEF Acknowledged, IdsOf
<1>9. QED BY <1>2, <1>5, <1>6, <1>7, <1>8 DEF Carried
\* So does one that also asks for a save, done at once or queued.
LEMMA SaveEither ==
    ASSUME BInv, Advances, NEW by \in Ids \cup Handlers \cup {"pump"},
           by \in Ids => by \in IdsOf(requests'),
           Save(by, requests', reports')
    PROVE  Carried
<1>1. CASE broken  BY <1>1, AdvanceCarries DEF Save
<1>2. CASE ~broken  BY <1>2, SaveCarries DEF Save, SavedBy
<1>3. QED BY <1>1, <1>2

\* What is left to show of a step that advances the requests.
LEMMA Together ==
    ASSUME Typed, Advances, Carried, RoundSound', broken' \in BOOLEAN, pump' \in PumpStates,
           handler' \in [Handlers -> HandlerStates], don' \in 1..Len(Signers), cache' \in 0..don',
           chain' \in ChainStates,
           \A s \in DOMAIN chain'.closed : chain'.closed[s] <= chain'.closings
    PROVE  BInv'
<1>1. Typed'
  <2>1. \E scenario \in Scenarios : from' = scenario.from /\ message' = scenario.message
    BY DEF Typed, Advances, Onward
  <2>2. QED BY <2>1 DEF Typed, Advances, Carried
<1>2. QED BY <1>1 DEF BInv, Carried

\* Requests that are changed one by one.
LEMMA Revised ==
    ASSUME Typed, Good(requests), Onward,
           requests' \in Seq(Requests), DOMAIN requests' = DOMAIN requests,
           \A i \in DOMAIN requests :
              /\ requests'[i].id = requests[i].id
              /\ requests'[i] = requests[i] \/ Sound(requests[i])'
              /\ Unanswered(requests[i]) \/ requests'[i].reply = requests[i].reply
    PROVE  Good(requests)' /\ Follows(requests, requests', dropped')
<1>1. Distinct(requests)'  BY DEF Good, Distinct
<1>2. ASSUME NEW i \in DOMAIN requests PROVE Sound(requests[i])'
  <2>1. \A r \in Requests : Sound(r) => Sound(r)'  BY SoundStays
  <2>2. requests[i] \in Requests /\ Sound(requests[i])  BY DEF Good, Typed
  <2>3. CASE requests'[i] = requests[i]  BY <2>1, <2>2, <2>3
  <2>4. QED BY <2>3
<1>3. QED BY <1>1, <1>2 DEF Good, Follows

\* A new request claims nothing.
LEMMA FreshSound ==
    ASSUME NEW id \in Ids, from \in {"cre", "contract"}, from' = from
    PROVE  Sound(Request(id))'
<1>1. Request(id).attempts = 0 /\ Request(id).reply.kind = None  BY RequestTyped DEF Unanswered
<1>2. Bounded(Request(id))'  BY <1>1, BoundsAssumption, SignersAssumption DEF Bounded
<1>3. HasEvidence(Request(id))'  BY <1>1 DEF HasEvidence, None
<1>4. QED BY <1>2, <1>3 DEF Sound

\* Delivery keeps the invariant.
LEMMA DeliveryKeeps ==
    ASSUME BInv, NEW id \in Ids, Delivery(id)
    PROVE  BInv'
<1> USE DEF Delivery, envVars
<1>t. Typed  BY DEF BInv
<1>1. Onward  BY <1>t, EnvironmentStill
<1> DEFINE new == Request(id)
           n == Len(requests) + 1
<1>2. new \in Requests /\ new.id = id /\ new.attempts = 0 /\ Unanswered(new)  BY RequestTyped
<1>3. requests \in Seq(Requests) /\ requests' = Append(requests, new)  BY <1>t DEF Typed
<1> HIDE DEF new
<1>4. /\ requests' \in Seq(Requests) /\ DOMAIN requests' = DOMAIN requests \cup {n} /\ requests'[n] = new
      /\ n \notin DOMAIN requests /\ \A i \in DOMAIN requests : requests'[i] = requests[i]
  BY <1>2, <1>3
<1> HIDE DEF n
<1>5. \A i \in DOMAIN requests : requests[i].id # id  BY DEF IdsOf
<1>6. Good(requests)'
  <2>1. Distinct(requests)'  BY <1>2, <1>4, <1>5 DEF BInv, SnapshotsGood, Good, Distinct
  <2>2. \A r \in Requests : Sound(r) => Sound(r)'  BY <1>t, <1>1, SoundStays
  <2>a. Good(requests)  BY DEF BInv, SnapshotsGood
  <2>b. \A i \in DOMAIN requests : requests[i] \in Requests  BY <1>3
  <2>3. \A i \in DOMAIN requests : requests[i] \in Requests /\ Sound(requests[i])
    BY <2>a, <2>b DEF Good
  <2>4. \A r : r = new => Sound(r)'  BY <1>t, ModeTyped, FreshSound DEF new
  <2>5. \A i \in DOMAIN requests' : Sound(requests[i])'  BY <1>4, <2>2, <2>3, <2>4
  <2>6. QED BY <2>1, <2>5 DEF Good
<1>7. Follows(requests, requests', dropped')  BY <1>4 DEF Follows
<1>8. Advances  BY <1>t, <1>1, <1>4, <1>6, <1>7 DEF Advances, Typed
<1>9. Carried
  <2>1. id \in IdsOf(requests')  BY <1>2, <1>4 DEF IdsOf
  <2>2. QED BY <1>8, <2>1, SaveEither
<1>10. RoundSound'
  <2>1. \A i \in DOMAIN requests' : requests'[i] = new \/ (i \in DOMAIN requests /\ requests'[i] = requests[i])
    BY <1>4
  <2>2. IdsOf(requests) \subseteq IdsOf(requests')  BY <1>4 DEF IdsOf
  <2>3. RoundSound  BY DEF BInv
  <2>4. new.attempts < MaxAttempts  BY <1>2, BoundsAssumption, SignersAssumption
  <2>5. QED BY <1>2, <2>1, <2>2, <2>3, <2>4 DEF RoundSound
<1>11. QED BY <1>t, <1>8, <1>9, <1>10, Together DEF Typed

-----------------------------------------------------------------------------
(* The writer and the restart.                                             *)

\* An idle handler and an idle pump.
LEMMA IdleTyped == Idle \in PumpStates /\ Idle.pc = "idle" /\ IdleHandler \in HandlerStates /\ IdleHandler.pc = "idle"
<1>1. <<>> \in Openings
  <2>1. <<>> \in [{} -> Blocks]  OBVIOUS
  <2>2. QED BY <2>1 DEF Openings
<1>2. (CHOOSE r \in Submissions : TRUE) \in Submissions  BY SubmissionsAssumption
<1>3. QED BY <1>1, <1>2 DEF Idle, IdleHandler, PumpStates, HandlerStates

\* The one whose save is done goes on with its types.
LEMMA ResumeTyped ==
    ASSUME Typed, RoundSound, NEW by, Resume(by), UNCHANGED <<requests, from>>
    PROVE  pump' \in PumpStates /\ handler' \in [Handlers -> HandlerStates] /\ RoundSound'
<1>1. pump' \in PumpStates /\ handler' \in [Handlers -> HandlerStates]
  BY IdleTyped DEF Typed, Resume
<1>2. \A h \in Handlers : handler'[h] \in {handler[h], IdleHandler}  BY DEF Resume
<1>3. pump' = pump \/ pump' = Idle  BY DEF Resume
<1>4. QED BY <1>1, <1>2, <1>3, IdleTyped DEF RoundSound, IdsOf, Unanswered

\* Write keeps the invariant.
LEMMA WriteKeeps == ASSUME BInv, Write PROVE BInv'
<1> USE DEF Write, envVars
<1>t. Typed  BY DEF BInv
<1>1. Onward  BY <1>t, EnvironmentStill
<1> DEFINE head == Head(queue)
<1>2. queue \in Seq(Saves) /\ queue # <<>>  BY <1>t DEF Typed
<1>3. /\ head \in Saves /\ head = queue[1] /\ 1 \in DOMAIN queue /\ queue' \in Seq(Saves)
      /\ \A k \in DOMAIN queue' : k + 1 \in DOMAIN queue /\ queue'[k] = queue[k + 1] /\ k \in Nat /\ 1 < k + 1
  BY <1>2
<1>4. file' = head.state /\ file' \in Snapshots  BY <1>3 DEF Saves
<1>g. \A rs \in Seq(Requests) : Good(rs) => Good(rs)'  BY <1>t, <1>1, GoodStays
<1> HIDE DEF head
<1>5. SnapshotsGood'
  <2>1. requests \in Seq(Requests) /\ \A k \in DOMAIN queue : queue[k].state.requests \in Seq(Requests)
    BY <1>t, SnapshotsTyped DEF Typed
  <2>2. /\ Good(requests) /\ \A k \in DOMAIN queue : Good(queue[k].state.requests)
                                              /\ Len(queue[k].state.reports) <= MaxReports
    BY DEF BInv, SnapshotsGood
  <2>3. Good(requests)'  BY <1>g, <2>1, <2>2
  <2>4. Good(file.requests)' /\ Len(file'.reports) <= MaxReports  BY <1>3, <1>4, <1>g, <2>1, <2>2
  <2>5. ASSUME NEW k \in DOMAIN queue'
        PROVE  Good(queue[k].state.requests)' /\ Len(queue'[k].state.reports) <= MaxReports
    BY <1>3, <1>g, <2>1, <2>2
  <2>6. QED BY <2>3, <2>4, <2>5 DEF SnapshotsGood
<1>6. Succession'
  <2>1. Succession  BY DEF BInv
  <2>2. ASSUME NEW j \in DOMAIN queue', NEW k \in DOMAIN queue', j < k
        PROVE  Follows(queue'[j].state.requests, queue'[k].state.requests, dropped')
    <3>1. j + 1 < k + 1  BY <1>3, <2>2
    <3>2. QED BY <1>3, <2>1, <3>1 DEF Succession
  <2>3. ASSUME NEW k \in DOMAIN queue'
        PROVE  Follows(file'.requests, queue'[k].state.requests, dropped')
                  /\ Follows(queue'[k].state.requests, requests', dropped')
    BY <1>3, <1>4, <2>1 DEF Succession
  <2>4. QED BY <1>3, <1>4, <2>1, <2>2, <2>3 DEF Succession
<1>7. Acknowledged'
  <2>1. Acknowledged /\ Succession  BY DEF BInv
  <2>2. IdsOf(file.requests) \ dropped \subseteq IdsOf(file'.requests)
    BY <1>3, <1>4, <2>1, FollowsIds DEF Succession
  <2>3. acked' \ dropped' \subseteq IdsOf(file'.requests)
    <3>1. head.by \in Ids => head.by \in IdsOf(file'.requests)  BY <1>3, <1>4, <2>1 DEF Acknowledged
    <3>2. acked' = acked \cup ({head.by} \cap Ids) /\ dropped' = dropped  BY DEF head
    <3>3. QED BY <2>1, <2>2, <3>1, <3>2 DEF Acknowledged
  <2>4. ASSUME NEW k \in DOMAIN queue', queue'[k].by \in Ids
        PROVE  queue'[k].by \in IdsOf(queue'[k].state.requests)
    BY <1>3, <2>1, <2>4 DEF Acknowledged
  <2>5. \A rs : IdsOf(rs)' = IdsOf(rs)  BY DEF IdsOf
  <2>6. QED BY <2>3, <2>4 DEF Acknowledged, IdsOf
<1>8. pump' \in PumpStates /\ handler' \in [Handlers -> HandlerStates] /\ RoundSound'
  BY <1>t, ResumeTyped DEF BInv
<1>9. Typed'  BY <1>t, <1>3, <1>4, <1>8 DEF Typed
<1>10. QED BY <1>5, <1>6, <1>7, <1>8, <1>9 DEF BInv

\* WriteFails keeps the invariant.
LEMMA WriteFailsKeeps == ASSUME BInv, WriteFails PROVE BInv'
<1> USE DEF WriteFails, Fault
<1>t. Typed  BY DEF BInv
<1>1. Onward  BY <1>t, EnvironmentStill
<1>2. /\ requests \in Seq(Requests) /\ file.requests \in Seq(Requests) /\ queue' = <<>> /\ DOMAIN queue' = {}
      /\ queue' \in Seq(Saves)
  BY <1>t, SnapshotsTyped DEF Typed
<1>g. \A rs \in Seq(Requests) : Good(rs) => Good(rs)'  BY <1>t, <1>1, GoodStays
<1>3. SnapshotsGood'  BY <1>2, <1>g DEF BInv, SnapshotsGood
<1>4. Succession' /\ Acknowledged'  BY <1>2 DEF BInv, Succession, Acknowledged, IdsOf
<1>5. pump' \in PumpStates /\ handler' \in [Handlers -> HandlerStates] /\ RoundSound'
  BY <1>t, ResumeTyped DEF BInv
<1>6. Typed'  BY <1>t, <1>2, <1>5 DEF Typed
<1>7. QED BY <1>3, <1>4, <1>5, <1>6 DEF BInv

\* Restart keeps the invariant.
LEMMA RestartKeeps == ASSUME BInv, Restart PROVE BInv'
<1> USE DEF Restart, Fault
<1>t. Typed  BY DEF BInv
<1>1. Onward  BY <1>t, EnvironmentStill
<1>2. /\ requests' \in Seq(Requests) /\ file.requests \in Seq(Requests) /\ queue' = <<>> /\ DOMAIN queue' = {}
      /\ queue' \in Seq(Saves)
  BY <1>t, SnapshotsTyped DEF Typed
<1>g. \A rs \in Seq(Requests) : Good(rs) => Good(rs)'  BY <1>t, <1>1, GoodStays
<1>3. SnapshotsGood'  BY <1>2, <1>g DEF BInv, SnapshotsGood
<1>4. Succession' /\ Acknowledged'  BY <1>2, FollowsItself DEF BInv, Succession, Acknowledged, IdsOf
<1>5. pump' = Idle /\ pump' \in PumpStates /\ handler' \in [Handlers -> HandlerStates]  BY IdleTyped
<1>6. RoundSound'  BY <1>5, IdleTyped DEF RoundSound
<1>7. reports' \in Seq({Digest(r) : r \in Submissions}) /\ Len(reports') <= MaxReports
  <2>1. file \in Snapshots /\ Len(file.reports) <= MaxReports
    BY <1>t, SnapshotsTyped DEF BInv, SnapshotsGood
  <2>2. \A s \in Snapshots : s.reports \in Seq({Digest(r) : r \in Submissions})  BY DEF Snapshots, Digest
  <2>3. QED BY <2>1, <2>2
<1>8. cache' \in 0..don'  BY <1>t, BoundsAssumption, SignersAssumption DEF Typed
<1>9. Typed'  BY <1>t, <1>2, <1>5, <1>7, <1>8 DEF Typed
<1>10. QED BY <1>3, <1>4, <1>6, <1>9 DEF BInv

-----------------------------------------------------------------------------
(* Reports.                                                                *)

\* Steps that leave the requests and the snapshots alone.
LEMMA StandStill ==
    ASSUME BInv, Onward, UNCHANGED <<requests, reports, file, queue, acked, dropped>>
    PROVE  Advances /\ Carried
<1>1. Typed /\ Good(requests) /\ requests \in Seq(Requests)  BY DEF BInv, SnapshotsGood, Typed
<1>2. \A rs \in Seq(Requests) : Good(rs) => Good(rs)'  BY <1>1, GoodStays
<1>3. Good(requests)'  BY <1>1, <1>2
<1>4. Advances  BY <1>1, <1>3, FollowsItself DEF Advances, Typed
<1>5. QED BY <1>4, AdvanceCarries

\* BeginReport keeps the invariant.
LEMMA BeginReportKeeps == ASSUME BInv, NEW h \in Handlers, BeginReport(h) PROVE BInv'
<1> USE DEF BeginReport, envVars
<1>t. Typed  BY DEF BInv
<1>1. Onward  BY <1>t, EnvironmentStill
<1>2. Advances /\ Carried  BY <1>1, StandStill
<1>3. PICK r \in Submissions :
         handler' = [handler EXCEPT ![h] = [IdleHandler EXCEPT !.pc = "signers", !.report = r]]
  OBVIOUS
<1>4. [IdleHandler EXCEPT !.pc = "signers", !.report = r] \in HandlerStates
  BY IdleTyped DEF HandlerStates
<1>5. handler' \in [Handlers -> HandlerStates]  BY <1>t, <1>3, <1>4 DEF Typed
<1>6. RoundSound'
  <2>1. RoundSound /\ from = "cre"  BY DEF BInv
  <2>2. QED BY <2>1 DEF RoundSound, IdsOf, Unanswered
<1>7. QED BY <1>t, <1>2, <1>5, <1>6, Together DEF Typed

\* SignersUnavailable keeps the invariant.
LEMMA SignersUnavailableKeeps == ASSUME BInv, NEW h \in Handlers, SignersUnavailable(h) PROVE BInv'
<1> USE DEF SignersUnavailable, Fault
<1>t. Typed  BY DEF BInv
<1>1. Onward  BY <1>t, EnvironmentStill
<1>2. Advances /\ Carried  BY <1>1, StandStill
<1>3. handler' \in [Handlers -> HandlerStates]  BY <1>t, IdleTyped DEF Typed
<1>4. RoundSound'
  <2>1. RoundSound  BY DEF BInv
  <2>2. \A g \in Handlers : handler'[g].pc # "idle" => handler[g].pc # "idle"  BY <1>t, IdleTyped DEF Typed
  <2>3. QED BY <2>1, <2>2 DEF RoundSound, IdsOf, Unanswered
<1>5. QED BY <1>t, <1>2, <1>3, <1>4, Together DEF Typed

\* The signers that are read are a set the registry holds or held.
LEMMA SignersRead ==
    ASSUME Typed, NEW h \in Handlers, ReadSigners(h)
    PROVE  cache' \in 1..don /\ cache' \in 0..Len(Signers)
<1>1. don \in 1..Len(Signers) /\ cache \in 0..don /\ Len(Signers) \in Nat  BY BoundsAssumption, SignersAssumption DEF Typed
<1>2. cache' = don \/ (cache # 0 /\ cache' = cache)  BY DEF ReadSigners
<1>3. QED BY <1>1, <1>2

\* Reject keeps the invariant.
LEMMA RejectKeeps == ASSUME BInv, NEW h \in Handlers, Reject(h) PROVE BInv'
<1> USE DEF Reject, envVars
<1>t. Typed  BY DEF BInv
<1>1. Onward  BY <1>t, EnvironmentStill
<1>2. Advances /\ Carried  BY <1>1, StandStill
<1>3. [handler[h] EXCEPT !.pc = "refresh"] \in HandlerStates  BY <1>t DEF Typed, HandlerStates
<1>4. handler' \in [Handlers -> HandlerStates]  BY <1>t, <1>3, IdleTyped DEF Typed
<1>5. RoundSound'
  <2>1. RoundSound  BY DEF BInv
  <2>2. handler[h].pc # "idle"  BY DEF ReadSigners
  <2>3. \A g \in Handlers : handler'[g].pc # "idle" => handler[g].pc # "idle"
    BY <1>t, <2>2 DEF Typed
  <2>4. QED BY <2>1, <2>3 DEF RoundSound, IdsOf, Unanswered
<1>6. cache' \in 0..don'
  <2>1. cache' \in 1..don /\ don \in Nat /\ don' = don  BY <1>t, SignersRead, BoundsAssumption, SignersAssumption DEF Typed
  <2>2. QED BY <2>1
<1>7. QED BY <1>t, <1>2, <1>4, <1>5, <1>6, Together DEF Typed

\* The digests that are remembered are the most recent ones.
LEMMA RememberedTyped ==
    ASSUME NEW D, NEW ds \in Seq(D), NEW d \in D
    PROVE  Remembered(ds, d) \in Seq(D) /\ Len(Remembered(ds, d)) <= MaxReports
<1> DEFINE all == Append(ds, d)
           n == IF Len(all) > MaxReports THEN MaxReports ELSE Len(all)
<1>1. all \in Seq(D) /\ Len(all) \in Nat /\ MaxReports \in Nat  BY BoundsAssumption, SignersAssumption
<1>2. Remembered(ds, d) = SubSeq(all, Len(all) - n + 1, Len(all))  BY DEF Remembered
<1> HIDE DEF all
<1>3. n \in Nat /\ n <= Len(all) /\ n <= MaxReports  BY <1>1
<1> HIDE DEF n
<1>4. QED BY <1>1, <1>2, <1>3

\* f + 1 signers of the set that was read.
LEMMA VerifiedEvidence ==
    ASSUME NEW r, NEW set \in 1..Len(Signers), Verified(r, set)
    PROVE  Cardinality(r.sigs \cap Signers[set]) > F
<1>1. IsFiniteSet(r.sigs \cap Signers[set])  BY SignersAssumption, FS_Intersection
<1>2. Cardinality(r.sigs \cap Signers[set]) \in Nat  BY <1>1, FS_CardinalityType
<1>3. QED BY <1>2, BoundsAssumption DEF Verified

\* Accept keeps the invariant.
LEMMA AcceptKeeps == ASSUME BInv, NEW h \in Handlers, Accept(h) PROVE BInv'
<1>t. Typed /\ Good(requests) /\ requests \in Seq(Requests)  BY DEF BInv, SnapshotsGood, Typed
<1>u. UNCHANGED <<from, message, faults, don, file, broken, pump, acked, dropped, chain>>
  BY DEF Accept, envVars
<1>1. Onward  BY <1>t, <1>u, EnvironmentStill
<1> DEFINE report == handler[h].report
           reply == ReplyOf(report, cache')
           over(r) == [r EXCEPT !.reply = reply]
<1>2. report \in Submissions /\ from = "cre"
  <2>1. handler[h] \in HandlerStates /\ handler[h].pc # "idle"  BY <1>t DEF Typed, Accept, ReadSigners
  <2>2. QED BY <2>1 DEF HandlerStates, BInv, RoundSound
<1>3. cache' \in 1..don /\ cache' \in 0..Len(Signers) /\ don \in 1..Len(Signers) /\ don' = don
  BY <1>t, <1>u, SignersRead DEF Accept, Typed
<1>4. reply \in Replies /\ reply.subject = report.subject
         /\ (reply.kind \in {"receipt", "closure"} => reply.set = cache' /\ reply.sigs = report.sigs)
  BY <1>2, <1>3, ReplyOfTyped
<1>5. Cardinality(report.sigs \cap Signers[cache']) > F
  <2>1. cache' \in 1..Len(Signers)  BY <1>3, SignersAssumption
  <2>2. Verified(report, cache')  BY DEF Accept
  <2>3. QED BY <2>1, <2>2, VerifiedEvidence
<1>6. requests' = [i \in DOMAIN requests |->
                      IF Unanswered(requests[i]) /\ Asked(requests[i].id) = report.subject
                      THEN over(requests[i]) ELSE requests[i]]
  BY DEF Accept, Change
<1>7. \A r \in Requests : /\ over(r) \in Requests /\ over(r).id = r.id /\ over(r).attempts = r.attempts
                          /\ over(r).reply = reply
  <2> HIDE DEF reply
  <2> QED BY <1>4 DEF Requests
<1>8. \A i \in DOMAIN requests : requests[i] \in Requests /\ Sound(requests[i])
  <2>1. \A i \in DOMAIN requests : requests[i] \in Requests  BY <1>t
  <2>2. QED BY <1>t, <2>1 DEF Good
<1> HIDE DEF over, reply, report
<1>9. requests' \in Seq(Requests) /\ DOMAIN requests' = DOMAIN requests
  BY <1>t, <1>6, <1>7, <1>8
<1>10. ASSUME NEW r \in Requests, Sound(r), Asked(r.id) = report.subject, NEW s, s = over(r)
       PROVE  Sound(s)'
  <2>1. s.attempts = r.attempts /\ s.id = r.id /\ s.reply = reply  BY <1>7, <1>10
  <2>2. Bounded(s)'  BY <1>2, <1>10, <1>u, <2>1 DEF Sound, Bounded
  <2>3. HasEvidence(s)'
    <3> SUFFICES ASSUME reply.kind \in {"receipt", "closure"}
                 PROVE  /\ reply.subject = Asked(r.id)'
                        /\ reply.set <= don' /\ Cardinality(reply.sigs \cap Signers[reply.set]) > F
      BY <1>2, <1>u, <2>1 DEF HasEvidence
    <3>1. Asked(r.id)' = Asked(r.id)  BY <1>u DEF Asked
    <3>2. cache' <= don'  BY <1>3, SignersAssumption
    <3>3. QED BY <1>4, <1>5, <1>10, <3>1, <3>2
  <2>4. QED BY <2>2, <2>3 DEF Sound
<1>11. Good(requests)' /\ Follows(requests, requests', dropped')
  <2>1. ASSUME NEW i \in DOMAIN requests
        PROVE  /\ requests'[i].id = requests[i].id
               /\ requests'[i] = requests[i] \/ Sound(requests[i])'
               /\ Unanswered(requests[i]) \/ requests'[i].reply = requests[i].reply
    <3>1. \A s : \A r \in Requests : Sound(r) /\ Asked(r.id) = report.subject /\ s = over(r) => Sound(s)'
      BY <1>10
    <3>2. CASE Unanswered(requests[i]) /\ Asked(requests[i].id) = report.subject
      BY <1>6, <1>7, <1>8, <3>1, <3>2
    <3>3. CASE ~(Unanswered(requests[i]) /\ Asked(requests[i].id) = report.subject)
      BY <1>6, <3>3
    <3>4. QED BY <3>2, <3>3
  <2>2. QED BY <1>t, <1>1, <1>9, <2>1, Revised
<1>12. reports' \in Seq({Digest(r) : r \in Submissions}) /\ Len(reports') <= MaxReports
  <2>1. reports' = Remembered(reports, Digest(report))  BY DEF Accept, report
  <2>2. QED BY <1>t, <1>2, <2>1, RememberedTyped DEF Typed
<1>13. Advances  BY <1>t, <1>u, <1>1, <1>9, <1>11, <1>12 DEF Advances, Typed
<1>14. Carried
  <2>1. Save(h, requests', reports')  BY DEF Accept
  <2>2. h \notin Ids  BY NamesAssumption
  <2>3. QED BY <1>13, <2>1, <2>2, SaveEither
<1>15. handler' \in [Handlers -> HandlerStates]
  <2>1. [handler[h] EXCEPT !.pc = "saving"] \in HandlerStates  BY <1>t DEF Typed, HandlerStates
  <2>2. QED BY <1>t, <2>1, IdleTyped DEF Typed, Accept
<1>16. RoundSound'
  <2>1. \A i \in DOMAIN requests : requests'[i].id = requests[i].id /\ requests'[i].attempts = requests[i].attempts
    BY <1>6, <1>7, <1>8
  <2>2. RoundSound  BY DEF BInv
  <2>3. QED BY <1>2, <1>u, <1>9, <2>1, <2>2 DEF RoundSound
<1>17. cache' \in 0..don'  BY <1>3, SignersAssumption
<1>18. QED BY <1>t, <1>u, <1>13, <1>14, <1>15, <1>16, <1>17, Together DEF Typed

-----------------------------------------------------------------------------
(* The pump.                                                               *)

\* What a round begins with: each request that is left is one that was there,
\* and only one that is overdue is changed, by a reply that claims nothing.
LEMMA RoundBegins ==
    ASSUME BInv, UNCHANGED <<from, message, don, chain, file, acked, reports>>,
           NEW expired \in {0, 1}, BeginRound(expired)
    PROVE  Advances
<1>t. Typed /\ Good(requests) /\ requests \in Seq(Requests)  BY DEF BInv, SnapshotsGood, Typed
<1>1. Onward  BY <1>t, EnvironmentStill
<1> DEFINE kept == SubSeq(requests, expired + 1, Len(requests))
           kind == IF from = "cre" THEN "no_finished_receipt" ELSE "not_recorded"
           over(r) == [r EXCEPT !.reply = Reply(kind, Asked(r.id), 0, {})]
<1>2. /\ kept \in Seq(Requests)
      /\ \A i \in DOMAIN kept : /\ i + expired \in DOMAIN requests /\ kept[i] = requests[i + expired]
                                /\ i \in Nat
  BY <1>t DEF BeginRound
<1>3. requests' = [i \in DOMAIN kept |-> IF Overdue(kept[i]) THEN over(kept[i]) ELSE kept[i]]
  BY DEF BeginRound, Settled, Change
<1>4. \A r \in Requests :
         /\ over(r) \in Requests /\ over(r).id = r.id /\ over(r).attempts = r.attempts
         /\ over(r).reply.kind = kind
  <2>1. \A r \in Requests : Reply(kind, Asked(r.id), 0, {}) \in Replies
                               /\ Reply(kind, Asked(r.id), 0, {}).kind = kind
    <3>1. \A r \in Requests : Asked(r.id) \in Subjects  BY <1>t, AskedTyped DEF Requests
    <3>2. \A s \in Subjects : Reply(kind, s, 0, {}) \in Replies /\ Reply(kind, s, 0, {}).kind = kind
      BY RepliesTyped DEF Reply
    <3>3. QED BY <3>1, <3>2
  <2>2. QED BY <2>1 DEF Requests
<1>k. kind \notin {None, "receipt", "closure"}  BY DEF None
<1> HIDE DEF kept, over, kind
<1>5. \A i \in DOMAIN kept : kept[i] \in Requests  BY <1>2
<1>6. requests' \in Seq(Requests) /\ DOMAIN requests' = DOMAIN kept
  <2>1. DOMAIN kept = 1..Len(kept) /\ Len(kept) \in Nat  BY <1>2
  <2>2. \A i \in DOMAIN kept : requests'[i] \in Requests  BY <1>3, <1>4, <1>5
  <2>3. requests' = [i \in 1..Len(kept) |-> requests'[i]]  BY <1>3, <2>1
  <2>4. QED BY <2>1, <2>2, <2>3
<1>7. \A i \in DOMAIN requests' : requests'[i].id = requests[i + expired].id /\ i + expired \in DOMAIN requests
  BY <1>2, <1>3, <1>4, <1>5, <1>6
<1>8. Distinct(requests)'
  <2>1. Distinct(requests)  BY <1>t DEF Good
  <2>2. \A i \in DOMAIN requests' : i \in Nat  BY <1>2, <1>6
  <2>3. QED BY <1>7, <2>1, <2>2 DEF Distinct
<1>9. ASSUME NEW r \in Requests, Sound(r), NEW s, s = over(r) PROVE Sound(s)'
  <2>1. s.attempts = r.attempts /\ s.reply.kind = kind  BY <1>4, <1>9
  <2>2. QED BY <1>k, <1>9, <2>1 DEF Sound, Bounded, HasEvidence, Unanswered
<1>10. ASSUME NEW i \in DOMAIN requests' PROVE Sound(requests[i])'
  <2>1. \A r \in Requests : Sound(r) => Sound(r)'  BY <1>t, <1>1, SoundStays
  <2>2. \A s : \A r \in Requests : Sound(r) /\ s = over(r) => Sound(s)'  BY <1>9
  <2>3. i \in DOMAIN kept /\ kept[i] \in Requests  BY <1>5, <1>6
  <2>4. Sound(kept[i])  BY <1>2, <1>t, <2>3 DEF Good
  <2>5. CASE Overdue(kept[i])  BY <1>3, <2>2, <2>3, <2>4, <2>5
  <2>6. CASE ~Overdue(kept[i])  BY <1>3, <2>1, <2>3, <2>4, <2>6
  <2>7. QED BY <2>5, <2>6
<1>11. Good(requests)'  BY <1>8, <1>10 DEF Good
<1>12. dropped' = dropped \cup (IdsOf(requests) \ IdsOf(requests'))  BY DEF BeginRound
<1>13. Follows(requests, requests', dropped')
  <2> SUFFICES ASSUME NEW i \in DOMAIN requests, requests[i].id \notin dropped'
               PROVE  \E j \in DOMAIN requests' :
                         /\ requests'[j].id = requests[i].id
                         /\ Unanswered(requests[i]) \/ requests'[j].reply = requests[i].reply
    BY DEF Follows
  <2>1. requests[i].id \in IdsOf(requests')  BY <1>12 DEF IdsOf
  <2>2. PICK j \in DOMAIN requests' : requests'[j].id = requests[i].id  BY <2>1 DEF IdsOf
  <2>3. j + expired = i  BY <1>7, <1>t, <2>2 DEF Good, Distinct
  <2>4. kept[j] = requests[i] /\ j \in DOMAIN kept  BY <1>2, <1>6, <2>3
  <2>5. Unanswered(requests[i]) \/ requests'[j] = requests[i]  BY <1>3, <2>4 DEF Overdue
  <2>6. QED BY <2>2, <2>5
<1>14. IdsOf(requests) \subseteq Ids
  <2>1. \A i \in DOMAIN requests : requests[i] \in Requests  BY <1>t
  <2>2. \A r \in Requests : r.id \in Ids  BY DEF Requests
  <2>3. QED BY <2>1, <2>2 DEF IdsOf
<1>15. QED BY <1>t, <1>1, <1>6, <1>11, <1>12, <1>13, <1>14 DEF Advances, Typed

\* The state of the pump while it saves.
LEMMA SavingTyped == Saving \in PumpStates /\ Saving.pc \in {"idle", "saving"}
BY IdleTyped DEF Saving, PumpStates

\* The round ends: the pump has nothing under way.
LEMMA PumpRests ==
    ASSUME RoundSound, pump'.pc \in {"idle", "saving"}, UNCHANGED <<handler, from>>
    PROVE  RoundSound'
BY DEF RoundSound

\* PumpSettle keeps the invariant.
LEMMA PumpSettleKeeps == ASSUME BInv, PumpSettle PROVE BInv'
<1> USE DEF PumpSettle, envVars
<1>t. Typed /\ RoundSound  BY DEF BInv
<1>1. Advances
  <2>1. PICK expired \in Expired : BeginRound(expired)  OBVIOUS
  <2>2. expired \in {0, 1}  BY DEF Expired
  <2>3. QED BY <2>1, <2>2, RoundBegins
<1>2. Carried
  <2>1. "pump" \notin Ids  BY NamesAssumption
  <2>2. Save("pump", requests', reports')  BY DEF Save
  <2>3. QED BY <1>1, <2>1, <2>2, SaveEither
<1>3. pump' \in PumpStates /\ RoundSound'  BY <1>t, SavingTyped, PumpRests
<1>4. QED BY <1>t, <1>1, <1>2, <1>3, Together DEF Typed

\* A batch is taken from the requests that are due.
LEMMA BatchFacts ==
    ASSUME NEW rs, NEW due
    PROVE  \A id \in BatchOf(rs, due) : \E i \in due : rs[i].id = id
BY DEF BatchOf

\* Forward keeps the invariant.
LEMMA ForwardKeeps == ASSUME BInv, Forward PROVE BInv'
<1> USE DEF Forward, envVars
<1>t. Typed /\ RoundSound  BY DEF BInv
<1>1. Advances
  <2>1. PICK expired \in Expired : BeginRound(expired)  OBVIOUS
  <2>2. expired \in {0, 1}  BY DEF Expired
  <2>3. QED BY <2>1, <2>2, RoundBegins
<1>2. Carried  BY <1>1, AdvanceCarries
<1> DEFINE batch == BatchOf(requests', Due)
<1>3. \A id \in batch : \E i \in DOMAIN requests' : requests'[i].id = id /\ requests'[i].attempts < MaxAttempts
  BY BatchFacts DEF Due
<1> HIDE DEF batch
<1>4. batch \subseteq Ids
  <2>1. \A i \in DOMAIN requests' : requests'[i] \in Requests  BY <1>1 DEF Advances
  <2>2. \A i \in DOMAIN requests' : requests'[i].id \in Ids  BY <2>1 DEF Requests
  <2>3. QED BY <1>3, <2>2
<1>5. pump' \in PumpStates /\ pump'.pc = "forward" /\ pump'.batch = batch
  BY <1>4, IdleTyped DEF PumpStates, batch
<1>6. RoundSound'
  <2>1. \A i \in DOMAIN requests' : requests'[i].id \in batch => requests'[i].attempts < MaxAttempts
    BY <1>1, <1>3 DEF Advances, Good, Distinct
  <2>2. QED BY <1>t, <1>5, <2>1 DEF RoundSound
<1>7. QED BY <1>t, <1>1, <1>2, <1>5, <1>6, Together DEF Typed

\* LookUpAll keeps the invariant.
LEMMA LookUpAllKeeps == ASSUME BInv, LookUpAll PROVE BInv'
<1> USE DEF LookUpAll, envVars
<1>t. Typed /\ RoundSound  BY DEF BInv
<1>1. Advances
  <2>1. PICK expired \in Expired : BeginRound(expired)  OBVIOUS
  <2>2. expired \in {0, 1}  BY DEF Expired
  <2>3. QED BY <2>1, <2>2, RoundBegins
<1>2. Carried  BY <1>1, AdvanceCarries
<1> DEFINE todo == {requests'[i].id : i \in {j \in DOMAIN requests' : Unanswered(requests'[j])}}
           changed == (requests' # requests)
<1>3. todo \subseteq Ids
  <2>1. \A i \in DOMAIN requests' : requests'[i] \in Requests  BY <1>1 DEF Advances
  <2>2. \A i \in DOMAIN requests' : requests'[i].id \in Ids  BY <2>1 DEF Requests
  <2>3. QED BY <2>2
<1>4. \A i \in DOMAIN requests' : requests'[i].id \in todo => Unanswered(requests'[i])
  BY <1>1 DEF Advances, Good, Distinct
<1>5. todo \subseteq IdsOf(requests')  BY DEF IdsOf
<1>6. pump' = [Idle EXCEPT !.pc = "lookup", !.changed = changed, !.todo = todo] /\ changed \in BOOLEAN
  OBVIOUS
<1> HIDE DEF todo, changed
<1>7. pump' \in PumpStates /\ pump'.pc = "lookup" /\ pump'.todo = todo
  <2> HIDE DEF LookUpAll
  <2> QED BY <1>3, <1>6, IdleTyped DEF PumpStates
<1>8. RoundSound'  BY <1>t, <1>4, <1>5, <1>7 DEF RoundSound
<1>9. QED BY <1>t, <1>1, <1>2, <1>7, <1>8, Together DEF Typed

\* Forwarded keeps the invariant.
LEMMA ForwardedKeeps == ASSUME BInv, Forwarded PROVE BInv'
<1>t. Typed /\ Good(requests) /\ requests \in Seq(Requests) /\ RoundSound
  BY DEF BInv, SnapshotsGood, Typed
<1>u. UNCHANGED <<from, message, faults, don, reports, file, broken, handler, cache, acked, dropped, chain>>
  BY DEF Forwarded, envVars
<1>1. Onward  BY <1>t, <1>u, EnvironmentStill
<1> DEFINE over(r) == [r EXCEPT !.attempts = @ + 1, !.forwarded = "waiting"]
<1>2. requests' = [i \in DOMAIN requests |-> IF requests[i].id \in pump.batch THEN over(requests[i]) ELSE requests[i]]
  BY DEF Forwarded, Change
<1>3. \A r \in Requests : /\ over(r) \in Requests /\ over(r).id = r.id /\ over(r).attempts = r.attempts + 1
                          /\ over(r).reply = r.reply /\ r.attempts \in Nat
  <2> SUFFICES ASSUME NEW r \in Requests
               PROVE  /\ over(r) \in Requests /\ over(r).id = r.id /\ over(r).attempts = r.attempts + 1
                      /\ over(r).reply = r.reply /\ r.attempts \in Nat
    OBVIOUS
  <2>1. r.attempts \in Nat  BY DEF Requests
  <2>2. PICK a \in Nat : a = r.attempts + 1  BY <2>1
  <2>3. over(r) = [r EXCEPT !.attempts = a, !.forwarded = "waiting"]  BY <2>2
  <2> HIDE DEF over
  <2>4. QED BY <2>1, <2>2, <2>3 DEF Requests
<1>4. \A i \in DOMAIN requests : requests[i] \in Requests /\ Sound(requests[i])
  <2>1. \A i \in DOMAIN requests : requests[i] \in Requests  BY <1>t
  <2>2. QED BY <1>t, <2>1 DEF Good
<1>5. from = "cre" /\ \A i \in DOMAIN requests : requests[i].id \in pump.batch => requests[i].attempts < MaxAttempts
  BY <1>t DEF RoundSound, Forwarded
<1> HIDE DEF over
<1>6. requests' \in Seq(Requests) /\ DOMAIN requests' = DOMAIN requests
  <2>1. \A i \in DOMAIN requests : requests'[i] \in Requests  BY <1>2, <1>3, <1>4
  <2>2. requests' = [i \in DOMAIN requests |-> requests'[i]]  BY <1>2
  <2>3. QED BY <1>t, <2>1, <2>2, SameLength
<1>7. ASSUME NEW r \in Requests, Sound(r), r.attempts < MaxAttempts, NEW s, s = over(r) PROVE Sound(s)'
  <2>1. s.attempts = r.attempts + 1 /\ s.id = r.id /\ s.reply = r.reply /\ r.attempts \in Nat  BY <1>3, <1>7
  <2>2. Bounded(s)'  BY <1>5, <1>7, <1>u, <2>1, BoundsAssumption DEF Bounded
  <2>3. HasEvidence(s)'  BY <1>5, <1>7, <1>u, <2>1 DEF Sound, HasEvidence, Asked
  <2>4. QED BY <2>2, <2>3 DEF Sound
<1>8. Good(requests)' /\ Follows(requests, requests', dropped')
  <2>1. ASSUME NEW i \in DOMAIN requests
        PROVE  /\ requests'[i].id = requests[i].id
               /\ requests'[i] = requests[i] \/ Sound(requests[i])'
               /\ Unanswered(requests[i]) \/ requests'[i].reply = requests[i].reply
    <3>1. \A s : \A r \in Requests : Sound(r) /\ r.attempts < MaxAttempts /\ s = over(r) => Sound(s)'  BY <1>7
    <3>2. CASE requests[i].id \in pump.batch  BY <1>2, <1>3, <1>4, <1>5, <3>1, <3>2
    <3>3. CASE requests[i].id \notin pump.batch  BY <1>2, <3>3
    <3>4. QED BY <3>2, <3>3
  <2>2. QED BY <1>t, <1>1, <1>6, <2>1, Revised
<1>9. Advances  BY <1>t, <1>u, <1>1, <1>6, <1>8 DEF Advances, Typed
<1>10. Carried
  <2>1. "pump" \notin Ids  BY NamesAssumption
  <2>2. Save("pump", requests', reports')  BY <1>u DEF Forwarded, Save
  <2>3. QED BY <1>9, <2>1, <2>2, SaveEither
<1>11. pump' \in PumpStates /\ RoundSound'  BY <1>t, <1>u, SavingTyped, PumpRests DEF Forwarded
<1>12. QED BY <1>t, <1>u, <1>9, <1>10, <1>11, Together DEF Typed

\* ForwardThrows keeps the invariant.
LEMMA ForwardThrowsKeeps == ASSUME BInv, ForwardThrows PROVE BInv'
<1> USE DEF ForwardThrows, Fault
<1>t. Typed /\ RoundSound  BY DEF BInv
<1>1. Onward  BY <1>t, EnvironmentStill
<1>2. Advances /\ Carried  BY <1>1, StandStill
<1>3. pump' \in PumpStates /\ RoundSound'  BY <1>t, IdleTyped, PumpRests
<1>4. QED BY <1>t, <1>2, <1>3, Together DEF Typed

\* LookedUp keeps the invariant.
LEMMA LookedUpKeeps == ASSUME BInv, LookedUp PROVE BInv'
<1> USE DEF LookedUp, envVars
<1>t. Typed /\ RoundSound  BY DEF BInv
<1>1. Onward  BY <1>t, EnvironmentStill
<1>2. Advances
  <2>1. Good(requests) /\ requests \in Seq(Requests)  BY <1>t DEF BInv, SnapshotsGood, Typed
  <2>2. \A rs \in Seq(Requests) : Good(rs) => Good(rs)'  BY <1>t, <1>1, GoodStays
  <2>3. Good(requests)'  BY <2>1, <2>2
  <2>4. QED BY <1>t, <1>1, <2>1, <2>3, FollowsItself DEF Advances, Typed
<1>3. Carried
  <2>1. CASE pump.changed
    <3>1. "pump" \notin Ids  BY NamesAssumption
    <3>2. Save("pump", requests', reports')  BY <2>1 DEF Save
    <3>3. QED BY <1>2, <3>1, <3>2, SaveEither
  <2>2. CASE ~pump.changed  BY <1>2, <2>2, AdvanceCarries
  <2>3. QED BY <2>1, <2>2
<1>4. pump' \in PumpStates /\ RoundSound'  BY <1>t, IdleTyped, SavingTyped, PumpRests
<1>5. QED BY <1>t, <1>2, <1>3, <1>4, Together DEF Typed

-----------------------------------------------------------------------------
(* Looking requests up at the contract.                                    *)

LookingUp == pump.pc \in {"lookup", "request"} /\ pump.todo # {}

\* The oldest request that is to be looked up is there, and has no answer.
LEMMA PendingFacts ==
    ASSUME BInv, LookingUp
    PROVE  /\ from = "contract" /\ Pending.id \in pump.todo /\ Pending.id \in Ids
           /\ \E i \in DOMAIN requests : Pending = requests[i]
<1> DEFINE ix == {i \in DOMAIN requests : requests[i].id \in pump.todo}
<1>t. Typed /\ RoundSound /\ requests \in Seq(Requests)  BY DEF BInv, Typed
<1>1. from = "contract" /\ pump.todo \subseteq IdsOf(requests)  BY <1>t DEF RoundSound, LookingUp
<1>2. ix # {}  BY <1>1 DEF LookingUp, IdsOf
<1>3. ix \in SUBSET Nat  BY <1>t
<1>4. Min(ix) \in ix
  <2> HIDE DEF ix
  <2> QED BY <1>2, <1>3, MinNat
<1>5. Pending = requests[Min(ix)]  BY DEF Pending
<1>6. requests[Min(ix)] \in Requests  BY <1>t, <1>4
<1>7. QED BY <1>1, <1>4, <1>5, <1>6 DEF Requests

\* One request that is looked up is replaced by a sound one.
Replaced(id) ==
    /\ requests' = [i \in DOMAIN requests |-> requests'[i]]
    /\ \A i \in DOMAIN requests :
          IF requests[i].id = id
          THEN requests'[i] \in Requests /\ requests'[i].id = id /\ Sound(requests[i])'
          ELSE requests'[i] = requests[i]

\* One request is replaced by its next state, the others stay.
LEMMA ReplacedAdvances ==
    ASSUME BInv, LookingUp, Onward, NEW id \in pump.todo, Replaced(id),
           UNCHANGED <<file, acked, dropped, reports>>
    PROVE  /\ Advances /\ IdsOf(requests') = IdsOf(requests)
           /\ \A i \in DOMAIN requests' : requests'[i].id \in pump.todo \ {id} => Unanswered(requests'[i])
<1>t. Typed /\ Good(requests) /\ requests \in Seq(Requests) /\ RoundSound
  BY DEF BInv, SnapshotsGood, Typed
<1>1. \A i \in DOMAIN requests : requests[i].id \in pump.todo => Unanswered(requests[i])
  BY <1>t DEF RoundSound, LookingUp
<1>2. \A i \in DOMAIN requests : requests[i] \in Requests  BY <1>t
<1>3. DOMAIN requests = 1..Len(requests) /\ Len(requests) \in Nat  BY <1>t
<1>4. DOMAIN requests' = DOMAIN requests  BY DEF Replaced
<1>5. \A i \in DOMAIN requests : requests'[i] \in Requests  BY <1>2 DEF Replaced
<1>6. requests' \in Seq(Requests)  BY <1>3, <1>5 DEF Replaced
<1>7. \A i \in DOMAIN requests : /\ requests'[i].id = requests[i].id
                                 /\ requests'[i] = requests[i] \/ Sound(requests[i])'
                                 /\ Unanswered(requests[i]) \/ requests'[i].reply = requests[i].reply
  BY <1>1 DEF Replaced
<1>8. Good(requests)' /\ Follows(requests, requests', dropped')
  BY <1>t, <1>4, <1>6, <1>7, Revised
<1>9. Advances  BY <1>t, <1>6, <1>8 DEF Advances, Typed
<1>10. IdsOf(requests') = IdsOf(requests)  BY <1>4, <1>7 DEF IdsOf
<1>11. ASSUME NEW i \in DOMAIN requests', requests'[i].id \in pump.todo \ {id} PROVE Unanswered(requests'[i])
  BY <1>1, <1>4, <1>7, <1>11 DEF Replaced
<1>12. QED BY <1>9, <1>10, <1>11

\* What the contract shows is evidence.
LEMMA FoundEvidence ==
    ASSUME Typed, from = "contract", UNCHANGED <<from, message, chain>>,
           NEW r \in Requests, Sound(r), Unanswered(r),
           NEW s, s = [r EXCEPT !.reply = Reply(Found(r), Asked(r.id), 0, {})]
    PROVE  s \in Requests /\ s.id = r.id /\ Sound(s)'
<1>1. Asked(r.id) \in Subjects  BY AskedTyped DEF Requests
<1>2. Found(r) \in {None, "receipt", "closure"}  BY DEF Found
<1> DEFINE reply == Reply(Found(r), Asked(r.id), 0, {})
<1>3. reply \in Replies /\ reply.kind = Found(r) /\ reply.subject = Asked(r.id)
  BY <1>1, <1>2, RepliesTyped DEF Reply
<1> HIDE DEF reply
<1>r. s = [r EXCEPT !.reply = reply]  BY DEF reply
<1>4. s \in Requests /\ s.id = r.id /\ s.attempts = r.attempts /\ s.since = r.since /\ s.reply = reply
  BY <1>3, <1>r DEF Requests
<1>5. Bounded(s)'  BY <1>4 DEF Sound, Bounded
<1>6. HasEvidence(s)'
  <2>1. ASSUME reply.kind \in {"receipt", "closure"}
        PROVE  IF reply.kind = "receipt" THEN reply.subject \in chain.recorded
               ELSE s.since # 0 /\ ClosedAt(reply.subject) >= s.since
    BY <1>3, <1>4, <2>1 DEF Found, None
  <2>2. Asked(s.id)' = reply.subject  BY <1>3, <1>4 DEF Asked
  <2>3. \A t : ClosedAt(t)' = ClosedAt(t)  BY DEF ClosedAt
  <2>4. QED BY <1>4, <2>1, <2>2, <2>3 DEF HasEvidence
<1>7. QED BY <1>4, <1>5, <1>6 DEF Sound

\* A request that is opened claims nothing yet.
LEMMA OpensSound ==
    ASSUME from = "contract", UNCHANGED from, NEW r \in Requests, Sound(r), Unanswered(r),
           NEW block \in Blocks, NEW s, s = Opens(r, block)
    PROVE  s \in Requests /\ s.id = r.id /\ Sound(s)'
<1>1. s \in Requests /\ s.id = r.id /\ s.attempts = r.attempts /\ s.reply = r.reply
  BY DEF Opens, Requests, Blocks
<1>2. QED BY <1>1 DEF Sound, Bounded, HasEvidence, Unanswered, None

\* What ChainFails makes of a request.
Failed(r) ==
    [r EXCEPT !.attempts = @ + 1,
              !.reply = IF r.attempts + 1 >= MaxFailures THEN Reply("chain_unavailable", Asked(r.id), 0, {}) ELSE @]

\* A request the contract could not be asked about has one attempt less, or its answer.
LEMMA FailedSound ==
    ASSUME Typed, from = "contract", UNCHANGED from, NEW r \in Requests, Sound(r), Unanswered(r),
           NEW s, s = Failed(r)
    PROVE  s \in Requests /\ s.id = r.id /\ Sound(s)'
<1>1. Asked(r.id) \in Subjects  BY AskedTyped DEF Requests
<1> DEFINE failed == Reply("chain_unavailable", Asked(r.id), 0, {})
<1>2. failed \in Replies /\ failed.kind = "chain_unavailable"  BY <1>1, RepliesTyped DEF Reply
<1> HIDE DEF failed
<1>3. /\ s \in Requests /\ s.id = r.id /\ s.attempts = r.attempts + 1 /\ r.attempts \in Nat
      /\ s.reply = IF r.attempts + 1 >= MaxFailures THEN failed ELSE r.reply
  <2>1. r.attempts \in Nat /\ r.reply \in Replies  BY DEF Requests
  <2>2. PICK a \in Nat : a = r.attempts + 1  BY <2>1
  <2>3. PICK q \in Replies : q = IF r.attempts + 1 >= MaxFailures THEN failed ELSE r.reply  BY <1>2, <2>1
  <2>4. s = [r EXCEPT !.attempts = a, !.reply = q]  BY <2>2, <2>3 DEF Failed, failed
  <2>5. QED BY <2>1, <2>2, <2>3, <2>4 DEF Requests
<1>4. r.attempts < MaxFailures /\ r.reply.kind = None  BY DEF Sound, Bounded, Unanswered
<1>5. Bounded(s)'  BY <1>2, <1>3, <1>4, BoundsAssumption DEF Bounded, Unanswered, None
<1>6. HasEvidence(s)'  BY <1>2, <1>3, <1>4 DEF HasEvidence, None
<1>7. QED BY <1>3, <1>5, <1>6 DEF Sound

\* The next request is looked up.
LEMMA SkipKeeps ==
    ASSUME BInv, LookingUp, NEW changed \in BOOLEAN, Skip(changed),
           Advances, IdsOf(requests') = IdsOf(requests),
           \A i \in DOMAIN requests' : requests'[i].id \in pump.todo \ {Pending.id} => Unanswered(requests'[i]),
           UNCHANGED <<queue, broken, handler, cache, don>>, chain' \in ChainStates,
           \A s \in DOMAIN chain'.closed : chain'.closed[s] <= chain'.closings
    PROVE  BInv'
<1>t. Typed /\ RoundSound  BY DEF BInv
<1>1. from = "contract" /\ from' = from  BY PendingFacts DEF Advances, Onward
<1>2. Carried  BY AdvanceCarries
<1>3. pump' \in PumpStates /\ pump'.pc = "lookup" /\ pump'.todo = pump.todo \ {Pending.id}
  <2>1. pump \in PumpStates  BY <1>t DEF Typed
  <2>2. PICK todo \in SUBSET Ids : todo = pump.todo \ {Pending.id}  BY <2>1 DEF PumpStates
  <2>3. pump' = [pump EXCEPT !.pc = "lookup", !.todo = todo, !.changed = changed]  BY <2>2 DEF Skip
  <2>4. QED BY <2>1, <2>2, <2>3 DEF PumpStates
<1>4. RoundSound'
  <2>1. pump.todo \subseteq IdsOf(requests)  BY <1>t DEF RoundSound, LookingUp
  <2>2. pump'.todo \subseteq IdsOf(requests')  BY <1>3, <2>1
  <2>3. \A i \in DOMAIN requests' : requests'[i].id \in pump'.todo => Unanswered(requests'[i])  BY <1>3
  <2>4. \A h \in Handlers : handler'[h].pc # "idle" => from' = "cre"  BY <1>t, <1>1 DEF RoundSound
  <2>5. QED BY <1>1, <1>3, <2>2, <2>3, <2>4 DEF RoundSound
<1>5. QED BY <1>t, <1>2, <1>3, <1>4, Together DEF Typed

\* LookUp keeps the invariant.
LEMMA LookUpKeeps == ASSUME BInv, LookUp PROVE BInv'
<1>t. Typed /\ Good(requests) /\ requests \in Seq(Requests) /\ RoundSound /\ pump \in PumpStates
  BY DEF BInv, SnapshotsGood, Typed
<1>u. UNCHANGED <<from, message, faults, don, reports, file, queue, broken, handler, cache, acked, dropped, chain>>
  BY DEF LookUp, envVars
<1>l. LookingUp /\ pump.pc = "lookup"  BY DEF LookUp, LookingUp
<1>1. Onward  BY <1>t, <1>u, EnvironmentStill
<1> DEFINE id == Pending.id
           s == Asked(id)
<1>2. from = "contract" /\ id \in pump.todo /\ id \in Ids  BY <1>l, PendingFacts
<1>3. \A i \in DOMAIN requests : requests[i].id = id =>
         requests[i] \in Requests /\ Sound(requests[i]) /\ Unanswered(requests[i])
  <2>1. \A i \in DOMAIN requests : requests[i] \in Requests  BY <1>t
  <2>2. QED BY <1>t, <1>2, <1>l, <2>1 DEF Good, RoundSound
<1>c. chain' \in ChainStates /\ \A t \in DOMAIN chain'.closed : chain'.closed[t] <= chain'.closings
  BY <1>t, <1>u DEF Typed
<1>4. CASE /\ Update(id, LAMBDA r : [r EXCEPT !.reply = Reply(Found(r), s, 0, {})]) /\ Skip(TRUE)
  <2>1. requests' = [i \in DOMAIN requests |->
                        IF requests[i].id = id
                        THEN [requests[i] EXCEPT !.reply = Reply(Found(requests[i]), s, 0, {})]
                        ELSE requests[i]]
    BY <1>4 DEF Update, Change
  <2>2. \A q : \A r \in Requests : /\ Sound(r) /\ Unanswered(r)
                               /\ q = [r EXCEPT !.reply = Reply(Found(r), Asked(r.id), 0, {})]
                               => q \in Requests /\ q.id = r.id /\ Sound(q)'
    BY <1>t, <1>u, <1>2, FoundEvidence
  <2>3. Replaced(id)
    <3>1. requests' = [i \in DOMAIN requests |-> requests'[i]]  BY <2>1
    <3>2. ASSUME NEW i \in DOMAIN requests, requests[i].id = id
          PROVE  requests'[i] \in Requests /\ requests'[i].id = id /\ Sound(requests[i])'
      BY <1>3, <2>1, <2>2, <3>2
    <3>3. QED BY <2>1, <3>1, <3>2 DEF Replaced
  <2>4. QED BY <1>u, <1>l, <1>1, <1>2, <1>4, <1>c, <2>3, ReplacedAdvances, SkipKeeps
<1>5. CASE UNCHANGED requests /\ Skip(pump.changed)
  <2>1. Advances /\ Carried  BY <1>1, <1>5, <1>u, StandStill
  <2>2. pump.changed \in BOOLEAN  BY <1>t DEF PumpStates
  <2>3. \A i \in DOMAIN requests' : requests'[i].id \in pump.todo \ {Pending.id} => Unanswered(requests'[i])
    BY <1>t, <1>l, <1>5 DEF RoundSound
  <2>4. IdsOf(requests') = IdsOf(requests)  BY <1>5
  <2>5. QED BY <1>u, <1>l, <1>5, <1>c, <2>1, <2>2, <2>3, <2>4, SkipKeeps
<1>6. CASE /\ s \in DOMAIN pump.opened
           /\ Update(id, LAMBDA r : Opens(r, pump.opened[s])) /\ Skip(TRUE)
  <2>1. requests' = [i \in DOMAIN requests |->
                        IF requests[i].id = id THEN Opens(requests[i], pump.opened[s]) ELSE requests[i]]
    BY <1>6 DEF Update, Change
  <2>2. pump.opened[s] \in Blocks
    <3>1. pump.opened \in Openings  BY <1>t DEF PumpStates
    <3>2. QED BY <1>6, <3>1 DEF Openings
  <2>3. \A q : \A r \in Requests : /\ Sound(r) /\ Unanswered(r) /\ q = Opens(r, pump.opened[s])
                               => q \in Requests /\ q.id = r.id /\ Sound(q)'
    BY <1>u, <1>2, <2>2, OpensSound
  <2>4. Replaced(id)
    <3>1. requests' = [i \in DOMAIN requests |-> requests'[i]]  BY <2>1
    <3>2. ASSUME NEW i \in DOMAIN requests, requests[i].id = id
          PROVE  requests'[i] \in Requests /\ requests'[i].id = id /\ Sound(requests[i])'
      BY <1>3, <2>1, <2>3, <3>2
    <3>3. QED BY <2>1, <3>1, <3>2 DEF Replaced
  <2>5. QED BY <1>u, <1>l, <1>1, <1>2, <1>6, <1>c, <2>4, ReplacedAdvances, SkipKeeps
<1>7. CASE pump' = [pump EXCEPT !.pc = "request"] /\ UNCHANGED requests
  <2>1. Advances /\ Carried  BY <1>1, <1>7, <1>u, StandStill
  <2>2. /\ pump' \in PumpStates /\ pump'.pc = "request" /\ pump'.todo = pump.todo
    BY <1>t, <1>7 DEF PumpStates
  <2>3. RoundSound'
    <3>1. pump.todo # {}  BY <1>l DEF LookingUp
    <3>2. QED BY <1>t, <1>u, <1>l, <1>7, <2>2, <3>1 DEF RoundSound, IdsOf, Unanswered
  <2>4. QED BY <1>t, <1>u, <2>1, <2>2, <2>3, Together DEF Typed
<1>8. QED BY <1>4, <1>5, <1>6, <1>7 DEF LookUp

\* A request that is mined opens its subject, or changes nothing.
LEMMA MinedOnward ==
    ASSUME Typed, NEW t \in Subjects, Mined(t), UNCHANGED <<from, message, don>>
    PROVE  /\ Onward /\ chain' \in ChainStates
           /\ \A s \in DOMAIN chain'.closed : chain'.closed[s] <= chain'.closings
<1>1. chain \in ChainStates /\ \A s \in DOMAIN chain.closed : chain.closed[s] <= chain.closings
  BY DEF Typed
<1>2. PICK opens \in SUBSET Subjects : chain' = [chain EXCEPT !.open = opens]
  BY <1>1 DEF Mined, ChainStates
<1>3. /\ chain' \in ChainStates /\ chain'.recorded = chain.recorded /\ chain'.closed = chain.closed
      /\ chain'.closings = chain.closings
  BY <1>1, <1>2 DEF ChainStates
<1>4. \A s \in Subjects : ClosedAt(s)' = ClosedAt(s) /\ ClosedAt(s) \in Nat
  BY <1>3, ClosedAtTyped DEF ClosedAt
<1>5. don \in Nat  BY SignersAssumption DEF Typed
<1>6. QED BY <1>1, <1>3, <1>4, <1>5 DEF Onward

\* OpenRequest keeps the invariant.
LEMMA OpenRequestKeeps == ASSUME BInv, OpenRequest PROVE BInv'
<1>t. Typed /\ Good(requests) /\ requests \in Seq(Requests) /\ RoundSound /\ pump \in PumpStates
  BY DEF BInv, SnapshotsGood, Typed
<1>u. UNCHANGED <<from, message, faults, don, reports, file, queue, broken, handler, cache, acked, dropped>>
  BY DEF OpenRequest, envVars
<1>l. LookingUp /\ pump.pc = "request"  BY <1>t DEF OpenRequest, LookingUp, RoundSound
<1> DEFINE id == Pending.id
           s == Asked(id)
<1>2. from = "contract" /\ id \in pump.todo /\ id \in Ids /\ s \in Subjects  BY <1>t, <1>l, PendingFacts, AskedTyped
<1>1. /\ Onward /\ chain' \in ChainStates
      /\ \A t \in DOMAIN chain'.closed : chain'.closed[t] <= chain'.closings
  <2>1. Mined(s)  BY DEF OpenRequest
  <2>2. QED BY <1>t, <1>u, <1>2, <2>1, MinedOnward
<1>3. \A i \in DOMAIN requests : requests[i].id = id =>
         requests[i] \in Requests /\ Sound(requests[i]) /\ Unanswered(requests[i])
  <2>1. \A i \in DOMAIN requests : requests[i] \in Requests  BY <1>t
  <2>2. QED BY <1>t, <1>2, <1>l, <2>1 DEF Good, RoundSound
<1>4. Block \in Blocks
  <2>1. chain.closings \in 0..MaxClosings  BY <1>t DEF Typed, ChainStates
  <2>2. QED BY <2>1, BoundsAssumption DEF Block, Blocks
<1>5. requests' = [i \in DOMAIN requests |-> IF requests[i].id = id THEN Opens(requests[i], Block) ELSE requests[i]]
  BY DEF OpenRequest, Update, Change
<1>6. Replaced(id)
  <2>1. \A q : \A r \in Requests : /\ Sound(r) /\ Unanswered(r) /\ q = Opens(r, Block)
                               => q \in Requests /\ q.id = r.id /\ Sound(q)'
    BY <1>u, <1>2, <1>4, OpensSound
  <2>2. requests' = [i \in DOMAIN requests |-> requests'[i]]  BY <1>5
  <2>3. ASSUME NEW i \in DOMAIN requests, requests[i].id = id
        PROVE  requests'[i] \in Requests /\ requests'[i].id = id /\ Sound(requests[i])'
    BY <1>3, <1>5, <2>1, <2>3
  <2>4. QED BY <1>5, <2>2, <2>3 DEF Replaced
<1>7. /\ Advances /\ IdsOf(requests') = IdsOf(requests)
      /\ \A i \in DOMAIN requests' : requests'[i].id \in pump.todo \ {id} => Unanswered(requests'[i])
  BY <1>u, <1>l, <1>1, <1>2, <1>6, ReplacedAdvances
<1>8. Carried  BY <1>7, <1>u, AdvanceCarries
<1> DEFINE opens == [t \in DOMAIN pump.opened \cup {s} |-> IF t = s THEN Block ELSE pump.opened[t]]
<1>9. opens \in Openings
  <2>1. PICK S \in SUBSET Subjects : pump.opened \in [S -> Blocks]  BY <1>t DEF PumpStates, Openings
  <2>2. opens \in [S \cup {s} -> Blocks] /\ S \cup {s} \in SUBSET Subjects  BY <1>2, <1>4, <2>1
  <2>3. QED BY <2>2 DEF Openings
<1>10. pump' = [pump EXCEPT !.pc = "lookup", !.todo = pump.todo \ {id}, !.changed = TRUE, !.opened = opens]
  BY DEF OpenRequest
<1> HIDE DEF opens
<1>11. pump' \in PumpStates /\ pump'.pc = "lookup" /\ pump'.todo = pump.todo \ {id}
  <2>1. PICK todo \in SUBSET Ids : todo = pump.todo \ {id}  BY <1>t DEF PumpStates
  <2>2. pump' = [pump EXCEPT !.pc = "lookup", !.todo = todo, !.changed = TRUE, !.opened = opens]  BY <1>10, <2>1
  <2>3. QED BY <1>t, <1>9, <2>1, <2>2 DEF PumpStates
<1>12. RoundSound'
  <2>1. pump.todo \subseteq IdsOf(requests)  BY <1>t, <1>l DEF RoundSound
  <2>2. \A h \in Handlers : handler'[h].pc # "idle" => from' = "cre"  BY <1>t, <1>u DEF RoundSound
  <2>3. QED BY <1>u, <1>2, <1>7, <1>11, <2>1, <2>2 DEF RoundSound
<1>13. QED BY <1>t, <1>u, <1>1, <1>7, <1>8, <1>11, <1>12, Together DEF Typed

\* ChainFails keeps the invariant.
LEMMA ChainFailsKeeps == ASSUME BInv, ChainFails PROVE BInv'
<1>t. Typed /\ Good(requests) /\ requests \in Seq(Requests) /\ RoundSound /\ pump \in PumpStates
  BY DEF BInv, SnapshotsGood, Typed
<1>u. UNCHANGED <<from, message, don, reports, file, queue, broken, handler, cache, acked, dropped>>
  BY DEF ChainFails
<1>l. LookingUp  BY DEF ChainFails, LookingUp
<1> DEFINE id == Pending.id
<1>2. from = "contract" /\ id \in pump.todo /\ id \in Ids /\ Asked(id) \in Subjects
  BY <1>t, <1>l, PendingFacts, AskedTyped
<1>1. /\ Onward /\ chain' \in ChainStates
      /\ \A t \in DOMAIN chain'.closed : chain'.closed[t] <= chain'.closings
  <2>1. CASE chain' = chain
    <3>1. Onward  BY <1>t, <1>u, <2>1, EnvironmentStill
    <3>2. QED BY <1>t, <2>1, <3>1 DEF Typed
  <2>2. CASE Mined(Asked(id))  BY <1>t, <1>u, <1>2, <2>2, MinedOnward
  <2>3. QED BY <2>1, <2>2 DEF ChainFails
<1>3. \A i \in DOMAIN requests : requests[i].id = id =>
         requests[i] \in Requests /\ Sound(requests[i]) /\ Unanswered(requests[i])
  <2>1. \A i \in DOMAIN requests : requests[i] \in Requests  BY <1>t
  <2>2. QED BY <1>t, <1>2, <1>l, <2>1 DEF Good, RoundSound, LookingUp
<1>5. requests' = [i \in DOMAIN requests |-> IF requests[i].id = id THEN Failed(requests[i]) ELSE requests[i]]
  BY DEF ChainFails, Update, Change, Failed
<1>6. Replaced(id)
  <2>1. \A q : \A r \in Requests : /\ Sound(r) /\ Unanswered(r) /\ q = Failed(r)
                               => q \in Requests /\ q.id = r.id /\ Sound(q)'
    BY <1>t, <1>u, <1>2, FailedSound
  <2>2. requests' = [i \in DOMAIN requests |-> requests'[i]]  BY <1>5
  <2>3. ASSUME NEW i \in DOMAIN requests, requests[i].id = id
        PROVE  requests'[i] \in Requests /\ requests'[i].id = id /\ Sound(requests[i])'
    BY <1>3, <1>5, <2>1, <2>3
  <2>4. QED BY <1>5, <2>2, <2>3 DEF Replaced
<1>7. /\ Advances /\ IdsOf(requests') = IdsOf(requests)
      /\ \A i \in DOMAIN requests' : requests'[i].id \in pump.todo \ {id} => Unanswered(requests'[i])
  BY <1>u, <1>l, <1>1, <1>2, <1>6, ReplacedAdvances
<1>8. Skip(TRUE)  BY DEF ChainFails
<1>9. QED BY <1>u, <1>l, <1>1, <1>7, <1>8, SkipKeeps

-----------------------------------------------------------------------------
(* Time, the DON and the relay.                                            *)

\* Elapse keeps the invariant.
LEMMA ElapseKeeps == ASSUME BInv, Elapse PROVE BInv'
<1>t. Typed /\ Good(requests) /\ requests \in Seq(Requests) /\ RoundSound
  BY DEF BInv, SnapshotsGood, Typed
<1>u. UNCHANGED <<from, message, faults, don, reports, file, queue, broken, pump, handler, cache, acked, dropped, chain>>
  BY DEF Elapse, envVars
<1>1. Onward  BY <1>t, <1>u, EnvironmentStill
<1>2. PICK k \in DOMAIN requests : requests' = [requests EXCEPT ![k].forwarded = "due"]
  BY DEF Elapse
<1> DEFINE over(r) == [r EXCEPT !.forwarded = "due"]
<1>3. requests' = [i \in DOMAIN requests |-> IF i = k THEN over(requests[i]) ELSE requests[i]]
  BY <1>2
<1>4. \A r \in Requests : /\ over(r) \in Requests /\ over(r).id = r.id /\ over(r).attempts = r.attempts
                          /\ over(r).reply = r.reply /\ over(r).since = r.since
  BY DEF Requests
<1>5. \A i \in DOMAIN requests : requests[i] \in Requests /\ Sound(requests[i])
  <2>1. \A i \in DOMAIN requests : requests[i] \in Requests  BY <1>t
  <2>2. QED BY <1>t, <2>1 DEF Good
<1> HIDE DEF over
<1>6. requests' \in Seq(Requests) /\ DOMAIN requests' = DOMAIN requests
  <2>1. \A i \in DOMAIN requests : requests'[i] \in Requests  BY <1>3, <1>4, <1>5
  <2>2. requests' = [i \in DOMAIN requests |-> requests'[i]]  BY <1>3
  <2>3. QED BY <1>t, <2>1, <2>2, SameLength
<1>7. ASSUME NEW r \in Requests, Sound(r), NEW s, s = over(r) PROVE Sound(s)'
  <2>1. s.attempts = r.attempts /\ s.id = r.id /\ s.reply = r.reply /\ s.since = r.since  BY <1>4, <1>7
  <2>2. Sound(r)'  BY <1>t, <1>1, <1>7, SoundStays
  <2>3. QED BY <2>1, <2>2 DEF Sound, Bounded, HasEvidence, Unanswered
<1>8. \A i \in DOMAIN requests : /\ requests'[i].id = requests[i].id /\ requests'[i].attempts = requests[i].attempts
                                 /\ requests'[i].reply = requests[i].reply
  BY <1>3, <1>4, <1>5
<1>9. Good(requests)' /\ Follows(requests, requests', dropped')
  <2>1. ASSUME NEW i \in DOMAIN requests
        PROVE  requests'[i] = requests[i] \/ Sound(requests[i])'
    <3>1. \A s : \A r \in Requests : Sound(r) /\ s = over(r) => Sound(s)'  BY <1>7
    <3>2. CASE i = k  BY <1>3, <1>5, <3>1, <3>2
    <3>3. CASE i # k  BY <1>3, <3>3
    <3>4. QED BY <3>2, <3>3
  <2>2. QED BY <1>t, <1>1, <1>6, <1>8, <2>1, Revised
<1>10. Advances  BY <1>t, <1>u, <1>1, <1>6, <1>9 DEF Advances, Typed
<1>11. Carried  BY <1>10, <1>u, AdvanceCarries
<1>12. RoundSound'
  <2>1. IdsOf(requests') = IdsOf(requests)  BY <1>6, <1>8 DEF IdsOf
  <2>2. \A i \in DOMAIN requests : Unanswered(requests[i]) => Unanswered(requests'[i])
    BY <1>8 DEF Unanswered
  <2>3. QED BY <1>t, <1>u, <1>6, <1>8, <2>1, <2>2 DEF RoundSound
<1>13. QED BY <1>t, <1>u, <1>10, <1>11, <1>12, Together DEF Typed

\* Rotate keeps the invariant.
LEMMA RotateKeeps == ASSUME BInv, Rotate PROVE BInv'
<1> USE DEF Rotate
<1>t. Typed /\ RoundSound  BY DEF BInv
<1>1. Onward
  <2>1. \A s \in Subjects : ClosedAt(s)' = ClosedAt(s) /\ ClosedAt(s) \in Nat
    BY <1>t, ClosedAtTyped DEF ClosedAt
  <2>2. don \in Nat /\ don' = don + 1  BY <1>t, SignersAssumption DEF Typed
  <2>3. QED BY <2>1, <2>2 DEF Onward
<1>2. Advances /\ Carried  BY <1>1, StandStill
<1>3. don' \in 1..Len(Signers) /\ cache' \in 0..don'  BY <1>t, SignersAssumption DEF Typed
<1>4. RoundSound'  BY <1>t DEF RoundSound, IdsOf, Unanswered
<1>5. QED BY <1>t, <1>2, <1>3, <1>4, Together DEF Typed

\* Relay keeps the invariant.
LEMMA RelayKeeps == ASSUME BInv, Relay PROVE BInv'
<1> USE DEF Relay, envVars
<1>t. Typed /\ RoundSound  BY DEF BInv
<1>c. chain \in ChainStates /\ \A t \in DOMAIN chain.closed : chain.closed[t] <= chain.closings
  BY <1>t DEF Typed
<1>d. don \in Nat  BY <1>t, SignersAssumption DEF Typed
<1>1. /\ Onward /\ chain' \in ChainStates
      /\ \A t \in DOMAIN chain'.closed : chain'.closed[t] <= chain'.closings
  <2>1. ASSUME NEW s \in chain.open,
               chain' = [chain EXCEPT !.open = @ \ {s}, !.recorded = @ \cup {s}]
        PROVE  /\ Onward /\ chain' \in ChainStates
               /\ \A t \in DOMAIN chain'.closed : chain'.closed[t] <= chain'.closings
    <3>1. PICK opens \in SUBSET Subjects, records \in SUBSET Subjects :
             opens = chain.open \ {s} /\ records = chain.recorded \cup {s}
      BY <1>c DEF ChainStates
    <3>2. chain' = [chain EXCEPT !.open = opens, !.recorded = records]  BY <2>1, <3>1
    <3>3. /\ chain' \in ChainStates /\ chain'.recorded = records /\ chain'.closed = chain.closed
          /\ chain'.closings = chain.closings
      BY <1>c, <3>2 DEF ChainStates
    <3>4. \A t \in Subjects : ClosedAt(t)' = ClosedAt(t) /\ ClosedAt(t) \in Nat
      BY <1>t, <3>3, ClosedAtTyped DEF ClosedAt
    <3>5. QED BY <1>c, <1>d, <3>1, <3>3, <3>4 DEF Onward
  <2>2. ASSUME NEW s \in chain.open, chain.closings < MaxClosings,
               chain' = [chain EXCEPT !.open = @ \ {s}, !.closings = @ + 1,
                            !.closed = [t \in DOMAIN @ \cup {s} |-> IF t = s THEN Block ELSE @[t]]]
        PROVE  /\ Onward /\ chain' \in ChainStates
               /\ \A t \in DOMAIN chain'.closed : chain'.closed[t] <= chain'.closings
    <3> DEFINE closed == [t \in DOMAIN chain.closed \cup {s} |-> IF t = s THEN Block ELSE chain.closed[t]]
    <3>0. chain.closings \in 0..MaxClosings /\ MaxClosings \in Nat  BY <1>c, BoundsAssumption DEF ChainStates
    <3>a. PICK opens \in SUBSET Subjects : opens = chain.open \ {s}  BY <1>c DEF ChainStates
    <3>b. PICK closings \in 0..MaxClosings : closings = chain.closings + 1  BY <2>2, <3>0
    <3>1. opens = chain.open \ {s} /\ closings = chain.closings + 1  BY <3>a, <3>b
    <3>2. closed \in Openings /\ \A t \in DOMAIN chain.closed : chain.closed[t] \in Blocks
      <4>1. PICK S \in SUBSET Subjects : chain.closed \in [S -> Blocks]  BY <1>c DEF ChainStates, Openings
      <4>2. Block \in Blocks /\ s \in Subjects
        BY <1>c, <3>0 DEF ChainStates, Block, Blocks
      <4>3. closed \in [S \cup {s} -> Blocks] /\ S \cup {s} \in SUBSET Subjects  BY <4>1, <4>2
      <4>4. QED BY <4>1, <4>3 DEF Openings
    <3>3. chain' = [chain EXCEPT !.open = opens, !.closings = closings, !.closed = closed]  BY <2>2, <3>1
    <3>c. /\ DOMAIN closed = DOMAIN chain.closed \cup {s} /\ closed[s] = Block
          /\ \A t \in DOMAIN chain.closed : t # s => closed[t] = chain.closed[t]
      OBVIOUS
    <3> HIDE DEF closed
    <3>4. /\ chain' \in ChainStates /\ chain'.recorded = chain.recorded /\ chain'.closed = closed
          /\ chain'.closings = closings
      BY <1>c, <3>1, <3>2, <3>3 DEF ChainStates
    <3>5. Block = closings /\ closings \in Nat /\ chain.closings <= closings  BY <3>0, <3>1 DEF Block
    <3>6. \A t \in DOMAIN chain.closed : chain.closed[t] \in Nat /\ chain.closed[t] <= closings
      BY <1>c, <3>0, <3>2, <3>5 DEF Blocks
    <3>7. \A t \in DOMAIN closed : closed[t] <= closings  BY <3>c, <3>5, <3>6
    <3>8. ASSUME NEW t \in Subjects
          PROVE  ClosedAt(t) \in Nat /\ ClosedAt(t)' \in Nat /\ ClosedAt(t) <= ClosedAt(t)'
      <4>1. ClosedAt(t)' = IF t \in DOMAIN closed THEN closed[t] ELSE 0  BY <3>4 DEF ClosedAt
      <4>2. ClosedAt(t) = IF t \in DOMAIN chain.closed THEN chain.closed[t] ELSE 0  BY DEF ClosedAt
      <4>3. QED BY <3>c, <3>5, <3>6, <4>1, <4>2
    <3>9. QED BY <1>c, <1>d, <3>4, <3>7, <3>8 DEF Onward
  <2>3. QED BY <2>1, <2>2
<1>2. Advances /\ Carried  BY <1>1, StandStill
<1>3. RoundSound'  BY <1>t DEF RoundSound, IdsOf, Unanswered
<1>4. QED BY <1>t, <1>1, <1>2, <1>3, Together DEF Typed

-----------------------------------------------------------------------------
(* The invariant.                                                          *)

\* The invariant holds at the beginning.
LEMMA InitInv == Init => BInv
<1> SUFFICES ASSUME Init PROVE BInv
  OBVIOUS
<1> USE DEF Init
<1>1. file \in Snapshots  BY DEF Snapshots
<1>2. chain \in ChainStates /\ DOMAIN chain.closed = {}
  <2>1. <<>> \in [{} -> Blocks]  OBVIOUS
  <2>2. <<>> \in Openings  BY <2>1 DEF Openings
  <2>3. QED BY <2>2, BoundsAssumption DEF ChainStates
<1>3. Typed
  <2>1. don \in 1..Len(Signers) /\ cache \in 0..don  BY SignersAssumption
  <2>2. Len(reports) <= MaxReports  BY BoundsAssumption
  <2>3. \E scenario \in Scenarios : from = scenario.from /\ message = scenario.message  OBVIOUS
  <2>a. \A S : <<>> \in Seq(S)  OBVIOUS
  <2>b. requests = <<>> /\ reports = <<>> /\ queue = <<>>  OBVIOUS
  <2>c. broken \in BOOLEAN /\ acked \subseteq Ids /\ dropped \subseteq Ids  OBVIOUS
  <2>4. /\ requests \in Seq(Requests) /\ reports \in Seq({Digest(r) : r \in Submissions})
        /\ queue \in Seq(Saves)
    BY <2>a, <2>b
  <2>5. pump \in PumpStates /\ handler \in [Handlers -> HandlerStates]  BY IdleTyped
  <2>6. \A s \in DOMAIN chain.closed : chain.closed[s] <= chain.closings  BY <1>2
  <2> HIDE DEF Init
  <2>7. QED BY <1>1, <1>2, <2>1, <2>2, <2>3, <2>4, <2>5, <2>6, <2>c DEF Typed
<1>4. SnapshotsGood  BY BoundsAssumption DEF SnapshotsGood, Good, Distinct
<1>5. Succession /\ Acknowledged  BY DEF Succession, Follows, Acknowledged
<1>6. RoundSound  BY IdleTyped DEF RoundSound
<1>7. QED BY <1>3, <1>4, <1>5, <1>6 DEF BInv

\* Every step keeps the invariant.
LEMMA NextInv == BInv /\ [Next]_vars => BInv'
<1> SUFFICES ASSUME BInv, [Next]_vars PROVE BInv'
  OBVIOUS
<1>1. ASSUME NEW id \in Ids, Delivery(id) PROVE BInv'  BY <1>1, DeliveryKeeps
<1>2. CASE Write \/ WriteFails \/ Restart  BY <1>2, WriteKeeps, WriteFailsKeeps, RestartKeeps
<1>3. CASE PumpStep
  BY <1>3, PumpSettleKeeps, ForwardKeeps, ForwardedKeeps, ForwardThrowsKeeps, LookUpAllKeeps,
     LookUpKeeps, OpenRequestKeeps, ChainFailsKeeps, LookedUpKeeps DEF PumpStep
<1>4. ASSUME NEW h \in Handlers, BeginReport(h) \/ SignersUnavailable(h) \/ Reject(h) \/ Accept(h)
      PROVE  BInv'
  BY <1>4, BeginReportKeeps, SignersUnavailableKeeps, RejectKeeps, AcceptKeeps
<1>5. CASE Elapse \/ Rotate \/ Relay  BY <1>5, ElapseKeeps, RotateKeeps, RelayKeeps
<1>6. CASE UNCHANGED vars
  <2>1. Typed /\ RoundSound /\ UNCHANGED <<requests, reports, file, queue, acked, dropped>>
           /\ UNCHANGED <<from, message, don, chain, broken, pump, handler, cache>>
    BY <1>6 DEF BInv, vars
  <2>2. Advances /\ Carried  BY <2>1, EnvironmentStill, StandStill
  <2>3. RoundSound'  BY <2>1 DEF RoundSound, IdsOf, Unanswered
  <2>4. QED BY <2>1, <2>2, <2>3, Together DEF Typed
<1>7. QED BY <1>1, <1>2, <1>3, <1>4, <1>5, <1>6 DEF Next

\* It holds in every reachable state.
LEMMA SpecInv == Spec => []BInv
BY InitInv, NextInv, PTL DEF Spec

-----------------------------------------------------------------------------
(* The theorems.                                                           *)

\* Requests that differ in their ids are as many as their ids.
LEMMA DistinctCount ==
    ASSUME NEW rs \in Seq(Requests), Distinct(rs)
    PROVE  Cardinality(IdsOf(rs)) = Len(rs)
<1>1. DOMAIN rs = 1..Len(rs) /\ Len(rs) \in Nat  OBVIOUS
<1> DEFINE f == [i \in 1..Len(rs) |-> rs[i].id]
<1>2. f \in Bijection(1..Len(rs), IdsOf(rs))
  <2>1. f \in [1..Len(rs) -> IdsOf(rs)]  BY <1>1 DEF IdsOf
  <2>2. \A i, j \in 1..Len(rs) : f[i] = f[j] => i = j  BY <1>1 DEF Distinct
  <2>3. \A t \in IdsOf(rs) : \E i \in 1..Len(rs) : f[i] = t  BY <1>1 DEF IdsOf
  <2>4. QED BY <2>1, <2>2, <2>3 DEF Bijection, Injection, Surjection, IsInjective
<1>3. ExistsBijection(1..Len(rs), IdsOf(rs))  BY <1>2 DEF ExistsBijection
<1>4. QED BY <1>1, <1>3, FS_CountingElements

\* It has the types in it.
LEMMA InvTypes == BInv => TypeOK
<1> SUFFICES ASSUME BInv PROVE TypeOK
  OBVIOUS
<1>1. Typed /\ Good(requests) /\ requests \in Seq(Requests)  BY DEF BInv, SnapshotsGood, Typed
<1>2. [requests |-> requests, reports |-> reports] \in Snapshots
  BY <1>1 DEF Snapshots, Typed, Digest
<1>3. Cardinality(IdsOf(requests)) = Len(requests)  BY <1>1, DistinctCount DEF Good
<1>4. \A i \in DOMAIN requests : requests[i].attempts <= (IF from = "cre" THEN MaxAttempts ELSE MaxFailures)
  BY <1>1 DEF Good, Sound, Bounded
<1>5. queue \in Seq([by : Ids \cup Handlers \cup {"pump"}, state : Snapshots])  BY <1>1 DEF Typed, Saves
<1>6. chain.open \cup chain.recorded \subseteq Subjects /\ chain.closed \in Openings /\ chain.closings \in 0..MaxClosings
  BY <1>1 DEF Typed, ChainStates
<1>7. /\ pump \in [pc : {"idle", "forward", "lookup", "request", "saving"}, batch : SUBSET Ids,
                   todo : SUBSET Ids, changed : BOOLEAN, opened : Openings]
      /\ handler \in [Handlers -> [pc : {"idle", "signers", "refresh", "saving"}, report : Submissions]]
  BY <1>1 DEF Typed, PumpStates, HandlerStates
<1>8. /\ file \in Snapshots /\ acked \subseteq Ids /\ dropped \subseteq Ids /\ Len(reports) <= MaxReports
      /\ don \in 1..Len(Signers) /\ cache \in 0..don
  BY <1>1 DEF Typed
<1>9. QED BY <1>2, <1>3, <1>4, <1>5, <1>6, <1>7, <1>8 DEF TypeOK

\* Types, at most one request of each id, and attempts within their bounds:
\* the pump's rounds, the handlers and the restarts keep them together.
THEOREM TypeCorrect == Spec => []TypeOK
BY SpecInv, InvTypes, PTL

\* Whatever a poll is answered with a receipt or a closure rests on evidence
\* about the subject that was asked (handleResult, pumpContract, loadState).
THEOREM AnswersEvident == Spec => []AnswersHaveEvidence
<1>1. BInv => AnswersHaveEvidence
  BY DEF BInv, SnapshotsGood, Good, Sound, AnswersHaveEvidence
<1>2. QED BY SpecInv, <1>1, PTL

\* A delivery that was acknowledged is known to every later poll until its
\* retention ends (handleDelivery, the writer of state.ts, loadState).
THEOREM PollsRemembered == Spec => []PollsSurviveRestart
<1>1. BInv => PollsSurviveRestart
  <2> SUFFICES ASSUME BInv, NEW id \in acked \ dropped PROVE Polled(id) # "404"
    BY DEF PollsSurviveRestart
  <2>1. id \in IdsOf(requests)
    BY FollowsIds DEF BInv, Acknowledged, Succession
  <2>2. requests \in Seq(Requests)  BY DEF BInv, Typed
  <2>3. PICK i \in DOMAIN requests : requests[i].id = id  BY <2>1 DEF IdsOf
  <2> DEFINE r == CHOOSE r \in Range(requests) : r.id = id
  <2>4. requests[i] \in Range(requests)  BY DEF Range
  <2>5. r \in Range(requests)  BY <2>3, <2>4
  <2>6. r \in Requests
    <3>1. \A q \in Range(requests) : q \in Requests  BY <2>2 DEF Range
    <3>2. QED BY <2>5, <3>1
  <2>7. r.reply.kind # "404"
    <3> HIDE DEF r
    <3> QED BY <2>6 DEF Requests, Replies, None
  <2>8. Polled(id) = IF Unanswered(r) THEN "202" ELSE r.reply.kind  BY <2>1 DEF Polled
  <2> HIDE DEF r
  <2>9. QED BY <2>7, <2>8
<1>2. QED BY SpecInv, <1>1, PTL

\* Only the writer writes the file.
LEMMA FileMoves == [Next]_vars => file' = file \/ Write
<1> USE DEF envVars
<1> SUFFICES ASSUME [Next]_vars PROVE file' = file \/ Write
  OBVIOUS
<1>1. CASE UNCHANGED vars  BY <1>1 DEF vars
<1>2. ASSUME NEW id \in Ids, Delivery(id) PROVE file' = file  BY <1>2 DEF Delivery
<1>3. CASE WriteFails \/ Restart  BY <1>3 DEF WriteFails, Restart
<1>4. CASE PumpStep
  BY <1>4 DEF PumpStep, PumpSettle, Forward, Forwarded, ForwardThrows, LookUpAll, LookUp,
     OpenRequest, ChainFails, LookedUp
<1>5. ASSUME NEW h \in Handlers, BeginReport(h) \/ SignersUnavailable(h) \/ Reject(h) \/ Accept(h)
      PROVE  file' = file
  BY <1>5 DEF BeginReport, SignersUnavailable, Reject, Accept
<1>6. CASE Elapse \/ Rotate \/ Relay  BY <1>6 DEF Elapse, Rotate, Relay
<1>7. QED BY <1>1, <1>2, <1>3, <1>4, <1>5, <1>6 DEF Next

\* A reply that is in the file is never replaced: neither by a later snapshot
\* nor by one that waited in the queue while it was written.
THEOREM RepliesFinal == Spec => SavedReplyIsFinal
<1>1. BInv /\ [Next]_vars => SavedRepliesStay
  <2> SUFFICES ASSUME BInv, [Next]_vars PROVE SavedRepliesStay
    OBVIOUS
  <2>1. CASE file' = file  BY <2>1 DEF SavedRepliesStay
  <2>2. CASE Write
    <3>1. queue \in Seq(Saves) /\ queue # <<>>  BY <2>2 DEF BInv, Typed, Write
    <3>2. 1 \in DOMAIN queue /\ file' = queue[1].state /\ dropped' = dropped
      BY <2>2, <3>1 DEF Write
    <3>3. Follows(file.requests, file'.requests, dropped')  BY <3>2 DEF BInv, Succession
    <3>4. QED BY <3>3 DEF Follows, Unanswered, SavedRepliesStay
  <2>3. QED BY <2>1, <2>2, FileMoves
<1>2. QED BY SpecInv, <1>1, PTL DEF Spec, SavedReplyIsFinal
=============================================================================
