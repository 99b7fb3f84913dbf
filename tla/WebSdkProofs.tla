----------------------------- MODULE WebSdkProofs -----------------------------
(***************************************************************************)
(* Proofs about the Web SDK and its server, for every value of their       *)
(* constants: the handle of a transfer, the calls of the control plane     *)
(* and their tokens, the broker's event streams, a broadcast, the life of  *)
(* a Beam Web Token, a room, and the web agent.  Each part is a            *)
(* specification of its own with its own inductive invariant.              *)
(***************************************************************************)
EXTENDS WebTransferHandle, Integers, FiniteSetTheorems, TLAPS

-----------------------------------------------------------------------------
(* The handle of a transfer.                                               *)

\* The types of the handle's state, of what the server keeps, and of the histories.
Typed ==
    /\ TypeOK
    /\ outcome \in {"completed", "failed"} /\ frame \in [1 .. Last -> Frames]
    /\ resumes \in BOOLEAN /\ sequence \in Nat
    /\ yielded \in 0 .. Last /\ emitted \in 0 .. Last /\ handled \in Seq(1 .. Last)

\* The stream knows how far it has come with a server that resumes, and what a poll is
\* answered is a version.
Resuming ==
    /\ loop \in {"connecting", "reading", "waiting"} => attempt < MaxAttempts
    /\ poll = "asked" => asked # 0
    /\ resumes => /\ lastId = Len(handled) /\ lastId <= Last
                  /\ loop = "reading" => next = lastId + 1

\* The broker sends nothing older than it has sent.
Ahead ==
    ~resumes => \A i \in 1 .. Len(handled) :
                   handled[i] <= server /\ (loop = "reading" => handled[i] <= next)

\* What was heard last is what the consumer has or gets last.
Hearing ==
    /\ waiter => buffer = <<>>
    /\ buffer = <<>> /\ emitted # 0 => yielded = emitted
    /\ buffer # <<>> => buffer[Len(buffer)] = emitted
    /\ done /\ emitted # 0 /\ frame[Last] = "transfer" => emitted = Last

\* A closed handle has no connection ahead of it; it polls only without one.
Closing ==
    /\ silent \/ done => closed
    /\ closed => loop \notin {"connecting", "waiting"} /\ (aborted \/ loop = "none")
    /\ poll # "none" => loop = "gaveUp"

\* What every step of the handle keeps.
HandleInv == Typed /\ Resuming /\ Ahead /\ EventsInOrder /\ Hearing /\ Closing /\ StatusIsSaid

-----------------------------------------------------------------------------
\* The constants are numbers.
LEMMA Bounds ==
    /\ Last \in Nat \ {0} /\ MaxAttempts \in Nat \ {0} /\ MaxBuffer \in Nat \ {0}
    /\ 0 .. Last \subseteq Nat /\ 1 .. Last \subseteq 0 .. Last
BY HandleAssumption

\* What is first in a sequence, and what comes after it.
LEMMA HeadAndTail ==
    ASSUME NEW S, NEW s \in Seq(S), s # <<>>
    PROVE  /\ Head(s) \in S /\ Head(s) = s[1]
           /\ Tail(s) \in Seq(S) /\ Len(Tail(s)) = Len(s) - 1 /\ Len(s) >= 1
           /\ \A i \in 1 .. Len(s) - 1 : Tail(s)[i] = s[i + 1]
OBVIOUS

\* A value that is pushed is the last one, in the buffer or with the consumer.
LEMMA PushFacts ==
    ASSUME Typed, Hearing, NEW version \in 1 .. Last
    PROVE  /\ Push(version).buffer \in Seq(1 .. Last)
           /\ Len(Push(version).buffer) <= MaxBuffer
           /\ Push(version).waiter = FALSE
           /\ Push(version).yielded \in 0 .. Last
           /\ Push(version).buffer = <<>> => Push(version).yielded = version
           /\ Push(version).buffer # <<>> =>
                 Push(version).buffer[Len(Push(version).buffer)] = version
<1>1. CASE waiter
  BY <1>1, Bounds DEF Push, Typed, TypeOK, Hearing
<1>2. CASE ~waiter
  <2> DEFINE rest == IF Len(buffer) >= MaxBuffer THEN Tail(buffer) ELSE buffer
  <2>1. buffer \in Seq(1 .. Last) /\ Len(buffer) \in Nat /\ Len(buffer) <= MaxBuffer
    BY DEF Typed, TypeOK
  <2>2. rest \in Seq(1 .. Last) /\ Len(rest) < MaxBuffer
    <3>1. CASE Len(buffer) >= MaxBuffer
      <4>1. buffer # <<>>  BY <2>1, <3>1, Bounds
      <4>2. QED BY <2>1, <3>1, <4>1, Bounds
    <3>2. CASE ~(Len(buffer) >= MaxBuffer)  BY <2>1, <3>2, Bounds
    <3>3. QED BY <3>1, <3>2
  <2>3. Push(version) = [buffer |-> Append(rest, version), waiter |-> FALSE,
                         yielded |-> yielded]
    BY <1>2 DEF Push
  <2> HIDE DEF rest
  <2>4. /\ Append(rest, version) \in Seq(1 .. Last)
        /\ Len(Append(rest, version)) = Len(rest) + 1
        /\ Append(rest, version)[Len(rest) + 1] = version
        /\ Len(rest) \in Nat
    BY <2>2
  <2>5. QED BY <2>2, <2>3, <2>4, Bounds DEF Typed
<1>3. QED BY <1>1, <1>2 DEF Typed, TypeOK

\* Applying a version: the types of the handle and of the iterator, what was heard
\* last, that a closed handle stays as it is, and that a status that is new is said.
LEMMA ApplyFacts ==
    ASSUME HandleInv, NEW version \in 0 .. Last, NEW current \in 0 .. Last,
           current \in {transfer, version}, Apply(version, current), silent' = silent,
           frame' = frame, outcome' = outcome
    PROVE  /\ transfer' \in 0 .. Last /\ closed' \in BOOLEAN /\ aborted' \in BOOLEAN
           /\ settled' \in {"pending", "completed", "failed"}
           /\ buffer' \in Seq(1 .. Last) /\ Len(buffer') <= MaxBuffer
           /\ waiter' \in BOOLEAN /\ done' \in BOOLEAN
           /\ yielded' \in 0 .. Last /\ emitted' \in 0 .. Last
           /\ Hearing' /\ StatusIsSaid'
           /\ (silent' \/ done' => closed') /\ (closed' => aborted' \/ loop = "none")
           /\ (closed => closed' /\ settled' = settled)
<1> USE DEF HandleInv
<1> DEFINE heard == HasProgress(version) /\ ~silent /\ ~done
<1>1. /\ transfer' = version
      /\ emitted' = IF heard THEN version ELSE emitted
      /\ buffer' = IF heard THEN Push(version).buffer ELSE buffer
      /\ yielded' = IF heard THEN Push(version).yielded ELSE yielded
      /\ done' = (done \/ (Terminal(version) /\ ~closed))
      /\ waiter' = IF done' THEN FALSE
                   ELSE IF heard THEN Push(version).waiter ELSE waiter
  BY DEF Apply
<1>2. /\ settled' = IF Terminal(version) /\ ~closed THEN outcome ELSE settled
      /\ closed' = (closed \/ (Terminal(version) /\ ~closed))
      /\ aborted' = (aborted \/ (Terminal(version) /\ ~closed))
  BY DEF Apply, Settle
<1>3. closed \in BOOLEAN /\ aborted \in BOOLEAN /\ silent \in BOOLEAN /\ done \in BOOLEAN
      /\ waiter \in BOOLEAN /\ closed' \in BOOLEAN /\ aborted' \in BOOLEAN
      /\ done' \in BOOLEAN
  BY <1>1, <1>2 DEF Typed, TypeOK
<1>h. heard => version \in 1 .. Last /\ ~silent /\ ~done  BY Bounds DEF HasProgress, Blank
<1>i. ~heard => \/ silent \/ done \/ ~HasProgress(version)  OBVIOUS
<1>k. version = Last /\ frame[Last] = "transfer" => HasProgress(version)
  BY Bounds DEF HasProgress, Blank
<1> HIDE DEF heard
<1>4. /\ buffer' \in Seq(1 .. Last) /\ Len(buffer') <= MaxBuffer
      /\ yielded' \in 0 .. Last /\ emitted' \in 0 .. Last /\ waiter' \in BOOLEAN
  <2>1. CASE heard  BY <1>1, <1>3, <1>h, <2>1, PushFacts, Bounds DEF Typed, TypeOK
  <2>2. CASE ~heard  BY <1>1, <1>3, <2>2 DEF Typed, TypeOK
  <2>3. QED BY <2>1, <2>2
<1>5. settled' \in {"pending", "completed", "failed"}
  BY <1>2 DEF Typed, TypeOK
<1>6. (silent' \/ done' => closed') /\ (closed' => aborted' \/ loop = "none")
      /\ (closed => closed' /\ settled' = settled)
  BY <1>1, <1>2, <1>3 DEF Closing
<1>7. Hearing'
  <2>1. CASE heard
    <3>1. emitted' = version /\ buffer' = Push(version).buffer
          /\ yielded' = Push(version).yielded /\ waiter' = FALSE
      BY <1>1, <1>h, <2>1, PushFacts
    <3>2. done' => version = Last
      BY <1>1, <1>h, <2>1 DEF Terminal
    <3>3. QED BY <1>h, <2>1, <3>1, <3>2, PushFacts DEF Hearing
  <2>2. CASE ~heard
    <3>1. emitted' = emitted /\ buffer' = buffer /\ yielded' = yielded
      BY <1>1, <2>2
    <3>2. (waiter' => waiter)  BY <1>1, <1>3, <2>2
    <3>3. done' /\ frame[Last] = "transfer" => done
      <4>1. SUFFICES ASSUME done', ~done, frame[Last] = "transfer" PROVE FALSE  OBVIOUS
      <4>2. version = Last /\ ~closed  BY <1>1, <4>1 DEF Terminal
      <4>3. ~silent  BY <1>3, <4>2 DEF Closing
      <4>4. QED BY <1>i, <1>k, <2>2, <4>1, <4>2, <4>3
    <3>4. QED BY <3>1, <3>2, <3>3 DEF Hearing
  <2>3. QED BY <2>1, <2>2
<1>8. StatusIsSaid'
  <2>1. \A v : Status(v)' = Status(v)  BY DEF Status
  <2>2. /\ said' = IF Status(version) # Status(current) /\ ~silent THEN Status(version) ELSE said
        /\ refreshed' = IF Status(version) # Status(current) THEN FALSE
                        ELSE refreshed \/ Status(current) # Status(transfer)
    BY DEF Apply
  <2>3. Status(transfer)' = Status(version)  BY <1>1 DEF Status
  <2>4. said = Status(transfer) \/ silent \/ refreshed  BY DEF StatusIsSaid
  <2>5. said' = Status(version) \/ silent \/ refreshed'
    <3>1. CASE Status(version) # Status(current)  BY <2>2, <3>1
    <3>2. CASE Status(version) = Status(current)  BY <2>2, <2>4, <3>2
    <3>3. QED BY <3>1, <3>2
  <2>6. QED BY <2>3, <2>5 DEF StatusIsSaid
<1>9. QED BY <1>1, <1>3, <1>4, <1>5, <1>6, <1>7, <1>8

\* What is said stays so while neither the handle's transfer nor its listeners change.
LEMMA SaidStays ==
    ASSUME HandleInv, UNCHANGED <<transfer, said, refreshed, outcome>>, silent => silent'
    PROVE  StatusIsSaid'
BY DEF HandleInv, StatusIsSaid, Status

-----------------------------------------------------------------------------
\* Where the loop goes when a connection has ended.
LEMMA EndedFacts ==
    ASSUME HandleInv, attempt < MaxAttempts, loop \in {"connecting", "reading"}, NEW error
    PROVE  /\ EndedConnection(error) \in {"waiting", "gaveUp", "ended"}
           /\ attempt + 1 \in 0 .. MaxAttempts
           /\ EndedConnection(error) = "waiting" => attempt + 1 < MaxAttempts /\ ~closed
           /\ Fallback(EndedConnection(error)) =>
                 /\ poll' \in {"none", "asleep"}
                 /\ poll' # "none" => EndedConnection(error) = "gaveUp"
<1>1. attempt \in 0 .. MaxAttempts /\ closed \in BOOLEAN /\ aborted \in BOOLEAN
      /\ poll = "none" /\ (closed => aborted)
  BY DEF HandleInv, Typed, TypeOK, Closing
<1>2. EndedConnection(error) \in {"waiting", "gaveUp", "ended"}
  BY DEF EndedConnection
<1>3. attempt + 1 \in 0 .. MaxAttempts  BY <1>1, Bounds
<1>4. EndedConnection(error) = "waiting" => attempt + 1 < MaxAttempts /\ ~aborted
  <2>1. CASE attempt + 1 >= MaxAttempts  BY <2>1 DEF EndedConnection
  <2>2. CASE ~(attempt + 1 >= MaxAttempts)
    BY <1>1, <2>2, Bounds DEF EndedConnection
  <2>3. QED BY <2>1, <2>2
<1>5. QED BY <1>1, <1>2, <1>3, <1>4 DEF Fallback

\* A handle is made from a transfer that runs, or from one that has ended.
LEMMA HandleInvInit == Init => HandleInv
<1> SUFFICES ASSUME Init PROVE HandleInv  OBVIOUS
<1>1. /\ server \in 1 .. Last /\ transfer = server /\ attempt = 0 /\ lastId = 0 /\ next = 0
      /\ sequence = 0 /\ handled = <<>> /\ buffer = <<>> /\ emitted = 0 /\ yielded = 0
  BY Bounds DEF Init
<1>2. Typed
  <2>1. /\ closed \in BOOLEAN /\ silent \in BOOLEAN /\ aborted \in BOOLEAN
        /\ done \in BOOLEAN /\ waiter \in BOOLEAN
    BY DEF Init, Terminal
  <2>2. buffer \in Seq(1 .. Last) /\ Len(buffer) <= MaxBuffer /\ handled \in Seq(1 .. Last)
    BY <1>1, Bounds
  <2>3. frame \in [1 .. Last -> Frames]
    <3>1. resumes \in BOOLEAN /\ frame \in [1 .. Last -> IF resumes THEN Frames
                                                   ELSE {"transfer", "bare"}]
      BY DEF Init
    <3>2. CASE resumes  BY <3>1, <3>2
    <3>3. CASE ~resumes  BY <3>1, <3>3 DEF Frames
    <3>4. QED BY <3>2, <3>3
  <2>4. QED BY <1>1, <2>1, <2>2, <2>3, Bounds DEF Init, Typed, TypeOK
<1>3. Resuming
  <2>1. Len(handled) = 0  BY <1>1
  <2>2. loop # "reading" /\ poll = "none"  BY DEF Init
  <2>3. QED BY <1>1, <2>1, <2>2, Bounds DEF Resuming
<1>4. EventsInOrder /\ Ahead
  <2>1. Len(handled) = 0  BY <1>1
  <2>2. QED BY <2>1 DEF EventsInOrder, Ahead
<1>5. Hearing  BY <1>1 DEF Init, Hearing
<1>6. Closing  BY DEF Init, Closing, Terminal
<1>7. StatusIsSaid  BY <1>1 DEF Init, StatusIsSaid
<1>8. QED BY <1>2, <1>3, <1>4, <1>5, <1>6, <1>7 DEF HandleInv

\* One step of the stream.
LEMMA ConnectKeeps == HandleInv /\ Connect => HandleInv'
<1> SUFFICES ASSUME HandleInv, Connect PROVE HandleInv'  OBVIOUS
<1> USE DEF HandleInv, Connect, handleVars, pollVars, iterVars, envVars, serverVars
<1>1. next' \in 0 .. Last + 1 /\ (resumes => next' = lastId + 1) /\ (~resumes => next' = server)
  <2>1. CASE resumes  BY <2>1, Bounds DEF Typed, TypeOK, Resuming
  <2>2. CASE ~resumes  BY <2>2, Bounds DEF Typed, TypeOK
  <2>3. QED BY <2>1, <2>2
<1>2. Typed'  BY <1>1, Bounds DEF Typed, TypeOK
<1>3. Resuming'  BY <1>1, Bounds DEF Resuming
<1>4. EventsInOrder' /\ Ahead'  BY <1>1 DEF EventsInOrder, Ahead
<1>5. Hearing'  BY DEF Hearing
<1>6. Closing'  BY DEF Closing
<1>7. StatusIsSaid'  BY SaidStays
<1>8. QED BY <1>2, <1>3, <1>4, <1>5, <1>6, <1>7

\* The stream cannot be opened: Reconnector.run waits, or gives up and polls begin.
LEMMA ConnectFailsKeeps ==
    ASSUME HandleInv, NEW retryable \in BOOLEAN, ConnectFails(retryable)
    PROVE  HandleInv'
<1> USE DEF HandleInv, ConnectFails, handleVars, iterVars, serverVars
<1> DEFINE state == IF retryable THEN EndedConnection(TRUE) ELSE "gaveUp"
<1>1. loop = "connecting" /\ loop' = state /\ Fallback(state) /\ attempt' = attempt + 1
      /\ attempt < MaxAttempts /\ poll = "none"
  BY DEF Resuming, Closing
<1>2. /\ loop' \in {"waiting", "gaveUp", "ended"} /\ attempt' \in 0 .. MaxAttempts
      /\ poll' \in {"none", "asleep"} /\ (poll' # "none" => loop' = "gaveUp")
      /\ loop' = "waiting" => attempt' < MaxAttempts /\ ~closed
  BY <1>1, EndedFacts DEF Fallback
<1> HIDE DEF state
<1>3. Typed'  BY <1>2 DEF Typed, TypeOK
<1>4. Resuming'  BY <1>2 DEF Resuming
<1>5. EventsInOrder' /\ Ahead'  BY <1>2 DEF EventsInOrder, Ahead
<1>6. Hearing'  BY DEF Hearing
<1>7. Closing'  BY <1>2 DEF Closing
<1>8. StatusIsSaid'  BY SaidStays
<1>9. QED BY <1>3, <1>4, <1>5, <1>6, <1>7, <1>8

\* The connection ends, with an error or without.
LEMMA DropKeeps ==
    ASSUME HandleInv, NEW error \in BOOLEAN, Drop(error)
    PROVE  HandleInv'
<1> USE DEF HandleInv, Drop, handleVars, iterVars, serverVars
<1>1. loop = "reading" /\ loop' = EndedConnection(error) /\ attempt' = attempt + 1
      /\ Fallback(EndedConnection(error)) /\ attempt < MaxAttempts
  BY DEF Resuming
<1>2. /\ loop' \in {"waiting", "gaveUp", "ended"} /\ attempt' \in 0 .. MaxAttempts
      /\ poll' \in {"none", "asleep"} /\ (poll' # "none" => loop' = "gaveUp")
      /\ loop' = "waiting" => attempt' < MaxAttempts /\ ~closed
  BY <1>1, EndedFacts
<1>3. Typed'  BY <1>2 DEF Typed, TypeOK
<1>4. Resuming'  BY <1>2 DEF Resuming
<1>5. EventsInOrder' /\ Ahead'  BY <1>2 DEF EventsInOrder, Ahead
<1>6. Hearing'  BY DEF Hearing
<1>7. Closing'  BY <1>2 DEF Closing
<1>8. StatusIsSaid'  BY SaidStays
<1>9. QED BY <1>3, <1>4, <1>5, <1>6, <1>7, <1>8

\* What the handler is given is one event more: of a server that resumes the one after the
\* last, whatever became of that, of the broker none older.
LEMMA ReadInOrder ==
    ASSUME HandleInv, NEW version \in 1 .. Last, Read(version)
    PROVE  /\ version <= server /\ handled' \in Seq(1 .. Last) /\ lastId' \in Nat
           /\ resumes => /\ version = lastId + 1 /\ lastId' = version
                         /\ lastId' = Len(handled')
           /\ EventsInOrder' /\ (~resumes => \A i \in 1 .. Len(handled') : handled'[i] <= version)
<1>1. /\ loop = "reading" /\ version \in next .. server /\ (resumes => version = next)
      /\ sequence' = sequence + 1 /\ lastId' = (IF resumes THEN version ELSE sequence')
      /\ handled' = Append(handled, version) /\ resumes' = resumes
  BY DEF Read, Sends, Records, envVars, serverVars
<1>2. /\ handled \in Seq(1 .. Last) /\ next \in 0 .. Last + 1 /\ server \in 1 .. Last
      /\ lastId \in Nat /\ sequence \in Nat /\ resumes \in BOOLEAN
  BY DEF HandleInv, Typed, TypeOK
<1>3. /\ Len(handled) \in Nat /\ Len(handled') = Len(handled) + 1 /\ handled' \in Seq(1 .. Last)
      /\ \A i \in 1 .. Len(handled) : handled'[i] = handled[i]
      /\ handled'[Len(handled) + 1] = version
  BY <1>1, <1>2
<1>4. \A i \in 1 .. Len(handled') : i \in 1 .. Len(handled) \/ i = Len(handled) + 1  BY <1>3
<1>v. version <= server /\ next <= version /\ version \in Nat  BY <1>1, <1>2, Bounds
<1>5. CASE resumes
  <2>1. lastId = Len(handled) /\ next = lastId + 1  BY <1>1, <1>5 DEF HandleInv, Resuming
  <2>2. version = lastId + 1 /\ lastId' = version  BY <1>1, <1>5, <2>1
  <2>3. \A i \in 1 .. Len(handled) : handled[i] = i  BY <1>5 DEF HandleInv, EventsInOrder
  <2>4. \A i \in 1 .. Len(handled') : handled'[i] = i  BY <1>3, <1>4, <2>1, <2>2, <2>3
  <2>5. EventsInOrder'  BY <1>1, <1>5, <2>4 DEF EventsInOrder
  <2>6. lastId' = Len(handled')  BY <1>3, <2>1, <2>2
  <2>7. QED BY <1>3, <1>5, <1>v, <2>2, <2>5, <2>6
<1>6. CASE ~resumes
  <2>1. \A i \in 1 .. Len(handled) : handled[i] <= next
    BY <1>1, <1>6 DEF HandleInv, Ahead
  <2>2. \A i \in 1 .. Len(handled) : handled[i] \in Nat  BY <1>2, Bounds
  <2>3. \A i \in 1 .. Len(handled) : handled[i] <= version  BY <1>2, <1>v, <2>1, <2>2
  <2>4. \A i \in 1 .. Len(handled') : handled'[i] <= version  BY <1>3, <1>4, <1>v, <2>3
  <2>5. ASSUME NEW i \in 1 .. Len(handled'), NEW j \in 1 .. Len(handled'), i < j
        PROVE  handled'[i] <= handled'[j]
    <3>1. CASE j = Len(handled) + 1  BY <1>3, <2>4, <3>1
    <3>2. CASE j \in 1 .. Len(handled)
      <4>1. i \in 1 .. Len(handled)  BY <1>3, <1>4, <2>5, <3>2
      <4>2. handled[i] <= handled[j]
        BY <1>6, <2>5, <3>2, <4>1 DEF HandleInv, EventsInOrder
      <4>3. QED BY <1>3, <3>2, <4>1, <4>2
    <3>3. QED BY <1>4, <3>1, <3>2
  <2>6. EventsInOrder'  BY <1>1, <1>6, <2>5 DEF EventsInOrder
  <2>7. lastId' \in Nat  BY <1>1, <1>2, <1>6
  <2>8. QED BY <1>3, <1>6, <1>v, <2>4, <2>6, <2>7
<1>7. QED BY <1>2, <1>5, <1>6

\* The event that is read is recorded and handled, whatever becomes of it.
LEMMA ReadKeeps ==
    ASSUME HandleInv, NEW version \in 1 .. Last, Read(version)
    PROVE  HandleInv'
<1>1. /\ loop = "reading" /\ silent' = silent /\ sequence' = sequence + 1
      /\ server' = server /\ outcome' = outcome /\ frame' = frame /\ resumes' = resumes
      /\ asked' = asked /\ refreshing' = refreshing /\ UNCHANGED <<server, outcome, frame>>
  BY DEF Read, envVars, serverVars
<1>2. /\ attempt < MaxAttempts /\ poll = "none" /\ version <= server
      /\ version \in 0 .. Last /\ server \in 1 .. Last /\ transfer \in 0 .. Last
      /\ sequence \in Nat /\ resumes \in BOOLEAN /\ frame \in [1 .. Last -> Frames]
  BY <1>1, ReadInOrder, Bounds DEF HandleInv, Resuming, Closing, Typed, TypeOK
<1>3. /\ handled' \in Seq(1 .. Last) /\ lastId' \in Nat /\ EventsInOrder'
      /\ resumes => lastId' = Len(handled') /\ lastId' = version /\ version = lastId + 1
      /\ ~resumes => \A i \in 1 .. Len(handled') : handled'[i] <= version
  BY ReadInOrder
<1>4. /\ transfer' \in 0 .. Last /\ closed' \in BOOLEAN /\ aborted' \in BOOLEAN
      /\ settled' \in {"pending", "completed", "failed"}
      /\ buffer' \in Seq(1 .. Last) /\ Len(buffer') <= MaxBuffer
      /\ waiter' \in BOOLEAN /\ done' \in BOOLEAN
      /\ yielded' \in 0 .. Last /\ emitted' \in 0 .. Last
      /\ Hearing' /\ StatusIsSaid' /\ (silent' \/ done' => closed') /\ (closed' => aborted')
      /\ frame[version] \notin {"transfer", "bare"} => closed' = closed
  <2>1. CASE frame[version] \in {"transfer", "bare"}
    <3>1. Apply(version, transfer)  BY <2>1 DEF Read
    <3>2. QED BY <1>1, <1>2, <2>1, <3>1, ApplyFacts
  <2>2. CASE frame[version] \notin {"transfer", "bare"}
    <3>1. UNCHANGED <<transfer, settled, closed, said, refreshed, aborted, iterVars>>
      BY <2>2 DEF Read
    <3>2. StatusIsSaid'  BY <1>1, <3>1, SaidStays
    <3>3. Hearing'  BY <1>1, <3>1 DEF HandleInv, Hearing, iterVars
    <3>4. closed => aborted  BY <1>1 DEF HandleInv, Closing
    <3>5. QED BY <1>1, <3>1, <3>2, <3>3, <3>4 DEF HandleInv, Typed, TypeOK, Closing, iterVars
  <2>3. QED BY <2>1, <2>2
<1>5. /\ loop' \in {"reading", "waiting", "gaveUp", "ended"} /\ attempt' \in 0 .. MaxAttempts
      /\ next' \in 0 .. Last + 1 /\ poll' \in {"none", "asleep"}
      /\ loop' \in {"reading", "waiting"} => attempt' < MaxAttempts
      /\ loop' = "reading" => next' = version + 1
      /\ loop' = "waiting" => ~closed'
      /\ poll' # "none" => loop' = "gaveUp"
  <2>1. CASE frame[version] = "poison"
    <3>1. /\ loop' = EndedConnection(TRUE) /\ attempt' = attempt + 1
          /\ Fallback(EndedConnection(TRUE)) /\ next' = next
      BY <2>1 DEF Read
    <3>2. closed' = closed  BY <1>4, <2>1
    <3>3. next' \in 0 .. Last + 1  BY <3>1 DEF HandleInv, Typed, TypeOK
    <3>4. QED BY <1>1, <1>2, <3>1, <3>2, <3>3, EndedFacts
  <2>2. CASE frame[version] # "poison"
    <3>1. next' = version + 1 /\ loop' = loop /\ attempt' = attempt /\ poll' = poll
      BY <2>2 DEF Read
    <3>2. attempt \in 0 .. MaxAttempts  BY DEF HandleInv, Typed, TypeOK
    <3>3. QED BY <1>1, <1>2, <3>1, <3>2, Bounds
  <2>3. QED BY <2>1, <2>2
<1>6. Typed'
  <2>1. /\ silent \in BOOLEAN /\ asked \in 0 .. Last /\ refreshing \in 0 .. Last
        /\ outcome \in {"completed", "failed"}
    BY DEF HandleInv, Typed, TypeOK
  <2>2. sequence' \in Nat  BY <1>1, <1>2
  <2>3. TypeOK'  BY <1>1, <1>2, <1>3, <1>4, <1>5, <2>1 DEF TypeOK
  <2>4. QED BY <1>1, <1>2, <1>3, <1>4, <2>1, <2>2, <2>3 DEF Typed
<1>7. Resuming'
  <2>1. version \in Nat /\ version <= Last  BY Bounds
  <2>2. poll' # "asked" /\ loop' # "connecting"  BY <1>5
  <2>3. resumes' => /\ lastId' = Len(handled') /\ lastId' <= Last
                    /\ loop' = "reading" => next' = lastId' + 1
    BY <1>1, <1>3, <1>5, <2>1
  <2>4. QED BY <1>5, <2>2, <2>3 DEF Resuming
<1>8. Ahead'
  <2>1. \A i \in 1 .. Len(handled') : handled'[i] \in Nat  BY <1>3, Bounds
  <2>2. \A i \in 1 .. Len(handled') : handled'[i] <= version =>
            handled'[i] <= server /\ handled'[i] <= version + 1
    BY <1>2, <2>1, Bounds
  <2>3. QED BY <1>1, <1>3, <1>5, <2>2 DEF Ahead
<1>9. Closing'  BY <1>4, <1>5 DEF Closing
<1>10. QED BY <1>3, <1>4, <1>6, <1>7, <1>8, <1>9 DEF HandleInv

\* The broker's error event is applied like a record.
LEMMA ReadErrorKeeps == HandleInv /\ ReadError => HandleInv'
<1> SUFFICES ASSUME HandleInv, ReadError PROVE HandleInv'  OBVIOUS
<1>1. /\ loop = "reading" /\ ~resumes /\ Apply(Blank, transfer) /\ next' = Last + 1
      /\ UNCHANGED <<server, outcome, frame, resumes, loop, attempt, lastId, sequence, poll,
                     asked, refreshing, silent, handled>>
  BY DEF ReadError, serverVars
<1>2. Blank \in 0 .. Last /\ transfer \in 0 .. Last
  BY Bounds DEF Blank, HandleInv, Typed, TypeOK
<1>3. /\ transfer' \in 0 .. Last /\ closed' \in BOOLEAN /\ aborted' \in BOOLEAN
      /\ settled' \in {"pending", "completed", "failed"}
      /\ buffer' \in Seq(1 .. Last) /\ Len(buffer') <= MaxBuffer
      /\ waiter' \in BOOLEAN /\ done' \in BOOLEAN
      /\ yielded' \in 0 .. Last /\ emitted' \in 0 .. Last
      /\ Hearing' /\ StatusIsSaid' /\ (silent' \/ done' => closed')
      /\ (closed' => aborted' \/ loop = "none")
  BY <1>1, <1>2, ApplyFacts
<1>4. Typed'  BY <1>1, <1>3, Bounds DEF HandleInv, Typed, TypeOK
<1>5. Resuming'  BY <1>1 DEF HandleInv, Resuming
<1>6. EventsInOrder'  BY <1>1 DEF HandleInv, EventsInOrder
<1>7. Ahead'
  <2>1. \A i \in 1 .. Len(handled) : handled[i] \in Nat /\ handled[i] <= Last
    BY Bounds DEF HandleInv, Typed
  <2>2. \A i \in 1 .. Len(handled) : handled[i] <= Last + 1  BY <2>1, Bounds
  <2>3. QED BY <1>1, <2>2 DEF HandleInv, Ahead
<1>8. Closing'  BY <1>1, <1>3 DEF HandleInv, Closing
<1>9. QED BY <1>3, <1>4, <1>5, <1>6, <1>7, <1>8 DEF HandleInv

\* Steps that touch neither the events nor what was heard or said.
LEMMA QuietKeeps ==
    ASSUME HandleInv, Typed', Resuming', Closing', StatusIsSaid',
           UNCHANGED <<iterVars, handled, resumes, frame, next>>, server \in Nat,
           loop' = "reading" => loop = "reading",
           server' = server \/ (server' \in Nat /\ server <= server')
    PROVE  HandleInv'
<1>1. Hearing'  BY DEF HandleInv, Hearing, iterVars
<1>2. EventsInOrder'  BY DEF HandleInv, EventsInOrder
<1>3. Ahead'
  <2>1. \A i \in 1 .. Len(handled) : handled[i] \in Nat  BY Bounds DEF HandleInv, Typed
  <2>2. \A i \in 1 .. Len(handled) : handled[i] <= server => handled[i] <= server'  BY <2>1
  <2>3. QED BY <2>2 DEF HandleInv, Ahead
<1>4. QED BY <1>1, <1>2, <1>3 DEF HandleInv

\* close() of the handle.
LEMMA CloseKeeps == HandleInv /\ Close => HandleInv'
<1> SUFFICES ASSUME HandleInv, Close PROVE HandleInv'  OBVIOUS
<1> USE DEF Close, pollVars, iterVars, envVars, serverVars
<1>1. Typed'  BY DEF HandleInv, Typed, TypeOK
<1>2. Resuming'  BY DEF HandleInv, Resuming
<1>3. Closing'  BY DEF HandleInv, Closing, Typed, TypeOK
<1>4. StatusIsSaid'  BY SaidStays
<1>5. server \in Nat  BY Bounds DEF HandleInv, Typed, TypeOK
<1>6. QED BY <1>1, <1>2, <1>3, <1>4, <1>5, QuietKeeps

\* The delay before a reconnection has passed.
LEMMA WakeKeeps == HandleInv /\ Wake => HandleInv'
<1> SUFFICES ASSUME HandleInv, Wake PROVE HandleInv'  OBVIOUS
<1> USE DEF Wake, handleVars, pollVars, iterVars, envVars, serverVars
<1>1. Typed'  BY DEF HandleInv, Typed, TypeOK
<1>2. Resuming'  BY DEF HandleInv, Resuming
<1>3. Closing'  BY DEF HandleInv, Closing
<1>4. StatusIsSaid'  BY SaidStays
<1>5. server \in Nat  BY Bounds DEF HandleInv, Typed, TypeOK
<1>6. QED BY <1>1, <1>2, <1>3, <1>4, <1>5, QuietKeeps

\* The control plane goes on to the next version.
LEMMA AdvanceKeeps == HandleInv /\ Advance => HandleInv'
<1> SUFFICES ASSUME HandleInv, Advance PROVE HandleInv'  OBVIOUS
<1> USE DEF Advance, streamVars, handleVars, pollVars, iterVars, serverVars
<1>1. server' \in 1 .. Last /\ server \in Nat /\ server' \in Nat /\ server <= server'
  BY Bounds DEF HandleInv, Typed, TypeOK
<1>2. Typed'  BY <1>1 DEF HandleInv, Typed, TypeOK
<1>3. Resuming'  BY DEF HandleInv, Resuming
<1>4. Closing'  BY DEF HandleInv, Closing
<1>5. StatusIsSaid'  BY SaidStays
<1>6. QED BY <1>1, <1>2, <1>3, <1>4, <1>5, QuietKeeps

\* The consumer takes the oldest value, which is the newest when it is the only one.
LEMMA ConsumerNextKeeps == HandleInv /\ ConsumerNext => HandleInv'
<1> SUFFICES ASSUME HandleInv, ConsumerNext PROVE HandleInv'  OBVIOUS
<1> USE DEF ConsumerNext, streamVars, handleVars, pollVars, envVars, serverVars
<1>s. StatusIsSaid'  BY SaidStays
<1>a. EventsInOrder' /\ Ahead'  BY DEF HandleInv, EventsInOrder, Ahead
<1>1. buffer \in Seq(1 .. Last) /\ Len(buffer) \in Nat /\ Len(buffer) <= MaxBuffer
      /\ yielded \in 0 .. Last /\ waiter \in BOOLEAN
  BY DEF HandleInv, Typed, TypeOK
<1>2. CASE buffer = <<>>
  <2>1. waiter' = TRUE /\ yielded' = yielded /\ buffer' = buffer  BY <1>2
  <2>2. Typed'  BY <2>1 DEF HandleInv, Typed, TypeOK
  <2>3. Resuming'  BY DEF HandleInv, Resuming
  <2>4. Hearing'  BY <1>2, <2>1 DEF HandleInv, Hearing
  <2>5. Closing'  BY DEF HandleInv, Closing
  <2>6. QED BY <1>a, <1>s, <2>2, <2>3, <2>4, <2>5 DEF HandleInv
<1>3. CASE buffer # <<>>
  <2>1. yielded' = Head(buffer) /\ buffer' = Tail(buffer) /\ waiter' = waiter  BY <1>3
  <2>2. /\ Head(buffer) \in 1 .. Last /\ Head(buffer) = buffer[1]
        /\ Tail(buffer) \in Seq(1 .. Last) /\ Len(Tail(buffer)) = Len(buffer) - 1
        /\ Len(buffer) >= 1
        /\ \A i \in 1 .. Len(buffer) - 1 : Tail(buffer)[i] = buffer[i + 1]
    BY <1>1, <1>3, HeadAndTail
  <2>3. Len(buffer') <= MaxBuffer  BY <1>1, <2>1, <2>2, Bounds
  <2>4. yielded' \in 0 .. Last  BY <2>1, <2>2, Bounds
  <2>5. Typed'  BY <2>1, <2>2, <2>3, <2>4 DEF HandleInv, Typed, TypeOK
  <2>6. Hearing'
    <3>1. buffer[Len(buffer)] = emitted /\ ~waiter  BY <1>3 DEF HandleInv, Hearing
    <3>2. CASE Len(buffer) = 1
      <4>0. Len(Tail(buffer)) = 0 /\ Tail(buffer) = <<>>  BY <2>2, <3>2
      <4>1. buffer' = <<>> /\ yielded' = emitted  BY <2>1, <2>2, <3>1, <3>2, <4>0
      <4>2. QED BY <2>1, <3>1, <4>1 DEF HandleInv, Hearing
    <3>3. CASE Len(buffer) # 1
      <4>1. /\ Len(buffer) - 1 \in 1 .. Len(buffer) - 1
            /\ Len(buffer') = Len(buffer) - 1 /\ (Len(buffer) - 1) + 1 = Len(buffer)
        BY <1>1, <2>1, <2>2, <3>3
      <4>2. buffer' # <<>> /\ buffer'[Len(buffer')] = emitted
        <5> HIDE DEF ConsumerNext
        <5>1. buffer' = Tail(buffer) /\ Len(buffer') \in 1 .. Len(buffer) - 1
          BY <2>1, <4>1
        <5>2. Tail(buffer)[Len(buffer) - 1] = buffer[Len(buffer)]  BY <2>2, <4>1
        <5>3. buffer' # <<>>
          <6>0. Len(buffer) \in Nat  BY <1>1
          <6>1. Len(buffer') # 0  BY <5>1, <6>0
          <6>2. \A s : Len(s) # 0 => s # <<>>  OBVIOUS
          <6>3. QED BY <6>1, <6>2
        <5>4. QED BY <3>1, <4>1, <5>1, <5>2, <5>3
      <4>3. QED BY <2>1, <3>1, <4>2 DEF HandleInv, Hearing
    <3>4. QED BY <3>2, <3>3
  <2>7. Resuming'  BY DEF HandleInv, Resuming
  <2>8. Closing'  BY DEF HandleInv, Closing
  <2>9. QED BY <1>a, <1>s, <2>5, <2>6, <2>7, <2>8 DEF HandleInv
<1>4. QED BY <1>2, <1>3

\* Polls and refreshes.
LEMMA PollAskKeeps == HandleInv /\ PollAsk => HandleInv'
<1> SUFFICES ASSUME HandleInv, PollAsk PROVE HandleInv'  OBVIOUS
<1> USE DEF PollAsk, streamVars, handleVars, iterVars, envVars, serverVars
<1>1. /\ poll' \in {"none", "asked"} /\ asked' \in 0 .. Last /\ (poll' = "asked" => asked' # 0)
      /\ server \in Nat
  BY Bounds DEF HandleInv, Typed, TypeOK
<1>2. Typed'  BY <1>1 DEF HandleInv, Typed, TypeOK
<1>3. Resuming'  BY <1>1 DEF HandleInv, Resuming
<1>4. Closing'  BY DEF HandleInv, Closing
<1>5. StatusIsSaid'  BY SaidStays
<1>6. QED BY <1>1, <1>2, <1>3, <1>4, <1>5, QuietKeeps

\* The answer to a poll is applied.
LEMMA PollReplyKeeps == HandleInv /\ PollReply => HandleInv'
<1> SUFFICES ASSUME HandleInv, PollReply PROVE HandleInv'  OBVIOUS
<1>1. /\ poll = "asked" /\ Apply(asked, asked) /\ poll' \in {"none", "asleep"}
      /\ UNCHANGED <<server, outcome, frame, resumes, loop, attempt, lastId, sequence, next,
                     asked, refreshing, silent, handled>>
  BY DEF PollReply, envVars, serverVars
<1>2. asked \in 0 .. Last  BY <1>1, Bounds DEF HandleInv, Typed, TypeOK
<1>3. loop = "gaveUp"  BY <1>1 DEF HandleInv, Closing
<1>4. /\ transfer' \in 0 .. Last /\ closed' \in BOOLEAN /\ aborted' \in BOOLEAN
      /\ settled' \in {"pending", "completed", "failed"}
      /\ buffer' \in Seq(1 .. Last) /\ Len(buffer') <= MaxBuffer
      /\ waiter' \in BOOLEAN /\ done' \in BOOLEAN
      /\ yielded' \in 0 .. Last /\ emitted' \in 0 .. Last
      /\ Hearing' /\ StatusIsSaid' /\ (silent' \/ done' => closed')
      /\ (closed' => aborted' \/ loop = "none")
  BY <1>1, <1>2, ApplyFacts
<1>5. Typed'  BY <1>1, <1>4 DEF HandleInv, Typed, TypeOK
<1>6. Resuming'  BY <1>1 DEF HandleInv, Resuming
<1>7. EventsInOrder' /\ Ahead'  BY <1>1 DEF HandleInv, EventsInOrder, Ahead
<1>8. Closing'  BY <1>1, <1>3, <1>4 DEF Closing
<1>9. QED BY <1>4, <1>5, <1>6, <1>7, <1>8 DEF HandleInv

\* A poll that fails.
LEMMA PollFailsKeeps == HandleInv /\ PollFails => HandleInv'
<1> SUFFICES ASSUME HandleInv, PollFails PROVE HandleInv'  OBVIOUS
<1> USE DEF PollFails, streamVars, handleVars, iterVars, serverVars
<1>1. poll' \in {"none", "asleep"} /\ server \in Nat  BY Bounds DEF HandleInv, Typed, TypeOK
<1>2. Typed'  BY <1>1 DEF HandleInv, Typed, TypeOK
<1>3. Resuming'  BY <1>1 DEF HandleInv, Resuming
<1>4. Closing'  BY <1>1 DEF HandleInv, Closing
<1>5. StatusIsSaid'  BY SaidStays
<1>6. QED BY <1>1, <1>2, <1>3, <1>4, <1>5, QuietKeeps

\* A refresh() of the application, and its answer: the change that it brings is not said.
LEMMA RefreshKeeps == HandleInv /\ (Refresh \/ RefreshReply) => HandleInv'
<1> SUFFICES ASSUME HandleInv, Refresh \/ RefreshReply PROVE HandleInv'  OBVIOUS
<1> USE DEF Refresh, RefreshReply, streamVars, handleVars, iterVars, envVars, serverVars
<1>1. transfer' \in 0 .. Last /\ refreshing' \in 0 .. Last /\ server \in Nat
  BY Bounds DEF HandleInv, Typed, TypeOK
<1>2. /\ UNCHANGED <<streamVars, iterVars, closed, silent, settled, poll, asked, handled>>
      /\ UNCHANGED <<server, outcome, frame, resumes>>
  OBVIOUS
<1>3. Typed'  BY <1>1, <1>2 DEF HandleInv, Typed, TypeOK
<1>4. Resuming'  BY <1>2 DEF HandleInv, Resuming
<1>5. Closing'  BY <1>2 DEF HandleInv, Closing
<1>6. StatusIsSaid'
  <2>1. CASE Refresh  BY <2>1, SaidStays
  <2>2. CASE RefreshReply
    <3>1. /\ transfer' = refreshing /\ said' = said /\ silent' = silent /\ outcome' = outcome
          /\ refreshed' = (refreshed \/ Status(refreshing) # Status(transfer))
      BY <2>2
    <3>2. said = Status(transfer) \/ silent \/ refreshed  BY DEF HandleInv, StatusIsSaid
    <3>3. Status(transfer)' = Status(refreshing)  BY <3>1 DEF Status
    <3>4. said' = Status(refreshing) \/ silent' \/ refreshed'  BY <3>1, <3>2
    <3>5. QED BY <3>3, <3>4 DEF StatusIsSaid
  <2>3. QED BY <2>1, <2>2
<1>7. QED BY <1>1, <1>2, <1>3, <1>4, <1>5, <1>6, QuietKeeps

\* HandleInv is inductive.
LEMMA HandleInvNext == HandleInv /\ [Next]_vars => HandleInv'
<1> SUFFICES ASSUME HandleInv, [Next]_vars PROVE HandleInv'  OBVIOUS
<1>1. CASE Advance  BY <1>1, AdvanceKeeps
<1>2. CASE ConsumerNext  BY <1>2, ConsumerNextKeeps
<1>3. CASE Close  BY <1>3, CloseKeeps
<1>4. CASE Stream  BY <1>4, ConnectKeeps, ReadKeeps, WakeKeeps, DropKeeps DEF Stream
<1>5. CASE Polling  BY <1>5, PollAskKeeps, PollReplyKeeps DEF Polling
<1>6. CASE \E retryable \in BOOLEAN : ConnectFails(retryable)  BY <1>6, ConnectFailsKeeps
<1>7. CASE ReadError \/ Drop(TRUE)  BY <1>7, ReadErrorKeeps, DropKeeps
<1>8. CASE PollFails  BY <1>8, PollFailsKeeps
<1>9. CASE Refresh \/ RefreshReply  BY <1>9, RefreshKeeps
<1>10. CASE UNCHANGED vars
  <2> USE <1>10 DEF vars, streamVars, handleVars, pollVars, iterVars, envVars, serverVars
  <2>1. Typed'  BY DEF HandleInv, Typed, TypeOK
  <2>2. Resuming'  BY DEF HandleInv, Resuming
  <2>3. Closing'  BY DEF HandleInv, Closing
  <2>4. StatusIsSaid'  BY SaidStays
  <2>5. server \in Nat  BY Bounds DEF HandleInv, Typed, TypeOK
  <2>6. QED BY <2>1, <2>2, <2>3, <2>4, <2>5, QuietKeeps
<1>11. QED
  BY <1>1, <1>2, <1>3, <1>4, <1>5, <1>6, <1>7, <1>8, <1>9, <1>10 DEF Next

\* HandleInv holds in every behaviour.
LEMMA HandleInvAlways == Spec => []HandleInv
BY HandleInvInit, HandleInvNext, PTL DEF Spec

-----------------------------------------------------------------------------
\* Over any number of reconnections, drops, polls and refreshes the handler is given every
\* event once and in order by a server that resumes, and no older record after a newer one
\* by the SDK's own broker; a consumer that drains the iterator has the last progress last,
\* however small the buffer; and the listeners of "status" know the status, unless a refresh
\* has brought it (sse.ts #connectOnce, broker.ts handleTransferEvents, handle.ts #apply,
\* eventsToAsyncIterable).
THEOREM EventsAreComplete == Spec => []EventsComplete
<1>1. HandleInv => EventsComplete
  BY DEF HandleInv, Typed, Hearing, EventsComplete, IteratorEndsWithTheLast, Terminal
<1>2. QED BY <1>1, HandleInvAlways, PTL

\* No step of a connection that was open when close() was called, and no poll, settles
\* the handle or connects again (handle.ts close and #settle).
THEOREM ClosedStaysQuiet == Spec => ClosedIsQuiet
<1>1. HandleInv /\ [Next]_vars => [ClosedNeverSettles /\ ClosedConnectsNoMore]_vars
  <2> SUFFICES ASSUME HandleInv, Next PROVE ClosedNeverSettles /\ ClosedConnectsNoMore
    OBVIOUS
  <2> USE DEF ClosedNeverSettles, ClosedConnectsNoMore
  <2>1. ASSUME closed, loop' = "connecting" PROVE loop = "connecting"
    <3>1. loop \notin {"connecting", "waiting"}  BY <2>1 DEF HandleInv, Closing
    <3>2. ASSUME NEW error PROVE EndedConnection(error) # "connecting"
      BY DEF EndedConnection
    <3>3. CASE Stream
      BY <2>1, <3>1, <3>2, <3>3 DEF Stream, Connect, Read, Wake, Drop
    <3>r. CASE ReadError  BY <2>1, <3>r DEF ReadError
    <3>4. CASE Polling
      BY <2>1, <3>4 DEF Polling, PollAsk, PollReply, streamVars
    <3>5. CASE Drop(TRUE)  BY <2>1, <3>2, <3>5 DEF Drop
    <3>6. CASE \E retryable \in BOOLEAN : ConnectFails(retryable)
      BY <3>1, <3>6 DEF ConnectFails
    <3>7. CASE Close  BY <2>1, <3>7 DEF Close
    <3>8. CASE Advance \/ ConsumerNext \/ PollFails \/ Refresh \/ RefreshReply
      BY <2>1, <3>8 DEF Advance, ConsumerNext, PollFails, Refresh, RefreshReply, streamVars
    <3>9. QED BY <3>3, <3>4, <3>5, <3>6, <3>7, <3>8, <3>r DEF Next
  <2>2. ASSUME silent PROVE settled' = settled
    <3>1. closed  BY <2>2 DEF HandleInv, Closing
    <3>2. ASSUME NEW version \in 1 .. Last, Read(version) PROVE settled' = settled
      <4>1. CASE frame[version] \in {"transfer", "bare"}
        BY <3>1, <3>2, <4>1 DEF Read, Apply, Settle
      <4>2. CASE frame[version] \notin {"transfer", "bare"}
        BY <3>2, <4>2 DEF Read
      <4>3. QED BY <4>1, <4>2
    <3>3. CASE PollReply \/ ReadError
      BY <3>1, <3>3 DEF PollReply, ReadError, Apply, Settle
    <3>4. CASE Connect \/ Wake \/ Drop(FALSE) \/ Drop(TRUE)
      BY <3>4 DEF Connect, Wake, Drop, handleVars
    <3>5. CASE \E retryable \in BOOLEAN : ConnectFails(retryable)
      BY <3>5 DEF ConnectFails, handleVars
    <3>6. CASE Advance \/ ConsumerNext \/ Close \/ PollAsk \/ PollFails
      BY <3>6 DEF Advance, ConsumerNext, Close, PollAsk, PollFails, handleVars
    <3>7. CASE Refresh \/ RefreshReply
      BY <3>7 DEF Refresh, RefreshReply, handleVars
    <3>8. QED BY <3>2, <3>3, <3>4, <3>5, <3>6, <3>7 DEF Next, Stream, Polling
  <2>3. QED BY <2>1, <2>2
<1>2. QED BY <1>1, HandleInvAlways, PTL DEF ClosedIsQuiet, Spec

-----------------------------------------------------------------------------
(* Calls of the control plane and their tokens.  MaxAttempts, MaxTroubles  *)
(* and, further down, Last are the parameters of these specifications too: *)
(* a theorem is about one of them, so that sharing them restricts nothing. *)

CONSTANT Calls
VARIABLES pc, tries, reminted, held, answer, cache, age, inFlight, minting, minted,
    signalled, revoked, sends, faults, rejected

R == INSTANCE WebRequests WITH
    attempt <- tries, reply <- answer, token <- cache, aborted <- signalled,
    troubles <- faults

\* Where a call may stand.
Places == {"idle", "token", "sent", "body", "backoff"} \union R!Ended

\* One mint at a time, the newest; a call that waits for a token waits for it.
Minting ==
    /\ inFlight # 0 =>
          inFlight = minted /\ \E c \in Calls : minting = {[id |-> inFlight, owner |-> c]}
    /\ inFlight = 0 => minting = {}
    /\ \A c \in Calls : pc[c] = "token" => inFlight # 0 /\ held[c] = inFlight

\* Tokens are numbered as they are minted: the one that was rejected is older than those
\* that came after it.
Newer ==
    /\ cache # 0 /\ inFlight # 0 => cache < inFlight
    /\ \A c \in Calls : pc[c] \in {"sent", "body"} =>
          held[c] # 0 /\ (inFlight # 0 => held[c] < inFlight)
    /\ \A c \in Calls : reminted[c] =>
          /\ rejected[c] # 0 /\ rejected[c] < held[c]
          /\ cache # 0 => rejected[c] < cache
          /\ inFlight # 0 => rejected[c] < inFlight
    /\ \A c \in Calls : pc[c] = "unauthorized" => reminted[c]

\* What a call may have sent: once for each attempt that failed, once for the attempt
\* that runs and has got so far, once for its 401.
Due(c) ==
    tries[c] + (IF reminted[c] THEN 1 ELSE 0) + (IF pc[c] \in {"sent", "body"} THEN 1 ELSE 0)

\* A call that runs has sent what is due, one that has ended no more than it may.
Tallied ==
    /\ sends \in [Calls -> Nat] /\ R!RequestsBounded
    /\ \A c \in Calls : pc[c] \notin R!Ended => sends[c] <= Due(c)

\* What every step of the calls and of the token provider keeps.
RequestsInv ==
    /\ R!TypeOK /\ tries \in [Calls -> Nat] /\ minted \in Nat
    /\ Minting /\ Newer /\ Tallied /\ R!AbortedByItsOwn

\* The catch of withRetry: another attempt only below the limit.
LEMMA CaughtFacts ==
    ASSUME RequestsInv, NEW c \in Calls, pc[c] \notin R!Ended, NEW retryable \in BOOLEAN,
           NEW error \in {"exhausted", "refused", "unauthorized"}, NEW fired
    PROVE  LET place == R!Caught(c, retryable, error, fired) IN
           /\ place \in {"backoff", "exhausted", "aborted", error}
           /\ tries[c] + 1 \in 0 .. MaxAttempts
           /\ tries[c] + 1 = MaxAttempts => place \in R!Ended
           /\ place = "aborted" => c \in fired
           /\ place = "unauthorized" => ~retryable /\ error = "unauthorized"
<1>1. tries[c] \in 0 .. MaxAttempts /\ tries[c] # MaxAttempts
  BY DEF RequestsInv, R!TypeOK
<1>2. tries[c] + 1 \in 0 .. MaxAttempts  BY <1>1, HandleAssumption
<1>3. tries[c] + 1 = MaxAttempts => tries[c] + 1 >= MaxAttempts  BY HandleAssumption
<1>4. QED BY <1>2, <1>3 DEF R!Caught, R!Ended

\* No call has begun and there is no token.
LEMMA RequestsInit == R!Init => RequestsInv
<1> SUFFICES ASSUME R!Init PROVE RequestsInv  OBVIOUS
<1> USE DEF R!Init
<1>1. R!TypeOK  BY HandleAssumption DEF R!TypeOK, R!Ages, R!Replies, R!Ended
<1>2. Minting  BY DEF Minting
<1>3. Newer  BY DEF Newer
<1>4. Tallied  BY HandleAssumption DEF Tallied, Due, R!RequestsBounded
<1>5. R!AbortedByItsOwn  BY DEF R!AbortedByItsOwn
<1>6. QED BY <1>1, <1>2, <1>3, <1>4, <1>5 DEF RequestsInv

\* A step of a call: nothing that counts; its end; the end of an attempt; a token, after
\* its first 401 too; or the head of its response.
Counts(c) ==
    \/ UNCHANGED <<pc[c], tries[c], reminted[c], sends[c]>>
    \/ /\ pc[c] \notin R!Ended /\ pc'[c] \in R!Ended
       /\ sends'[c] = sends[c] /\ reminted'[c] = reminted[c]
    \/ /\ pc[c] \notin R!Ended /\ pc'[c] = "backoff" /\ tries'[c] = tries[c] + 1
       /\ sends'[c] = sends[c] /\ reminted'[c] = reminted[c]
    \/ /\ pc[c] \in {"idle", "backoff", "token", "body"} /\ pc'[c] \in {"token", "sent"}
       /\ sends'[c] = IF pc'[c] = "sent" THEN sends[c] + 1 ELSE sends[c]
       /\ tries'[c] = tries[c]
       /\ IF pc[c] = "body" THEN ~reminted[c] /\ reminted'[c] ELSE reminted'[c] = reminted[c]
    \/ /\ pc[c] = "sent" /\ pc'[c] = "body"
       /\ UNCHANGED <<tries[c], reminted[c], sends[c]>>

\* Such steps keep what is counted.
LEMMA SendingKeeps ==
    ASSUME RequestsInv, tries' \in [Calls -> Nat], sends' \in [Calls -> Nat],
           \A c \in Calls : Counts(c)
    PROVE  Tallied'
<1>1. ASSUME NEW c \in Calls
      PROVE  /\ sends'[c] <= MaxAttempts + (IF reminted'[c] THEN 1 ELSE 0)
             /\ pc'[c] \notin R!Ended => sends'[c] <= Due(c)'
  <2>1. /\ tries[c] \in Nat /\ sends[c] \in Nat /\ tries'[c] \in Nat /\ sends'[c] \in Nat
        /\ MaxAttempts \in Nat /\ reminted[c] \in BOOLEAN
        /\ pc[c] \notin R!Ended => tries[c] + 1 <= MaxAttempts
        /\ sends[c] <= MaxAttempts + (IF reminted[c] THEN 1 ELSE 0)
    BY HandleAssumption DEF RequestsInv, Tallied, R!RequestsBounded, R!TypeOK
  <2>2. pc[c] \notin R!Ended => sends[c] <= Due(c)  BY DEF RequestsInv, Tallied
  <2>3. CASE UNCHANGED <<pc[c], tries[c], reminted[c], sends[c]>>
    BY <2>1, <2>2, <2>3 DEF Due
  <2>4. CASE /\ pc[c] \notin R!Ended /\ pc'[c] \in R!Ended
             /\ sends'[c] = sends[c] /\ reminted'[c] = reminted[c]
    BY <2>1, <2>4
  <2>5. CASE /\ pc[c] \notin R!Ended /\ pc'[c] = "backoff" /\ tries'[c] = tries[c] + 1
             /\ sends'[c] = sends[c] /\ reminted'[c] = reminted[c]
    BY <2>1, <2>2, <2>5 DEF Due
  <2>6. CASE /\ pc[c] \in {"idle", "backoff", "token", "body"}
             /\ pc'[c] \in {"token", "sent"}
             /\ sends'[c] = IF pc'[c] = "sent" THEN sends[c] + 1 ELSE sends[c]
             /\ tries'[c] = tries[c]
             /\ IF pc[c] = "body" THEN ~reminted[c] /\ reminted'[c]
                                  ELSE reminted'[c] = reminted[c]
    <3>1. pc[c] \notin R!Ended  BY <2>6 DEF R!Ended
    <3>2. sends'[c] <= Due(c)'  BY <2>1, <2>2, <2>6, <3>1 DEF Due
    <3>3. Due(c)' <= MaxAttempts + (IF reminted'[c] THEN 1 ELSE 0)
      BY <2>1, <2>6, <3>1 DEF Due
    <3>4. Due(c)' \in Nat  BY <2>1 DEF Due
    <3>5. QED BY <2>1, <3>2, <3>3, <3>4
  <2>7. CASE /\ pc[c] = "sent" /\ pc'[c] = "body"
             /\ UNCHANGED <<tries[c], reminted[c], sends[c]>>
    <3>1. pc[c] \notin R!Ended  BY <2>7 DEF R!Ended
    <3>2. QED BY <2>1, <2>2, <2>7, <3>1 DEF Due
  <2>8. QED BY <2>3, <2>4, <2>5, <2>6, <2>7 DEF Counts
<1>2. QED BY <1>1 DEF Tallied, R!RequestsBounded

\* The requests that a step counts.
LEMMA CountedFacts ==
    ASSUME RequestsInv, R!Counted
    PROVE  /\ sends' \in [Calls -> Nat]
           /\ \A c \in Calls : sends'[c] = IF pc'[c] = "sent" /\ pc[c] # "sent"
                                          THEN sends[c] + 1 ELSE sends[c]
BY DEF RequestsInv, Tallied, R!Counted

\* Calls that fail for the same reason, each for itself.
LEMMA FailsKeeps ==
    ASSUME RequestsInv, NEW c \in Calls, pc[c] \notin R!Ended, NEW retryable \in BOOLEAN,
           NEW error \in {"exhausted", "refused", "unauthorized"},
           R!Fails(c, retryable, error), error = "unauthorized" => reminted[c],
           UNCHANGED <<R!envVars, R!authVars, reminted, held>>
    PROVE  RequestsInv'
<1> DEFINE place == R!Caught(c, retryable, error, signalled)
<1>1. /\ place \in {"backoff", "exhausted", "aborted", error}
      /\ tries[c] + 1 \in 0 .. MaxAttempts
      /\ tries[c] + 1 = MaxAttempts => place \in R!Ended
      /\ place = "aborted" => c \in signalled
      /\ place = "unauthorized" => error = "unauthorized"
  BY CaughtFacts
<1>2. /\ pc' = [pc EXCEPT ![c] = place] /\ tries' = [tries EXCEPT ![c] = @ + 1]
      /\ answer' = [answer EXCEPT ![c] = "none"]
  BY DEF R!Fails
<1>3. place \in Places /\ place \notin {"token", "sent", "body"}  BY <1>1 DEF Places, R!Ended
<1> HIDE DEF place
<1>4. UNCHANGED <<cache, age, inFlight, minting, minted, signalled, revoked, sends, faults,
                  rejected, reminted, held>>
  BY DEF R!envVars, R!authVars
<1>5. R!TypeOK' /\ tries' \in [Calls -> Nat]
  BY <1>1, <1>2, <1>3, <1>4 DEF RequestsInv, R!TypeOK, Places, R!Replies
<1>6. Minting'  BY <1>2, <1>3, <1>4 DEF RequestsInv, Minting, R!TypeOK
<1>7. Newer'
  <2>1. \A d \in Calls : pc'[d] \in {"sent", "body"} => pc[d] \in {"sent", "body"}
    BY <1>2, <1>3 DEF RequestsInv, R!TypeOK
  <2>2. \A d \in Calls : pc'[d] = "unauthorized" => reminted[d]
    BY <1>1, <1>2 DEF RequestsInv, R!TypeOK, Newer
  <2>3. QED BY <1>4, <2>1, <2>2 DEF RequestsInv, Newer
<1>8. Tallied'
  <2>1. \A d \in Calls : Counts(d)
    <3>1. place \in R!Ended \/ place = "backoff"  BY <1>1 DEF R!Ended
    <3>2. Counts(c)
      BY <1>2, <1>4, <3>1 DEF Counts, RequestsInv, R!TypeOK
    <3>3. \A d \in Calls \ {c} : Counts(d)
      BY <1>2, <1>4 DEF Counts, RequestsInv, R!TypeOK
    <3>4. QED BY <3>2, <3>3
  <2>2. sends' \in [Calls -> Nat]  BY <1>4 DEF RequestsInv, Tallied
  <2>3. QED BY <1>5, <2>1, <2>2, SendingKeeps
<1>9. R!AbortedByItsOwn'  BY <1>1, <1>2, <1>4 DEF RequestsInv, R!AbortedByItsOwn, R!TypeOK
<1>10. QED BY <1>4, <1>5, <1>6, <1>7, <1>8, <1>9 DEF RequestsInv

\* What getToken does: the call goes on with the cached token, or waits for the mint in
\* flight or for a new one.
LEMMA GetTokenFacts ==
    ASSUME RequestsInv, NEW c \in Calls, NEW cached \in {0, cache}, R!GetToken(c, cached,
           inFlight)
    PROVE  /\ pc' = [pc EXCEPT ![c] = pc'[c]] /\ held' = [held EXCEPT ![c] = held'[c]]
           /\ \/ /\ pc'[c] = R!Sent(c) /\ held'[c] = cache /\ cached = cache /\ cache # 0
                 /\ age # "unusable" /\ UNCHANGED <<inFlight, minting, minted>>
              \/ /\ pc'[c] = "token" /\ inFlight # 0 /\ held'[c] = inFlight
                 /\ UNCHANGED <<inFlight, minting, minted>>
              \/ /\ pc'[c] = "token" /\ inFlight = 0 /\ held'[c] = minted + 1
                 /\ inFlight' = minted + 1 /\ minted' = minted + 1
                 /\ minting' = {[id |-> minted + 1, owner |-> c]}
<1>1. /\ pc \in [Calls -> Places] /\ held \in [Calls -> 0 .. minted]
      /\ inFlight = 0 => minting = {}
  BY DEF RequestsInv, R!TypeOK, Places, Minting
<1>2. CASE R!Cached(cached, age)
  <2>1. /\ pc' = [pc EXCEPT ![c] = R!Sent(c)] /\ held' = [held EXCEPT ![c] = cached]
        /\ UNCHANGED <<inFlight, minting, minted>> /\ cached # 0
        /\ age \in {"fresh", "stale"}
    BY <1>2 DEF R!GetToken, R!Cached
  <2>2. QED BY <1>1, <2>1
<1>3. CASE ~R!Cached(cached, age) /\ inFlight # 0
  BY <1>1, <1>3 DEF R!GetToken
<1>4. CASE ~R!Cached(cached, age) /\ inFlight = 0
  BY <1>1, <1>4 DEF R!GetToken
<1>5. QED BY <1>2, <1>3, <1>4

\* A call that gets a token newer than the one it was refused with.
LEMMA GetTokenKeeps ==
    ASSUME RequestsInv, NEW c \in Calls, NEW cached \in {0, cache}, pc[c] \notin R!Ended,
           R!GetToken(c, cached, inFlight), cache' = cached,
           UNCHANGED <<tries, age, signalled, revoked, faults>>, R!Counted,
           answer' \in [Calls -> R!Replies],
           \/ pc[c] \in {"idle", "backoff"} /\ UNCHANGED <<rejected, reminted>>
           \/ /\ pc[c] = "body" /\ cached = 0 /\ ~reminted[c]
              /\ reminted' = [reminted EXCEPT ![c] = TRUE]
              /\ rejected' = [rejected EXCEPT ![c] = held[c]]
    PROVE  RequestsInv'
<1> DEFINE Stays == UNCHANGED <<inFlight, minting, minted>>
           Mints == /\ inFlight = 0 /\ inFlight' = minted + 1 /\ minted' = minted + 1
                    /\ minting' = {[id |-> minted + 1, owner |-> c]}
<1>1. /\ pc' = [pc EXCEPT ![c] = pc'[c]] /\ held' = [held EXCEPT ![c] = held'[c]]
      /\ \/ Stays /\ pc'[c] = R!Sent(c) /\ held'[c] = cache /\ cached = cache /\ cache # 0
         \/ Stays /\ pc'[c] = "token" /\ inFlight # 0 /\ held'[c] = inFlight
         \/ Mints /\ pc'[c] = "token" /\ held'[c] = minted + 1
  BY GetTokenFacts
<1>2. /\ pc'[c] \in {"sent", "token", "aborted"} /\ (pc'[c] = "aborted" => c \in signalled)
      /\ Stays \/ Mints
  BY <1>1 DEF R!Sent
<1>t. /\ pc \in [Calls -> Places] /\ held \in [Calls -> 0 .. minted] /\ minted \in Nat
      /\ rejected \in [Calls -> 0 .. minted] /\ reminted \in [Calls -> BOOLEAN]
      /\ cache \in 0 .. minted /\ inFlight \in 0 .. minted /\ revoked \in 0 .. minted
      /\ \A mint \in minting : mint.id \in 1 .. minted /\ mint.owner \in Calls
  BY DEF RequestsInv, R!TypeOK, Places
<1>n. /\ minted' \in Nat /\ 0 .. minted \subseteq 0 .. minted' /\ inFlight' \in 0 .. minted'
      /\ held'[c] \in 0 .. minted' /\ 1 .. minted \subseteq 1 .. minted'
  BY <1>1, <1>t
<1> HIDE DEF Stays, Mints
<1>3. held' \in [Calls -> 0 .. minted'] /\ rejected' \in [Calls -> 0 .. minted']
      /\ reminted' \in [Calls -> BOOLEAN]
  BY <1>1, <1>t, <1>n, ZenonT(40)
<1>4. \A mint \in minting' : mint.id \in 1 .. minted' /\ mint.owner \in Calls
  <2>1. CASE Stays  BY <2>1, <1>t, <1>n DEF Stays
  <2>2. CASE Mints  BY <2>2, <1>t, <1>n DEF Mints
  <2>3. QED BY <1>2, <2>1, <2>2
<1>5. R!TypeOK'
  <2>1. pc' \in [Calls -> Places]  BY <1>1, <1>2, <1>t DEF Places, R!Ended
  <2>2. \A d \in Calls : tries'[d] \in 0 .. MaxAttempts
            /\ (tries'[d] = MaxAttempts => pc'[d] \in R!Ended)
    BY <1>1, <1>t DEF RequestsInv, R!TypeOK
  <2>3. cache' \in 0 .. minted' /\ revoked' \in 0 .. minted'  BY <1>t, <1>n
  <2>4. QED BY <1>3, <1>4, <1>n, <2>1, <2>2, <2>3 DEF RequestsInv, R!TypeOK, Places
<1>6. Minting'
  <2>1. CASE Stays
    BY <1>1, <1>t, <2>1 DEF RequestsInv, Minting, Stays, Mints, R!Sent
  <2>2. CASE Mints
    <3>1. \A d \in Calls \ {c} : pc[d] # "token"  BY <2>2 DEF RequestsInv, Minting, Mints
    <3>2. pc'[c] = "token" /\ held'[c] = minted + 1
      BY <1>1, <1>t, <2>2 DEF Stays, Mints
    <3>3. \A d \in Calls : pc'[d] = "token" => d = c  BY <1>1, <1>t, <3>1
    <3>4. minted + 1 # 0  BY <1>t
    <3>5. QED BY <2>2, <3>2, <3>3, <3>4 DEF Minting, Mints
  <2>3. QED BY <1>2, <2>1, <2>2
<1>7. Newer'
  <2>0. /\ cache # 0 /\ inFlight # 0 => cache < inFlight
        /\ \A d \in Calls : pc[d] \in {"sent", "body"} =>
              held[d] # 0 /\ (inFlight # 0 => held[d] < inFlight)
        /\ \A d \in Calls : reminted[d] =>
              /\ rejected[d] # 0 /\ rejected[d] < held[d]
              /\ cache # 0 => rejected[d] < cache
              /\ inFlight # 0 => rejected[d] < inFlight
        /\ \A d \in Calls : pc[d] = "unauthorized" => reminted[d]
    BY DEF RequestsInv, Newer
  <2>1. cache' # 0 /\ inFlight' # 0 => cache' < inFlight'
    BY <1>2, <1>t, <2>0 DEF Stays, Mints
  <2>2. ASSUME NEW d \in Calls, pc'[d] \in {"sent", "body"}
        PROVE  held'[d] # 0 /\ (inFlight' # 0 => held'[d] < inFlight')
    <3>1. CASE d = c
      <4>1. Stays /\ held'[c] = cache /\ cache # 0  BY <1>1, <2>2, <3>1
      <4>2. QED BY <2>0, <3>1, <4>1 DEF Stays
    <3>2. CASE d # c
      <4>1. pc'[d] = pc[d] /\ held'[d] = held[d] /\ held[d] \in 0 .. minted
        BY <1>1, <1>t, <3>2
      <4>2. QED BY <1>2, <1>t, <2>0, <2>2, <4>1 DEF Stays, Mints
    <3>3. QED BY <3>1, <3>2
  <2>3. ASSUME NEW d \in Calls, reminted'[d]
        PROVE  /\ rejected'[d] # 0 /\ rejected'[d] < held'[d]
               /\ cache' # 0 => rejected'[d] < cache'
               /\ inFlight' # 0 => rejected'[d] < inFlight'
    <3>1. CASE d # c
      <4>1. /\ reminted[d] /\ rejected'[d] = rejected[d] /\ held'[d] = held[d]
            /\ rejected[d] \in 0 .. minted
        BY <1>1, <1>t, <2>3, <3>1
      <4>2. QED BY <1>2, <1>t, <2>0, <4>1 DEF Stays, Mints
    <3>2. CASE d = c /\ UNCHANGED <<rejected, reminted>>
      <4>1. reminted[c] /\ rejected'[c] = rejected[c] /\ rejected[c] \in 0 .. minted
        BY <1>t, <2>3, <3>2
      <4>2. QED BY <1>1, <1>t, <2>0, <3>2, <4>1 DEF Stays, Mints
    <3>3. CASE /\ d = c /\ pc[c] = "body" /\ cached = 0
               /\ rejected' = [rejected EXCEPT ![c] = held[c]]
      <4>1. rejected'[c] = held[c] /\ held[c] \in 0 .. minted /\ held[c] # 0 /\ cache' = 0
            /\ (inFlight # 0 => held[c] < inFlight)
        BY <1>t, <2>0, <3>3
      <4>2. QED BY <1>1, <1>t, <3>3, <4>1 DEF Stays, Mints
    <3>4. QED BY <3>1, <3>2, <3>3
  <2>4. ASSUME NEW d \in Calls, pc'[d] = "unauthorized" PROVE reminted'[d]
    BY <1>1, <1>2, <1>t, <2>0, <2>4
  <2>5. QED BY <2>1, <2>2, <2>3, <2>4 DEF Newer
<1>8. Tallied' /\ tries' \in [Calls -> Nat]
  <2>1. tries' \in [Calls -> Nat]  BY DEF RequestsInv
  <2>2. /\ sends' \in [Calls -> Nat]
        /\ \A d \in Calls : sends'[d] = IF pc'[d] = "sent" /\ pc[d] # "sent"
                                       THEN sends[d] + 1 ELSE sends[d]
    BY CountedFacts
  <2>3. \A d \in Calls \ {c} : Counts(d)
    <3>1. ASSUME NEW d \in Calls \ {c} PROVE pc'[d] = pc[d] /\ reminted'[d] = reminted[d]
      BY <1>1, <1>t
    <3>2. QED BY <2>2, <3>1 DEF Counts
  <2>4. Counts(c)
    <3>1. pc[c] \in {"idle", "backoff", "body"} /\ tries'[c] = tries[c]  OBVIOUS
    <3>2. IF pc[c] = "body" THEN ~reminted[c] /\ reminted'[c]
                            ELSE reminted'[c] = reminted[c]
      BY <1>t
    <3>3. CASE pc'[c] \in {"token", "sent"}
      BY <2>2, <3>1, <3>2, <3>3 DEF Counts
    <3>4. CASE pc'[c] = "aborted"
      <4>1. pc'[c] \in R!Ended  BY <3>4 DEF R!Ended
      <4>2. pc[c] # "body"  BY <1>1, <1>t, <3>4 DEF R!Sent
      <4>3. QED BY <2>2, <3>1, <3>2, <3>4, <4>1, <4>2 DEF Counts
    <3>5. QED BY <1>2, <3>3, <3>4
  <2>5. QED BY <2>1, <2>2, <2>3, <2>4, SendingKeeps
<1>9. R!AbortedByItsOwn'  BY <1>1, <1>2, <1>t DEF RequestsInv, R!AbortedByItsOwn
<1>10. QED BY <1>5, <1>6, <1>7, <1>8, <1>9, <1>n DEF RequestsInv

\* An attempt: its signal fired, or it asks for a token.
LEMMA AttemptKeeps ==
    ASSUME RequestsInv, NEW c \in Calls, R!Attempt(c)
    PROVE  RequestsInv'
<1>1. /\ pc[c] \in {"idle", "backoff"} /\ pc[c] \notin R!Ended
      /\ UNCHANGED <<tries, reminted, answer, cache, age>> /\ R!Counted
  BY DEF R!Attempt, R!Ended
<1>u. UNCHANGED <<signalled, revoked, faults, rejected>>  BY DEF R!Attempt
<1>2. CASE c \in signalled
  <2>1. pc' = [pc EXCEPT ![c] = "aborted"] /\ UNCHANGED <<held, inFlight, minting, minted>>
    BY <1>2 DEF R!Attempt
  <2>2. R!TypeOK'  BY <1>1, <1>u, <2>1 DEF RequestsInv, R!TypeOK, R!Ended
  <2>3. Minting'  BY <2>1 DEF RequestsInv, Minting, R!TypeOK
  <2>4. Newer'  BY <1>1, <1>u, <2>1 DEF RequestsInv, Newer, R!TypeOK
  <2>5. Tallied'
    <3>1. pc'[c] \in R!Ended /\ pc'[c] # "sent" /\ \A d \in Calls \ {c} : pc'[d] = pc[d]
      BY <2>1 DEF RequestsInv, R!TypeOK, R!Ended
    <3>2. \A d \in Calls : Counts(d)  BY <1>1, <3>1, CountedFacts DEF Counts
    <3>3. tries' \in [Calls -> Nat]  BY <1>1 DEF RequestsInv
    <3>4. QED BY <1>1, <3>2, <3>3, CountedFacts, SendingKeeps
  <2>6. R!AbortedByItsOwn'  BY <1>2, <1>u, <2>1 DEF RequestsInv, R!AbortedByItsOwn, R!TypeOK
  <2>7. QED BY <1>1, <2>1, <2>2, <2>3, <2>4, <2>5, <2>6 DEF RequestsInv
<1>3. CASE c \notin signalled
  <2>1. R!GetToken(c, cache, inFlight)  BY <1>3 DEF R!Attempt
  <2>2. answer' \in [Calls -> R!Replies]  BY <1>1 DEF RequestsInv, R!TypeOK
  <2>3. QED BY <1>1, <1>u, <2>1, <2>2, GetTokenKeeps
<1>4. QED BY <1>2, <1>3

\* A mint that ends is the one in flight, and those who wait for it are all that wait.
LEMMA MintFacts ==
    ASSUME RequestsInv, NEW mint \in minting
    PROVE  /\ mint.id = inFlight /\ inFlight # 0 /\ inFlight = minted /\ minting \ {mint} = {}
           /\ \A c \in Calls : c \in R!Waiting(mint) <=> pc[c] = "token"
<1>1. inFlight # 0  BY DEF RequestsInv, Minting
<1>2. PICK c \in Calls : minting = {[id |-> inFlight, owner |-> c]}
  BY <1>1 DEF RequestsInv, Minting
<1>3. mint = [id |-> inFlight, owner |-> c]  BY <1>2
<1>4. mint.id = inFlight /\ minting \ {mint} = {}  BY <1>2, <1>3
<1>5. QED BY <1>1, <1>4 DEF RequestsInv, Minting, R!Waiting

\* Every call that waits for the mint gets its token.
LEMMA MintServedKeeps ==
    ASSUME RequestsInv, NEW mint \in minting, R!MintServed(mint)
    PROVE  RequestsInv'
<1>1. /\ minting' = {} /\ inFlight' = 0 /\ cache' = inFlight /\ age' = "fresh"
      /\ inFlight # 0 /\ inFlight = minted
      /\ pc' = [c \in Calls |-> IF pc[c] = "token" THEN R!Sent(c) ELSE pc[c]]
  BY MintFacts DEF R!MintServed
<1>2. UNCHANGED <<tries, reminted, held, answer, minted, signalled, revoked, faults, rejected>>
      /\ R!Counted
  BY DEF R!MintServed
<1>3. \A c \in Calls :
         R!Sent(c) \in {"sent", "aborted"} /\ (R!Sent(c) = "aborted" => c \in signalled)
  BY DEF R!Sent
<1>4. R!TypeOK'
  <2>1. pc' \in [Calls -> Places]
    BY <1>1, <1>3 DEF RequestsInv, R!TypeOK, Places, R!Ended
  <2>2. \A c \in Calls : tries'[c] \in 0 .. MaxAttempts
            /\ (tries'[c] = MaxAttempts => pc'[c] \in R!Ended)
    BY <1>1, <1>2 DEF RequestsInv, R!TypeOK, R!Ended
  <2>3. QED BY <1>1, <1>2, <2>1, <2>2 DEF RequestsInv, R!TypeOK, Places, R!Ages
<1>5. Minting'  BY <1>1, <1>3 DEF Minting
<1>6. Newer'
  <2>1. ASSUME NEW c \in Calls, pc'[c] \in {"sent", "body"} PROVE held[c] # 0
    BY <1>1, <2>1 DEF RequestsInv, Newer, Minting
  <2>2. \A c \in Calls : pc'[c] = "unauthorized" => pc[c] = "unauthorized"
    BY <1>1, <1>3
  <2>3. QED BY <1>1, <1>2, <2>1, <2>2 DEF RequestsInv, Newer
<1>7. Tallied' /\ tries' \in [Calls -> Nat] /\ minted' \in Nat
  <2>1. tries' \in [Calls -> Nat] /\ minted' \in Nat  BY <1>2 DEF RequestsInv
  <2>2. ASSUME NEW c \in Calls PROVE Counts(c)
    <3>1. pc[c] # "token" => pc'[c] = pc[c]  BY <1>1
    <3>2. pc[c] = "token" => pc'[c] \in {"sent", "aborted"}  BY <1>1, <1>3
    <3>3. "token" \notin R!Ended /\ "aborted" \in R!Ended  BY DEF R!Ended
    <3>4. QED BY <1>2, <3>1, <3>2, <3>3, CountedFacts DEF Counts
  <2>3. QED BY <1>2, <2>1, <2>2, CountedFacts, SendingKeeps
<1>8. R!AbortedByItsOwn'  BY <1>1, <1>2, <1>3 DEF RequestsInv, R!AbortedByItsOwn
<1>9. QED BY <1>4, <1>5, <1>6, <1>7, <1>8 DEF RequestsInv

\* A mint that fails fails everybody who waits for it.
LEMMA RefreshRejectsKeeps ==
    ASSUME RequestsInv, NEW mint \in minting, NEW retryable \in BOOLEAN,
           signalled' \subseteq Calls, signalled \subseteq signalled',
           faults' \in 0 .. MaxTroubles,
           R!RefreshRejects(mint, retryable, signalled'),
           UNCHANGED <<reminted, held, answer, cache, age, minted, revoked, sends, rejected>>
    PROVE  RequestsInv'
<1> DEFINE place(c) == R!Caught(c, retryable, "refused", signalled')
<1>1. /\ minting' = {} /\ inFlight' = 0
      /\ pc' = [c \in Calls |-> IF pc[c] = "token" THEN place(c) ELSE pc[c]]
      /\ tries' = [c \in Calls |-> IF pc[c] = "token" THEN tries[c] + 1 ELSE tries[c]]
  BY MintFacts DEF R!RefreshRejects
<1>2. ASSUME NEW c \in Calls, pc[c] = "token"
      PROVE  /\ place(c) \in {"backoff", "exhausted", "aborted", "refused"}
             /\ tries[c] + 1 \in 0 .. MaxAttempts
             /\ tries[c] + 1 = MaxAttempts => place(c) \in R!Ended
             /\ place(c) = "aborted" => c \in signalled'
  <2>1. pc[c] \notin R!Ended  BY <1>2 DEF R!Ended
  <2>2. QED BY <2>1, CaughtFacts
<1> HIDE DEF place
<1>3. R!TypeOK' /\ tries' \in [Calls -> Nat]
  <2>1. pc' \in [Calls -> Places]
    BY <1>1, <1>2 DEF RequestsInv, R!TypeOK, Places, R!Ended
  <2>2. \A c \in Calls : tries'[c] \in 0 .. MaxAttempts
            /\ (tries'[c] = MaxAttempts => pc'[c] \in R!Ended)
    BY <1>1, <1>2 DEF RequestsInv, R!TypeOK
  <2>3. tries' \in [Calls -> Nat]
    <3>1. 0 .. MaxAttempts \subseteq Nat  BY HandleAssumption
    <3>2. tries' = [c \in Calls |-> tries'[c]]  BY <1>1
    <3>3. QED BY <2>2, <3>1, <3>2
  <2>4. QED BY <1>1, <2>1, <2>2, <2>3 DEF RequestsInv, R!TypeOK, Places
<1>4. Minting'  BY <1>1, <1>2 DEF Minting
<1>5. Newer'
  <2>1. \A c \in Calls : pc'[c] \in {"sent", "body", "unauthorized"} => pc'[c] = pc[c]
    BY <1>1, <1>2
  <2>2. QED BY <1>1, <2>1 DEF RequestsInv, Newer
<1>6. Tallied'
  <2>1. ASSUME NEW c \in Calls PROVE Counts(c)
    <3>1. CASE pc[c] = "token"
      <4>1. pc'[c] = place(c) /\ tries'[c] = tries[c] + 1  BY <1>1, <3>1
      <4>2. pc[c] \notin R!Ended /\ (pc'[c] \in R!Ended \/ pc'[c] = "backoff")
        BY <1>2, <3>1, <4>1 DEF R!Ended
      <4>3. QED BY <4>1, <4>2 DEF Counts
    <3>2. CASE pc[c] # "token"  BY <1>1, <3>2 DEF Counts
    <3>3. QED BY <3>1, <3>2
  <2>2. sends' \in [Calls -> Nat]  BY DEF RequestsInv, Tallied
  <2>3. QED BY <1>3, <2>1, <2>2, SendingKeeps
<1>7. R!AbortedByItsOwn'  BY <1>1, <1>2 DEF RequestsInv, R!AbortedByItsOwn
<1>8. QED BY <1>3, <1>4, <1>5, <1>6, <1>7 DEF RequestsInv

\* The bound on faults is kept.
LEMMA TroubleFacts == RequestsInv /\ R!Trouble => faults' \in 0 .. MaxTroubles
BY HandleAssumption DEF RequestsInv, R!TypeOK, R!Trouble

\* Every call that waits for a mint fails with it.
LEMMA MintFailsKeeps ==
    ASSUME RequestsInv, NEW mint \in minting, NEW retryable \in BOOLEAN,
           R!MintFails(mint, retryable)
    PROVE  RequestsInv'
<1>1. signalled' = signalled /\ signalled \subseteq Calls
  BY DEF R!MintFails, RequestsInv, R!TypeOK
<1>2. QED BY <1>1, TroubleFacts, RefreshRejectsKeeps DEF R!MintFails

\* The signal of a call ends its fetch and its delay.
LEMMA AbortKeeps ==
    ASSUME RequestsInv, NEW c \in Calls, R!Abort(c)
    PROVE  RequestsInv'
<1>1. /\ signalled' = signalled \union {c} /\ signalled' \subseteq Calls
      /\ faults' \in 0 .. MaxTroubles /\ pc[c] \notin R!Ended
      /\ pc' = IF pc[c] \in {"sent", "backoff"} THEN [pc EXCEPT ![c] = "aborted"] ELSE pc
      /\ UNCHANGED <<tries, reminted, held, answer, cache, age, inFlight, minting, minted,
                     revoked, sends, rejected>>
  BY TroubleFacts DEF R!Abort, R!authVars, RequestsInv, R!TypeOK
<1>2. \A d \in Calls : pc'[d] = pc[d] \/ (d = c /\ pc'[d] = "aborted")
  BY <1>1 DEF RequestsInv, R!TypeOK
<1>3. R!TypeOK'
  BY <1>1 DEF RequestsInv, R!TypeOK, R!Ended
<1>4. Minting'  BY <1>1, <1>2 DEF RequestsInv, Minting
<1>5. Newer'  BY <1>1, <1>2 DEF RequestsInv, Newer
<1>6. Tallied'
  <2>1. \A d \in Calls : Counts(d)  BY <1>1, <1>2 DEF Counts, R!Ended
  <2>2. QED BY <1>1, <2>1, SendingKeeps DEF RequestsInv, Tallied
<1>7. R!AbortedByItsOwn'  BY <1>1, <1>2 DEF RequestsInv, R!AbortedByItsOwn
<1>8. QED BY <1>1, <1>3, <1>4, <1>5, <1>6, <1>7 DEF RequestsInv

\* It ends the mint that the call owns, and with it every call that waits for it.
LEMMA AbortMintKeeps ==
    ASSUME RequestsInv, NEW mint \in minting, NEW retryable \in BOOLEAN,
           R!AbortMint(mint, retryable)
    PROVE  RequestsInv'
<1>1. /\ signalled' \subseteq Calls /\ signalled \subseteq signalled'
      /\ faults' \in 0 .. MaxTroubles
  BY TroubleFacts DEF R!AbortMint, RequestsInv, R!TypeOK
<1>2. QED BY <1>1, RefreshRejectsKeeps DEF R!AbortMint

\* The control plane serves a request.
LEMMA ServeKeeps ==
    ASSUME RequestsInv, NEW c \in Calls, NEW status \in R!Replies \ {"none"},
           R!Serve(c, status)
    PROVE  RequestsInv'
<1>1. /\ pc[c] = "sent" /\ pc' = [pc EXCEPT ![c] = "body"]
      /\ answer' \in [Calls -> R!Replies]
      /\ UNCHANGED <<tries, reminted, held, cache, age, inFlight, minting, minted, signalled,
                     revoked, sends, faults, rejected>>
  BY DEF R!Serve, R!authVars, R!envVars, RequestsInv, R!TypeOK
<1>2. \A d \in Calls : pc'[d] = pc[d] \/ (d = c /\ pc'[d] = "body")
  BY <1>1 DEF RequestsInv, R!TypeOK
<1>3. R!TypeOK'
  <2>1. pc' \in [Calls -> Places]  BY <1>1 DEF RequestsInv, R!TypeOK, Places
  <2>2. pc[c] \notin R!Ended  BY <1>1 DEF R!Ended
  <2>3. \A d \in Calls : tries[d] \in 0 .. MaxAttempts
            /\ (tries[d] = MaxAttempts => pc'[d] \in R!Ended)
    BY <1>2, <2>2 DEF RequestsInv, R!TypeOK
  <2>4. QED BY <1>1, <2>1, <2>3 DEF RequestsInv, R!TypeOK, Places
<1>4. Minting'  BY <1>1, <1>2 DEF RequestsInv, Minting
<1>5. Newer'  BY <1>1, <1>2 DEF RequestsInv, Newer
<1>6. Tallied'
  <2>1. \A d \in Calls : Counts(d)  BY <1>1, <1>2 DEF Counts
  <2>2. QED BY <1>1, <2>1, SendingKeeps DEF RequestsInv, Tallied
<1>7. R!AbortedByItsOwn'  BY <1>1, <1>2 DEF RequestsInv, R!AbortedByItsOwn
<1>8. QED BY <1>1, <1>3, <1>4, <1>5, <1>6, <1>7 DEF RequestsInv

\* A call that ends with its body.
LEMMA EndsKeeps ==
    ASSUME RequestsInv, NEW c \in Calls, NEW place \in {"ok", "garbled", "broken"},
           pc[c] \notin R!Ended, pc' = [pc EXCEPT ![c] = place], answer' = [answer EXCEPT ![c] = "none"],
           UNCHANGED <<tries, reminted, held, R!authVars, R!envVars>>
    PROVE  RequestsInv'
<1>1. \A d \in Calls : pc'[d] = pc[d] \/ (d = c /\ pc'[d] = place)
  BY DEF RequestsInv, R!TypeOK
<1>2. UNCHANGED <<cache, age, inFlight, minting, minted, signalled, revoked, sends, faults,
                  rejected>>
  BY DEF R!authVars, R!envVars
<1>3. R!TypeOK'
  <2>1. pc' \in [Calls -> Places] /\ answer' \in [Calls -> R!Replies]
    BY DEF RequestsInv, R!TypeOK, Places, R!Ended, R!Replies
  <2>2. place \in R!Ended  BY DEF R!Ended
  <2>3. QED BY <1>1, <1>2, <2>1, <2>2 DEF RequestsInv, R!TypeOK, Places
<1>4. Minting'  BY <1>1, <1>2 DEF RequestsInv, Minting
<1>5. Newer'  BY <1>1, <1>2 DEF RequestsInv, Newer
<1>6. R!AbortedByItsOwn'  BY <1>1, <1>2 DEF RequestsInv, R!AbortedByItsOwn
<1>7. Tallied'
  <2>1. \A d \in Calls : Counts(d)  BY <1>1, <1>2 DEF Counts, R!Ended
  <2>2. QED BY <1>2, <2>1, SendingKeeps DEF RequestsInv, Tallied
<1>8. QED BY <1>2, <1>3, <1>4, <1>5, <1>6, <1>7 DEF RequestsInv

\* A fetch that fails, and a body that is read or breaks.
LEMMA BodyKeeps ==
    ASSUME RequestsInv, NEW c \in Calls, R!FetchFails(c) \/ R!BodyRead(c) \/ R!BodyBreaks(c)
    PROVE  RequestsInv'
<1>1. pc[c] \in {"sent", "body"} /\ pc[c] \notin R!Ended
      /\ UNCHANGED <<R!envVars, R!authVars, reminted, held>>
  BY DEF R!FetchFails, R!BodyRead, R!BodyBreaks, R!Ended
<1>2. \/ R!Fails(c, TRUE, "exhausted") \/ R!Fails(c, FALSE, "refused")
      \/ /\ \E place \in {"ok", "garbled", "broken"} : pc' = [pc EXCEPT ![c] = place]
         /\ answer' = [answer EXCEPT ![c] = "none"] /\ UNCHANGED tries
  BY DEF R!FetchFails, R!BodyRead, R!BodyBreaks
<1>3. CASE R!Fails(c, TRUE, "exhausted") \/ R!Fails(c, FALSE, "refused")
  BY <1>1, <1>3, FailsKeeps
<1>4. CASE /\ \E place \in {"ok", "garbled", "broken"} : pc' = [pc EXCEPT ![c] = place]
           /\ answer' = [answer EXCEPT ![c] = "none"] /\ UNCHANGED tries
  BY <1>1, <1>4, EndsKeeps
<1>5. QED BY <1>2, <1>3, <1>4

\* After its first 401 a call forgets the token and asks for another.
LEMMA BodyUnauthorizedKeeps ==
    ASSUME RequestsInv, NEW c \in Calls, R!BodyUnauthorized(c)
    PROVE  RequestsInv'
<1>1. /\ pc[c] = "body" /\ pc[c] \notin R!Ended
      /\ UNCHANGED <<signalled, revoked, faults>>
  BY DEF R!BodyUnauthorized, R!Ended
<1>2. CASE reminted[c]
  <2>1. R!Fails(c, FALSE, "unauthorized")
        /\ UNCHANGED <<R!authVars, reminted, held, rejected, sends>>
    BY <1>2 DEF R!BodyUnauthorized
  <2>2. QED BY <1>1, <1>2, <2>1, FailsKeeps DEF R!envVars
<1>3. CASE ~reminted[c]
  <2>1. /\ reminted' = [reminted EXCEPT ![c] = TRUE]
        /\ rejected' = [rejected EXCEPT ![c] = held[c]]
        /\ cache' = 0 /\ R!GetToken(c, 0, inFlight)
        /\ answer' = [answer EXCEPT ![c] = "none"] /\ UNCHANGED <<tries, age>>
        /\ R!Counted
    BY <1>3 DEF R!BodyUnauthorized, R!Invalidate
  <2>2. answer' \in [Calls -> R!Replies]  BY <2>1 DEF RequestsInv, R!TypeOK, R!Replies
  <2>3. QED BY <1>1, <1>3, <2>1, <2>2, GetTokenKeeps
<1>4. QED BY <1>2, <1>3

\* The application, the clock and the control plane.
LEMMA TokenKeeps ==
    ASSUME RequestsInv, R!InvalidateToken \/ R!Revoke \/ \E a \in R!Ages : R!Age(a)
    PROVE  RequestsInv'
<1>1. /\ UNCHANGED <<pc, tries, reminted, held, answer, inFlight, minting, minted, signalled,
                     sends, rejected>>
      /\ cache' \in {0, cache} /\ age' \in R!Ages /\ revoked' \in {revoked, minted}
      /\ faults' \in 0 .. MaxTroubles
  BY TroubleFacts
  DEF R!InvalidateToken, R!Invalidate, R!Revoke, R!Age, R!callVars, R!authVars, RequestsInv,
      R!TypeOK
<1>2. R!TypeOK'  BY <1>1 DEF RequestsInv, R!TypeOK
<1>3. Minting' /\ Newer'  BY <1>1 DEF RequestsInv, Minting, Newer
<1>4. Tallied' /\ R!AbortedByItsOwn'
  BY <1>1 DEF RequestsInv, Tallied, Due, R!RequestsBounded, R!AbortedByItsOwn
<1>5. QED BY <1>1, <1>2, <1>3, <1>4 DEF RequestsInv

\* RequestsInv is inductive.
LEMMA RequestsNext == RequestsInv /\ [R!Next]_(R!vars) => RequestsInv'
<1> SUFFICES ASSUME RequestsInv, [R!Next]_(R!vars) PROVE RequestsInv'  OBVIOUS
<1>1. CASE R!Next
  BY <1>1, AttemptKeeps, ServeKeeps, BodyKeeps, BodyUnauthorizedKeeps, AbortKeeps,
     MintServedKeeps, MintFailsKeeps, AbortMintKeeps, TokenKeeps
  DEF R!Next, R!Deadline
<1>2. CASE UNCHANGED R!vars
  <2>1. UNCHANGED <<pc, tries, reminted, held, answer, cache, age, inFlight, minting, minted,
                    signalled, revoked, sends, faults, rejected>>
    BY <1>2 DEF R!vars, R!callVars, R!authVars, R!envVars
  <2>2. R!TypeOK'  BY <2>1 DEF RequestsInv, R!TypeOK
  <2>3. Minting' /\ Newer'  BY <2>1 DEF RequestsInv, Minting, Newer
  <2>4. Tallied' /\ R!AbortedByItsOwn'
    BY <2>1 DEF RequestsInv, Tallied, Due, R!RequestsBounded, R!AbortedByItsOwn
  <2>5. QED BY <2>1, <2>2, <2>3, <2>4 DEF RequestsInv
<1>3. QED BY <1>1, <1>2

\* RequestsInv holds in every behaviour.
LEMMA RequestsAlways == R!Spec => []RequestsInv
BY RequestsInit, RequestsNext, PTL DEF R!Spec

\* Calls that share a token and its mint: no two mints run at once, whatever fails a call
\* sends at most MaxAttempts requests and one more after a 401, a call that ends with a 401
\* was refused with two different tokens, and only its own signal aborts a call (http.ts
\* request, withRetry, CachingTokenProvider).
THEOREM CallsAreSound ==
    R!Spec => [](R!TypeOK /\ R!RequestsBounded /\ R!OneMintAtATime
                 /\ R!UnauthorizedTakesTwoTokens /\ R!AbortedByItsOwn)
<1>1. ASSUME RequestsInv PROVE R!OneMintAtATime
  <2>1. minting = {} \/ \E mint : minting = {mint}  BY <1>1 DEF RequestsInv, Minting
  <2>2. QED BY <2>1 DEF R!OneMintAtATime
<1>2. ASSUME RequestsInv PROVE R!RequestsBounded  BY <1>2 DEF RequestsInv, Tallied
<1>3. ASSUME RequestsInv PROVE R!UnauthorizedTakesTwoTokens
  <2> SUFFICES ASSUME NEW c \in Calls, pc[c] = "unauthorized"
               PROVE rejected[c] \notin {0, held[c]}
    BY DEF R!UnauthorizedTakesTwoTokens
  <2>1. rejected[c] # 0 /\ rejected[c] < held[c] /\ held[c] \in 0 .. minted /\ minted \in Nat
    BY <1>3 DEF RequestsInv, Newer, R!TypeOK
  <2>2. QED BY <2>1
<1>4. RequestsInv => R!TypeOK /\ R!AbortedByItsOwn  BY DEF RequestsInv
<1>5. QED BY <1>1, <1>2, <1>3, <1>4, RequestsAlways, PTL

\* No request leaves with a token about to expire, whatever the clock, invalidate() and the
\* other calls do meanwhile (provider.ts getToken).
THEOREM SentUsable == R!Spec => [][R!SentWithUsableToken]_(R!vars)
<1>1. ASSUME RequestsInv, R!Next PROVE R!SentWithUsableToken
  <2> SUFFICES ASSUME NEW c \in Calls, pc[c] # "sent", pc'[c] = "sent"
               PROVE held'[c] = cache' /\ R!Usable(age')
    BY DEF R!SentWithUsableToken
  <2>t. pc \in [Calls -> Places] /\ age \in R!Ages  BY <1>1 DEF RequestsInv, R!TypeOK, Places
  <2>1. CASE \E d \in Calls : R!Attempt(d)
    <3>1. PICK d \in Calls : R!Attempt(d)  BY <2>1
    <3>2. d \notin signalled /\ R!GetToken(d, cache, inFlight) /\ cache' = cache /\ age' = age
      BY <2>t, <3>1 DEF R!Attempt
    <3>3. /\ pc' = [pc EXCEPT ![d] = pc'[d]]
          /\ pc'[d] = "token" \/ (held'[d] = cache /\ age # "unusable")
      BY <1>1, <3>2, GetTokenFacts
    <3>4. d = c  BY <2>t, <3>3
    <3>5. QED BY <2>t, <3>2, <3>3, <3>4 DEF R!Usable, R!Ages
  <2>2. CASE \E d \in Calls : R!BodyUnauthorized(d)
    <3>1. PICK d \in Calls : R!BodyUnauthorized(d)  BY <2>2
    <3>2. CASE reminted[d]
      <4>1. pc' = [pc EXCEPT ![d] = R!Caught(d, FALSE, "unauthorized", signalled)]
        BY <3>1, <3>2 DEF R!BodyUnauthorized, R!Fails
      <4>2. R!Caught(d, FALSE, "unauthorized", signalled) = "unauthorized"  BY DEF R!Caught
      <4>3. QED BY <2>t, <4>1, <4>2
    <3>3. CASE ~reminted[d]
      <4>1. pc' = [pc EXCEPT ![d] = "token"]
        BY <3>1, <3>3 DEF R!BodyUnauthorized, R!Invalidate, R!GetToken, R!Cached
      <4>2. QED BY <2>t, <4>1
    <3>4. QED BY <3>2, <3>3
  <2>3. CASE \E mint \in minting : R!MintServed(mint)
    <3>1. PICK mint \in minting : R!MintServed(mint)  BY <2>3
    <3>2. /\ mint.id = inFlight /\ cache' = mint.id /\ age' = "fresh" /\ held' = held
          /\ pc' = [d \in Calls |-> IF d \in R!Waiting(mint) THEN R!Sent(d) ELSE pc[d]]
      BY <1>1, <3>1, MintFacts DEF R!MintServed
    <3>3. c \in R!Waiting(mint)  BY <3>2
    <3>4. QED BY <3>2, <3>3 DEF R!Waiting, R!Usable
  <2>4. ASSUME NEW d \in Calls, NEW retryable, NEW error, error # "sent", NEW fired
        PROVE  R!Caught(d, retryable, error, fired) # "sent"
    BY <2>4 DEF R!Caught
  <2>5. CASE \E mint \in minting, retryable \in BOOLEAN : R!MintFails(mint, retryable)
    <3>1. PICK mint \in minting, retryable \in BOOLEAN : R!MintFails(mint, retryable)  BY <2>5
    <3>2. QED BY <2>4, <3>1 DEF R!MintFails, R!RefreshRejects
  <2>6. CASE \E d \in Calls : R!Abort(d)
    BY <2>t, <2>6 DEF R!Abort
  <2>a. CASE \E mint \in minting, retryable \in BOOLEAN : R!AbortMint(mint, retryable)
    <3>1. PICK mint \in minting, retryable \in BOOLEAN : R!AbortMint(mint, retryable)  BY <2>a
    <3>2. QED BY <2>4, <3>1 DEF R!AbortMint, R!RefreshRejects
  <2>7. CASE \E d \in Calls : R!FetchFails(d) \/ R!BodyRead(d) \/ R!BodyBreaks(d)
    <3>1. PICK d \in Calls : R!FetchFails(d) \/ R!BodyRead(d) \/ R!BodyBreaks(d)  BY <2>7
    <3>2. CASE \E retryable, error : error # "sent" /\ R!Fails(d, retryable, error)
      <4>1. PICK retryable, error : error # "sent" /\ R!Fails(d, retryable, error)  BY <3>2
      <4>2. R!Caught(d, retryable, error, signalled) # "sent"  BY <2>4, <4>1
      <4>3. QED BY <2>t, <4>1, <4>2 DEF R!Fails
    <3>3. R!FetchFails(d) => R!Fails(d, TRUE, "exhausted")  BY DEF R!FetchFails
    <3>4. R!BodyRead(d) =>
             \/ R!Fails(d, TRUE, "exhausted") \/ R!Fails(d, FALSE, "refused")
             \/ pc' \in {[pc EXCEPT ![d] = "ok"], [pc EXCEPT ![d] = "garbled"]}
      BY DEF R!BodyRead
    <3>5. R!BodyBreaks(d) => pc' = [pc EXCEPT ![d] = "broken"]  BY DEF R!BodyBreaks
    <3>6. \/ \E retryable, error : error # "sent" /\ R!Fails(d, retryable, error)
          \/ \E place \in {"ok", "garbled", "broken"} : pc' = [pc EXCEPT ![d] = place]
      BY <3>1, <3>3, <3>4, <3>5
    <3>7. QED BY <2>t, <3>2, <3>6
  <2>8. CASE \E d \in Calls : \E status \in R!Replies \ {"none"} : R!Serve(d, status)
    BY <2>t, <2>8 DEF R!Serve
  <2>9. CASE R!InvalidateToken \/ R!Revoke \/ \E a \in R!Ages : R!Age(a)
    BY <2>9 DEF R!InvalidateToken, R!Revoke, R!Age, R!callVars
  <2>10. QED
    BY <1>1, <2>1, <2>2, <2>3, <2>5, <2>6, <2>7, <2>8, <2>9, <2>a DEF R!Next, R!Deadline
<1>2. QED BY <1>1, RequestsAlways, PTL DEF R!Spec

-----------------------------------------------------------------------------
(* The broker's event streams of a transfer.                               *)

CONSTANTS MaxStreams, Unseen
VARIABLES create, createTries, client, started, record, handler, left, cancelled,
    previous, frames, reading, opened, taken, view, losses

T == INSTANCE WebTransfers WITH
    attempt <- createTries, aborted <- left, troubles <- losses

\* Streams are opened one after another, the browser reads one nobody has aborted unless
\* it is over, and what a watch saw last is a record of the past.
Streaming ==
    /\ handler \in [T!Streams -> {"none", "client", "asking", "sleeping", "ended"}]
    /\ left \subseteq T!Streams /\ cancelled \subseteq left
    /\ opened \in 0 .. MaxStreams /\ reading \in 0 .. opened /\ record \in 0 .. Last
    /\ previous \in [T!Streams -> {T!NoRecord} \union 0 .. record]
    /\ frames \in [T!Streams -> Seq({T!ErrorFrame} \union 0 .. Last)]
    /\ \A s \in T!Streams : s > opened => handler[s] = "none" /\ s \notin left
    /\ reading # 0 /\ handler[reading] # "ended" => reading \notin left

\* Records of a stream only go forward, none after what the watch saw last; one that is
\* still read when it ends has told the end.
Told(s) ==
    LET f == frames[s] IN
    /\ \A i, j \in 1 .. Len(f) : i < j /\ f[j] # T!ErrorFrame => f[i] < f[j]
    /\ handler[s] # "ended" =>
          /\ previous[s] < Last
          /\ \A i \in 1 .. Len(f) : f[i] <= previous[s]
          /\ Len(f) <= IF previous[s] = T!NoRecord THEN 0 ELSE previous[s] + 1
    /\ handler[s] = "ended" =>
          /\ Len(f) <= Last + 2
          /\ reading = s => f # <<>> /\ f[Len(f)] \in {Last, T!ErrorFrame}

\* The types of what creates a transfer.
Creating ==
    /\ create \in {"idle", "sent", "unheard", "created", "refused"}
    /\ createTries \in 1 .. MaxAttempts /\ client \in {"none", "ready", "rejected"}

\* What every step of the broker and the browser keeps.
TransfersInv == Creating /\ Streaming /\ \A s \in T!Streams : Told(s)

\* No stream is open and no record was seen.
LEMMA TransfersInit == T!Limits /\ T!Init => TransfersInv
<1> SUFFICES ASSUME T!Limits, T!Init PROVE TransfersInv  OBVIOUS
<1> USE DEF T!Init, T!Limits
<1>1. Creating  BY DEF Creating
<1>2. Streaming  BY DEF Streaming, T!Streams, T!NoRecord
<1>3. ASSUME NEW s \in T!Streams PROVE Told(s)  BY <1>3, <1>2 DEF Told, T!NoRecord, Streaming
<1>4. QED BY <1>1, <1>2, <1>3 DEF TransfersInv

\* A sequence with one more element at its end.
LEMMA Extended ==
    ASSUME NEW S, NEW f \in Seq(S), NEW e \in S
    PROVE  LET g == Append(f, e) IN
           /\ Len(g) = Len(f) + 1 /\ g[Len(g)] = e /\ g # <<>>
           /\ \A i \in 1 .. Len(f) : g[i] = f[i]
OBVIOUS

\* What a stream has told is the same after a step that leaves it alone.
LEMMA ToldStays ==
    ASSUME NEW s \in T!Streams, Told(s), handler'[s] = handler[s], previous'[s] = previous[s],
           frames'[s] = frames[s], reading' = s => reading = s
    PROVE  Told(s)'
BY DEF Told

\* A stream that is not over can take one more event; nobody reads it once it is aborted.
LEMMA NotOver ==
    ASSUME T!Limits, TransfersInv, NEW s \in T!Streams, handler[s] # "ended"
    PROVE  Len(frames[s]) \in 0 .. Last + 1 /\ (s \in left => reading # s)
<1>1. /\ previous[s] \in {T!NoRecord} \union 0 .. record /\ record \in 0 .. Last
      /\ Len(frames[s]) \in Nat
  BY DEF TransfersInv, Streaming
<1>2. Len(frames[s]) <= IF previous[s] = T!NoRecord THEN 0 ELSE previous[s] + 1
  BY DEF TransfersInv, Told
<1>3. s # 0  BY DEF T!Streams
<1>4. QED BY <1>1, <1>2, <1>3 DEF TransfersInv, Streaming, T!Limits

\* A watch that goes on or gives up without a word.
LEMMA WatchesOnKeeps ==
    ASSUME T!Limits, TransfersInv, NEW s \in T!Streams, handler[s] \notin {"none", "ended"},
           client' \in {"none", "ready", "rejected"},
           UNCHANGED <<create, createTries, record, cancelled, previous, reading, opened,
                       frames>>,
           T!Loop(s) \/ (T!At(s, "sleeping") /\ UNCHANGED left)
    PROVE  TransfersInv'
<1>1. \/ /\ handler' = [handler EXCEPT ![s] = "ended"] /\ left' = left /\ s \in left
      \/ \E state \in {"asking", "sleeping"} :
            handler' = [handler EXCEPT ![s] = state] /\ left' = left
  BY DEF T!Loop, T!Loops, T!Ends, T!At
<1>2. Creating'  BY DEF TransfersInv, Creating
<1>3. Streaming'  BY <1>1 DEF TransfersInv, Streaming
<1>4. ASSUME NEW r \in T!Streams PROVE Told(r)'
  <2>1. CASE r # s  BY <1>1, <2>1, ToldStays DEF TransfersInv, Streaming
  <2>2. CASE r = s
    <3>1. Told(s) /\ frames'[s] = frames[s] /\ previous'[s] = previous[s] /\ reading' = reading
      BY DEF TransfersInv
    <3>2. CASE handler'[s] = "ended"
      <4>1. s \in left  BY <1>1, <3>2 DEF TransfersInv, Streaming
      <4>2. reading # s /\ Len(frames[s]) <= Last + 2
        BY <4>1, NotOver DEF T!Limits
      <4>3. Told(s)'  BY <3>1, <3>2, <4>1, <4>2 DEF Told
      <4>4. QED BY <2>2, <4>3
    <3>3. CASE handler'[s] # "ended"
      <4>1. Told(s)'  BY <3>1, <3>3 DEF Told
      <4>2. QED BY <2>2, <4>1
    <3>4. QED BY <3>2, <3>3
  <2>3. QED BY <2>1, <2>2
<1>5. QED BY <1>2, <1>3, <1>4 DEF TransfersInv

\* A watch that ends with an event: error, if anybody reads it.
LEMMA ErrorKeeps ==
    ASSUME T!Limits, TransfersInv, NEW s \in T!Streams, handler[s] \notin {"none", "ended"},
           client' \in {"none", "ready", "rejected"},
           UNCHANGED <<create, createTries, record, cancelled, previous, reading, opened>>,
           T!Ends(s), T!Enqueue(s, T!ErrorFrame)
    PROVE  TransfersInv'
<1>1. /\ handler' = [handler EXCEPT ![s] = "ended"] /\ left' = left \union {s}
      /\ frames' = IF s \in cancelled THEN frames
                   ELSE [frames EXCEPT ![s] = Append(@, T!ErrorFrame)]
  BY DEF T!Ends, T!At, T!Enqueue
<1>2. Creating'  BY DEF TransfersInv, Creating
<1>t. /\ frames[s] \in Seq({T!ErrorFrame} \union 0 .. Last) /\ Len(frames[s]) <= Last + 1
      /\ Len(frames[s]) \in Nat
  BY NotOver DEF TransfersInv, Streaming, T!Limits
<1>3. Streaming'
  <2>1. frames' \in [T!Streams -> Seq({T!ErrorFrame} \union 0 .. Last)]
    BY <1>1, <1>t DEF TransfersInv, Streaming
  <2>2. QED BY <1>1, <2>1 DEF TransfersInv, Streaming, T!Streams
<1>4. ASSUME NEW r \in T!Streams PROVE Told(r)'
  <2>1. CASE r # s  BY <1>1, <2>1, ToldStays DEF TransfersInv, Streaming
  <2>2. CASE r = s /\ s \in cancelled
    <3>1. reading # s  BY <2>2 DEF TransfersInv, Streaming, T!Streams
    <3>2. handler'[s] = "ended" /\ frames' = frames  BY <1>1, <2>2 DEF TransfersInv, Streaming
    <3>3. Told(s) /\ frames'[s] = frames[s] /\ Len(frames[s]) <= Last + 2 /\ reading' # s
      BY <1>t, <3>1, <3>2 DEF TransfersInv, T!Limits
    <3>4. Told(s)'  BY <3>2, <3>3 DEF Told
    <3>5. QED BY <2>2, <3>4
  <2>3. CASE r = s /\ s \notin cancelled
    <3> DEFINE f == frames[s]
               g == Append(f, T!ErrorFrame)
    <3>1. frames'[s] = g /\ handler'[s] = "ended"
      BY <1>1, <2>3 DEF TransfersInv, Streaming
    <3>2. /\ Len(g) = Len(f) + 1 /\ g[Len(g)] = T!ErrorFrame /\ g # <<>>
          /\ \A i \in 1 .. Len(f) : g[i] = f[i]
      BY <1>t, Extended
    <3>3. \A i, j \in 1 .. Len(f) : i < j /\ f[j] # T!ErrorFrame => f[i] < f[j]
      BY DEF TransfersInv, Told
    <3> HIDE DEF f, g
    <3>4. Len(f) \in Nat /\ Len(f) <= Last + 1  BY <1>t DEF f
    <3>5. \A i, j \in 1 .. Len(g) : i < j /\ g[j] # T!ErrorFrame => g[i] < g[j]
      <4> SUFFICES ASSUME NEW i \in 1 .. Len(g), NEW j \in 1 .. Len(g), i < j, g[j] # T!ErrorFrame
                   PROVE g[i] < g[j]
        OBVIOUS
      <4>1. j # Len(g)  BY <3>2
      <4>2. j \in 1 .. Len(f) /\ i \in 1 .. Len(f)  BY <3>2, <3>4, <4>1
      <4>3. QED BY <3>2, <3>3, <4>2
    <3>6. QED
      BY <2>3, <3>1, <3>2, <3>4, <3>5 DEF Told, T!Limits
  <2>4. QED BY <2>1, <2>2, <2>3
<1>5. QED BY <1>2, <1>3, <1>4 DEF TransfersInv

\* A watch gets its client, wakes, or its status fails.
LEMMA WatchKeeps ==
    ASSUME T!Limits, TransfersInv, NEW s \in T!Streams,
           T!Watch(s) \/ T!StatusFails(s) \/ T!Wake(s)
    PROVE  TransfersInv'
<1>1. CASE T!Watch(s)
  <2>1. client' \in {"none", "ready", "rejected"}
    BY <1>1 DEF T!Watch, T!Resolved, TransfersInv, Creating
  <2>2. QED BY <1>1, <2>1, WatchesOnKeeps, ErrorKeeps DEF T!Watch, T!createVars, T!browserVars
<1>2. CASE T!StatusFails(s)
  BY <1>2, ErrorKeeps DEF T!StatusFails, T!createVars, T!browserVars, TransfersInv, Creating
<1>3. CASE T!Wake(s)
  BY <1>3, WatchesOnKeeps DEF T!Wake, T!Wakes, T!createVars, T!browserVars, TransfersInv, Creating
<1>4. QED BY <1>1, <1>2, <1>3

\* A status that is not yielded is not the terminal one.
LEMMA UnchangedIsNotLast ==
    ASSUME T!Limits, TransfersInv, NEW s \in T!Streams, handler[s] # "ended", ~T!Changed(s)
    PROVE  record # Last
<1>1. /\ previous[s] < Last /\ previous[s] \in 0 .. record /\ record \in Nat
  BY DEF TransfersInv, Streaming, Told, T!Changed
<1>2. CASE previous[s] \in Unseen
  BY <1>1, <1>2 DEF T!Changed, T!Fingerprint, T!Limits
<1>3. CASE previous[s] \notin Unseen
  BY <1>1, <1>3 DEF T!Changed, T!Fingerprint, T!Limits
<1>4. QED BY <1>2, <1>3

\* A status is yielded if it changed; the terminal one ends the watch.
LEMMA StatusKeeps ==
    ASSUME T!Limits, TransfersInv, NEW s \in T!Streams, T!Status(s)
    PROVE  TransfersInv'
<1>u. UNCHANGED <<create, createTries, client, record, cancelled, reading, opened>>
  BY DEF T!Status, T!createVars, T!browserVars
<1>t. /\ handler[s] = "asking" /\ record \in 0 .. Last /\ Last \in Nat
      /\ previous[s] \in {T!NoRecord} \union 0 .. record /\ previous[s] < Last
      /\ frames[s] \in Seq({T!ErrorFrame} \union 0 .. Last) /\ Len(frames[s]) \in Nat
      /\ Len(frames[s]) <= Last
      /\ \A i \in 1 .. Len(frames[s]) : frames[s][i] <= previous[s]
      /\ \A i \in 1 .. Len(frames[s]) : frames[s][i] \in Int
      /\ s \in cancelled => reading # s
  <2>1. /\ handler[s] = "asking" /\ record \in 0 .. Last /\ Last \in Nat
        /\ previous[s] \in {T!NoRecord} \union 0 .. record
        /\ frames[s] \in Seq({T!ErrorFrame} \union 0 .. Last)
        /\ s \in cancelled => s \in left
        /\ Told(s)
    BY DEF T!Status, TransfersInv, Streaming, T!Limits
  <2>2. /\ previous[s] < Last /\ Len(frames[s]) \in Nat
        /\ \A i \in 1 .. Len(frames[s]) : frames[s][i] <= previous[s]
        /\ Len(frames[s]) <= IF previous[s] = T!NoRecord THEN 0 ELSE previous[s] + 1
    BY <2>1 DEF Told
  <2>3. Len(frames[s]) <= Last  BY <2>1, <2>2 DEF T!NoRecord
  <2>4. \A i \in 1 .. Len(frames[s]) : frames[s][i] \in Int
    BY <2>1 DEF T!ErrorFrame
  <2>5. s \in cancelled => reading # s
    BY <2>1 DEF TransfersInv, Streaming, T!Streams
  <2>6. QED BY <2>1, <2>2, <2>3, <2>4, <2>5
<1>1. CASE ~T!Changed(s)
  <2>1. record # Last  BY <1>1, <1>t, UnchangedIsNotLast
  <2>2. QED
    BY <1>1, <1>t, <1>u, <2>1, WatchesOnKeeps DEF T!Status, TransfersInv, Creating
<1>2. CASE T!Changed(s)
  <2>1. /\ frames' = IF s \in cancelled THEN frames
                     ELSE [frames EXCEPT ![s] = Append(@, record)]
        /\ previous' = [previous EXCEPT ![s] = record]
        /\ IF record = Last \/ s \in cancelled
           THEN handler' = [handler EXCEPT ![s] = "ended"] /\ left' = left \union {s}
           ELSE handler' = [handler EXCEPT ![s] = "sleeping"] /\ left' = left
    BY <1>2 DEF T!Status, T!Yield, T!Enqueue, T!Ends, T!At
  <2>2. Creating'  BY <1>u DEF TransfersInv, Creating
  <2>3. Streaming'
    <3>1. frames' \in [T!Streams -> Seq({T!ErrorFrame} \union 0 .. Last)]
      BY <1>t, <2>1 DEF TransfersInv, Streaming
    <3>2. previous' \in [T!Streams -> {T!NoRecord} \union 0 .. record]
      BY <1>t, <2>1 DEF TransfersInv, Streaming
    <3>3. QED BY <1>t, <1>u, <2>1, <3>1, <3>2 DEF TransfersInv, Streaming, T!Streams
  <2>4. previous[s] < record
    BY <1>2, <1>t DEF T!Changed, T!Fingerprint, T!NoRecord
  <2>5. ASSUME NEW r \in T!Streams PROVE Told(r)'
    <3>1. CASE r # s
      BY <1>u, <2>1, <3>1, ToldStays DEF TransfersInv, Streaming
    <3>2. CASE r = s /\ s \in cancelled
      <4>1. handler'[s] = "ended" /\ frames' = frames /\ reading' # s
        BY <1>t, <1>u, <2>1, <3>2 DEF TransfersInv, Streaming
      <4>2. QED BY <1>t, <3>2, <4>1 DEF TransfersInv, Told
    <3>3. CASE r = s /\ s \notin cancelled
      <4> DEFINE f == frames[s]
                 g == Append(f, record)
      <4>1. frames'[s] = g /\ previous'[s] = record
            /\ handler'[s] = IF record = Last THEN "ended" ELSE "sleeping"
        BY <2>1, <3>3 DEF TransfersInv, Streaming
      <4>2. /\ Len(g) = Len(f) + 1 /\ g[Len(g)] = record /\ g # <<>>
            /\ \A i \in 1 .. Len(f) : g[i] = f[i]
        BY <1>t
      <4>3. \A i, j \in 1 .. Len(f) : i < j /\ f[j] # T!ErrorFrame => f[i] < f[j]
        BY DEF TransfersInv, Told
      <4>4. /\ Len(f) \in Nat /\ Len(f) <= Last /\ \A i \in 1 .. Len(f) : f[i] < record
            /\ Len(f) <= IF previous[s] = T!NoRecord THEN 0 ELSE previous[s] + 1
        <5>1. \A i \in 1 .. Len(f) : f[i] < record
          BY <1>t, <2>4 DEF T!NoRecord
        <5>2. QED BY <1>t, <5>1 DEF TransfersInv, Told
      <4> HIDE DEF f, g
      <4>5. \A i, j \in 1 .. Len(g) : i < j /\ g[j] # T!ErrorFrame => g[i] < g[j]
        <5> SUFFICES ASSUME NEW i \in 1 .. Len(g), NEW j \in 1 .. Len(g), i < j,
                            g[j] # T!ErrorFrame
                     PROVE  g[i] < g[j]
          OBVIOUS
        <5>1. i \in 1 .. Len(f)  BY <4>2, <4>4
        <5>2. CASE j = Len(g)  BY <4>2, <4>4, <5>1, <5>2
        <5>3. CASE j # Len(g)
          <6>1. j \in 1 .. Len(f)  BY <4>2, <4>4, <5>3
          <6>2. QED BY <4>2, <4>3, <5>1, <6>1
        <5>4. QED BY <5>2, <5>3
      <4>6. \A i \in 1 .. Len(g) : g[i] <= record
        <5> SUFFICES ASSUME NEW i \in 1 .. Len(g) PROVE g[i] <= record  OBVIOUS
        <5>1. CASE i = Len(g)  BY <1>t, <4>2, <5>1
        <5>2. CASE i # Len(g)
          <6>1. i \in 1 .. Len(f)  BY <4>2, <4>4, <5>2
          <6>2. g[i] < record /\ g[i] \in Int  BY <1>t, <4>2, <4>4, <6>1 DEF f
          <6>3. QED BY <1>t, <6>2
        <5>3. QED BY <5>1, <5>2
      <4>7. Len(g) <= record + 1 /\ Len(g) <= Last + 2
        BY <1>t, <2>4, <4>2, <4>4 DEF T!NoRecord
      <4>8. QED
        BY <1>t, <3>3, <4>1, <4>2, <4>5, <4>6, <4>7 DEF Told, T!NoRecord
    <3>4. QED BY <3>1, <3>2, <3>3
  <2>6. QED BY <2>2, <2>3, <2>5 DEF TransfersInv
<1>3. QED BY <1>1, <1>2

\* transfers.create and BeamCore.
LEMMA CreateKeeps ==
    ASSUME T!Limits, TransfersInv,
           \/ T!Create \/ T!HandleCreate(TRUE) \/ T!HandleCreate(FALSE)
           \/ T!CreateLost \/ T!Retry \/ T!Advance
    PROVE  TransfersInv'
<1>1. /\ UNCHANGED <<handler, left, cancelled, previous, frames, reading, opened>>
      /\ record' \in {record, record + 1} /\ record' \in 0 .. Last
  BY DEF T!Create, T!HandleCreate, T!CreateLost, T!Retry, T!Advance, T!streamVars, T!browserVars,
         TransfersInv, Streaming, T!Limits
<1>2. Creating'
  BY
  DEF TransfersInv, Creating, T!Create, T!HandleCreate, T!CreateLost, T!Retry, T!Advance,
      T!Resolved,
         T!createVars, T!Limits
<1>3. Streaming'
  <2>1. 0 .. record \subseteq 0 .. record'  BY <1>1 DEF TransfersInv, Streaming
  <2>2. QED BY <1>1, <2>1 DEF TransfersInv, Streaming
<1>4. ASSUME NEW s \in T!Streams PROVE Told(s)'  BY <1>1, ToldStays DEF TransfersInv
<1>5. QED BY <1>2, <1>3, <1>4 DEF TransfersInv

\* The page opens, reads and leaves a stream, and polls after the last one.
LEMMA BrowserKeeps ==
    ASSUME T!Limits, TransfersInv, T!Browser \/ T!Disconnect(TRUE) \/ T!Disconnect(FALSE)
    PROVE  TransfersInv'
<1>1. Creating'
  BY
  DEF TransfersInv, Creating, T!Browser, T!Connect, T!Read, T!ReadEnd, T!Poll, T!Disconnect,
      T!createVars
<1>2. CASE T!Connect
  <2>1. /\ opened < MaxStreams /\ opened' = opened + 1 /\ reading' = opened + 1
        /\ handler' = [handler EXCEPT ![opened + 1] = "client"]
        /\ UNCHANGED <<record, left, cancelled, previous, frames>>
    BY <1>2 DEF T!Connect, T!At
  <2>2. /\ opened + 1 \in T!Streams /\ handler[opened + 1] = "none" /\ opened + 1 \notin left
        /\ opened \in Nat /\ MaxStreams \in Nat
    BY <2>1 DEF TransfersInv, Streaming, T!Streams, T!Limits
  <2>3. Streaming'  BY <2>1, <2>2 DEF TransfersInv, Streaming, T!Streams
  <2>4. ASSUME NEW s \in T!Streams PROVE Told(s)'
    <3>1. CASE s # opened + 1  BY <2>1, <3>1, ToldStays DEF TransfersInv, Streaming
    <3>2. CASE s = opened + 1
      <4>1. handler'[s] = "client" /\ handler[s] = "none"
        BY <2>1, <2>2, <3>2 DEF TransfersInv, Streaming
      <4>2. QED BY <2>1, <4>1 DEF TransfersInv, Told
    <3>3. QED BY <3>1, <3>2
  <2>5. QED BY <1>1, <2>3, <2>4 DEF TransfersInv
<1>3. CASE T!Read \/ T!ReadEnd \/ T!Poll
  <2>1. UNCHANGED <<record, handler, left, cancelled, previous, frames, opened>>
        /\ reading' \in {0, reading}
    BY <1>3 DEF T!Read, T!ReadEnd, T!Poll, T!streamVars
  <2>2. Streaming'  BY <2>1 DEF TransfersInv, Streaming
  <2>3. ASSUME NEW s \in T!Streams PROVE Told(s)'
    BY <2>1, ToldStays DEF TransfersInv, T!Streams
  <2>4. QED BY <1>1, <2>2, <2>3 DEF TransfersInv
<1>4. CASE T!Disconnect(TRUE) \/ T!Disconnect(FALSE)
  <2>1. /\ reading # 0 /\ left' = left \union {reading}
        /\ cancelled' \in {cancelled, cancelled \union {reading}} /\ reading' = 0
        /\ UNCHANGED <<record, handler, previous, frames, opened>>
    BY <1>4 DEF T!Disconnect
  <2>2. reading \in T!Streams /\ reading <= opened
    BY <2>1 DEF TransfersInv, Streaming, T!Streams, T!Limits
  <2>3. Streaming'  BY <2>1, <2>2 DEF TransfersInv, Streaming, T!Streams
  <2>4. ASSUME NEW s \in T!Streams PROVE Told(s)'
    BY <2>1, ToldStays DEF TransfersInv, T!Streams
  <2>5. QED BY <1>1, <2>3, <2>4 DEF TransfersInv
<1>5. QED BY <1>2, <1>3, <1>4 DEF T!Browser

\* TransfersInv is inductive.
LEMMA TransfersNext == T!Limits /\ TransfersInv /\ [T!Next]_(T!vars) => TransfersInv'
<1> SUFFICES ASSUME T!Limits, TransfersInv, [T!Next]_(T!vars) PROVE TransfersInv'  OBVIOUS
<1>1. CASE T!Next
  BY <1>1, WatchKeeps, StatusKeeps, CreateKeeps, BrowserKeeps DEF T!Next, T!Broker
<1>2. CASE UNCHANGED T!vars
  <2>1. UNCHANGED <<create, createTries, client, record, handler, left, cancelled, previous,
                    frames, reading, opened>>
    BY <1>2 DEF T!vars, T!createVars, T!streamVars, T!browserVars
  <2>2. Creating' /\ Streaming'  BY <2>1 DEF TransfersInv, Creating, Streaming
  <2>3. ASSUME NEW s \in T!Streams PROVE Told(s)'  BY <2>1, ToldStays DEF TransfersInv
  <2>4. QED BY <2>2, <2>3 DEF TransfersInv
<1>3. QED BY <1>1, <1>2

\* A stream that the broker ends without an error event has told the end of the transfer,
\* and its records go only forward (beam-sdk.ts watchTransfer, broker.ts
\* handleTransferEvents).
THEOREM CleanEnds ==
    ASSUME T!Limits
    PROVE  T!Spec => [](T!TypeOK /\ T!CleanEndIsTerminal)
<1>1. T!Init => TransfersInv  BY TransfersInit
<1>2. TransfersInv /\ [T!Next]_(T!vars) => TransfersInv'  BY TransfersNext
<1>3. ASSUME TransfersInv PROVE T!TypeOK /\ T!CleanEndIsTerminal
  <2>1. \A s \in T!Streams : Len(frames[s]) <= Last + 2
    <3> SUFFICES ASSUME NEW s \in T!Streams PROVE Len(frames[s]) <= Last + 2  OBVIOUS
    <3>1. CASE handler[s] = "ended"  BY <1>3, <3>1 DEF TransfersInv, Told
    <3>2. CASE handler[s] # "ended"
      BY <1>3, <3>2, NotOver DEF T!Limits
    <3>3. QED BY <3>1, <3>2
  <2>2. T!TypeOK  BY <1>3, <2>1 DEF TransfersInv, Creating, Streaming, T!TypeOK
  <2>3. T!CleanEndIsTerminal  BY <1>3 DEF TransfersInv, Told, T!CleanEndIsTerminal
  <2>4. QED BY <2>2, <2>3
<1>4. QED BY <1>1, <1>2, <1>3, PTL DEF T!Spec

\* BeamCore is not asked for a reader that has gone: at most the request under way is
\* finished (broker.ts handleTransferEvents, watchTransfer).
THEOREM NobodyPolled ==
    ASSUME T!Limits
    PROVE  T!Spec => [][T!NoPollForNobody]_(T!vars)
<1>1. T!Init => TransfersInv  BY TransfersInit
<1>2. TransfersInv /\ [T!Next]_(T!vars) => TransfersInv'  BY TransfersNext
<1>3. ASSUME TransfersInv, T!Next PROVE T!NoPollForNobody
  <2> SUFFICES ASSUME NEW s \in T!Streams, s \in left, handler[s] # "asking",
                      handler'[s] = "asking"
               PROVE  FALSE
    BY DEF T!NoPollForNobody
  <2>t. handler \in [T!Streams -> {"none", "client", "asking", "sleeping", "ended"}]
        /\ opened \in Nat
    BY <1>3 DEF TransfersInv, Streaming
  <2>1. ASSUME NEW r \in T!Streams, NEW state, T!At(r, state), state # "asking" PROVE FALSE
    BY <2>t, <2>1 DEF T!At
  <2>2. ASSUME NEW r \in T!Streams, T!Loop(r) PROVE FALSE
    <3>1. CASE r \in left  BY <2>1, <2>2, <3>1 DEF T!Loop, T!Loops, T!Ends
    <3>2. CASE r \notin left
      BY <2>t, <2>2, <3>2 DEF T!Loop, T!Loops, T!At
    <3>3. QED BY <3>1, <3>2
  <2>3. CASE \E r \in T!Streams : T!Broker(r) \/ T!StatusFails(r)
    BY <2>1, <2>2, <2>3 DEF T!Broker, T!Watch, T!Status, T!Wake, T!Wakes, T!StatusFails, T!Ends
  <2>4. CASE T!Browser
    BY <2>t, <2>4 DEF T!Browser, T!Connect, T!Read, T!ReadEnd, T!Poll, T!streamVars, T!At
  <2>5. CASE \/ T!Create \/ T!HandleCreate(TRUE) \/ T!HandleCreate(FALSE)
             \/ T!CreateLost \/ T!Retry \/ T!Advance
             \/ T!Disconnect(TRUE) \/ T!Disconnect(FALSE)
    BY <2>5
    DEF T!Create, T!HandleCreate, T!CreateLost, T!Retry, T!Advance, T!Disconnect, T!streamVars
  <2>6. QED BY <1>3, <2>3, <2>4, <2>5 DEF T!Next
<1>4. QED BY <1>1, <1>2, <1>3, PTL DEF T!Spec

-----------------------------------------------------------------------------
(* A broadcast.                                                            *)

VARIABLES call, peer, resource, closing, deletes, slot, located, failures

B == INSTANCE WebBroadcast WITH troubles <- failures

\* A call has its peer until it has failed, and a resource from when it is live; what is
\* closed has been deleted once, or has nothing to delete.
BroadcastInv ==
    /\ call \in {"idle", "resolving", "offering", "posted", "body", "remote", "live", "failed"}
    /\ peer \in {"none", "open", "closed"} /\ closing \in {"no", "deleting", "done"}
    /\ failures \in Nat /\ deletes \in 0 .. 1
    /\ closing \in {"no", "deleting"} => deletes = 0
    /\ closing # "no" => call \in {"live", "failed"} /\ peer = "closed" /\ resource = FALSE
    /\ call \in {"idle", "resolving"} => peer = "none"
    /\ call \in {"offering", "posted", "body", "remote"} => peer = "open" /\ closing = "no"
    /\ call = "failed" => peer # "open"
    /\ call # "live" => resource = FALSE /\ deletes = 0 /\ closing # "deleting"
    /\ call = "live" /\ closing = "no" => resource = located
    /\ call = "live" /\ closing = "done" /\ located /\ slot => failures > 0

\* A broadcast begins with nothing.
LEMMA BroadcastInit == B!Init => BroadcastInv
BY DEF B!Init, BroadcastInv

\* BroadcastInv is inductive.
LEMMA BroadcastNext == BroadcastInv /\ [B!Next]_(B!vars) => BroadcastInv'
<1> SUFFICES ASSUME BroadcastInv, [B!Next]_(B!vars) PROVE BroadcastInv'  OBVIOUS
<1> USE DEF BroadcastInv
<1>1. CASE B!Begin  BY <1>1 DEF B!Begin
<1>2. CASE B!Resolved  BY <1>2 DEF B!Resolved
<1>3. CASE B!Gathered \/ B!Answered  BY <1>3 DEF B!Gathered, B!Answered
<1>4. CASE B!RelayAnswers(TRUE) \/ B!RelayAnswers(FALSE)  BY <1>4 DEF B!RelayAnswers
<1>5. CASE B!Live  BY <1>5 DEF B!Live
<1>6. CASE B!Fails
  <2>1. call' = "failed" /\ failures' = failures + 1 /\ deletes' = deletes
        /\ slot' = slot /\ located' = located
    BY <1>6 DEF B!Fails, B!Trouble
  <2>2. CASE peer = "open"
    BY <1>6, <2>1, <2>2 DEF B!Fails, B!Caught, B!CloseNow
  <2>3. CASE peer # "open"
    BY <1>6, <2>1, <2>3 DEF B!Fails, B!Caught
  <2>4. QED BY <2>2, <2>3
<1>7. CASE B!Close  BY <1>7 DEF B!Close, B!CloseNow, B!Closed
<1>8. CASE B!Delete(TRUE)  BY <1>8 DEF B!Delete
<1>9. CASE B!Delete(FALSE)  BY <1>9 DEF B!Delete, B!Trouble
<1>10. CASE UNCHANGED B!vars  BY <1>10 DEF B!vars
<1>11. QED
  BY <1>1, <1>2, <1>3, <1>4, <1>5, <1>6, <1>7, <1>8, <1>9, <1>10 DEF B!Next

\* A broadcast that failed or was closed leaves no peer connection open.  A connection that was
\* live and is closed keeps the relay's slot only where the answer had no Location or the one
\* DELETE failed; a publish or watch that failed sends no DELETE, so it leaves what it took to
\* the relay (broadcast/index.ts close and exchangeSdp).
THEOREM BroadcastReleased == B!Spec => [](B!NoPeerLeft /\ B!SlotReleased)
<1>1. BroadcastInv => B!NoPeerLeft /\ B!SlotReleased
  BY DEF BroadcastInv, B!NoPeerLeft, B!SlotReleased
<1>2. QED BY <1>1, BroadcastInit, BroadcastNext, PTL DEF B!Spec

-----------------------------------------------------------------------------
(* The life of a Beam Web Token.                                           *)

CONSTANTS Scopes, MinTtl, DefaultTtl, MaxTtl, Tolerance, Margin, Ttls, Drifts, Skews,
    MaxChanges, MaxTime
VARIABLES now, drift, skew, session, changes, lost, granting, reply, token, verdict

Broker == INSTANCE WebBroker WITH outcome <- verdict

\* A token was minted in the past, with a lifetime within the limits, for scopes that
\* authorize() granted some time before: one that is granted no longer was lost since then.
Honest(t) ==
    \/ t = Broker!NoToken
    \/ /\ t.iat \in 0 .. now /\ t.exp \in Int /\ t.exp - t.iat \in MinTtl .. MaxTtl
       /\ t.at \in 0 .. t.iat /\ t.scopes \in SUBSET Scopes /\ t.scopes # {}
       /\ \A s \in t.scopes : s \in session \/ t.at <= lost[s]

\* So is what a request for a token holds while its body arrives.
Issuing ==
    \/ granting = Broker!NoSession
    \/ /\ granting.at \in 0 .. now /\ granting.asked \in Ttls
       /\ granting.scopes \in SUBSET Scopes
       /\ \A s \in granting.scopes : s \in session \/ granting.at <= lost[s]

\* What every step of the browser, the application and the verifier keeps.
BrokerInv ==
    /\ now \in 0 .. MaxTime /\ drift \in Int /\ skew \in Int
    /\ session \in SUBSET Scopes /\ lost \in [Scopes -> Int]
    /\ Issuing /\ Honest(reply) /\ Honest(token)
    /\ Broker!RevocationBound /\ Broker!UsableIsAccepted

\* The numbers of the configuration.
LEMMA BrokerNumbers ==
    ASSUME Broker!Limits
    PROVE  /\ MinTtl \in Nat /\ DefaultTtl \in Nat /\ MaxTtl \in Nat /\ Tolerance \in Nat
           /\ MaxTime \in Nat /\ Margin \in Int
           /\ Ttls \subseteq Int /\ Drifts \subseteq Int /\ Skews \subseteq Int
BY DEF Broker!Limits

\* Whoever is let in with a token holds a scope that is granted, or was until less than
\* the longest lifetime, the tolerance and the delay of the token's mint ago.
LEMMA LetIn ==
    ASSUME Broker!Limits, BrokerInv, NEW scope, Broker!VerifyToken(token, scope) = "ok"
    PROVE  \/ scope \in session
           \/ Broker!Clock - lost[scope] < MaxTtl + Tolerance + Broker!HeldUp(token)
<1>1. token # Broker!NoToken /\ ~Broker!Expired(token) /\ scope \in token.scopes
  BY DEF Broker!VerifyToken
<1>2. Honest(token)  BY DEF BrokerInv
<1>3. /\ token.iat \in Int /\ token.exp \in Int /\ token.exp - token.iat <= MaxTtl
      /\ token.at \in Int /\ scope \in Scopes
      /\ scope \in session \/ token.at <= lost[scope]
  BY <1>1, <1>2, BrokerNumbers DEF Honest
<1>4. lost[scope] \in Int /\ now \in Int /\ drift \in Int  BY <1>3, BrokerNumbers DEF BrokerInv
<1>5. token.exp + Tolerance > now + drift
  BY <1>1, <1>3, <1>4, BrokerNumbers DEF Broker!Expired, Broker!Clock
<1>6. QED BY <1>3, <1>4, <1>5, BrokerNumbers DEF Broker!Clock, Broker!HeldUp

\* A token that is usable for the browser is one the verifier accepts, when the clocks
\* differ by no more than the tolerance.
LEMMA Accepted ==
    ASSUME Broker!Limits, BrokerInv, NEW scope, token # Broker!NoToken,
           Broker!IsTokenUsable(token), scope \in token.scopes,
           drift >= -Tolerance, drift - skew <= Tolerance + Margin
    PROVE  Broker!VerifyToken(token, scope) = "ok"
<1>1. /\ token.iat \in 0 .. now /\ token.exp \in Int /\ token.exp - token.iat <= MaxTtl
      /\ now \in Int /\ drift \in Int /\ skew \in Int
  BY BrokerNumbers DEF BrokerInv, Honest
<1>2. token.exp - (now + skew) > Margin
  BY DEF Broker!IsTokenUsable, Broker!BrowserClock
<1>3. ~Broker!Expired(token)
  BY <1>1, <1>2, BrokerNumbers DEF Broker!Expired, Broker!Clock
<1>4. ~Broker!IssuedLater(token)
  BY <1>1, BrokerNumbers DEF Broker!IssuedLater, Broker!Clock
<1>5. ~Broker!TooLong(token)
  BY <1>1, BrokerNumbers DEF Broker!TooLong
<1>6. QED BY <1>3, <1>4, <1>5 DEF Broker!VerifyToken

\* There is no token yet.
LEMMA BrokerInit == Broker!Limits /\ Broker!Init => BrokerInv
<1> SUFFICES ASSUME Broker!Limits, Broker!Init PROVE BrokerInv  OBVIOUS
<1> USE DEF Broker!Init
<1>1. now \in 0 .. MaxTime /\ drift \in Int /\ skew \in Int /\ session \in SUBSET Scopes
  BY BrokerNumbers
<1>2. lost \in [Scopes -> Int]  BY BrokerNumbers
<1>3. Issuing /\ Honest(reply) /\ Honest(token)  BY DEF Issuing, Honest
<1>4. Broker!RevocationBound /\ Broker!UsableIsAccepted
  BY DEF Broker!RevocationBound, Broker!UsableIsAccepted, Broker!NoOutcome
<1>5. QED BY <1>1, <1>2, <1>3, <1>4 DEF BrokerInv

\* A verdict that lets nobody in says nothing that has to be kept.
LEMMA NoVerdict ==
    ASSUME \/ verdict' = Broker!NoOutcome
           \/ verdict' = [Broker!NoOutcome EXCEPT !.code = "not_minted"]
    PROVE  Broker!RevocationBound' /\ Broker!UsableIsAccepted'
BY DEF Broker!RevocationBound, Broker!UsableIsAccepted, Broker!NoOutcome

\* authorize() answers now, with what the session has now.
LEMMA HandleTokenKeeps ==
    ASSUME Broker!Limits, BrokerInv, NEW asking \in Ttls, Broker!HandleToken(asking)
    PROVE  BrokerInv'
<1>1. UNCHANGED <<now, drift, skew, session, changes, lost, token>> /\ reply' = reply
  BY DEF Broker!HandleToken, Broker!appVars, Broker!NotMinted
<1>2. Honest(token)' /\ Honest(reply)'  BY <1>1 DEF BrokerInv, Honest
<1>3. CASE session # {}
  <2>1. /\ granting' = [scopes |-> session, asked |-> asking, at |-> now]
        /\ verdict' = verdict
    BY <1>3 DEF Broker!HandleToken
  <2>2. now \in 0 .. now  BY BrokerNumbers DEF BrokerInv
  <2>3. Issuing'  BY <1>1, <2>1, <2>2 DEF BrokerInv, Issuing
  <2>4. Broker!RevocationBound' /\ Broker!UsableIsAccepted'
    BY <1>1, <2>1
    DEF BrokerInv, Broker!RevocationBound, Broker!UsableIsAccepted, Broker!Clock,
        Broker!HeldUp
  <2>5. QED BY <1>1, <1>2, <2>3, <2>4 DEF BrokerInv
<1>4. CASE ~(session # {})
  <2>1. granting' = granting /\ verdict' = [Broker!NoOutcome EXCEPT !.code = "not_minted"]
    BY <1>4 DEF Broker!HandleToken, Broker!NotMinted
  <2>2. Issuing'  BY <1>1, <2>1 DEF BrokerInv, Issuing
  <2>3. QED BY <1>1, <1>2, <2>1, <2>2, NoVerdict DEF BrokerInv
<1>5. QED BY <1>3, <1>4

\* A token is minted now, for what authorize() granted before the body arrived, with a
\* capped lifetime.
LEMMA MintTokenKeeps ==
    ASSUME Broker!Limits, BrokerInv, NEW requested \in SUBSET Scopes,
           NEW readable \in BOOLEAN, Broker!MintToken(requested, readable)
    PROVE  BrokerInv'
<1> DEFINE granted == granting.scopes \intersect requested
           life == Broker!Ttl(granting.asked)
<1>1. /\ UNCHANGED <<now, drift, skew, session, changes, lost, token>>
      /\ granting # Broker!NoSession /\ granting' = Broker!NoSession
  BY DEF Broker!MintToken, Broker!appVars
<1>2. Honest(token)' /\ Issuing'  BY <1>1 DEF BrokerInv, Honest, Issuing
<1>3. CASE readable /\ granted # {} /\ life >= MinTtl
  <2>1. /\ reply' = [scopes |-> granted, at |-> granting.at, iat |-> now,
                     exp |-> now + life]
        /\ verdict' = verdict
    BY <1>3 DEF Broker!MintToken
  <2>2. /\ granting.at \in 0 .. now /\ granting.asked \in Ttls
        /\ granting.scopes \in SUBSET Scopes
        /\ \A s \in granting.scopes : s \in session \/ granting.at <= lost[s]
    BY <1>1 DEF BrokerInv, Issuing
  <2>3. life \in MinTtl .. MaxTtl
    BY <1>3, <2>2, BrokerNumbers DEF Broker!Ttl
  <2>4. granted \in SUBSET Scopes /\ \A s \in granted : s \in session \/ granting.at <= lost[s]
    BY <2>2
  <2>5. now \in 0 .. now /\ now \in Int  BY BrokerNumbers DEF BrokerInv
  <2> HIDE DEF granted, life
  <2>6. Honest(reply)'
    <3>1. /\ reply'.iat = now /\ reply'.exp = now + life /\ reply'.at = granting.at
          /\ reply'.scopes = granted
      BY <2>1
    <3>2. reply'.exp - reply'.iat = life /\ reply'.exp \in Int
      BY <2>3, <2>5, <3>1, BrokerNumbers
    <3>3. QED BY <1>1, <1>3, <2>2, <2>3, <2>4, <2>5, <3>1, <3>2 DEF Honest
  <2>7. Broker!RevocationBound' /\ Broker!UsableIsAccepted'
    BY <1>1, <2>1
    DEF BrokerInv, Broker!RevocationBound, Broker!UsableIsAccepted, Broker!Clock,
        Broker!HeldUp
  <2>8. QED BY <1>1, <1>2, <2>6, <2>7 DEF BrokerInv
<1>4. CASE ~(readable /\ granted # {} /\ life >= MinTtl)
  <2>1. reply' = reply /\ verdict' = [Broker!NoOutcome EXCEPT !.code = "not_minted"]
    BY <1>4 DEF Broker!MintToken, Broker!NotMinted
  <2>2. Honest(reply)'  BY <1>1, <2>1 DEF BrokerInv, Honest
  <2>3. QED BY <1>1, <1>2, <2>1, <2>2, NoVerdict DEF BrokerInv
<1>5. QED BY <1>3, <1>4

\* The browser takes the token, or forgets it.
LEMMA ReceiveKeeps ==
    ASSUME BrokerInv, Broker!Receive \/ Broker!Invalidate
    PROVE  BrokerInv'
<1>1. /\ UNCHANGED <<now, drift, skew, session, changes, lost, granting>>
      /\ verdict' = Broker!NoOutcome
      /\ token' \in {token, reply, Broker!NoToken} /\ reply' \in {reply, Broker!NoToken}
  BY DEF Broker!Receive, Broker!Invalidate, Broker!appVars
<1>2. Issuing' /\ Honest(reply)' /\ Honest(token)'
  BY <1>1 DEF BrokerInv, Issuing, Honest, Broker!NoToken
<1>3. QED BY <1>1, <1>2, NoVerdict DEF BrokerInv

\* A request with the token, usable or late, is verified.
LEMMA RequestKeeps ==
    ASSUME Broker!Limits, BrokerInv, NEW scope \in Scopes,
           Broker!Request(scope) \/ Broker!LateRequest(scope)
    PROVE  BrokerInv'
<1>1. /\ UNCHANGED <<now, drift, skew, session, changes, lost, granting, reply, token>>
      /\ token # Broker!NoToken
      /\ verdict'.code = Broker!VerifyToken(token, scope) /\ verdict'.scope = scope
      /\ verdict'.usable => Broker!IsTokenUsable(token) /\ scope \in token.scopes
  <2>1. CASE Broker!Request(scope)
    <3>1. PICK carried : carried = (scope \in token.scopes)  OBVIOUS
    <3>2. /\ verdict' = [code |-> Broker!VerifyToken(token, scope), scope |-> scope,
                         usable |-> carried]
          /\ token # Broker!NoToken /\ Broker!IsTokenUsable(token)
          /\ UNCHANGED <<now, drift, skew, session, changes, lost, granting, reply, token>>
      BY <2>1, <3>1 DEF Broker!Request, Broker!appVars
    <3>3. QED BY <3>1, <3>2
  <2>2. CASE Broker!LateRequest(scope)
    BY <2>2 DEF Broker!LateRequest, Broker!appVars
  <2>3. QED BY <2>1, <2>2
<1>2. Issuing' /\ Honest(reply)' /\ Honest(token)'  BY <1>1 DEF BrokerInv, Issuing, Honest
<1>3. Broker!RevocationBound'
  BY <1>1, LetIn DEF Broker!RevocationBound, Broker!Clock, Broker!HeldUp
<1>4. Broker!UsableIsAccepted'
  BY <1>1, Accepted DEF Broker!UsableIsAccepted
<1>5. QED BY <1>1, <1>2, <1>3, <1>4 DEF BrokerInv

\* What a session loses it loses now, after every answer of authorize().
LEMMA AuthorizeKeeps ==
    ASSUME Broker!Limits, BrokerInv, NEW scopes \in SUBSET Scopes, Broker!Authorize(scopes)
    PROVE  BrokerInv'
<1>1. /\ UNCHANGED <<now, drift, skew, granting, reply, token>> /\ session' = scopes
      /\ lost' = [s \in Scopes |-> IF s \in session \ scopes THEN now ELSE lost[s]]
      /\ verdict' = Broker!NoOutcome
  BY DEF Broker!Authorize
<1>2. lost' \in [Scopes -> Int]  BY <1>1, BrokerNumbers DEF BrokerInv
<1>3. ASSUME NEW t, Honest(t), t # Broker!NoToken, NEW s \in t.scopes
      PROVE  s \in session' \/ t.at <= lost'[s]
  <2>1. s \in Scopes /\ t.at <= now /\ (s \in session \/ t.at <= lost[s])
    BY <1>3, BrokerNumbers DEF Honest, BrokerInv
  <2>2. QED BY <1>1, <2>1
<1>g. ASSUME granting # Broker!NoSession, NEW s \in granting.scopes
      PROVE  s \in session' \/ granting.at <= lost'[s]
  <2>1. s \in Scopes /\ granting.at <= now /\ (s \in session \/ granting.at <= lost[s])
    BY <1>g, BrokerNumbers DEF Issuing, BrokerInv
  <2>2. QED BY <1>1, <2>1
<1>h. Issuing'  BY <1>1, <1>g DEF BrokerInv, Issuing
<1>4. Honest(reply)' /\ Honest(token)'
  BY <1>1, <1>3 DEF BrokerInv, Honest
<1>5. QED BY <1>1, <1>2, <1>4, <1>h, NoVerdict DEF BrokerInv

\* Time passes: a token grows older.
LEMMA TickKeeps ==
    ASSUME Broker!Limits, BrokerInv, Broker!Tick
    PROVE  BrokerInv'
<1>1. /\ UNCHANGED <<drift, skew, session, changes, lost, granting, reply, token>>
      /\ now < MaxTime
      /\ now' = now + 1 /\ verdict' = Broker!NoOutcome
  BY DEF Broker!Tick, Broker!appVars
<1>2. now' \in 0 .. MaxTime /\ 0 .. now \subseteq 0 .. now'
  BY <1>1, BrokerNumbers DEF BrokerInv
<1>3. Issuing' /\ Honest(reply)' /\ Honest(token)'
  BY <1>1, <1>2 DEF BrokerInv, Issuing, Honest
<1>4. QED BY <1>1, <1>2, <1>3, NoVerdict DEF BrokerInv

\* BrokerInv is inductive.
LEMMA BrokerNext ==
    Broker!Limits /\ BrokerInv /\ [Broker!Next]_(Broker!vars) => BrokerInv'
<1> SUFFICES ASSUME Broker!Limits, BrokerInv, [Broker!Next]_(Broker!vars) PROVE BrokerInv'
  OBVIOUS
<1>1. CASE Broker!Next
  BY <1>1, HandleTokenKeeps, MintTokenKeeps, ReceiveKeeps, RequestKeeps, AuthorizeKeeps,
     TickKeeps
  DEF Broker!Next
<1>2. CASE UNCHANGED Broker!vars
  <2>1. UNCHANGED <<now, drift, skew, session, lost, granting, reply, token, verdict>>
    BY <1>2 DEF Broker!vars, Broker!appVars
  <2>2. Issuing' /\ Honest(reply)' /\ Honest(token)'
    BY <2>1 DEF BrokerInv, Issuing, Honest
  <2>3. Broker!RevocationBound' /\ Broker!UsableIsAccepted'
    BY <2>1
    DEF BrokerInv, Broker!RevocationBound, Broker!UsableIsAccepted, Broker!Clock,
        Broker!HeldUp
  <2>4. QED BY <2>1, <2>2, <2>3 DEF BrokerInv
<1>3. QED BY <1>1, <1>2

\* A permission that the application withdrew is exercised for less than the longest
\* lifetime, the tolerance and the time for which the request's body held up the mint
\* between authorize()'s answer and the token's time of issue; and a token that the
\* browser still uses is accepted while the clocks agree (createBeamBroker, mintToken,
\* verifyToken; core/auth/provider.ts).
THEOREM WithdrawnInTime ==
    ASSUME Broker!Limits
    PROVE  Broker!Spec => [](Broker!TypeOK /\ Broker!RevocationBound /\ Broker!UsableIsAccepted)
<1>1. Broker!Init => BrokerInv  BY BrokerInit
<1>2. BrokerInv /\ [Broker!Next]_(Broker!vars) => BrokerInv'  BY BrokerNext
<1>3. BrokerInv => Broker!TypeOK /\ Broker!RevocationBound /\ Broker!UsableIsAccepted
  BY BrokerNumbers
  DEF BrokerInv, Issuing, Honest, Broker!TypeOK, Broker!Token, Broker!NoSession
<1>4. QED BY <1>1, <1>2, <1>3, PTL DEF Broker!Spec

-----------------------------------------------------------------------------
(* A room: connect() and what leave() does to it between its awaits.       *)

CONSTANTS MaxRoom, MaxHitches
VARIABLES join, gone, standing, media, owned, mediaState, known, place, leave, during, undeleted,
    events, resumable, unheard, queue, running, pending, drain, offered, room, told, agreed,
    missed, restarting, hitches

Room == INSTANCE WebRoom WITH
    aborted <- gone, state <- standing, peer <- media, pc <- mediaState, slot <- place,
    lost <- undeleted, stream <- events, run <- drain, failed <- missed, troubles <- hitches,
    MaxTroubles <- MaxHitches

RoomTyped ==
    /\ Room!TypeOK
    /\ room \in Nat /\ offered \in 0 .. room /\ hitches \in Nat
    /\ gone \in BOOLEAN /\ owned \in BOOLEAN /\ pending \in BOOLEAN /\ missed \in BOOLEAN
    /\ undeleted \in BOOLEAN /\ resumable \in BOOLEAN /\ unheard \in BOOLEAN

\* Who was told to leave: the place where connect() was, and what it does no more.
Leaving ==
    /\ gone <=> leave # "no"
    /\ gone <=> during # "none"
    /\ gone => join \notin {"ice", "post"} /\ events \in {"none", "over"}
    /\ leave = "deleting" => known
    /\ join = "failed" => gone
    /\ known => join \in {"remote", "joined", "failed"}

\* The peer connection: a session that has been left keeps one open only when it was made
\* after the end of leave(), of which connect() does not hear before it has gathered.
Media ==
    /\ media = "open" <=> owned
    /\ ~gone => /\ join \in {"ice", "iceBody"} => media = "none"
                /\ join \notin {"ice", "iceBody"} => media = "open"
    /\ gone /\ join = "iceBody" => leave = "done" /\ media = "none" /\ during = "iceBody"
    /\ leave = "deleting" => media # "none"
    /\ leave = "done" /\ media = "open" =>
          join \in {"offer", "failed"} /\ ~known /\ during = "iceBody"

\* The participant at the SFU: known to the session, or to be asked for, or left there.
Place ==
    /\ place /\ ~gone => known \/ join \in {"post", "postBody"}
    /\ place /\ gone => leave = "deleting" \/ undeleted \/ during \in {"post", "postBody"}

\* The queue, made with the event stream when the session is joined: what is told after the
\* offer was asked for waits for another run, and what was skipped before the stream opened
\* is not told.
Queued ==
    /\ queue = "none" <=> join # "joined"
    /\ events = "none" <=> join # "joined"
    /\ join = "joined" /\ ~gone => queue = "open"
    /\ queue = "none" => drain = "idle"
    /\ join # "joined" => agreed = told
    /\ join = "joined" /\ ~gone /\ told = room /\ ~unheard =>
          /\ drain = "answer" => pending \/ offered = room
          /\ drain = "ended" => pending \/ missed \/ agreed = room

RoomInv ==
    /\ RoomTyped /\ Leaving /\ Media /\ Place /\ Queued
    /\ Room!LeftIsClosed /\ Room!HealthyIsConnected /\ Room!NoLostRenegotiation

-----------------------------------------------------------------------------
\* Nobody has left, and nothing is open yet.
LEMMA RoomInit == Room!Init => RoomInv
<1> SUFFICES ASSUME Room!Init PROVE RoomInv  OBVIOUS
<1> USE DEF Room!Init
<1>1. running = (drain # "idle")  OBVIOUS
<1>2. RoomTyped
  <2>1. /\ room \in Nat /\ agreed \in 0 .. room /\ told \in 0 .. room /\ offered \in 0 .. room
        /\ hitches \in Nat
    OBVIOUS
  <2>2. /\ known \in BOOLEAN /\ place \in BOOLEAN /\ gone \in BOOLEAN /\ undeleted \in BOOLEAN
        /\ owned \in BOOLEAN /\ pending \in BOOLEAN /\ missed \in BOOLEAN
    OBVIOUS
  <2>3. /\ join \in Room!JoinStates /\ leave \in {"no", "deleting", "done"}
        /\ during \in Room!JoinStates \union {"none"}
        /\ standing \in {"connecting", "connected", "reconnecting", "closed"}
        /\ media \in {"none", "open", "closed"} /\ events \in Room!Streams
        /\ resumable \in BOOLEAN /\ unheard \in BOOLEAN
        /\ queue \in {"none", "open", "closed"}
        /\ drain \in {"idle", "stable", "answer", "ended"}
    BY DEF Room!JoinStates, Room!Streams
  <2> HIDE DEF Room!Init
  <2>4. QED BY <1>1, <2>1, <2>2, <2>3 DEF RoomTyped, Room!TypeOK
<1>3. Leaving /\ Media /\ Place /\ Queued  BY DEF Leaving, Media, Place, Queued
<1>4. Room!LeftIsClosed /\ Room!HealthyIsConnected /\ Room!NoLostRenegotiation
  BY DEF Room!LeftIsClosed, Room!HealthyIsConnected, Room!NoLostRenegotiation
<1>5. QED BY <1>2, <1>3, <1>4 DEF RoomInv

\* leave() is called: its beginning, and its end when there is no participant to delete.
LEMMA LeaveStep ==
    ASSUME RoomInv, Room!Leave
    PROVE  RoomInv'
<1> USE DEF RoomInv, Room!Leave, Room!LeaveNow, Room!Left, Room!joinVars, Room!leaveVars,
        Room!mediaVars, Room!streamVars, Room!queueVars, Room!envVars
<1>1. RoomTyped'
  <2>1. running' = (drain' # "idle") /\ pending' \in BOOLEAN
    BY DEF RoomTyped, Room!TypeOK
  <2>2. /\ join' \in Room!JoinStates /\ known' \in BOOLEAN /\ place' \in BOOLEAN
        /\ leave' \in {"no", "deleting", "done"}
        /\ during' \in Room!JoinStates \union {"none"} /\ gone' \in BOOLEAN
    BY DEF RoomTyped, Room!TypeOK, Room!JoinStates
  <2>3. undeleted' \in BOOLEAN /\ hitches' \in Nat
    BY DEF RoomTyped, Room!TypeOK, Room!JoinStates
  <2>4. /\ standing' \in {"connecting", "connected", "reconnecting", "closed"}
        /\ media' \in {"none", "open", "closed"} /\ owned' \in BOOLEAN
        /\ events' \in Room!Streams /\ resumable' \in BOOLEAN /\ unheard' \in BOOLEAN
    BY DEF RoomTyped, Room!TypeOK, Room!Streams
  <2>5. /\ queue' \in {"none", "open", "closed"}
        /\ drain' \in {"idle", "stable", "answer", "ended"} /\ missed' \in BOOLEAN
        /\ room' \in Nat /\ agreed' \in 0 .. room' /\ told' \in 0 .. room'
        /\ offered' \in 0 .. room'
    BY DEF RoomTyped, Room!TypeOK
  <2>6. QED BY <2>1, <2>2, <2>3, <2>4, <2>5 DEF RoomTyped, Room!TypeOK
<1> USE DEF RoomTyped, Room!TypeOK, Leaving, Media
<1>2. Leaving'  BY DEF Room!JoinStates
<1>3. Media'  OBVIOUS
<1>4. Place'  BY DEF Place
<1>5. Queued'  BY DEF Queued, Room!NoLostRenegotiation
<1>6. Room!LeftIsClosed' /\ Room!HealthyIsConnected'
  BY DEF Queued, Room!LeftIsClosed, Room!HealthyIsConnected
<1>7. Room!NoLostRenegotiation'  BY DEF Queued, Room!NoLostRenegotiation
<1>8. QED BY <1>1, <1>2, <1>3, <1>4, <1>5, <1>6, <1>7

\* The DELETE of leave() is answered or fails.
LEMMA LeaveDeletedStep ==
    ASSUME RoomInv, NEW heard \in BOOLEAN, Room!LeaveDeleted(heard)
    PROVE  RoomInv'
<1> USE DEF RoomInv, Room!LeaveDeleted, Room!Left, Room!Trouble, Room!joinVars, Room!leaveVars,
        Room!mediaVars, Room!streamVars, Room!queueVars, Room!envVars
<1>1. RoomTyped'
  <2>1. running' = (drain' # "idle") /\ pending' \in BOOLEAN
    BY DEF RoomTyped, Room!TypeOK
  <2>2. /\ join' \in Room!JoinStates /\ known' \in BOOLEAN /\ place' \in BOOLEAN
        /\ leave' \in {"no", "deleting", "done"}
        /\ during' \in Room!JoinStates \union {"none"} /\ gone' \in BOOLEAN
    BY DEF RoomTyped, Room!TypeOK, Room!JoinStates
  <2>3. undeleted' \in BOOLEAN /\ hitches' \in Nat
    <3>1. CASE heard  BY <3>1 DEF RoomTyped, Room!TypeOK, Room!JoinStates
    <3>2. CASE ~heard  BY <3>2 DEF RoomTyped, Room!TypeOK, Room!JoinStates
    <3>3. QED BY <3>1, <3>2
  <2>4. /\ standing' \in {"connecting", "connected", "reconnecting", "closed"}
        /\ media' \in {"none", "open", "closed"} /\ owned' \in BOOLEAN
        /\ events' \in Room!Streams /\ resumable' \in BOOLEAN /\ unheard' \in BOOLEAN
    BY DEF RoomTyped, Room!TypeOK, Room!Streams
  <2>5. /\ queue' \in {"none", "open", "closed"}
        /\ drain' \in {"idle", "stable", "answer", "ended"} /\ missed' \in BOOLEAN
        /\ room' \in Nat /\ agreed' \in 0 .. room' /\ told' \in 0 .. room'
        /\ offered' \in 0 .. room'
    BY DEF RoomTyped, Room!TypeOK
  <2>6. QED BY <2>1, <2>2, <2>3, <2>4, <2>5 DEF RoomTyped, Room!TypeOK
<1> USE DEF RoomTyped, Room!TypeOK, Leaving, Media
<1>2. Leaving'  BY DEF Room!JoinStates
<1>3. Media'  OBVIOUS
<1>4. Place'  BY DEF Place
<1>5. Queued'  BY DEF Queued, Room!NoLostRenegotiation
<1>6. Room!LeftIsClosed' /\ Room!HealthyIsConnected'
  BY DEF Queued, Room!LeftIsClosed, Room!HealthyIsConnected
<1>7. Room!NoLostRenegotiation'  BY DEF Queued, Room!NoLostRenegotiation
<1>8. QED BY <1>1, <1>2, <1>3, <1>4, <1>5, <1>6, <1>7

\* A response begins.
LEMMA RespondsStep ==
    ASSUME RoomInv, Room!Responds
    PROVE  RoomInv'
<1> USE DEF RoomInv, Room!Responds, Room!Served, Room!joinVars, Room!leaveVars,
        Room!mediaVars, Room!streamVars, Room!queueVars, Room!envVars
<1>1. RoomTyped'
  <2>1. running' = (drain' # "idle") /\ pending' \in BOOLEAN
    BY DEF RoomTyped, Room!TypeOK
  <2>2. /\ join' \in Room!JoinStates /\ known' \in BOOLEAN /\ place' \in BOOLEAN
        /\ leave' \in {"no", "deleting", "done"}
        /\ during' \in Room!JoinStates \union {"none"} /\ gone' \in BOOLEAN
    BY DEF RoomTyped, Room!TypeOK, Room!JoinStates
  <2>3. undeleted' \in BOOLEAN /\ hitches' \in Nat
    BY DEF RoomTyped
  <2>4. /\ standing' \in {"connecting", "connected", "reconnecting", "closed"}
        /\ media' \in {"none", "open", "closed"} /\ owned' \in BOOLEAN
        /\ events' \in Room!Streams /\ resumable' \in BOOLEAN /\ unheard' \in BOOLEAN
    BY DEF RoomTyped, Room!TypeOK
  <2>5. /\ queue' \in {"none", "open", "closed"}
        /\ drain' \in {"idle", "stable", "answer", "ended"} /\ missed' \in BOOLEAN
        /\ room' \in Nat /\ agreed' \in 0 .. room' /\ told' \in 0 .. room'
        /\ offered' \in 0 .. room'
    BY DEF RoomTyped, Room!TypeOK
  <2>6. QED BY <2>1, <2>2, <2>3, <2>4, <2>5 DEF RoomTyped, Room!TypeOK
<1> USE DEF RoomTyped, Room!TypeOK, Leaving, Media
<1>2. Leaving'  BY DEF Room!JoinStates
<1>3. Media'  OBVIOUS
<1>4. Place'  BY DEF Place
<1>5. Queued'  BY DEF Queued, Room!NoLostRenegotiation
<1>6. Room!LeftIsClosed' /\ Room!HealthyIsConnected'
  BY DEF Queued, Room!LeftIsClosed, Room!HealthyIsConnected
<1>7. Room!NoLostRenegotiation'  BY DEF Queued, Room!NoLostRenegotiation
<1>8. QED BY <1>1, <1>2, <1>3, <1>4, <1>5, <1>6, <1>7

\* The SFU takes the participant in.
LEMMA SfuTakesStep ==
    ASSUME RoomInv, Room!SfuTakes
    PROVE  RoomInv'
<1> USE DEF RoomInv, Room!SfuTakes, Room!Served, Room!joinVars, Room!leaveVars,
        Room!mediaVars, Room!streamVars, Room!queueVars, Room!envVars
<1>1. RoomTyped'
  <2>1. running' = (drain' # "idle") /\ pending' \in BOOLEAN
    BY DEF RoomTyped, Room!TypeOK
  <2>2. /\ join' \in Room!JoinStates /\ known' \in BOOLEAN /\ place' \in BOOLEAN
        /\ leave' \in {"no", "deleting", "done"}
        /\ during' \in Room!JoinStates \union {"none"} /\ gone' \in BOOLEAN
    BY DEF RoomTyped, Room!TypeOK, Room!JoinStates
  <2>3. undeleted' \in BOOLEAN /\ hitches' \in Nat
    BY DEF RoomTyped
  <2>4. /\ standing' \in {"connecting", "connected", "reconnecting", "closed"}
        /\ media' \in {"none", "open", "closed"} /\ owned' \in BOOLEAN
        /\ events' \in Room!Streams /\ resumable' \in BOOLEAN /\ unheard' \in BOOLEAN
    BY DEF RoomTyped, Room!TypeOK
  <2>5. /\ queue' \in {"none", "open", "closed"}
        /\ drain' \in {"idle", "stable", "answer", "ended"} /\ missed' \in BOOLEAN
        /\ room' \in Nat /\ agreed' \in 0 .. room' /\ told' \in 0 .. room'
        /\ offered' \in 0 .. room'
    BY DEF RoomTyped, Room!TypeOK
  <2>6. QED BY <2>1, <2>2, <2>3, <2>4, <2>5 DEF RoomTyped, Room!TypeOK
<1> USE DEF RoomTyped, Room!TypeOK, Leaving, Media
<1>2. Leaving'  BY DEF Room!JoinStates
<1>3. Media'  OBVIOUS
<1>4. Place'  BY DEF Place
<1>5. Queued'  BY DEF Queued, Room!NoLostRenegotiation
<1>6. Room!LeftIsClosed' /\ Room!HealthyIsConnected'
  BY DEF Queued, Room!LeftIsClosed, Room!HealthyIsConnected
<1>7. Room!NoLostRenegotiation'  BY DEF Queued, Room!NoLostRenegotiation
<1>8. QED BY <1>1, <1>2, <1>3, <1>4, <1>5, <1>6, <1>7

\* The peer connection is made, also for a session that was left.
LEMMA IceReadStep ==
    ASSUME RoomInv, Room!IceRead
    PROVE  RoomInv'
<1> USE DEF RoomInv, Room!IceRead, Room!joinVars, Room!leaveVars,
        Room!mediaVars, Room!streamVars, Room!queueVars, Room!envVars
<1>1. RoomTyped'
  BY DEF RoomTyped, Room!TypeOK, Room!JoinStates, Room!Streams
<1> USE DEF RoomTyped, Room!TypeOK, Leaving, Media
<1>2. Leaving'  BY DEF Room!JoinStates
<1>3. Media'  OBVIOUS
<1>4. Place'  BY DEF Place
<1>5. Queued'  BY DEF Queued, Room!NoLostRenegotiation
<1>6. Room!LeftIsClosed' /\ Room!HealthyIsConnected'
  BY DEF Queued, Room!LeftIsClosed, Room!HealthyIsConnected
<1>7. Room!NoLostRenegotiation'  BY DEF Queued, Room!NoLostRenegotiation
<1>8. QED BY <1>1, <1>2, <1>3, <1>4, <1>5, <1>6, <1>7

\* The offer is gathered: connect() goes on only if nobody left.
LEMMA GatheredStep ==
    ASSUME RoomInv, Room!Gathered
    PROVE  RoomInv'
<1> USE DEF RoomInv, Room!Gathered, Room!Fails, Room!LeaveNow, Room!Left,
        Room!joinVars, Room!leaveVars,
        Room!mediaVars, Room!streamVars, Room!queueVars, Room!envVars
<1>1. RoomTyped'
  BY DEF RoomTyped, Room!TypeOK, Room!JoinStates, Room!Streams
<1> USE DEF RoomTyped, Room!TypeOK, Leaving, Media
<1>2. Leaving'  BY DEF Room!JoinStates
<1>3. Media'  OBVIOUS
<1>4. Place'  BY DEF Place
<1>5. Queued'  BY DEF Queued, Room!NoLostRenegotiation
<1>6. Room!LeftIsClosed' /\ Room!HealthyIsConnected'
  BY DEF Queued, Room!LeftIsClosed, Room!HealthyIsConnected
<1>7. Room!NoLostRenegotiation'  BY DEF Queued, Room!NoLostRenegotiation
<1>8. QED BY <1>1, <1>2, <1>3, <1>4, <1>5, <1>6, <1>7

\* The participant's id is read.
LEMMA PostReadStep ==
    ASSUME RoomInv, Room!PostRead
    PROVE  RoomInv'
<1> USE DEF RoomInv, Room!PostRead, Room!joinVars, Room!leaveVars,
        Room!mediaVars, Room!streamVars, Room!queueVars, Room!envVars
<1>1. RoomTyped'
  BY DEF RoomTyped, Room!TypeOK, Room!JoinStates, Room!Streams
<1> USE DEF RoomTyped, Room!TypeOK, Leaving, Media
<1>2. Leaving'  BY DEF Room!JoinStates
<1>3. Media'  OBVIOUS
<1>4. Place'  BY DEF Place
<1>5. Queued'  BY DEF Queued, Room!NoLostRenegotiation
<1>6. Room!LeftIsClosed' /\ Room!HealthyIsConnected'
  BY DEF Queued, Room!LeftIsClosed, Room!HealthyIsConnected
<1>7. Room!NoLostRenegotiation'  BY DEF Queued, Room!NoLostRenegotiation
<1>8. QED BY <1>1, <1>2, <1>3, <1>4, <1>5, <1>6, <1>7

\* The answer is applied: only by a session that has a peer connection.
LEMMA JoinedStep ==
    ASSUME RoomInv, Room!Joined
    PROVE  RoomInv'
<1> USE DEF RoomInv, Room!Joined, Room!joinVars, Room!leaveVars,
        Room!mediaVars, Room!streamVars, Room!queueVars, Room!envVars
<1>1. RoomTyped'
  BY DEF RoomTyped, Room!TypeOK, Room!JoinStates, Room!Streams
<1> USE DEF RoomTyped, Room!TypeOK, Leaving, Media
<1>2. Leaving'  BY DEF Room!JoinStates
<1>3. Media'  OBVIOUS
<1>4. Place'  BY DEF Place
<1>5. Queued'  BY DEF Queued, Room!NoLostRenegotiation
<1>6. Room!LeftIsClosed' /\ Room!HealthyIsConnected'
  BY DEF Queued, Room!LeftIsClosed, Room!HealthyIsConnected
<1>7. Room!NoLostRenegotiation'  BY DEF Queued, Room!NoLostRenegotiation
<1>8. QED BY <1>1, <1>2, <1>3, <1>4, <1>5, <1>6, <1>7

\* connect() throws, and Rooms.join leaves.
LEMMA JoinFailsStep ==
    ASSUME RoomInv, Room!JoinFails
    PROVE  RoomInv'
<1> USE DEF RoomInv, Room!JoinFails, Room!Fails, Room!LeaveNow, Room!Left, Room!Trouble, Room!Over,
        Room!joinVars, Room!leaveVars,
        Room!mediaVars, Room!streamVars, Room!queueVars, Room!envVars
<1>1. RoomTyped'
  <2>1. running' = (drain' # "idle") /\ pending' \in BOOLEAN
    BY DEF RoomTyped, Room!TypeOK
  <2>2. /\ join' \in Room!JoinStates /\ known' \in BOOLEAN /\ place' \in BOOLEAN
        /\ leave' \in {"no", "deleting", "done"}
        /\ during' \in Room!JoinStates \union {"none"} /\ gone' \in BOOLEAN
    BY DEF RoomTyped, Room!TypeOK, Room!JoinStates
  <2>3. undeleted' \in BOOLEAN /\ hitches' \in Nat
    BY DEF RoomTyped
  <2>4. /\ standing' \in {"connecting", "connected", "reconnecting", "closed"}
        /\ media' \in {"none", "open", "closed"} /\ owned' \in BOOLEAN
        /\ events' \in Room!Streams /\ resumable' \in BOOLEAN /\ unheard' \in BOOLEAN
    BY DEF RoomTyped, Room!TypeOK, Room!Streams
  <2>5. /\ queue' \in {"none", "open", "closed"}
        /\ drain' \in {"idle", "stable", "answer", "ended"} /\ missed' \in BOOLEAN
        /\ room' \in Nat /\ agreed' \in 0 .. room' /\ told' \in 0 .. room'
        /\ offered' \in 0 .. room'
    BY DEF RoomTyped, Room!TypeOK
  <2>6. QED BY <2>1, <2>2, <2>3, <2>4, <2>5 DEF RoomTyped, Room!TypeOK
<1> USE DEF RoomTyped, Room!TypeOK, Leaving, Media
<1>2. Leaving'  BY DEF Room!JoinStates
<1>3. Media'  OBVIOUS
<1>4. Place'  BY DEF Place
<1>5. Queued'  BY DEF Queued, Room!NoLostRenegotiation
<1>6. Room!LeftIsClosed' /\ Room!HealthyIsConnected'
  BY DEF Queued, Room!LeftIsClosed, Room!HealthyIsConnected
<1>7. Room!NoLostRenegotiation'  BY DEF Queued, Room!NoLostRenegotiation
<1>8. QED BY <1>1, <1>2, <1>3, <1>4, <1>5, <1>6, <1>7

\* A run of the queue asks for the SFU's offer.
LEMMA DrainRunsStep ==
    ASSUME RoomInv, Room!DrainRuns
    PROVE  RoomInv'
<1> USE DEF RoomInv, Room!DrainRuns, Room!joinVars, Room!leaveVars,
        Room!mediaVars, Room!streamVars, Room!queueVars, Room!envVars
<1>1. RoomTyped'
  BY DEF RoomTyped, Room!TypeOK, Room!JoinStates, Room!Streams
<1> USE DEF RoomTyped, Room!TypeOK, Leaving, Media
<1>2. Leaving'  BY DEF Room!JoinStates
<1>3. Media'  OBVIOUS
<1>4. Place'  BY DEF Place
<1>5. Queued'  BY DEF Queued, Room!NoLostRenegotiation
<1>6. Room!LeftIsClosed' /\ Room!HealthyIsConnected'
  BY DEF Queued, Room!LeftIsClosed, Room!HealthyIsConnected
<1>7. Room!NoLostRenegotiation'  BY DEF Queued, Room!NoLostRenegotiation
<1>8. QED BY <1>1, <1>2, <1>3, <1>4, <1>5, <1>6, <1>7

\* The offer is answered, or the run failed.
LEMMA DrainAnsweredStep ==
    ASSUME RoomInv, NEW ok \in BOOLEAN, Room!DrainAnswered(ok)
    PROVE  RoomInv'
<1> USE DEF RoomInv, Room!DrainAnswered, Room!Trouble, Room!joinVars, Room!leaveVars,
        Room!mediaVars, Room!streamVars, Room!queueVars, Room!envVars
<1>1. RoomTyped'
  BY DEF RoomTyped, Room!TypeOK, Room!JoinStates, Room!Streams
<1> USE DEF RoomTyped, Room!TypeOK, Leaving, Media
<1>2. Leaving'  BY DEF Room!JoinStates
<1>3. Media'  OBVIOUS
<1>4. Place'  BY DEF Place
<1>5. Queued'  BY DEF Queued, Room!NoLostRenegotiation
<1>6. Room!LeftIsClosed' /\ Room!HealthyIsConnected'
  BY DEF Queued, Room!LeftIsClosed, Room!HealthyIsConnected
<1>7. Room!NoLostRenegotiation'  BY DEF Queued, Room!NoLostRenegotiation
<1>8. QED BY <1>1, <1>2, <1>3, <1>4, <1>5, <1>6, <1>7

\* A run ends, and another begins when one was asked for meanwhile.
LEMMA DrainEndsStep ==
    ASSUME RoomInv, Room!DrainEnds
    PROVE  RoomInv'
<1> USE DEF RoomInv, Room!DrainEnds, Room!DrainAgain, Room!joinVars, Room!leaveVars,
        Room!mediaVars, Room!streamVars, Room!queueVars, Room!envVars
<1>1. RoomTyped'
  <2>1. running' = (drain' # "idle") /\ pending' \in BOOLEAN
    BY DEF RoomTyped, Room!TypeOK
  <2>2. /\ join' \in Room!JoinStates /\ known' \in BOOLEAN /\ place' \in BOOLEAN
        /\ leave' \in {"no", "deleting", "done"}
        /\ during' \in Room!JoinStates \union {"none"} /\ gone' \in BOOLEAN
    BY DEF RoomTyped, Room!TypeOK, Room!JoinStates
  <2>3. undeleted' \in BOOLEAN /\ hitches' \in Nat
    BY DEF RoomTyped, Room!TypeOK, Room!JoinStates
  <2>4. /\ standing' \in {"connecting", "connected", "reconnecting", "closed"}
        /\ media' \in {"none", "open", "closed"} /\ owned' \in BOOLEAN
        /\ events' \in Room!Streams /\ resumable' \in BOOLEAN /\ unheard' \in BOOLEAN
    BY DEF RoomTyped, Room!TypeOK, Room!Streams
  <2>5. /\ queue' \in {"none", "open", "closed"}
        /\ drain' \in {"idle", "stable", "answer", "ended"} /\ missed' \in BOOLEAN
        /\ room' \in Nat /\ agreed' \in 0 .. room' /\ told' \in 0 .. room'
        /\ offered' \in 0 .. room'
    BY DEF RoomTyped, Room!TypeOK
  <2>6. QED BY <2>1, <2>2, <2>3, <2>4, <2>5 DEF RoomTyped, Room!TypeOK
<1> USE DEF RoomTyped, Room!TypeOK, Leaving, Media
<1>2. Leaving'  BY DEF Room!JoinStates
<1>3. Media'  OBVIOUS
<1>4. Place'  BY DEF Place
<1>5. Queued'  BY DEF Queued, Room!NoLostRenegotiation
<1>6. Room!LeftIsClosed' /\ Room!HealthyIsConnected'
  BY DEF Queued, Room!LeftIsClosed, Room!HealthyIsConnected
<1>7. Room!NoLostRenegotiation'  BY DEF Queued, Room!NoLostRenegotiation
<1>8. QED BY <1>1, <1>2, <1>3, <1>4, <1>5, <1>6, <1>7

\* The tracks of the room change.
LEMMA RoomChangesStep ==
    ASSUME RoomInv, Room!RoomChanges
    PROVE  RoomInv'
<1> USE DEF RoomInv, Room!RoomChanges, Room!joinVars, Room!leaveVars,
        Room!mediaVars, Room!streamVars, Room!queueVars, Room!envVars
<1>1. RoomTyped'
  BY DEF RoomTyped, Room!TypeOK, Room!JoinStates, Room!Streams
<1> USE DEF RoomTyped, Room!TypeOK, Leaving, Media
<1>2. Leaving'  BY DEF Room!JoinStates
<1>3. Media'  OBVIOUS
<1>4. Place'  BY DEF Place
<1>5. Queued'  BY DEF Queued, Room!NoLostRenegotiation
<1>6. Room!LeftIsClosed' /\ Room!HealthyIsConnected'
  BY DEF Queued, Room!LeftIsClosed, Room!HealthyIsConnected
<1>7. Room!NoLostRenegotiation'  BY DEF Queued, Room!NoLostRenegotiation
<1>8. QED BY <1>1, <1>2, <1>3, <1>4, <1>5, <1>6, <1>7

\* The session hears of a change.
LEMMA RoomEventStep ==
    ASSUME RoomInv, Room!RoomEvent
    PROVE  RoomInv'
<1> USE DEF RoomInv, Room!RoomEvent, Room!Schedule, Room!joinVars, Room!leaveVars,
        Room!mediaVars, Room!streamVars, Room!queueVars, Room!envVars
<1>1. RoomTyped'
  <2>1. running' = (drain' # "idle") /\ pending' \in BOOLEAN
    BY DEF RoomTyped, Room!TypeOK
  <2>2. /\ join' \in Room!JoinStates /\ known' \in BOOLEAN /\ place' \in BOOLEAN
        /\ leave' \in {"no", "deleting", "done"}
        /\ during' \in Room!JoinStates \union {"none"} /\ gone' \in BOOLEAN
    BY DEF RoomTyped, Room!TypeOK, Room!JoinStates
  <2>3. undeleted' \in BOOLEAN /\ hitches' \in Nat
    BY DEF RoomTyped, Room!TypeOK, Room!JoinStates
  <2>4. /\ standing' \in {"connecting", "connected", "reconnecting", "closed"}
        /\ media' \in {"none", "open", "closed"} /\ owned' \in BOOLEAN
        /\ events' \in Room!Streams /\ resumable' \in BOOLEAN /\ unheard' \in BOOLEAN
    BY DEF RoomTyped, Room!TypeOK, Room!Streams
  <2>5. /\ queue' \in {"none", "open", "closed"}
        /\ drain' \in {"idle", "stable", "answer", "ended"} /\ missed' \in BOOLEAN
        /\ room' \in Nat /\ agreed' \in 0 .. room' /\ told' \in 0 .. room'
        /\ offered' \in 0 .. room'
    BY DEF RoomTyped, Room!TypeOK
  <2>6. QED BY <2>1, <2>2, <2>3, <2>4, <2>5 DEF RoomTyped, Room!TypeOK
<1> USE DEF RoomTyped, Room!TypeOK, Leaving, Media
<1>2. Leaving'  BY DEF Room!JoinStates
<1>3. Media'  OBVIOUS
<1>4. Place'  BY DEF Place
<1>5. Queued'  BY DEF Queued, Room!NoLostRenegotiation
<1>6. Room!LeftIsClosed' /\ Room!HealthyIsConnected'
  BY DEF Queued, Room!LeftIsClosed, Room!HealthyIsConnected
<1>7. Room!NoLostRenegotiation'  BY DEF Queued, Room!NoLostRenegotiation
<1>8. QED BY <1>1, <1>2, <1>3, <1>4, <1>5, <1>6, <1>7

\* The event stream comes up.
LEMMA StreamUpStep ==
    ASSUME RoomInv, Room!StreamUp
    PROVE  RoomInv'
<1> USE DEF RoomInv, Room!StreamUp, Room!StreamUpState, Room!joinVars, Room!leaveVars,
        Room!mediaVars, Room!streamVars, Room!queueVars, Room!envVars
<1>1. RoomTyped'
  BY DEF RoomTyped, Room!TypeOK, Room!JoinStates, Room!Streams
<1> USE DEF RoomTyped, Room!TypeOK, Leaving, Media
<1>2. Leaving'  BY DEF Room!JoinStates
<1>3. Media'  OBVIOUS
<1>4. Place'  BY DEF Place
<1>5. Queued'  BY DEF Queued, Room!NoLostRenegotiation
<1>6. Room!LeftIsClosed' /\ Room!HealthyIsConnected'
  BY DEF Queued, Room!LeftIsClosed, Room!HealthyIsConnected
<1>7. Room!NoLostRenegotiation'  BY DEF Queued, Room!NoLostRenegotiation
<1>8. QED BY <1>1, <1>2, <1>3, <1>4, <1>5, <1>6, <1>7

\* The event stream goes down.
LEMMA StreamDownStep ==
    ASSUME RoomInv, Room!StreamDown
    PROVE  RoomInv'
<1> USE DEF RoomInv, Room!StreamDown, Room!Trouble, Room!joinVars, Room!leaveVars,
        Room!mediaVars, Room!streamVars, Room!queueVars, Room!envVars
<1>1. RoomTyped'
  BY DEF RoomTyped, Room!TypeOK, Room!JoinStates, Room!Streams
<1> USE DEF RoomTyped, Room!TypeOK, Leaving, Media
<1>2. Leaving'  BY DEF Room!JoinStates
<1>3. Media'  OBVIOUS
<1>4. Place'  BY DEF Place
<1>5. Queued'  BY DEF Queued, Room!NoLostRenegotiation
<1>6. Room!LeftIsClosed' /\ Room!HealthyIsConnected'
  BY DEF Queued, Room!LeftIsClosed, Room!HealthyIsConnected
<1>7. Room!NoLostRenegotiation'  BY DEF Queued, Room!NoLostRenegotiation
<1>8. QED BY <1>1, <1>2, <1>3, <1>4, <1>5, <1>6, <1>7

\* The event stream is refused: it stays down.
LEMMA StreamRefusedStep ==
    ASSUME RoomInv, Room!StreamRefused
    PROVE  RoomInv'
<1> USE DEF RoomInv, Room!StreamRefused, Room!Trouble, Room!joinVars, Room!leaveVars,
        Room!mediaVars, Room!streamVars, Room!queueVars, Room!envVars
<1>1. RoomTyped'
  BY DEF RoomTyped, Room!TypeOK, Room!JoinStates, Room!Streams
<1> USE DEF RoomTyped, Room!TypeOK, Leaving, Media
<1>2. Leaving'  BY DEF Room!JoinStates
<1>3. Media'  OBVIOUS
<1>4. Place'  BY DEF Place
<1>5. Queued'  BY DEF Queued, Room!NoLostRenegotiation
<1>6. Room!LeftIsClosed' /\ Room!HealthyIsConnected'
  BY DEF Queued, Room!LeftIsClosed, Room!HealthyIsConnected
<1>7. Room!NoLostRenegotiation'  BY DEF Queued, Room!NoLostRenegotiation
<1>8. QED BY <1>1, <1>2, <1>3, <1>4, <1>5, <1>6, <1>7

\* The peer connection changes its state.
LEMMA PeerChangesStep ==
    ASSUME RoomInv, NEW after \in {"connected", "disconnected", "failed"}, Room!PeerChanges(after)
    PROVE  RoomInv'
<1> USE DEF RoomInv, Room!PeerChanges, Room!Trouble, Room!joinVars, Room!leaveVars,
        Room!mediaVars, Room!streamVars, Room!queueVars, Room!envVars
<1>1. RoomTyped'
  BY DEF RoomTyped, Room!TypeOK, Room!JoinStates, Room!Streams
<1> USE DEF RoomTyped, Room!TypeOK, Leaving, Media
<1>2. Leaving'  BY DEF Room!JoinStates
<1>3. Media'  OBVIOUS
<1>4. Place'  BY DEF Place
<1>5. Queued'  BY DEF Queued, Room!NoLostRenegotiation
<1>6. Room!LeftIsClosed' /\ Room!HealthyIsConnected'
  BY DEF Queued, Room!LeftIsClosed, Room!HealthyIsConnected
<1>7. Room!NoLostRenegotiation'  BY DEF Queued, Room!NoLostRenegotiation
<1>8. QED BY <1>1, <1>2, <1>3, <1>4, <1>5, <1>6, <1>7

\* An ICE restart is answered.
LEMMA IceRestartedStep ==
    ASSUME RoomInv, Room!IceRestarted
    PROVE  RoomInv'
<1> USE DEF RoomInv, Room!IceRestarted, Room!Schedule, Room!joinVars, Room!leaveVars,
        Room!mediaVars, Room!streamVars, Room!queueVars, Room!envVars
<1>1. RoomTyped'
  <2>1. running' = (drain' # "idle") /\ pending' \in BOOLEAN
    BY DEF RoomTyped, Room!TypeOK
  <2>2. /\ join' \in Room!JoinStates /\ known' \in BOOLEAN /\ place' \in BOOLEAN
        /\ leave' \in {"no", "deleting", "done"}
        /\ during' \in Room!JoinStates \union {"none"} /\ gone' \in BOOLEAN
    BY DEF RoomTyped, Room!TypeOK, Room!JoinStates
  <2>3. undeleted' \in BOOLEAN /\ hitches' \in Nat
    BY DEF RoomTyped, Room!TypeOK, Room!JoinStates
  <2>4. /\ standing' \in {"connecting", "connected", "reconnecting", "closed"}
        /\ media' \in {"none", "open", "closed"} /\ owned' \in BOOLEAN
        /\ events' \in Room!Streams /\ resumable' \in BOOLEAN /\ unheard' \in BOOLEAN
    BY DEF RoomTyped, Room!TypeOK, Room!Streams
  <2>5. /\ queue' \in {"none", "open", "closed"}
        /\ drain' \in {"idle", "stable", "answer", "ended"} /\ missed' \in BOOLEAN
        /\ room' \in Nat /\ agreed' \in 0 .. room' /\ told' \in 0 .. room'
        /\ offered' \in 0 .. room'
    BY DEF RoomTyped, Room!TypeOK
  <2>6. QED BY <2>1, <2>2, <2>3, <2>4, <2>5 DEF RoomTyped, Room!TypeOK
<1> USE DEF RoomTyped, Room!TypeOK, Leaving, Media
<1>2. Leaving'  BY DEF Room!JoinStates
<1>3. Media'  OBVIOUS
<1>4. Place'  BY DEF Place
<1>5. Queued'  BY DEF Queued, Room!NoLostRenegotiation
<1>6. Room!LeftIsClosed' /\ Room!HealthyIsConnected'
  BY DEF Queued, Room!LeftIsClosed, Room!HealthyIsConnected
<1>7. Room!NoLostRenegotiation'  BY DEF Queued, Room!NoLostRenegotiation
<1>8. QED BY <1>1, <1>2, <1>3, <1>4, <1>5, <1>6, <1>7

\* The application publishes.
LEMMA PublishStep ==
    ASSUME RoomInv, Room!Publish
    PROVE  RoomInv'
<1> USE DEF RoomInv, Room!Publish, Room!Schedule, Room!Trouble, Room!joinVars, Room!leaveVars,
        Room!mediaVars, Room!streamVars, Room!queueVars, Room!envVars
<1>1. RoomTyped'
  <2>1. running' = (drain' # "idle") /\ pending' \in BOOLEAN
    BY DEF RoomTyped, Room!TypeOK
  <2>2. /\ join' \in Room!JoinStates /\ known' \in BOOLEAN /\ place' \in BOOLEAN
        /\ leave' \in {"no", "deleting", "done"}
        /\ during' \in Room!JoinStates \union {"none"} /\ gone' \in BOOLEAN
    BY DEF RoomTyped, Room!TypeOK, Room!JoinStates
  <2>3. undeleted' \in BOOLEAN /\ hitches' \in Nat
    BY DEF RoomTyped, Room!TypeOK, Room!JoinStates
  <2>4. /\ standing' \in {"connecting", "connected", "reconnecting", "closed"}
        /\ media' \in {"none", "open", "closed"} /\ owned' \in BOOLEAN
        /\ events' \in Room!Streams /\ resumable' \in BOOLEAN /\ unheard' \in BOOLEAN
    BY DEF RoomTyped, Room!TypeOK, Room!Streams
  <2>5. /\ queue' \in {"none", "open", "closed"}
        /\ drain' \in {"idle", "stable", "answer", "ended"} /\ missed' \in BOOLEAN
        /\ room' \in Nat /\ agreed' \in 0 .. room' /\ told' \in 0 .. room'
        /\ offered' \in 0 .. room'
    BY DEF RoomTyped, Room!TypeOK
  <2>6. QED BY <2>1, <2>2, <2>3, <2>4, <2>5 DEF RoomTyped, Room!TypeOK
<1> USE DEF RoomTyped, Room!TypeOK, Leaving, Media
<1>2. Leaving'  BY DEF Room!JoinStates
<1>3. Media'  OBVIOUS
<1>4. Place'  BY DEF Place
<1>5. Queued'  BY DEF Queued, Room!NoLostRenegotiation
<1>6. Room!LeftIsClosed' /\ Room!HealthyIsConnected'
  BY DEF Queued, Room!LeftIsClosed, Room!HealthyIsConnected
<1>7. Room!NoLostRenegotiation'  BY DEF Queued, Room!NoLostRenegotiation
<1>8. QED BY <1>1, <1>2, <1>3, <1>4, <1>5, <1>6, <1>7

\* Every step of the session, the browser and the SFU keeps the invariant.
LEMMA RoomNext == RoomInv /\ [Room!Next]_(Room!vars) => RoomInv'
<1> SUFFICES ASSUME RoomInv, [Room!Next]_(Room!vars) PROVE RoomInv'  OBVIOUS
<1>1. CASE UNCHANGED Room!vars
  <2> USE <1>1 DEF Room!vars, Room!joinVars, Room!leaveVars, Room!mediaVars, Room!streamVars,
          Room!queueVars, Room!envVars
  <2>1. RoomTyped' /\ Leaving' /\ Media'
    BY DEF RoomInv, RoomTyped, Room!TypeOK, Room!JoinStates, Leaving, Media
  <2>2. Place' /\ Queued'  BY DEF RoomInv, Place, Queued
  <2>3. Room!LeftIsClosed' /\ Room!HealthyIsConnected' /\ Room!NoLostRenegotiation'
    BY DEF RoomInv, Room!LeftIsClosed, Room!HealthyIsConnected, Room!NoLostRenegotiation
  <2>4. QED BY <2>1, <2>2, <2>3 DEF RoomInv
<1>2. CASE Room!Connecting
  BY <1>2, RespondsStep, IceReadStep, GatheredStep, PostReadStep, JoinedStep
     DEF Room!Connecting
<1>3. CASE Room!Draining \/ Room!DrainAnswered(FALSE)
  BY <1>3, DrainRunsStep, DrainAnsweredStep, DrainEndsStep DEF Room!Draining
<1>4. CASE Room!Leave \/ \E heard \in BOOLEAN : Room!LeaveDeleted(heard)
  BY <1>4, LeaveStep, LeaveDeletedStep
<1>5. CASE \E after \in {"connected", "disconnected", "failed"} : Room!PeerChanges(after)
  BY <1>5, PeerChangesStep
<1>6. CASE Room!SfuTakes \/ Room!JoinFails \/ Room!RoomChanges \/ Room!RoomEvent
           \/ Room!StreamUp \/ Room!StreamDown \/ Room!StreamRefused \/ Room!IceRestarted
           \/ Room!Publish
  BY <1>6, SfuTakesStep, JoinFailsStep, RoomChangesStep, RoomEventStep, StreamUpStep,
     StreamDownStep, StreamRefusedStep, IceRestartedStep, PublishStep
<1>7. QED BY <1>1, <1>2, <1>3, <1>4, <1>5, <1>6 DEF Room!Next

\* However leave() and the awaits of connect() (rooms/session.ts) fall: a session that was left
\* stays closed, its peer connection stays open only when leave() came during the body of
\* /ice, and its slot only when the DELETE failed or came before the id was read; a session
\* whose media and events are up is connected, and the queue (rooms/webrtc.ts) loses no
\* renegotiation that it was told of, for any number of changes and failures.
THEOREM RoomIsSound ==
    Room!Spec => [](Room!TypeOK /\ Room!LeftIsClosed /\ Room!PeerOpenOnlyByIceBody
                    /\ Room!SlotIsReleased /\ Room!HealthyIsConnected
                    /\ Room!NoLostRenegotiation)
<1>1. RoomInv => Room!TypeOK /\ Room!LeftIsClosed /\ Room!PeerOpenOnlyByIceBody
                 /\ Room!SlotIsReleased /\ Room!HealthyIsConnected
                 /\ Room!NoLostRenegotiation
  <2> SUFFICES ASSUME RoomInv
               PROVE  Room!TypeOK /\ Room!PeerOpenOnlyByIceBody /\ Room!SlotIsReleased
    BY DEF RoomInv
  <2>1. Room!TypeOK  BY DEF RoomInv, RoomTyped
  <2>2. Room!PeerOpenOnlyByIceBody  BY DEF RoomInv, Media, Room!PeerOpenOnlyByIceBody
  <2>3. Room!SlotIsReleased
    BY DEF RoomInv, RoomTyped, Leaving, Place, Room!SlotIsReleased
  <2>4. QED BY <2>1, <2>2, <2>3
<1>2. QED BY RoomInit, RoomNext, <1>1, PTL DEF Room!Spec

-----------------------------------------------------------------------------
(* The web agent: what the client has handles for, and what the agent      *)
(* holds.                                                                  *)

CONSTANTS MaxPending, MaxRequests, MaxControls, MaxSessions, MaxBreaks
VARIABLES transport, fetching, agent, wire, breaks

A == INSTANCE WebAgent WITH client <- transport, troubles <- breaks, MaxTroubles <- MaxBreaks

Names == A!Ops \union {"none"}
OpStates == {"idle", "asked", "preparing", "ready", "offer", "open", "ended"}
Asks == [id : Nat \ {0}, op : Names, kind : {"open", "call", "close"}, cancelled : BOOLEAN]
Sendings == [kind : {"open", "call", "close", "cancel"}, id : Nat, op : Names]
Arrivals == [session : Nat \ {0}, kind : {"response", "ready", "error"}, id : Nat, ok : BOOLEAN,
             op : A!Ops]
Transports ==
    [link : {"off", "credential", "socket", "connected"}, attempt : Nat, gen : Nat,
     socket : Nat, socks : SUBSET Nat, counter : 0 .. MaxControls, pending : SUBSET Asks,
     op : [A!Ops -> OpStates], from : [A!Ops -> Nat], refused : SUBSET Names,
     out : Seq(Sendings)]
Agents == [work : SUBSET Sendings, held : SUBSET A!Ops, readied : BOOLEAN]

Limited(c) ==
    /\ IsFiniteSet(c.pending) /\ Cardinality(c.pending) <= MaxPending
    /\ c.op["sub"] \notin {"offer", "open"} /\ c.op["view"] \notin {"preparing", "ready"}

AgentTyped ==
    /\ transport \in Transports /\ Limited(transport) /\ transport.gen <= MaxSessions
    /\ fetching \subseteq 1 .. transport.gen
    /\ agent \in Agents /\ wire \in Seq(Arrivals)
    /\ \A i \in 1 .. Len(wire) : wire[i].session <= transport.gen

\* The ends of a session: nothing of it is left, and no attempt.
Off(c) ==
    /\ c.link = "off" /\ c.attempt = 0 /\ c.socket = 0 /\ c.socks = {}
    /\ c.pending = {} /\ c.out = <<>>
    /\ \A o \in A!Ops : c.op[o] \in {"idle", "ended"}

\* An attempt that has not connected yet, of which nothing has been heard.
Begun(c, w) ==
    /\ c.link \in {"credential", "socket"} /\ c.attempt = c.gen /\ c.gen # 0
    /\ c.link = "credential" => c.socket = 0 /\ c.socks = {}
    /\ c.link = "socket" => c.socket = c.gen /\ c.socks = {c.gen}
    /\ c.pending = {} /\ c.out = <<>>
    /\ \A o \in A!Ops : c.op[o] \in {"idle", "ended"}
    /\ \A i \in 1 .. Len(w) : w[i].session # c.gen

\* A session: its attempt and its socket are the latest.
On(c) ==
    /\ c.link = "connected" /\ c.attempt = c.gen /\ c.gen # 0
    /\ c.socket = c.gen /\ c.socks = {c.gen}

\* An answer, and a failure of a resource, that is on its way in this session.
Response(c, w, i) == w[i].session = c.socket /\ w[i].kind = "response"
Answer(c, w, i, n, ok) == Response(c, w, i) /\ w[i].id = n /\ w[i].ok = ok
Failure(c, w, i, o) == w[i].session = c.socket /\ w[i].kind = "error" /\ w[i].op = o
Fails(c, w, o) == \E i \in 1 .. Len(w) : Failure(c, w, i, o)

\* A request that is numbered has one place: it waits to be sent, the agent works on it,
\* or its answer is on its way.
Numbered(m) == m.kind # "cancel" /\ (m.kind = "close" => m.id # 0)
Tracks(p, m) == p.id = m.id /\ p.kind = m.kind /\ p.op = m.op
Tracked(c, ag, w) ==
    /\ \A p \in c.pending : p.id <= c.counter
    /\ \A p, q \in c.pending : p.id = q.id => p = q
    /\ \A i \in 1 .. Len(c.out) : Numbered(c.out[i]) => \E p \in c.pending : Tracks(p, c.out[i])
    /\ \A m \in ag.work : m.kind \in {"open", "call"} /\ \E p \in c.pending : Tracks(p, m)
OnePlace(c, ag, w) ==
    /\ \A i, j \in 1 .. Len(c.out) :
          Numbered(c.out[i]) /\ Numbered(c.out[j]) /\ c.out[i].id = c.out[j].id => i = j
    /\ \A m, n \in ag.work : m.id = n.id => m = n
    /\ \A i \in 1 .. Len(c.out), m \in ag.work : Numbered(c.out[i]) => m.id # c.out[i].id
Answered(c, ag, w) ==
    \A i \in 1 .. Len(w) : Response(c, w, i) =>
          /\ w[i].id <= c.counter
          /\ \A j \in 1 .. Len(c.out) : Numbered(c.out[j]) => c.out[j].id # w[i].id
          /\ \A m \in ag.work : m.id # w[i].id
          /\ \A j \in 1 .. Len(w) : Response(c, w, j) /\ w[j].id = w[i].id => i = j

\* A call that is under way has its request; a resource is asked for once in a session.
Opens(p, o) == p.kind = "open" /\ p.op = o
Asking(c) ==
    /\ \A o \in A!Ops : c.op[o] = "asked" => \E p \in c.pending : Opens(p, o) /\ ~p.cancelled
    /\ \A p \in c.pending : p.kind = "open" =>
          p.op \in A!Ops /\ c.op[p.op] = (IF p.cancelled THEN "ended" ELSE "asked")
    /\ \A p, q \in c.pending : p.kind = "open" /\ q.kind = "open" /\ p.op = q.op => p = q
    /\ \A o \in A!Bound(c) : c.from[o] = c.gen

\* What the client has closed is over for it, the view with its subscription.
Closes(m, o) == m.kind = "close" /\ m.op = o
Closed(c) ==
    /\ \A i \in 1 .. Len(c.out) : c.out[i].kind = "close" =>
          c.out[i].op \in A!Ops /\ c.op[c.out[i].op] = "ended"
    /\ \A i \in 1 .. Len(c.out) : Closes(c.out[i], "sub") => c.op["view"] \in {"idle", "ended"}

ViewWithin(c) == c.op["view"] \in {"offer", "asked", "open"} => c.op["sub"] = "ready"

\* What the agent holds, or has dropped, was asked for and granted, once.
Granted(c, ag, w) ==
    /\ \A o \in A!Ops : o \in ag.held \/ Fails(c, w, o) =>
          /\ c.op[o] \notin {"idle", "offer"}
          /\ \A i \in 1 .. Len(c.out) : ~(c.out[i].kind = "open" /\ c.out[i].op = o)
          /\ \A m \in ag.work : ~(m.kind = "open" /\ m.op = o)
          /\ \A p \in c.pending, i \in 1 .. Len(w) : Opens(p, o) => ~Answer(c, w, i, p.id, FALSE)
    /\ \A o \in A!Ops : Fails(c, w, o) => o \notin ag.held
    /\ "view" \in ag.held => "sub" \in ag.held

\* What the client has, or will have, the agent holds, or its end is on its way behind.
Parents(o) == {o, "sub"}
Kept(c, ag, w) ==
    /\ \A o \in A!Bound(c) : o \in ag.held \/ \E u \in Parents(o) : Fails(c, w, u)
    /\ \A p \in c.pending, i \in 1 .. Len(w) :
          p.kind = "open" /\ ~p.cancelled /\ Answer(c, w, i, p.id, TRUE) =>
              \/ p.op \in ag.held
              \/ \E u \in Parents(p.op), j \in i + 1 .. Len(w) : Failure(c, w, j, u)

\* What the agent holds and the client has not is on its way to it or from it, or its close
\* was refused; save for what is still to be closed.
Granting(c, w, o) ==
    \E p \in c.pending, i \in 1 .. Len(w) : Opens(p, o) /\ Answer(c, w, i, p.id, TRUE)
Leaves(c, o) == \E i \in 1 .. Len(c.out), u \in Parents(o) : Closes(c.out[i], u)
Released(c, ag, w, debts) ==
    \A o \in ag.held \ (A!Bound(c) \union debts) :
        Granting(c, w, o) \/ Leaves(c, o) \/ c.refused \intersect Parents(o) # {}

Session(c, ag, w, debts) ==
    /\ Tracked(c, ag, w) /\ OnePlace(c, ag, w) /\ Answered(c, ag, w) /\ Asking(c) /\ Closed(c)
    /\ Granted(c, ag, w) /\ Kept(c, ag, w) /\ Released(c, ag, w, debts)

\* What every handler leaves of the client: a session, with some closes to be sent still, or
\* its end.
Fine(c, ag, w, debts) ==
    /\ c \in Transports /\ Limited(c)
    /\ Off(c) \/ (On(c) /\ Session(c, ag, w, debts))

AgentInv ==
    /\ AgentTyped
    /\ \/ Off(transport) /\ agent = A!NoSession
       \/ Begun(transport, wire) /\ agent = A!NoSession
       \/ /\ On(transport) /\ transport.gen \notin fetching /\ ViewWithin(transport)
          /\ Session(transport, agent, wire, {})
    /\ transport.link = "socket" => transport.gen \notin fetching

-----------------------------------------------------------------------------
\* What is sent or arrives comes last.
LEMMA Appended ==
    ASSUME NEW S, NEW s \in Seq(S), NEW x \in S
    PROVE  /\ Append(s, x) \in Seq(S) /\ Len(Append(s, x)) = Len(s) + 1 /\ Len(s) \in Nat
           /\ \A i \in 1 .. Len(s) : Append(s, x)[i] = s[i] /\ s[i] \in S
           /\ Append(s, x)[Len(s) + 1] = x
OBVIOUS

\* The operations that have a handle.
LEMMA BoundFacts ==
    ASSUME NEW c
    PROVE  /\ A!Ops = {"sub", "view"} /\ A!Bound(c) \subseteq A!Ops
           /\ "sub" \in A!Bound(c) <=> c.op["sub"] \in {"preparing", "ready"}
           /\ "view" \in A!Bound(c) <=> c.op["view"] = "open"
BY DEF A!Bound, A!Ops

\* A client that differs from another in what it has sent and asked, and in what is over.
Alike(c, d) ==
    /\ c \in Transports /\ d.gen = c.gen /\ d.socket = c.socket
    /\ c.counter <= d.counter /\ d.counter \in Nat

\* What a close is sent for is no longer owed.
StillOwed(debts, m) == {o \in debts : \A u \in Parents(o) : ~Closes(m, u)}

\* A message without a number is sent: a cancel, or a close of what is over.
LEMMA SendsPlain ==
    ASSUME NEW c, NEW d, NEW ag \in Agents, NEW w \in Seq(Arrivals), NEW debts, NEW m \in Sendings,
           Session(c, ag, w, debts), Alike(c, d), ~Numbered(m),
           d.out = Append(c.out, m), d.pending = c.pending, d.op = c.op, d.from = c.from,
           d.refused = c.refused,
           m.kind = "close" => /\ m.op \in A!Ops /\ c.op[m.op] = "ended"
                               /\ m.op = "sub" => c.op["view"] \in {"idle", "ended"}
    PROVE  Session(d, ag, w, StillOwed(debts, m))
<1> USE DEF Session, Alike
<1>t. /\ c.out \in Seq(Sendings) /\ c.counter \in Nat /\ c.pending \subseteq Asks
      /\ c.op \in [A!Ops -> OpStates]
  BY DEF Transports
<1>a. /\ Len(d.out) = Len(c.out) + 1 /\ Len(c.out) \in Nat
      /\ \A i \in 1 .. Len(c.out) : d.out[i] = c.out[i] /\ c.out[i] \in Sendings
      /\ d.out[Len(c.out) + 1] = m
  BY <1>t, Appended
<1>b. \A i \in 1 .. Len(d.out) : i \in 1 .. Len(c.out) \/ (i = Len(c.out) + 1 /\ d.out[i] = m)
  BY <1>a
<1>c. m.kind # "open"  BY DEF Numbered
<1>d. A!Bound(d) = A!Bound(c)  BY DEF A!Bound
<1>e. \A o : Fails(d, w, o) <=> Fails(c, w, o)  BY DEF Fails, Failure
<1>1. Tracked(d, ag, w)
  BY <1>t, <1>a, <1>b DEF Tracked, Asks
<1>2. OnePlace(d, ag, w)
  BY <1>t, <1>a, <1>b DEF OnePlace
<1>r. Answered(d, ag, w)
  <2> SUFFICES ASSUME NEW i \in 1 .. Len(w), Response(d, w, i)
               PROVE  /\ w[i].id <= d.counter
                      /\ \A j \in 1 .. Len(d.out) : Numbered(d.out[j]) => d.out[j].id # w[i].id
                      /\ \A n \in ag.work : n.id # w[i].id
                      /\ \A j \in 1 .. Len(w) : Response(d, w, j) /\ w[j].id = w[i].id => i = j
    BY DEF Answered
  <2>a. w[i] \in Arrivals  OBVIOUS
  <2>1. w[i].id \in Nat  BY <2>a DEF Arrivals
  <2>2. Response(c, w, i) /\ \A j \in 1 .. Len(w) : Response(d, w, j) => Response(c, w, j)
    BY DEF Response
  <2>3. w[i].id <= d.counter  BY <1>t, <2>1, <2>2 DEF Answered
  <2>4. \A j \in 1 .. Len(d.out) : Numbered(d.out[j]) => d.out[j].id # w[i].id
    BY <1>a, <1>b, <2>2 DEF Answered
  <2>5. QED BY <2>2, <2>3, <2>4 DEF Answered
<1>3. Asking(d)  BY <1>d DEF Asking
<1>4. Closed(d)  BY <1>a, <1>b DEF Closed, Closes
<1>5. Granted(d, ag, w)
  BY <1>a, <1>b, <1>c, <1>e DEF Granted, Opens, Answer, Response
<1>6. Kept(d, ag, w)
  BY <1>d, <1>e DEF Kept, Answer, Response, Failure
<1>7. Released(d, ag, w, StillOwed(debts, m))
  <2> SUFFICES ASSUME NEW o \in ag.held, o \notin A!Bound(c), o \notin StillOwed(debts, m)
               PROVE  Granting(d, w, o) \/ Leaves(d, o) \/ d.refused \intersect Parents(o) # {}
    BY <1>d DEF Released
  <2>1. CASE o \in debts
    <3>1. PICK u \in Parents(o) : Closes(m, u)  BY <2>1 DEF StillOwed
    <3>2. Leaves(d, o)  BY <3>1, <1>a DEF Leaves
    <3>3. QED BY <3>2
  <2>2. CASE o \notin debts
    <3>1. Granting(c, w, o) => Granting(d, w, o)  BY DEF Granting, Answer, Response
    <3>2. Leaves(c, o) => Leaves(d, o)  BY <1>a DEF Leaves
    <3>3. QED BY <3>1, <3>2, <2>2 DEF Released
  <2>3. QED BY <2>1, <2>2
<1>8. QED BY <1>1, <1>2, <1>r, <1>3, <1>4, <1>5, <1>6, <1>7

\* A request is numbered and sent: a plain one, a close of what is over, or the one that opens
\* a resource.
LEMMA SendsNumbered ==
    ASSUME NEW c, NEW d, NEW ag \in Agents, NEW w \in Seq(Arrivals), NEW debts,
           NEW kind \in {"open", "call", "close"}, NEW o \in Names,
           NEW m \in Sendings, NEW p \in Asks,
           Session(c, ag, w, debts), Alike(c, d),
           d.counter = c.counter + 1,
           m.kind = kind, m.id = d.counter, m.op = o,
           p.kind = kind, p.id = d.counter, p.op = o, ~p.cancelled,
           d.out = Append(c.out, m), d.pending = c.pending \union {p},
           d.from = c.from, d.refused = c.refused,
           kind = "open" => /\ o \in A!Ops /\ c.op[o] = IF o = "view" THEN "offer" ELSE "idle"
                            /\ d.op = [c.op EXCEPT ![o] = "asked"],
           kind # "open" => d.op = c.op,
           kind = "close" => /\ o \in A!Ops /\ c.op[o] = "ended"
                             /\ o = "sub" => c.op["view"] \in {"idle", "ended"}
    PROVE  Session(d, ag, w, StillOwed(debts, m))
<1> USE DEF Session, Alike
<1>t. /\ c.out \in Seq(Sendings) /\ c.counter \in Nat /\ c.pending \subseteq Asks
      /\ c.op \in [A!Ops -> OpStates]
  BY DEF Transports
<1>m. Numbered(m) /\ Tracks(p, m) /\ m.id = c.counter + 1 /\ p.id = c.counter + 1
  BY <1>t DEF Numbered, Tracks
<1>a. /\ Len(d.out) = Len(c.out) + 1 /\ Len(c.out) \in Nat
      /\ \A i \in 1 .. Len(c.out) : d.out[i] = c.out[i] /\ c.out[i] \in Sendings
      /\ d.out[Len(c.out) + 1] = m
  BY <1>t, <1>m, Appended
<1>b. \A i \in 1 .. Len(d.out) : i \in 1 .. Len(c.out) \/ (i = Len(c.out) + 1 /\ d.out[i] = m)
  BY <1>a
<1>c. \A q \in c.pending : q.id <= c.counter /\ q.id \in Nat /\ q \in Asks
  BY <1>t DEF Tracked, Asks
<1>d. \A q \in c.pending : q.id # c.counter + 1  BY <1>c, <1>t
<1>e. \A i \in 1 .. Len(c.out) : Numbered(c.out[i]) => c.out[i].id # c.counter + 1
  BY <1>d DEF Tracked, Tracks
<1>f. \A n \in ag.work : n.id # c.counter + 1  BY <1>d DEF Tracked, Tracks
<1>g. \A i \in 1 .. Len(w) : Response(d, w, i) => Response(c, w, i) /\ w[i].id # c.counter + 1
  <2> SUFFICES ASSUME NEW i \in 1 .. Len(w), Response(d, w, i)
               PROVE  Response(c, w, i) /\ w[i].id # c.counter + 1
    OBVIOUS
  <2>1. w[i] \in Arrivals  OBVIOUS
  <2>2. w[i].id \in Nat  BY <2>1 DEF Arrivals
  <2>3. Response(c, w, i)  BY DEF Response
  <2>4. w[i].id <= c.counter  BY <2>3 DEF Answered
  <2>5. QED BY <1>t, <2>2, <2>3, <2>4
<1>h. \A o2 \in A!Ops : c.op[o2] \notin {"idle", "offer"} => d.op[o2] = c.op[o2]
  BY <1>t
<1>i. A!Bound(d) = A!Bound(c)
  <2>1. \A o2 \in A!Ops : o2 \in A!Bound(d) <=> o2 \in A!Bound(c)
    <3>1. CASE kind = "open"
      <4>1. d.op[o] = "asked" /\ \A o2 \in A!Ops : o2 # o => d.op[o2] = c.op[o2]
        BY <3>1, <1>t
      <4>2. c.op[o] \in {"idle", "offer"}  BY <3>1
      <4>3. QED BY <4>1, <4>2, BoundFacts
    <3>2. CASE kind # "open"  BY <3>2, BoundFacts
    <3>3. QED BY <3>1, <3>2
  <2>2. QED BY <2>1, BoundFacts
<1>j. \A o2 : Fails(d, w, o2) <=> Fails(c, w, o2)  BY DEF Fails, Failure
<1>k. \A q \in d.pending, i \in 1 .. Len(w), ok \in BOOLEAN :
         Answer(d, w, i, q.id, ok) => q \in c.pending /\ Answer(c, w, i, q.id, ok)
  BY <1>g, <1>m DEF Answer
<1>1. Tracked(d, ag, w)
  <2>1. \A q \in d.pending : q.id <= d.counter  BY <1>c, <1>t, <1>m
  <2>2. \A q, r \in d.pending : q.id = r.id => q = r  BY <1>d, <1>m DEF Tracked
  <2>3. \A i \in 1 .. Len(d.out) : Numbered(d.out[i]) => \E q \in d.pending : Tracks(q, d.out[i])
    BY <1>a, <1>b, <1>m DEF Tracked
  <2>4. QED BY <2>1, <2>2, <2>3 DEF Tracked
<1>2. OnePlace(d, ag, w)
  BY <1>a, <1>b, <1>e, <1>f, <1>m DEF OnePlace
<1>3. Answered(d, ag, w)
  <2> SUFFICES ASSUME NEW i \in 1 .. Len(w), Response(d, w, i)
               PROVE  /\ w[i].id <= d.counter
                      /\ \A j \in 1 .. Len(d.out) : Numbered(d.out[j]) => d.out[j].id # w[i].id
                      /\ \A n \in ag.work : n.id # w[i].id
                      /\ \A j \in 1 .. Len(w) : Response(d, w, j) /\ w[j].id = w[i].id => i = j
    BY DEF Answered
  <2>1. w[i] \in Arrivals  OBVIOUS
  <2>2. w[i].id \in Nat /\ Response(c, w, i)  BY <2>1, <1>g DEF Arrivals
  <2>3. w[i].id <= d.counter  BY <1>t, <2>2 DEF Answered
  <2>4. \A j \in 1 .. Len(d.out) : Numbered(d.out[j]) => d.out[j].id # w[i].id
    BY <1>a, <1>b, <1>g, <1>m, <2>2 DEF Answered
  <2>5. QED BY <1>g, <2>2, <2>3, <2>4 DEF Answered
<1>4. Asking(d)
  <2>1. \A o2 \in A!Ops : d.op[o2] = "asked" => \E q \in d.pending : Opens(q, o2) /\ ~q.cancelled
    BY <1>t, <1>m DEF Asking, Opens
  <2>2. \A q \in c.pending : q.kind = "open" =>
          q.op \in A!Ops /\ d.op[q.op] = c.op[q.op] /\ (kind = "open" => q.op # o)
    BY <1>h, <1>t DEF Asking
  <2>3. \A q \in d.pending : q.kind = "open" =>
          q.op \in A!Ops /\ d.op[q.op] = (IF q.cancelled THEN "ended" ELSE "asked")
    BY <2>2, <1>m, <1>t DEF Asking
  <2>4. \A q, r \in d.pending : q.kind = "open" /\ r.kind = "open" /\ q.op = r.op => q = r
    BY <2>2, <1>m DEF Asking
  <2>5. QED BY <1>i, <2>1, <2>3, <2>4 DEF Asking
<1>5. Closed(d)
  <2>1. \A i \in 1 .. Len(d.out) : d.out[i].kind = "close" =>
          d.out[i].op \in A!Ops /\ d.op[d.out[i].op] = "ended"
    <3> SUFFICES ASSUME NEW i \in 1 .. Len(d.out), d.out[i].kind = "close"
                 PROVE  d.out[i].op \in A!Ops /\ d.op[d.out[i].op] = "ended"
      OBVIOUS
    <3>1. CASE i \in 1 .. Len(c.out)
      <4>1. d.out[i] = c.out[i]  BY <3>1, <1>a
      <4>2. c.out[i].op \in A!Ops /\ c.op[c.out[i].op] = "ended"  BY <3>1, <4>1 DEF Closed
      <4>3. QED BY <4>1, <4>2, <1>h
    <3>2. CASE d.out[i] = m  BY <3>2, <1>h
    <3>3. QED BY <3>1, <3>2, <1>b
  <2>2. \A i \in 1 .. Len(d.out) : Closes(d.out[i], "sub") => c.op["view"] \in {"idle", "ended"}
    BY <1>a, <1>b, <1>m DEF Closed, Closes
  <2>3. (\E i \in 1 .. Len(d.out) : Closes(d.out[i], "sub")) => d.op["view"] = c.op["view"]
    BY <2>2, <1>t, BoundFacts
  <2>4. QED BY <2>1, <2>2, <2>3 DEF Closed
<1>6. Granted(d, ag, w)
  <2>1. ASSUME NEW o2 \in A!Ops, o2 \in ag.held \/ Fails(d, w, o2)
        PROVE  /\ d.op[o2] \notin {"idle", "offer"}
               /\ \A i \in 1 .. Len(d.out) : ~(d.out[i].kind = "open" /\ d.out[i].op = o2)
               /\ \A n \in ag.work : ~(n.kind = "open" /\ n.op = o2)
               /\ \A q \in d.pending, i \in 1 .. Len(w) :
                     Opens(q, o2) => ~Answer(d, w, i, q.id, FALSE)
    <3>1. o2 \in ag.held \/ Fails(c, w, o2)  BY <2>1, <1>j
    <3>2. c.op[o2] \notin {"idle", "offer"} /\ ~(kind = "open" /\ o = o2)  BY <3>1 DEF Granted
    <3>3. \A i \in 1 .. Len(d.out) : ~(d.out[i].kind = "open" /\ d.out[i].op = o2)
      <4>1. \A i \in 1 .. Len(c.out) : ~(c.out[i].kind = "open" /\ c.out[i].op = o2)
        BY <3>1 DEF Granted
      <4>2. ~(m.kind = "open" /\ m.op = o2)  BY <3>2
      <4>3. QED BY <4>1, <4>2, <1>a, <1>b
    <3>4. \A q \in d.pending, i \in 1 .. Len(w) :
                     Opens(q, o2) => ~Answer(d, w, i, q.id, FALSE)
      BY <3>1, <1>k DEF Granted
    <3>5. QED BY <3>1, <3>2, <3>3, <3>4, <1>h DEF Granted
  <2>2. QED BY <2>1, <1>j DEF Granted
<1>7. Kept(d, ag, w)
  <2>1. \A o2 \in A!Bound(d) : o2 \in ag.held \/ \E u \in Parents(o2) : Fails(d, w, u)
    BY <1>i, <1>j DEF Kept
  <2>2. \A q \in d.pending, i \in 1 .. Len(w) :
          q.kind = "open" /\ ~q.cancelled /\ Answer(d, w, i, q.id, TRUE) =>
              \/ q.op \in ag.held
              \/ \E u \in Parents(q.op), j \in i + 1 .. Len(w) : Failure(c, w, j, u)
    BY <1>k DEF Kept
  <2>3. \A j, u : Failure(d, w, j, u) <=> Failure(c, w, j, u)  BY DEF Failure
  <2>4. QED BY <2>1, <2>2, <2>3 DEF Kept
<1>8. Released(d, ag, w, StillOwed(debts, m))
  <2> SUFFICES ASSUME NEW o2 \in ag.held, o2 \notin A!Bound(c), o2 \notin StillOwed(debts, m)
               PROVE  Granting(d, w, o2) \/ Leaves(d, o2) \/ d.refused \intersect Parents(o2) # {}
    BY <1>i DEF Released
  <2>1. CASE o2 \in debts
    <3>1. PICK u \in Parents(o2) : Closes(m, u)  BY <2>1 DEF StillOwed
    <3>2. Leaves(d, o2)  BY <3>1, <1>a DEF Leaves
    <3>3. QED BY <3>2
  <2>2. CASE o2 \notin debts
    <3>1. Granting(c, w, o2) => Granting(d, w, o2)  BY DEF Granting, Answer, Response
    <3>2. \A i \in 1 .. Len(c.out) : i \in 1 .. Len(d.out) /\ d.out[i] = c.out[i]  BY <1>a
    <3>3. Leaves(c, o2) => Leaves(d, o2)  BY <3>2 DEF Leaves
    <3>4. QED BY <3>1, <3>3, <2>2 DEF Released
  <2>3. QED BY <2>1, <2>2
<1>9. QED BY <1>1, <1>2, <1>3, <1>4, <1>5, <1>6, <1>7, <1>8

\* A client with the same messages and requests has them in the same places.
LEMMA PlacesStay ==
    ASSUME NEW c, NEW d, NEW ag \in Agents, NEW w \in Seq(Arrivals),
           Tracked(c, ag, w), OnePlace(c, ag, w), Answered(c, ag, w), Alike(c, d),
           d.out = c.out, d.pending = c.pending
    PROVE  Tracked(d, ag, w) /\ OnePlace(d, ag, w) /\ Answered(d, ag, w)
<1>t. c.counter \in Nat /\ c.pending \subseteq Asks /\ c.counter <= d.counter /\ d.counter \in Nat
  BY DEF Transports, Alike
<1>1. Tracked(d, ag, w)
  <2>1. \A p \in c.pending : p.id <= d.counter  BY <1>t DEF Tracked, Asks
  <2>2. QED BY <2>1 DEF Tracked
<1>2. OnePlace(d, ag, w)  BY DEF OnePlace
<1>3. \A i \in 1 .. Len(w) : Response(d, w, i) <=> Response(c, w, i)  BY DEF Response, Alike
<1>4. \A i \in 1 .. Len(w) : Response(c, w, i) => w[i].id <= d.counter
  <2> SUFFICES ASSUME NEW i \in 1 .. Len(w), Response(c, w, i) PROVE w[i].id <= d.counter
    OBVIOUS
  <2>1. w[i] \in Arrivals  OBVIOUS
  <2>2. w[i].id \in Nat  BY <2>1 DEF Arrivals
  <2>3. w[i].id <= c.counter  BY DEF Answered
  <2>4. QED BY <1>t, <2>2, <2>3
<1>5. Answered(d, ag, w)  BY <1>3, <1>4 DEF Answered
<1>6. QED BY <1>1, <1>2, <1>5

\* An operation that is not asked for is over.
LEMMA OperationEnds ==
    ASSUME NEW c, NEW d, NEW ag \in Agents, NEW w \in Seq(Arrivals), NEW debts, NEW o \in A!Ops,
           Session(c, ag, w, debts), Alike(c, d), c.op[o] # "asked",
           d.op = [c.op EXCEPT ![o] = "ended"], d.out = c.out, d.pending = c.pending,
           d.from = c.from, d.refused = c.refused
    PROVE  Session(d, ag, w, debts \union {o})
<1> USE DEF Session
<1>t. c.op \in [A!Ops -> OpStates] /\ d.socket = c.socket /\ d.gen = c.gen
  BY DEF Transports, Alike
<1>o. d.op[o] = "ended" /\ \A u \in A!Ops : u # o => d.op[u] = c.op[u]  BY <1>t
<1>1. Tracked(d, ag, w) /\ OnePlace(d, ag, w) /\ Answered(d, ag, w)  BY PlacesStay
<1>2. A!Bound(d) \subseteq A!Bound(c) /\ A!Bound(c) \subseteq A!Bound(d) \union {o}
  <2>1. CASE o = "sub"
    <3>1. d.op["sub"] = "ended" /\ d.op["view"] = c.op["view"]  BY <1>o, <2>1, BoundFacts
    <3>2. "sub" \notin A!Bound(d) /\ ("view" \in A!Bound(d) <=> "view" \in A!Bound(c))
      BY <3>1, BoundFacts
    <3>3. QED BY <2>1, <3>2, BoundFacts
  <2>2. CASE o = "view"
    <3>1. d.op["view"] = "ended" /\ d.op["sub"] = c.op["sub"]  BY <1>o, <2>2, BoundFacts
    <3>2. "view" \notin A!Bound(d) /\ ("sub" \in A!Bound(d) <=> "sub" \in A!Bound(c))
      BY <3>1, BoundFacts
    <3>3. QED BY <2>2, <3>2, BoundFacts
  <2>3. QED BY <2>1, <2>2, BoundFacts
<1>3. Asking(d)
  <2>1. \A p \in c.pending : p.kind = "open" =>
          p.op \in A!Ops /\ d.op[p.op] = (IF p.cancelled THEN "ended" ELSE "asked")
    BY <1>o DEF Asking
  <2>2. \A u \in A!Ops : d.op[u] = "asked" => c.op[u] = "asked"  BY <1>o
  <2>3. QED BY <1>2, <2>1, <2>2, <1>t DEF Asking
<1>4. Closed(d)
  <2>1. \A u \in A!Ops : c.op[u] = "ended" => d.op[u] = "ended"  BY <1>o
  <2>2. c.op["view"] \in {"idle", "ended"} => d.op["view"] \in {"idle", "ended"}
    BY <1>o, BoundFacts
  <2>3. QED BY <2>1, <2>2 DEF Closed
<1>5. Granted(d, ag, w)
  <2>1. \A u : Fails(d, w, u) <=> Fails(c, w, u)  BY <1>t DEF Fails, Failure
  <2>2. \A i, n, ok : Answer(d, w, i, n, ok) <=> Answer(c, w, i, n, ok)
    BY <1>t DEF Answer, Response
  <2>3. \A u \in A!Ops : c.op[u] \notin {"idle", "offer"} => d.op[u] \notin {"idle", "offer"}
    BY <1>o
  <2>4. QED BY <2>1, <2>2, <2>3 DEF Granted
<1>6. Kept(d, ag, w)
  <2>1. \A u : Fails(d, w, u) <=> Fails(c, w, u)  BY <1>t DEF Fails, Failure
  <2>2. \A i, n, ok : Answer(d, w, i, n, ok) <=> Answer(c, w, i, n, ok)
    BY <1>t DEF Answer, Response
  <2>3. \A j, u : Failure(d, w, j, u) <=> Failure(c, w, j, u)  BY <1>t DEF Failure
  <2>4. QED BY <1>2, <2>1, <2>2, <2>3 DEF Kept
<1>7. Released(d, ag, w, debts \union {o})
  <2>1. \A u : Granting(c, w, u) => Granting(d, w, u)
    BY <1>t DEF Granting, Answer, Response
  <2>2. \A u : Leaves(c, u) => Leaves(d, u)  BY DEF Leaves
  <2>3. QED BY <1>2, <2>1, <2>2 DEF Released
<1>8. QED BY <1>1, <1>3, <1>4, <1>5, <1>6, <1>7

\* A close is refused, which pays what is owed for it; or nothing is.
LEMMA CloseRefused ==
    ASSUME NEW c, NEW d, NEW ag \in Agents, NEW w \in Seq(Arrivals), NEW debts,
           Session(c, ag, w, debts), Alike(c, d),
           d.op = c.op, d.out = c.out, d.pending = c.pending,
           d.from = c.from, c.refused \subseteq d.refused
    PROVE  Session(d, ag, w, {o \in debts : d.refused \intersect Parents(o) = {}})
<1> USE DEF Session
<1>t. d.socket = c.socket /\ d.gen = c.gen  BY DEF Alike
<1>1. Tracked(d, ag, w) /\ OnePlace(d, ag, w) /\ Answered(d, ag, w)  BY PlacesStay
<1>2. A!Bound(d) = A!Bound(c)  BY DEF A!Bound
<1>3. Asking(d)  BY <1>2, <1>t DEF Asking
<1>4. Closed(d)  BY DEF Closed
<1>a. \A u : Fails(d, w, u) <=> Fails(c, w, u)  BY <1>t DEF Fails, Failure
<1>b. \A i, n, ok : Answer(d, w, i, n, ok) <=> Answer(c, w, i, n, ok)
  BY <1>t DEF Answer, Response
<1>c. \A j, u : Failure(d, w, j, u) <=> Failure(c, w, j, u)  BY <1>t DEF Failure
<1>5. Granted(d, ag, w)  BY <1>a, <1>b DEF Granted
<1>6. Kept(d, ag, w)  BY <1>2, <1>a, <1>b, <1>c DEF Kept
<1>7. Released(d, ag, w, {o \in debts : d.refused \intersect Parents(o) = {}})
  <2>1. \A u : Granting(c, w, u) => Granting(d, w, u)  BY <1>b DEF Granting
  <2>2. \A u : Leaves(c, u) => Leaves(d, u)  BY DEF Leaves
  <2>3. QED BY <1>2, <2>1, <2>2 DEF Released
<1>8. QED BY <1>1, <1>3, <1>4, <1>5, <1>6, <1>7

\* A request is cancelled: what it opens, if anything, is over.
LEMMA RequestCancelled ==
    ASSUME NEW c, NEW d, NEW ag \in Agents, NEW w \in Seq(Arrivals), NEW debts,
           NEW p \in c.pending, NEW r \in Asks,
           Session(c, ag, w, debts), Alike(c, d), ~p.cancelled,
           r.id = p.id, r.kind = p.kind, r.op = p.op, r.cancelled,
           d.pending = (c.pending \ {p}) \union {r}, d.out = c.out,
           d.op = (IF p.kind = "open" THEN [c.op EXCEPT ![p.op] = "ended"] ELSE c.op),
           d.from = c.from, d.refused = c.refused, d.counter = c.counter
    PROVE  Session(d, ag, w, debts)
<1> USE DEF Session
<1>t. c.op \in [A!Ops -> OpStates] /\ d.socket = c.socket /\ d.gen = c.gen
  BY DEF Transports, Alike
<1>o. /\ p.kind = "open" => p.op \in A!Ops /\ c.op[p.op] = "asked" /\ d.op[p.op] = "ended"
      /\ \A u \in A!Ops : (p.kind = "open" /\ u = p.op) \/ d.op[u] = c.op[u]
  BY <1>t DEF Asking
<1>r. \A q \in d.pending : q \in c.pending \/ q = r  OBVIOUS
<1>q. \A q \in c.pending : \E s \in d.pending :
         s.id = q.id /\ s.kind = q.kind /\ s.op = q.op /\ (q # p => s = q)
  OBVIOUS
<1>b. A!Bound(d) = A!Bound(c)
  <2>1. \A u \in A!Ops : u \in A!Bound(d) <=> u \in A!Bound(c)
    <3>1. SUFFICES ASSUME NEW u \in A!Ops PROVE u \in A!Bound(d) <=> u \in A!Bound(c)
      OBVIOUS
    <3>2. d.op[u] = c.op[u] \/ (c.op[u] = "asked" /\ d.op[u] = "ended")  BY <1>o
    <3>3. CASE u = "sub"  BY <3>2, <3>3, BoundFacts
    <3>4. CASE u = "view"  BY <3>2, <3>4, BoundFacts
    <3>5. QED BY <3>3, <3>4, BoundFacts
  <2>2. QED BY <2>1, BoundFacts
<1>e. \A u : Fails(d, w, u) <=> Fails(c, w, u)  BY <1>t DEF Fails, Failure
<1>f. \A i, n, ok : Answer(d, w, i, n, ok) <=> Answer(c, w, i, n, ok)
  BY <1>t DEF Answer, Response
<1>g. \A j, u : Failure(d, w, j, u) <=> Failure(c, w, j, u)  BY <1>t DEF Failure
<1>1. Tracked(d, ag, w)
  <2>1. \A q \in d.pending : q.id <= d.counter  BY <1>r DEF Tracked
  <2>2. \A q, s \in d.pending : q.id = s.id => q = s  BY DEF Tracked
  <2>3. \A m : (\E q \in c.pending : Tracks(q, m)) => \E q \in d.pending : Tracks(q, m)
    BY <1>q DEF Tracks
  <2>4. QED BY <2>1, <2>2, <2>3 DEF Tracked
<1>2. OnePlace(d, ag, w)  BY DEF OnePlace
<1>3. Answered(d, ag, w)
  <2>1. \A i : Response(d, w, i) <=> Response(c, w, i)  BY <1>t DEF Response
  <2>2. QED BY <2>1 DEF Answered
<1>4. Asking(d)
  <2>1. \A u \in A!Ops : d.op[u] = "asked" => \E q \in d.pending : Opens(q, u) /\ ~q.cancelled
    <3> SUFFICES ASSUME NEW u \in A!Ops, d.op[u] = "asked"
                 PROVE  \E q \in d.pending : Opens(q, u) /\ ~q.cancelled
      OBVIOUS
    <3>1. c.op[u] = "asked" /\ ~(p.kind = "open" /\ u = p.op)  BY <1>o
    <3>2. PICK q \in c.pending : Opens(q, u) /\ ~q.cancelled  BY <3>1 DEF Asking
    <3>3. q # p  BY <3>1, <3>2 DEF Opens
    <3>4. QED BY <3>2, <3>3
  <2>2. ASSUME NEW q \in d.pending, q.kind = "open"
        PROVE  q.op \in A!Ops /\ d.op[q.op] = (IF q.cancelled THEN "ended" ELSE "asked")
    <3>1. CASE q = r  BY <1>o, <3>1, <2>2
    <3>2. CASE q \in c.pending /\ q # p
      <4>1. q.op \in A!Ops /\ c.op[q.op] = (IF q.cancelled THEN "ended" ELSE "asked")
        BY <3>2, <2>2 DEF Asking
      <4>2. ~(p.kind = "open" /\ q.op = p.op)  BY <3>2, <2>2 DEF Asking
      <4>3. QED BY <4>1, <4>2, <1>o
    <3>3. QED BY <3>1, <3>2
  <2>3. \A q, s \in d.pending : q.kind = "open" /\ s.kind = "open" /\ q.op = s.op => q = s
    BY DEF Asking
  <2>4. QED BY <1>b, <1>t, <2>1, <2>2, <2>3 DEF Asking
<1>5. Closed(d)
  <2>1. \A u \in A!Ops : c.op[u] = "ended" => d.op[u] = "ended"  BY <1>o
  <2>2. c.op["view"] \in {"idle", "ended"} => d.op["view"] \in {"idle", "ended"}
    BY <1>o, BoundFacts
  <2>3. QED BY <2>1, <2>2 DEF Closed
<1>6. Granted(d, ag, w)
  <2>1. \A u \in A!Ops : c.op[u] \notin {"idle", "offer"} => d.op[u] \notin {"idle", "offer"}
    BY <1>o
  <2>2. ASSUME NEW u \in A!Ops, u \in ag.held \/ Fails(d, w, u)
        PROVE  \A q \in d.pending, i \in 1 .. Len(w) : Opens(q, u) => ~Answer(d, w, i, q.id, FALSE)
    <3>1. \A q \in c.pending, i \in 1 .. Len(w) : Opens(q, u) => ~Answer(c, w, i, q.id, FALSE)
      BY <2>2, <1>e DEF Granted
    <3>2. ASSUME NEW q \in d.pending, NEW i \in 1 .. Len(w), Opens(q, u)
          PROVE  ~Answer(d, w, i, q.id, FALSE)
      <4>1. PICK s \in c.pending : s.id = q.id /\ Opens(s, u)  BY <1>r, <3>2 DEF Opens
      <4>2. ~Answer(c, w, i, s.id, FALSE)  BY <3>1, <4>1
      <4>3. QED BY <4>1, <4>2, <1>f
    <3>3. QED BY <3>2
  <2>3. ASSUME NEW u \in A!Ops, u \in ag.held \/ Fails(d, w, u)
        PROVE  /\ d.op[u] \notin {"idle", "offer"}
               /\ \A i \in 1 .. Len(d.out) : ~(d.out[i].kind = "open" /\ d.out[i].op = u)
               /\ \A m \in ag.work : ~(m.kind = "open" /\ m.op = u)
    <3>1. u \in ag.held \/ Fails(c, w, u)  BY <2>3, <1>e
    <3>2. /\ c.op[u] \notin {"idle", "offer"}
          /\ \A i \in 1 .. Len(c.out) : ~(c.out[i].kind = "open" /\ c.out[i].op = u)
          /\ \A m \in ag.work : ~(m.kind = "open" /\ m.op = u)
      BY <3>1 DEF Granted
    <3>3. QED BY <3>2, <2>1
  <2>4. \A u \in A!Ops : Fails(d, w, u) => u \notin ag.held  BY <1>e DEF Granted
  <2>5. "view" \in ag.held => "sub" \in ag.held  BY DEF Granted
  <2>6. QED BY <2>2, <2>3, <2>4, <2>5 DEF Granted
<1>7. Kept(d, ag, w)
  <2>1. \A q \in d.pending : ~q.cancelled => q \in c.pending  BY <1>r
  <2>2. QED BY <1>b, <1>e, <1>f, <1>g, <2>1 DEF Kept
<1>8. Released(d, ag, w, debts)
  <2>1. \A u : Granting(c, w, u) => Granting(d, w, u)
    <3> SUFFICES ASSUME NEW u, Granting(c, w, u) PROVE Granting(d, w, u)
      OBVIOUS
    <3>1. PICK q \in c.pending, i \in 1 .. Len(w) : Opens(q, u) /\ Answer(c, w, i, q.id, TRUE)
      BY DEF Granting
    <3>2. PICK s \in d.pending : s.id = q.id /\ Opens(s, u)  BY <3>1, <1>q DEF Opens
    <3>3. QED BY <3>1, <3>2, <1>f DEF Granting
  <2>2. \A u : Leaves(c, u) => Leaves(d, u)  BY DEF Leaves
  <2>3. QED BY <1>b, <2>1, <2>2 DEF Released
<1>9. QED BY <1>1, <1>2, <1>3, <1>4, <1>5, <1>6, <1>7, <1>8

\* The client after an answer to a request.
AfterAnswer(c, d, p, ok) ==
    /\ d.pending = c.pending \ {p} /\ d.out = c.out
    /\ d.refused = c.refused /\ d.counter = c.counter
    /\ p.kind # "open" => d.op = c.op
    /\ p.kind = "open" /\ (p.cancelled \/ ~ok) => d.op = [c.op EXCEPT ![p.op] = "ended"]
    /\ p.kind = "open" /\ ~p.cancelled /\ ok =>
         /\ d.op = [c.op EXCEPT ![p.op] = IF p.op = "sub" THEN "preparing" ELSE "open"]
         /\ d.from = [c.from EXCEPT ![p.op] = c.gen]
    /\ d.from = c.from \/ (p.kind = "open" /\ ~p.cancelled /\ ok)

\* A request is answered: what it was to open is open, or over, and to be closed when it was
\* cancelled.
LEMMA RequestAnswered ==
    ASSUME NEW c, NEW d, NEW ag \in Agents, NEW w \in Seq(Arrivals), NEW debts,
           NEW p \in c.pending, NEW j \in 1 .. Len(w), NEW ok \in BOOLEAN,
           Session(c, ag, w, debts), Alike(c, d),
           Answer(c, w, j, p.id, ok), AfterAnswer(c, d, p, ok)
    PROVE  /\ p.kind = "open" /\ p.cancelled /\ ok => Session(d, ag, w, debts \union {p.op})
           /\ ~(p.kind = "open" /\ p.cancelled /\ ok) => Session(d, ag, w, debts)
<1> USE DEF Session, AfterAnswer
<1>t. /\ c.op \in [A!Ops -> OpStates] /\ c.from \in [A!Ops -> Nat]
      /\ d.socket = c.socket /\ d.gen = c.gen /\ c.pending \subseteq Asks
  BY DEF Transports, Alike
<1>p. p.cancelled \in BOOLEAN  BY <1>t DEF Asks
<1>o. /\ p.kind = "open" =>
            p.op \in A!Ops /\ c.op[p.op] = (IF p.cancelled THEN "ended" ELSE "asked")
      /\ \A u \in A!Ops : p.kind # "open" \/ u # p.op => d.op[u] = c.op[u] /\ d.from[u] = c.from[u]
  <2>1. p.kind = "open" => p.op \in A!Ops /\ c.op[p.op] = (IF p.cancelled THEN "ended" ELSE "asked")
    BY DEF Asking
  <2>2. ASSUME NEW u \in A!Ops, p.kind # "open" \/ u # p.op PROVE d.op[u] = c.op[u]
    BY <1>p, <1>t, <2>1, <2>2
  <2>3. ASSUME NEW u \in A!Ops, p.kind # "open" \/ u # p.op PROVE d.from[u] = c.from[u]
    BY <1>p, <1>t, <2>1, <2>3
  <2>4. QED BY <2>1, <2>2, <2>3
<1>n. p.kind = "open" =>
         /\ p.cancelled \/ ~ok => d.op[p.op] = "ended"
         /\ ~p.cancelled /\ ok => /\ d.op[p.op] = IF p.op = "sub" THEN "preparing" ELSE "open"
                                  /\ d.from[p.op] = c.gen
  BY <1>o, <1>t
<1>e. \A u : Fails(d, w, u) <=> Fails(c, w, u)  BY <1>t DEF Fails, Failure
<1>f. \A i, n, k : Answer(d, w, i, n, k) <=> Answer(c, w, i, n, k)
  BY <1>t DEF Answer, Response
<1>g. \A i, u : Failure(d, w, i, u) <=> Failure(c, w, i, u)  BY <1>t DEF Failure
<1>b. /\ A!Bound(c) \subseteq A!Bound(d)
      /\ \A u \in A!Bound(d) : u \in A!Bound(c) \/
             (p.kind = "open" /\ ~p.cancelled /\ ok /\ u = p.op)
      /\ p.kind = "open" /\ ~p.cancelled /\ ok => p.op \in A!Bound(d)
  <2>1. ASSUME NEW u \in A!Ops, p.kind # "open" \/ u # p.op
        PROVE  u \in A!Bound(d) <=> u \in A!Bound(c)
    <3>1. d.op[u] = c.op[u]  BY <2>1, <1>o
    <3>2. CASE u = "sub"  BY <3>1, <3>2, BoundFacts
    <3>3. CASE u = "view"  BY <3>1, <3>3, BoundFacts
    <3>4. QED BY <3>2, <3>3, BoundFacts
  <2>2. ASSUME p.kind = "open"
        PROVE  p.op \notin A!Bound(c) /\ (p.op \in A!Bound(d) <=> ~p.cancelled /\ ok)
    <3>1. CASE p.op = "sub"  BY <1>o, <1>n, <1>p, <2>2, <3>1, BoundFacts
    <3>2. CASE p.op = "view"  BY <1>o, <1>n, <1>p, <2>2, <3>2, BoundFacts
    <3>3. QED BY <1>o, <2>2, <3>1, <3>2, BoundFacts
  <2>3. QED BY <1>p, <2>1, <2>2, BoundFacts
<1>1. Tracked(d, ag, w)
  <2>1. \A i \in 1 .. Len(c.out) : Numbered(c.out[i]) => c.out[i].id # p.id
    BY DEF Answered, Answer
  <2>2. \A m \in ag.work : m.id # p.id  BY DEF Answered, Answer
  <2>3. QED BY <2>1, <2>2 DEF Tracked, Tracks
<1>2. OnePlace(d, ag, w)  BY DEF OnePlace
<1>3. Answered(d, ag, w)
  <2>1. \A i : Response(d, w, i) <=> Response(c, w, i)  BY <1>t DEF Response
  <2>2. QED BY <2>1 DEF Answered
<1>4. Asking(d)
  <2>1. \A u \in A!Ops : d.op[u] = "asked" => \E q \in d.pending : Opens(q, u) /\ ~q.cancelled
    <3> SUFFICES ASSUME NEW u \in A!Ops, d.op[u] = "asked"
                 PROVE  \E q \in d.pending : Opens(q, u) /\ ~q.cancelled
      OBVIOUS
    <3>1. ~(p.kind = "open" /\ u = p.op)  BY <1>n, <1>p
    <3>2. c.op[u] = "asked"  BY <1>o, <3>1
    <3>3. PICK q \in c.pending : Opens(q, u) /\ ~q.cancelled  BY <3>2 DEF Asking
    <3>4. q # p  BY <3>1, <3>3 DEF Opens
    <3>5. QED BY <3>3, <3>4
  <2>2. ASSUME NEW q \in d.pending, q.kind = "open"
        PROVE  q.op \in A!Ops /\ d.op[q.op] = (IF q.cancelled THEN "ended" ELSE "asked")
    <3>1. q.op \in A!Ops /\ c.op[q.op] = (IF q.cancelled THEN "ended" ELSE "asked")
      BY <2>2 DEF Asking
    <3>2. ~(p.kind = "open" /\ q.op = p.op)  BY <2>2 DEF Asking
    <3>3. QED BY <3>1, <3>2, <1>o
  <2>3. \A q, s \in d.pending : q.kind = "open" /\ s.kind = "open" /\ q.op = s.op => q = s
    BY DEF Asking
  <2>4. \A u \in A!Bound(d) : d.from[u] = d.gen
    <3> SUFFICES ASSUME NEW u \in A!Bound(d) PROVE d.from[u] = d.gen
      OBVIOUS
    <3>1. CASE p.kind = "open" /\ ~p.cancelled /\ ok /\ u = p.op  BY <1>n, <1>t, <3>1
    <3>2. CASE ~
             (p.kind = "open" /\ ~p.cancelled /\ ok /\ u = p.op)
      <4>1. u \in A!Bound(c) /\ u \in A!Ops  BY <1>b, <3>2, BoundFacts
      <4>2. ~(p.kind = "open" /\ u = p.op)
        <5>1. p.kind = "open" => c.op[p.op] \in {"asked", "ended"}  BY <1>o
        <5>2. c.op[u] \notin {"asked", "ended"}  BY <4>1, BoundFacts
        <5>3. QED BY <5>1, <5>2
      <4>3. QED BY <1>o, <1>t, <4>1, <4>2 DEF Asking
    <3>3. QED BY <3>1, <3>2
  <2>5. QED BY <2>1, <2>2, <2>3, <2>4 DEF Asking
<1>5. Closed(d)
  <2>1. \A i \in 1 .. Len(c.out) : c.out[i].kind = "close" =>
           ~(p.kind = "open" /\ ~p.cancelled /\ c.out[i].op = p.op)
    BY <1>o DEF Closed
  <2>2. \A u \in A!Ops : c.op[u] = "ended" => d.op[u] = "ended"
    <3> SUFFICES ASSUME NEW u \in A!Ops, c.op[u] = "ended" PROVE d.op[u] = "ended"
      OBVIOUS
    <3>1. CASE p.kind = "open" /\ u = p.op
      <4>1. p.cancelled  BY <1>o, <3>1
      <4>2. QED BY <4>1, <3>1, <1>n
    <3>2. CASE ~(p.kind = "open" /\ u = p.op)  BY <1>o, <3>2
    <3>3. QED BY <3>1, <3>2
  <2>3. c.op["view"] \in {"idle", "ended"} => d.op["view"] \in {"idle", "ended"}
    <3>1. CASE p.kind = "open" /\ p.op = "view"
      <4>1. c.op["view"] \in {"idle", "ended"} => p.cancelled  BY <1>o, <3>1
      <4>2. QED BY <4>1, <3>1, <1>n
    <3>2. CASE ~(p.kind = "open" /\ p.op = "view")  BY <1>o, <3>2, BoundFacts
    <3>3. QED BY <3>1, <3>2
  <2>4. QED BY <2>2, <2>3 DEF Closed
<1>s. d.pending = c.pending \ {p} /\ d.out = c.out  OBVIOUS
<1>6. Granted(d, ag, w)
  <2> HIDE DEF AfterAnswer
  <2>1. \A u \in A!Ops : c.op[u] \notin {"idle", "offer"} => d.op[u] \notin {"idle", "offer"}
    BY <1>o, <1>n, <1>p
  <2>2. QED BY <1>e, <1>f, <1>s, <2>1 DEF Granted
<1>7. Kept(d, ag, w)
  <2>1. \A u \in A!Bound(d) : u \in ag.held \/ \E v \in Parents(u) : Fails(d, w, v)
    <3> SUFFICES ASSUME NEW u \in A!Bound(d), u \notin ag.held
                 PROVE  \E v \in Parents(u) : Fails(c, w, v)
      BY <1>e
    <3>1. CASE u \in A!Bound(c)  BY <3>1 DEF Kept
    <3>2. CASE p.kind = "open" /\ ~p.cancelled /\ ok /\ u = p.op
      <4>1. PICK v \in Parents(u), k \in j + 1 .. Len(w) : Failure(c, w, k, v)
        BY <3>2 DEF Kept
      <4>2. k \in 1 .. Len(w)  OBVIOUS
      <4>3. QED BY <4>1, <4>2 DEF Fails
    <3>3. QED BY <1>b, <3>1, <3>2
  <2>2. QED BY <1>f, <1>g, <2>1 DEF Kept
<1>8. ASSUME NEW u \in ag.held, u \notin A!Bound(d), u \notin debts,
             ~(p.kind = "open" /\ p.cancelled /\ ok /\ u = p.op)
      PROVE  Granting(d, w, u) \/ Leaves(d, u) \/ d.refused \intersect Parents(u) # {}
  <2>1. u \notin A!Bound(c)  BY <1>b, <1>8
  <2>2. Leaves(c, u) => Leaves(d, u)  BY DEF Leaves
  <2>3. Granting(c, w, u) => Granting(d, w, u)
    <3> SUFFICES ASSUME Granting(c, w, u) PROVE Granting(d, w, u)
      OBVIOUS
    <3>1. PICK q \in c.pending, i \in 1 .. Len(w) : Opens(q, u) /\ Answer(c, w, i, q.id, TRUE)
      BY DEF Granting
    <3>2. CASE q = p
      <4>1. i = j  BY <3>1, <3>2 DEF Answered, Answer
      <4>2. ok  BY <3>1, <3>2, <4>1 DEF Answer
      <4>3. QED BY <1>8, <1>b, <1>p, <3>1, <3>2, <4>2 DEF Opens
    <3>3. CASE q # p  BY <3>1, <3>3, <1>f DEF Granting
    <3>4. QED BY <3>2, <3>3
  <2>4. QED BY <1>8, <2>1, <2>2, <2>3 DEF Released
<1>9. /\ p.kind = "open" /\ p.cancelled /\ ok => Released(d, ag, w, debts \union {p.op})
      /\ ~(p.kind = "open" /\ p.cancelled /\ ok) => Released(d, ag, w, debts)
  BY <1>8 DEF Released
<1>10. QED BY <1>1, <1>2, <1>3, <1>4, <1>5, <1>6, <1>7, <1>9

\* A message that no longer says anything is taken from the wire.
LEMMA MessageTaken ==
    ASSUME NEW c \in Transports, NEW ag \in Agents, NEW w \in Seq(Arrivals), w # <<>>, NEW debts,
           Session(c, ag, w, debts), ViewWithin(c),
           Response(c, w, 1) => \A p \in c.pending : p.id # w[1].id,
           \A u : Failure(c, w, 1, u) => u \notin A!Bound(c)
    PROVE  Session(c, ag, Tail(w), debts)
<1> USE DEF Session
<1> DEFINE v == Tail(w)
<1>t. /\ v \in Seq(Arrivals) /\ Len(v) = Len(w) - 1 /\ Len(w) \in Nat /\ Len(w) >= 1
      /\ \A i \in 1 .. Len(v) : v[i] = w[i + 1] /\ i + 1 \in 1 .. Len(w)
      /\ \A i \in 2 .. Len(w) : v[i - 1] = w[i] /\ i - 1 \in 1 .. Len(v)
  BY HeadAndTail
<1> HIDE DEF v
<1>r. \A i \in 1 .. Len(v) : Response(c, v, i) <=> Response(c, w, i + 1)  BY <1>t DEF Response
<1>a. \A i \in 1 .. Len(v) : \A n, ok : Answer(c, v, i, n, ok) <=> Answer(c, w, i + 1, n, ok)
  BY <1>t, <1>r DEF Answer
<1>f. \A i \in 1 .. Len(v) : \A u : Failure(c, v, i, u) <=> Failure(c, w, i + 1, u)
  BY <1>t DEF Failure
<1>g. \A u : Fails(c, v, u) => Fails(c, w, u)  BY <1>t, <1>f DEF Fails
<1>1. Tracked(c, ag, v)  BY DEF Tracked
<1>2. OnePlace(c, ag, v)  BY DEF OnePlace
<1>3. Answered(c, ag, v)
  <2> SUFFICES ASSUME NEW i \in 1 .. Len(v), Response(c, v, i)
               PROVE  /\ v[i].id <= c.counter
                      /\ \A j \in 1 .. Len(c.out) : Numbered(c.out[j]) => c.out[j].id # v[i].id
                      /\ \A n \in ag.work : n.id # v[i].id
                      /\ \A j \in 1 .. Len(v) : Response(c, v, j) /\ v[j].id = v[i].id => i = j
    BY DEF Answered
  <2>1. i + 1 \in 1 .. Len(w) /\ Response(c, w, i + 1) /\ v[i] = w[i + 1]  BY <1>t, <1>r
  <2>2. ASSUME NEW j \in 1 .. Len(v), Response(c, v, j), v[j].id = v[i].id PROVE i = j
    <3>1. j + 1 \in 1 .. Len(w) /\ Response(c, w, j + 1) /\ v[j] = w[j + 1]  BY <1>t, <1>r, <2>2
    <3>2. i + 1 = j + 1  BY <2>1, <2>2, <3>1 DEF Answered
    <3>3. QED BY <3>2
  <2>3. QED BY <2>1, <2>2 DEF Answered
<1>5. Granted(c, ag, v)
  <2>1. ASSUME NEW u \in A!Ops, u \in ag.held \/ Fails(c, w, u)
        PROVE  \A p \in c.pending, i \in 1 .. Len(v) : Opens(p, u) => ~Answer(c, v, i, p.id, FALSE)
    <3>1. \A p \in c.pending, i \in 1 .. Len(w) : Opens(p, u) => ~Answer(c, w, i, p.id, FALSE)
      BY <2>1 DEF Granted
    <3>2. QED BY <3>1, <1>t, <1>a
  <2>2. QED BY <1>g, <2>1 DEF Granted
<1>6. Kept(c, ag, v)
  <2>1. ASSUME NEW o \in A!Bound(c), o \notin ag.held PROVE \E u \in Parents(o) : Fails(c, v, u)
    <3>1. PICK u \in Parents(o), i \in 1 .. Len(w) : Failure(c, w, i, u)
      BY <2>1 DEF Kept, Fails
    <3>2. u \in A!Bound(c)
      <4>1. CASE u = o  BY <4>1
      <4>2. CASE u # o
        <5>1. u = "sub" /\ o = "view"  BY <4>2, BoundFacts DEF Parents
        <5>2. QED BY <5>1, BoundFacts DEF ViewWithin
      <4>3. QED BY <4>1, <4>2
    <3>3. i # 1  BY <3>1, <3>2
    <3>4. i - 1 \in 1 .. Len(v) /\ i = (i - 1) + 1  BY <3>3, <1>t
    <3>5. Failure(c, v, i - 1, u)  BY <3>1, <3>4, <1>f
    <3>6. QED BY <3>4, <3>5 DEF Fails
  <2>2. ASSUME NEW p \in c.pending, NEW i \in 1 .. Len(v), p.kind = "open", ~p.cancelled,
               Answer(c, v, i, p.id, TRUE), p.op \notin ag.held
        PROVE  \E u \in Parents(p.op), j \in i + 1 .. Len(v) : Failure(c, v, j, u)
    <3>1. Answer(c, w, i + 1, p.id, TRUE) /\ i + 1 \in 1 .. Len(w)  BY <2>2, <1>a, <1>t
    <3>2. PICK u \in Parents(p.op), j \in (i + 1) + 1 .. Len(w) : Failure(c, w, j, u)
      BY <2>2, <3>1 DEF Kept
    <3>3. j - 1 \in i + 1 .. Len(v) /\ j - 1 \in 1 .. Len(v) /\ j = (j - 1) + 1  BY <1>t
    <3>4. Failure(c, v, j - 1, u)  BY <3>2, <3>3, <1>f
    <3>5. QED BY <3>3, <3>4
  <2>3. QED BY <2>1, <2>2 DEF Kept
<1>7. Released(c, ag, v, debts)
  <2>1. ASSUME NEW u, Granting(c, w, u) PROVE Granting(c, v, u)
    <3>1. PICK p \in c.pending, i \in 1 .. Len(w) : Opens(p, u) /\ Answer(c, w, i, p.id, TRUE)
      BY <2>1 DEF Granting
    <3>2. i # 1  BY <3>1 DEF Answer
    <3>3. i - 1 \in 1 .. Len(v) /\ i = (i - 1) + 1  BY <3>2, <1>t
    <3>4. Answer(c, v, i - 1, p.id, TRUE)  BY <3>1, <3>3, <1>a
    <3>5. QED BY <3>1, <3>3, <3>4 DEF Granting
  <2>2. QED BY <2>1 DEF Released
<1>8. QED BY <1>1, <1>2, <1>3, <1>5, <1>6, <1>7 DEF v

-----------------------------------------------------------------------------
\* The handlers of the client.  Each leaves it Fine, and ends its session or changes of `op`
\* what it says.

\* What is left to be closed when a close of o was sent or refused.
Owed(debts, o) == {x \in debts : o \notin Parents(x)}

\* A handler that leaves the client with these operations, or without a session.
LeavesFine(c, d, ag, w, debts, op) ==
    Fine(d, ag, w, debts) /\ d.gen = c.gen /\ (Off(d) \/ d.op = op)

LEMMA SocketsOf == ASSUME NEW c, NEW ag, NEW w, NEW debts, Fine(c, ag, w, debts)
                   PROVE  c \in Transports /\ c.socks = {c.socket} \ {0}
BY DEF Fine, Off, On, Transports

LEMMA Disconnected ==
    ASSUME NEW c \in Transports, c.socks = {c.socket} \ {0}, A!Limits, NEW d, d = A!Disconnect(c)
    PROVE  d \in Transports /\ Limited(d) /\ Off(d) /\ d.gen = c.gen
<1> DEFINE over == [o \in A!Ops |-> IF c.op[o] = "idle" THEN "idle" ELSE "ended"]
<1>1. over \in [A!Ops -> OpStates] /\ \A o \in A!Ops : over[o] \in {"idle", "ended"}
  BY DEF OpStates
<1>2. d = [c EXCEPT !.link = "off", !.attempt = 0, !.socket = 0, !.socks = {},
                    !.pending = {}, !.out = <<>>, !.refused = {}, !.op = over]
  BY DEF A!Disconnect
<1> HIDE DEF over
<1>3. /\ d.link = "off" /\ d.attempt = 0 /\ d.socket = 0 /\ d.socks = {}
      /\ d.pending = {} /\ d.out = <<>> /\ d.op = over /\ d.gen = c.gen
  BY <1>2 DEF Transports
<1>4. <<>> \in Seq(Sendings)  OBVIOUS
<1>5. {} \in SUBSET Asks /\ {} \in SUBSET Names /\ {} \in SUBSET Nat  OBVIOUS
<1>6. d \in Transports
  <2> DEFINE half == [c EXCEPT !.link = "off", !.attempt = 0, !.socket = 0, !.socks = {}]
  <2>1. half \in Transports  BY DEF Transports
  <2>2. d = [half EXCEPT !.pending = {}, !.out = <<>>, !.refused = {}, !.op = over]
    BY <1>2 DEF Transports
  <2> HIDE DEF half
  <2>3. QED BY <1>1, <1>4, <2>1, <2>2 DEF Transports
<1>7. IsFiniteSet(d.pending) /\ Cardinality(d.pending) <= MaxPending
  BY <1>3, FS_EmptySet DEF A!Limits
<1>8. Limited(d)  BY <1>1, <1>3, <1>7, BoundFacts DEF Limited
<1>9. QED BY <1>1, <1>3, <1>6, <1>8 DEF Off

LEMMA Ended ==
    ASSUME NEW c, NEW ag, NEW w, NEW debts, Fine(c, ag, w, debts), A!Limits, NEW more, NEW op
    PROVE  LeavesFine(c, A!Disconnect(c), ag, w, more, op)
<1> DEFINE d == A!Disconnect(c)
<1>1. d \in Transports /\ Limited(d) /\ Off(d) /\ d.gen = c.gen
  BY SocketsOf, Disconnected
<1>2. QED BY <1>1 DEF Fine, LeavesFine

\* A message is appended to what the client sends.
Sending(c, m) == [c EXCEPT !.counter = @ + 1, !.out = Append(@, m)]

LEMMA SentFields ==
    ASSUME NEW c \in Transports, NEW m \in Sendings, c.counter < MaxControls, A!Limits
    PROVE  LET d == Sending(c, m) IN
           /\ d \in Transports /\ Alike(c, d) /\ d.counter = c.counter + 1
           /\ d.out = Append(c.out, m) /\ d.pending = c.pending /\ d.op = c.op
           /\ d.from = c.from /\ d.refused = c.refused /\ d.link = c.link
           /\ d.attempt = c.attempt /\ d.socks = c.socks /\ d.gen = c.gen
<1> DEFINE d == Sending(c, m)
<1>0. d = [c EXCEPT !.counter = @ + 1, !.out = Append(@, m)]  BY DEF Sending
<1> HIDE DEF d
<1>1. c.counter + 1 \in 0 .. MaxControls /\ c.counter \in Nat  BY DEF Transports, A!Limits
<1>2. Append(c.out, m) \in Seq(Sendings)
  <2>1. c.out \in Seq(Sendings)  BY DEF Transports
  <2>2. QED BY <2>1
<1>3. /\ d.counter = c.counter + 1
      /\ d.out = Append(c.out, m) /\ d.pending = c.pending /\ d.op = c.op
      /\ d.from = c.from /\ d.refused = c.refused /\ d.link = c.link
      /\ d.attempt = c.attempt /\ d.socks = c.socks /\ d.gen = c.gen /\ d.socket = c.socket
  BY <1>0 DEF Transports
<1>4. d \in Transports  BY <1>0, <1>1, <1>2 DEF Transports
<1>5. Alike(c, d)  BY <1>1, <1>3 DEF Alike
<1>6. QED BY <1>3, <1>4, <1>5 DEF d

\* control() that cancels, and that closes what is over.
LEMMA ControlCancels ==
    ASSUME NEW c, NEW ag \in Agents, NEW w \in Seq(Arrivals), NEW debts, Fine(c, ag, w, debts),
           A!Limits, NEW id \in Nat, NEW o \in Names, NEW full
    PROVE  LeavesFine(c, A!Control(c, "cancel", id, o, full), ag, w, debts, c.op)
<1> DEFINE m == [kind |-> "cancel", id |-> id, op |-> o]
           d == Sending(c, m)
<1>1. CASE c.link # "connected"
  BY <1>1 DEF A!Control, LeavesFine
<1>2. CASE c.link = "connected" /\ (full \/ c.counter >= MaxControls)
  <2>1. A!Control(c, "cancel", id, o, full) = A!Disconnect(c)  BY <1>2 DEF A!Control
  <2>2. QED BY <2>1, Ended
<1>3. CASE c.link = "connected" /\ ~(full \/ c.counter >= MaxControls)
  <2>0. c \in Transports /\ Limited(c) /\ On(c) /\ Session(c, ag, w, debts)
    BY <1>3 DEF Fine, Off
  <2>1. c.counter < MaxControls  BY <1>3, <2>0 DEF Transports, A!Limits
  <2>2. m \in Sendings /\ ~Numbered(m) /\ m.kind = "cancel"  BY DEF Sendings, Numbered
  <2>3. A!Control(c, "cancel", id, o, full) = d  BY <1>3 DEF A!Control, A!Message, Sending
  <2> HIDE DEF m
  <2>4. /\ d \in Transports /\ Alike(c, d) /\ d.counter = c.counter + 1
        /\ d.out = Append(c.out, m) /\ d.pending = c.pending /\ d.op = c.op
        /\ d.from = c.from /\ d.refused = c.refused /\ d.link = c.link
        /\ d.attempt = c.attempt /\ d.socks = c.socks /\ d.gen = c.gen
    BY <2>0, <2>1, <2>2, SentFields
  <2> HIDE DEF d
  <2>5. Session(d, ag, w, StillOwed(debts, m))  BY <2>0, <2>2, <2>4, SendsPlain
  <2>6. StillOwed(debts, m) = debts  BY <2>2 DEF StillOwed, Closes
  <2>7. On(d) /\ Limited(d)  BY <2>0, <2>4 DEF On, Limited, Alike
  <2>8. QED BY <2>3, <2>4, <2>5, <2>6, <2>7 DEF LeavesFine, Fine
<1>4. QED BY <1>1, <1>2, <1>3

LEMMA ControlCloses ==
    ASSUME NEW c, NEW ag \in Agents, NEW w \in Seq(Arrivals), NEW debts, Fine(c, ag, w, debts),
           A!Limits, NEW o \in A!Ops, NEW full, c.op[o] = "ended",
           o = "sub" => c.op["view"] \in {"idle", "ended"}
    PROVE  LeavesFine(c, A!Control(c, "close", 0, o, full), ag, w, Owed(debts, o), c.op)
<1> DEFINE m == [kind |-> "close", id |-> 0, op |-> o]
           d == Sending(c, m)
<1>1. CASE c.link # "connected"
  BY <1>1 DEF A!Control, LeavesFine, Fine, On
<1>2. CASE c.link = "connected" /\ (full \/ c.counter >= MaxControls)
  <2>1. A!Control(c, "close", 0, o, full) = A!Disconnect(c)  BY <1>2 DEF A!Control
  <2>2. QED BY <2>1, Ended
<1>3. CASE c.link = "connected" /\ ~(full \/ c.counter >= MaxControls)
  <2>0. c \in Transports /\ Limited(c) /\ On(c) /\ Session(c, ag, w, debts)
    BY <1>3 DEF Fine, Off
  <2>1. c.counter < MaxControls  BY <1>3, <2>0 DEF Transports, A!Limits
  <2>2. m \in Sendings /\ ~Numbered(m) /\ m.kind = "close" /\ m.op = o
    BY DEF Sendings, Numbered, Names
  <2>3. A!Control(c, "close", 0, o, full) = d  BY <1>3 DEF A!Control, A!Message, Sending
  <2> HIDE DEF m
  <2>4. /\ d \in Transports /\ Alike(c, d) /\ d.counter = c.counter + 1
        /\ d.out = Append(c.out, m) /\ d.pending = c.pending /\ d.op = c.op
        /\ d.from = c.from /\ d.refused = c.refused /\ d.link = c.link
        /\ d.attempt = c.attempt /\ d.socks = c.socks /\ d.gen = c.gen
    BY <2>0, <2>1, <2>2, SentFields
  <2> HIDE DEF d
  <2>5. Session(d, ag, w, StillOwed(debts, m))  BY <2>0, <2>2, <2>4, SendsPlain
  <2>6. StillOwed(debts, m) = Owed(debts, o)  BY <2>2 DEF StillOwed, Closes, Owed
  <2>7. On(d) /\ Limited(d)  BY <2>0, <2>4 DEF On, Limited, Alike
  <2>8. QED BY <2>3, <2>4, <2>5, <2>6, <2>7 DEF LeavesFine, Fine
<1>4. QED BY <1>1, <1>2, <1>3

\* What the agent does not hold is not owed.
LEMMA NothingOwed ==
    ASSUME NEW c, NEW ag, NEW w, NEW debts, NEW more, Session(c, ag, w, more),
           ag.held \intersect more \subseteq debts
    PROVE  Session(c, ag, w, debts)
<1>1. Released(c, ag, w, debts)  BY DEF Session, Released
<1>2. QED BY <1>1 DEF Session

\* A client that differs only in its counter.
Recount(c, n) ==
    /\ Alike(c, n) /\ n.out = c.out /\ n.pending = c.pending /\ n.op = c.op /\ n.from = c.from
    /\ n.refused = c.refused /\ n.link = c.link /\ n.attempt = c.attempt /\ n.socks = c.socks

\* A client that has also numbered and sent a request.
Sent(c, d, kind, o) ==
    /\ Alike(c, d) /\ d.counter = c.counter + 1 /\ d.op = c.op /\ d.from = c.from
    /\ d.refused = c.refused /\ d.link = c.link /\ d.attempt = c.attempt /\ d.socks = c.socks
    /\ \E m \in Sendings, p \in Asks :
          /\ m.kind = kind /\ m.id = d.counter /\ m.op = o
          /\ p.kind = kind /\ p.id = d.counter /\ p.op = o /\ ~p.cancelled
          /\ d.out = Append(c.out, m) /\ d.pending = c.pending \union {p}

\* request(): rejected, with or without a number, or sent.
LEMMA RequestOutcome ==
    ASSUME NEW c \in Transports, Limited(c), A!Limits, NEW kind \in {"open", "call", "close"},
           NEW o \in Names, NEW full \in BOOLEAN, NEW d, d = A!Request(c, kind, o, full)
    PROVE  \/ \E n \in Transports : Recount(c, n) /\ d = A!Rejected(n, kind, o)
           \/ c.link = "connected" /\ d \in Transports /\ Limited(d) /\ Sent(c, d, kind, o)
<1>c. c.counter \in 0 .. MaxControls /\ c.counter \in Nat  BY DEF Transports, A!Limits
<1> DEFINE refuses == \/ c.link # "connected"
                      \/ A!Cardinality(c.pending) >= MaxPending
                      \/ c.counter >= MaxRequests
<1>1. CASE refuses
  <2>1. d = A!Rejected(c, kind, o)  BY <1>1 DEF A!Request
  <2>2. Recount(c, c)  BY <1>c DEF Recount, Alike
  <2>3. QED BY <2>1, <2>2
<1>2. CASE ~refuses
  <2> DEFINE n == [c EXCEPT !.counter = c.counter + 1]
             m == [kind |-> kind, id |-> c.counter + 1, op |-> o]
             p == [id |-> c.counter + 1, op |-> o, kind |-> kind, cancelled |-> FALSE]
             e == [n EXCEPT !.pending = @ \union {p}, !.out = Append(@, m)]
  <2>1. d = IF full THEN A!Rejected(n, kind, o) ELSE e
    BY <1>2 DEF A!Request, A!Message
  <2>2. c.counter + 1 \in 0 .. MaxControls /\ c.link = "connected"
    BY <1>2, <1>c DEF A!Limits
  <2>3. n \in Transports  BY <2>2 DEF Transports
  <2>4. Recount(c, n) /\ n.counter = c.counter + 1
    BY <1>c DEF Recount, Alike, Transports
  <2>5. m \in Sendings /\ m.kind = kind /\ m.id = c.counter + 1 /\ m.op = o
    BY <1>c DEF Sendings
  <2>6. p \in Asks /\ p.kind = kind /\ p.id = c.counter + 1 /\ p.op = o /\ ~p.cancelled
    BY <1>c DEF Asks
  <2>f. IsFiniteSet(c.pending) /\ Cardinality(c.pending) < MaxPending
    <3>1. ~(A!Cardinality(c.pending) >= MaxPending)  BY <1>2
    <3>2. A!Cardinality(c.pending) = Cardinality(c.pending)  BY DEF A!Cardinality, Cardinality
    <3>3. IsFiniteSet(c.pending) /\ Cardinality(c.pending) \in Nat
      BY FS_CardinalityType DEF Limited
    <3>4. QED BY <3>1, <3>2, <3>3 DEF A!Limits
  <2> HIDE DEF n, m, p
  <2>7. CASE full  BY <2>1, <2>3, <2>4, <2>7
  <2>8. CASE ~full
    <3>1. d = e  BY <2>1, <2>8
    <3>a. Append(n.out, m) \in Seq(Sendings)
      <4>1. n.out \in Seq(Sendings)  BY <2>3 DEF Transports
      <4>2. QED BY <4>1, <2>5
    <3>b. n.pending \union {p} \in SUBSET Asks
      <4>1. n.pending \in SUBSET Asks  BY <2>3 DEF Transports
      <4>2. QED BY <4>1, <2>6
    <3>2. d \in Transports  BY <2>3, <3>1, <3>a, <3>b DEF Transports
    <3>3. /\ d.out = Append(n.out, m) /\ d.pending = n.pending \union {p} /\ d.counter = n.counter
          /\ d.op = n.op /\ d.from = n.from /\ d.refused = n.refused /\ d.link = n.link
          /\ d.attempt = n.attempt /\ d.socks = n.socks /\ d.gen = n.gen /\ d.socket = n.socket
      BY <2>3, <3>1 DEF Transports
    <3> HIDE DEF e
    <3>4. Alike(c, d)  BY <2>4, <3>3 DEF Recount, Alike
    <3>5. Sent(c, d, kind, o)  BY <2>4, <2>5, <2>6, <3>3, <3>4 DEF Recount, Sent
    <3>6. d.pending = c.pending \union {p} /\ d.op = c.op  BY <2>4, <3>3 DEF Recount
    <3>7. IsFiniteSet(d.pending) /\ Cardinality(d.pending) <= MaxPending
      <4>1. IsFiniteSet(d.pending) /\ Cardinality(d.pending) <= Cardinality(c.pending) + 1
        <5>1. Cardinality(c.pending) \in Nat  BY <2>f, FS_CardinalityType
        <5>2. /\ IsFiniteSet(c.pending \union {p})
              /\ Cardinality(c.pending \union {p}) =
                   IF p \in c.pending THEN Cardinality(c.pending) ELSE Cardinality(c.pending) + 1
          BY <2>f, FS_AddElement
        <5>3. QED BY <3>6, <5>1, <5>2
      <4>2. Cardinality(c.pending) \in Nat /\ Cardinality(d.pending) \in Nat
        BY <2>f, <4>1, FS_CardinalityType
      <4>3. QED BY <2>f, <4>1, <4>2 DEF A!Limits
    <3>8. Limited(d)  BY <3>6, <3>7 DEF Limited
    <3>9. QED BY <2>2, <3>2, <3>5, <3>8
  <2>9. QED BY <2>7, <2>8
<1>3. QED BY <1>1, <1>2

\* A plain request, whether it is refused or sent.
LEMMA RequestCalls ==
    ASSUME NEW c, NEW ag \in Agents, NEW w \in Seq(Arrivals), Fine(c, ag, w, {}), On(c),
           A!Limits, NEW full \in BOOLEAN
    PROVE  LeavesFine(c, A!Request(c, "call", "none", full), ag, w, {}, c.op)
<1> DEFINE d == A!Request(c, "call", "none", full)
<1>0. c \in Transports /\ Limited(c) /\ Session(c, ag, w, {})  BY DEF Fine, Off, On
<1>1. ASSUME NEW n \in Transports, Recount(c, n), d = A!Rejected(n, "call", "none")
      PROVE  LeavesFine(c, d, ag, w, {}, c.op)
  <2>1. d = n  BY <1>1 DEF A!Rejected
  <2> HIDE DEF d
  <2>2. Session(n, ag, w, {o \in {} : n.refused \intersect Parents(o) = {}})
    BY <1>0, <1>1, CloseRefused DEF Recount
  <2>3. Session(n, ag, w, {})  BY <2>2
  <2>4. On(n) /\ Limited(n) /\ n.gen = c.gen /\ n.op = c.op
    BY <1>0, <1>1 DEF Recount, On, Limited, Alike
  <2>5. QED BY <2>1, <2>3, <2>4 DEF LeavesFine, Fine
<1>2. ASSUME d \in Transports, Limited(d), Sent(c, d, "call", "none")
      PROVE  LeavesFine(c, d, ag, w, {}, c.op)
  <2> HIDE DEF d
  <2>1. PICK m \in Sendings, p \in Asks :
          /\ m.kind = "call" /\ m.id = d.counter /\ m.op = "none"
          /\ p.kind = "call" /\ p.id = d.counter /\ p.op = "none" /\ ~p.cancelled
          /\ d.out = Append(c.out, m) /\ d.pending = c.pending \union {p}
    BY <1>2 DEF Sent
  <2>2. Session(d, ag, w, StillOwed({}, m))
    BY <1>0, <1>2, <2>1, SendsNumbered DEF Sent, Names
  <2>3. StillOwed({}, m) = {}  BY DEF StillOwed
  <2>4. On(d) /\ d.gen = c.gen /\ d.op = c.op  BY <1>2 DEF Sent, On, Alike
  <2>5. QED BY <1>2, <2>2, <2>3, <2>4 DEF LeavesFine, Fine
<1>3. QED BY <1>0, <1>1, <1>2, RequestOutcome DEF Names

\* A close of what is over: what is refused is kept as such.
LEMMA RequestCloses ==
    ASSUME NEW c, NEW ag \in Agents, NEW w \in Seq(Arrivals), NEW debts, Fine(c, ag, w, debts),
           On(c), A!Limits, NEW o \in A!Ops, NEW full \in BOOLEAN, c.op[o] = "ended",
           o = "sub" => c.op["view"] \in {"idle", "ended"}
    PROVE  LeavesFine(c, A!Request(c, "close", o, full), ag, w, Owed(debts, o), c.op)
<1> DEFINE d == A!Request(c, "close", o, full)
<1>0. c \in Transports /\ Limited(c) /\ Session(c, ag, w, debts) /\ o \in Names
  BY DEF Fine, Off, On, Names
<1>1. ASSUME NEW n \in Transports, Recount(c, n), d = A!Rejected(n, "close", o)
      PROVE  LeavesFine(c, d, ag, w, Owed(debts, o), c.op)
  <2>1. d = [n EXCEPT !.refused = @ \union {o}]  BY <1>1 DEF A!Rejected
  <2> HIDE DEF d
  <2>2. n.refused \union {o} \in SUBSET Names  BY <1>0, <1>1 DEF Transports
  <2>3. d \in Transports  BY <1>1, <2>1, <2>2 DEF Transports
  <2>4. /\ d.out = n.out /\ d.pending = n.pending /\ d.counter = n.counter
        /\ d.op = n.op /\ d.from = n.from /\ d.refused = n.refused \union {o} /\ d.link = n.link
        /\ d.attempt = n.attempt /\ d.socks = n.socks /\ d.gen = n.gen /\ d.socket = n.socket
    BY <1>1, <2>1 DEF Transports
  <2>5. Alike(c, d)  BY <1>1, <2>4 DEF Recount, Alike
  <2>6. Session(d, ag, w, {x \in debts : d.refused \intersect Parents(x) = {}})
    BY <1>0, <1>1, <2>4, <2>5, CloseRefused DEF Recount
  <2>7. Session(d, ag, w, Owed(debts, o))  BY <2>4, <2>6, NothingOwed DEF Owed
  <2>8. On(d) /\ Limited(d) /\ d.gen = c.gen /\ d.op = c.op
    BY <1>0, <1>1, <2>4 DEF Recount, On, Limited, Alike
  <2>9. QED BY <2>3, <2>7, <2>8 DEF LeavesFine, Fine
<1>2. ASSUME d \in Transports, Limited(d), Sent(c, d, "close", o)
      PROVE  LeavesFine(c, d, ag, w, Owed(debts, o), c.op)
  <2> HIDE DEF d
  <2>1. PICK m \in Sendings, p \in Asks :
          /\ m.kind = "close" /\ m.id = d.counter /\ m.op = o
          /\ p.kind = "close" /\ p.id = d.counter /\ p.op = o /\ ~p.cancelled
          /\ d.out = Append(c.out, m) /\ d.pending = c.pending \union {p}
    BY <1>2 DEF Sent
  <2>2. Session(d, ag, w, StillOwed(debts, m))
    BY <1>0, <1>2, <2>1, SendsNumbered DEF Sent
  <2>3. StillOwed(debts, m) = Owed(debts, o)  BY <2>1 DEF StillOwed, Owed, Closes
  <2>4. On(d) /\ d.gen = c.gen /\ d.op = c.op  BY <1>2 DEF Sent, On, Alike
  <2>5. QED BY <1>2, <2>2, <2>3, <2>4 DEF LeavesFine, Fine
<1>3. QED BY <1>0, <1>1, <1>2, RequestOutcome

\* The request that opens a resource: it is asked for, or over at once.
LEMMA RequestOpens ==
    ASSUME NEW c, NEW ag \in Agents, NEW w \in Seq(Arrivals), Fine(c, ag, w, {}), On(c),
           A!Limits, NEW o \in A!Ops, NEW full \in BOOLEAN,
           c.op[o] = IF o = "view" THEN "offer" ELSE "idle",
           NEW b, b = [c EXCEPT !.op[o] = "asked"]
    PROVE  \/ LeavesFine(c, A!Request(b, "open", o, full), ag, w, {}, [c.op EXCEPT ![o] = "asked"])
           \/ LeavesFine(c, A!Request(b, "open", o, full), ag, w, {}, [c.op EXCEPT ![o] = "ended"])
<1> DEFINE d == A!Request(b, "open", o, full)
<1>0. /\ c \in Transports /\ Limited(c) /\ Session(c, ag, w, {}) /\ o \in Names
      /\ c.op \in [A!Ops -> OpStates] /\ c.counter \in Nat
  BY DEF Fine, Off, On, Names, Transports
<1>1. [c.op EXCEPT ![o] = "asked"] \in [A!Ops -> OpStates]  BY <1>0 DEF OpStates
<1>2. /\ b.op = [c.op EXCEPT ![o] = "asked"]
      /\ b.out = c.out /\ b.pending = c.pending /\ b.counter = c.counter
      /\ b.from = c.from /\ b.refused = c.refused /\ b.link = c.link
      /\ b.attempt = c.attempt /\ b.socks = c.socks /\ b.gen = c.gen /\ b.socket = c.socket
  BY <1>0 DEF Transports
<1>3. b \in Transports
  <2>1. b = [c EXCEPT !.op = [c.op EXCEPT ![o] = "asked"]]  BY <1>0 DEF Transports
  <2>2. QED BY <1>0, <1>1, <2>1 DEF Transports
<1>4. Limited(b)  BY <1>0, <1>2, BoundFacts DEF Limited
<1>5. ASSUME NEW n \in Transports, Recount(b, n), d = A!Rejected(n, "open", o)
      PROVE  LeavesFine(c, d, ag, w, {}, [c.op EXCEPT ![o] = "ended"])
  <2>0. n.op \in [A!Ops -> OpStates] /\ [n.op EXCEPT ![o] = "ended"] \in [A!Ops -> OpStates]
    BY <1>5 DEF Transports, OpStates
  <2>1. d = [n EXCEPT !.op = [n.op EXCEPT ![o] = "ended"]]
    BY <1>5 DEF A!Rejected, Transports
  <2> HIDE DEF d
  <2>3. d \in Transports  BY <1>5, <2>0, <2>1 DEF Transports
  <2>4. /\ d.out = n.out /\ d.pending = n.pending /\ d.counter = n.counter
        /\ d.op = [n.op EXCEPT ![o] = "ended"] /\ d.from = n.from /\ d.refused = n.refused
        /\ d.link = n.link
        /\ d.attempt = n.attempt /\ d.socks = n.socks /\ d.gen = n.gen /\ d.socket = n.socket
    BY <1>5, <2>1 DEF Transports
  <2>5. n.op = [c.op EXCEPT ![o] = "asked"]  BY <1>2, <1>5 DEF Recount
  <2>6. d.op = [c.op EXCEPT ![o] = "ended"]  BY <1>0, <2>4, <2>5
  <2>7. Alike(c, d)  BY <1>0, <1>2, <1>5, <2>4 DEF Recount, Alike
  <2>8. Session(d, ag, w, {} \union {o})
    BY <1>0, <1>2, <1>5, <2>4, <2>6, <2>7, OperationEnds DEF Recount
  <2>9. o \notin ag.held  BY <1>0 DEF Session, Granted
  <2>10. Session(d, ag, w, {})
    <3>1. ag.held \intersect ({} \union {o}) \subseteq {}  BY <2>9
    <3>2. QED BY <2>8, <3>1, NothingOwed
  <2>11. On(d) /\ d.gen = c.gen
    BY <1>2, <1>5, <2>4 DEF Recount, On, Alike
  <2>12. Limited(d)  BY <1>0, <1>2, <1>5, <2>4, <2>6, BoundFacts DEF Recount, Limited
  <2>13. QED BY <2>3, <2>6, <2>10, <2>11, <2>12 DEF LeavesFine, Fine
<1>6. ASSUME d \in Transports, Limited(d), Sent(b, d, "open", o)
      PROVE  LeavesFine(c, d, ag, w, {}, [c.op EXCEPT ![o] = "asked"])
  <2> HIDE DEF d
  <2>1. PICK m \in Sendings, p \in Asks :
          /\ m.kind = "open" /\ m.id = d.counter /\ m.op = o
          /\ p.kind = "open" /\ p.id = d.counter /\ p.op = o /\ ~p.cancelled
          /\ d.out = Append(b.out, m) /\ d.pending = b.pending \union {p}
    BY <1>6 DEF Sent
  <2>2. Alike(c, d) /\ d.op = [c.op EXCEPT ![o] = "asked"]
    BY <1>0, <1>2, <1>6 DEF Sent, Alike
  <2>3. Session(d, ag, w, StillOwed({}, m))
    <3>1. /\ d.counter = c.counter + 1 /\ d.from = c.from /\ d.refused = c.refused
          /\ d.out = Append(c.out, m) /\ d.pending = c.pending \union {p}
      BY <1>2, <1>6, <2>1 DEF Sent
    <3>2. m.kind = "open" /\ m.id = d.counter /\ m.op = o /\ p.kind = "open" /\ p.id = d.counter
          /\ p.op = o /\ ~p.cancelled
      BY <2>1
    <3> HIDE <2>1, <1>6
    <3>3. QED BY <1>0, <2>2, <3>1, <3>2, SendsNumbered
  <2>4. StillOwed({}, m) = {}  BY DEF StillOwed
  <2>5. On(d) /\ d.gen = c.gen  BY <1>2, <1>6 DEF Sent, On, Alike
  <2>6. QED BY <1>6, <2>2, <2>3, <2>4, <2>5 DEF LeavesFine, Fine
<1>7. QED BY <1>0, <1>3, <1>4, <1>5, <1>6, RequestOutcome

\* An operation is over, and what the agent holds for it is to be closed.
WithOver(c, o) == [c EXCEPT !.op = [c.op EXCEPT ![o] = "ended"]]

LEMMA Over ==
    ASSUME NEW c, NEW ag \in Agents, NEW w \in Seq(Arrivals), NEW debts, Fine(c, ag, w, debts),
           NEW o \in A!Ops, c.op[o] # "asked"
    PROVE  LET d == WithOver(c, o) IN
           /\ Fine(d, ag, w, debts \union {o}) /\ d.gen = c.gen /\ d.link = c.link
           /\ d.op = [c.op EXCEPT ![o] = "ended"] /\ d.pending = c.pending
<1> DEFINE d == WithOver(c, o)
<1>0. c \in Transports /\ Limited(c) /\ c.op \in [A!Ops -> OpStates] /\ c.counter \in Nat
  BY DEF Fine, Transports
<1>1. [c.op EXCEPT ![o] = "ended"] \in [A!Ops -> OpStates]  BY <1>0 DEF OpStates
<1>2. d = [c EXCEPT !.op = [c.op EXCEPT ![o] = "ended"]]  BY DEF WithOver
<1> HIDE DEF d
<1>3. d \in Transports  BY <1>0, <1>1, <1>2 DEF Transports
<1>4. /\ d.op = [c.op EXCEPT ![o] = "ended"]
      /\ d.out = c.out /\ d.pending = c.pending /\ d.counter = c.counter
      /\ d.from = c.from /\ d.refused = c.refused /\ d.link = c.link
      /\ d.attempt = c.attempt /\ d.socks = c.socks /\ d.gen = c.gen /\ d.socket = c.socket
  BY <1>0, <1>2 DEF Transports
<1>5. Limited(d)  BY <1>0, <1>4, BoundFacts DEF Limited
<1>6. Alike(c, d)  BY <1>0, <1>4 DEF Alike
<1>7. CASE Off(c)
  <2>1. \A u \in A!Ops : d.op[u] \in {"idle", "ended"}  BY <1>0, <1>4, <1>7 DEF Off
  <2>2. Off(d)  BY <1>4, <1>7, <2>1 DEF Off
  <2>3. QED BY <1>3, <1>4, <1>5, <2>2 DEF Fine, d
<1>8. CASE On(c) /\ Session(c, ag, w, debts)
  <2>1. Session(d, ag, w, debts \union {o})  BY <1>4, <1>6, <1>8, OperationEnds
  <2>2. On(d)  BY <1>4, <1>8 DEF On
  <2>3. QED BY <1>3, <1>4, <1>5, <2>1, <2>2 DEF Fine, d
<1>9. QED BY <1>7, <1>8 DEF Fine, d

\* cancel(): what the request opens is over.
LEMMA CancelFacts ==
    ASSUME NEW c, NEW ag \in Agents, NEW w \in Seq(Arrivals), NEW debts, Fine(c, ag, w, debts),
           A!Limits, NEW p \in c.pending, ~p.cancelled, NEW full \in BOOLEAN
    PROVE  LeavesFine(c, A!Cancel(c, p, full), ag, w, debts,
                   IF p.kind = "open" THEN [c.op EXCEPT ![p.op] = "ended"] ELSE c.op)
<1> DEFINE r == [p EXCEPT !.cancelled = TRUE]
           ops == IF p.kind = "open" THEN [c.op EXCEPT ![p.op] = "ended"] ELSE c.op
           b == [c EXCEPT !.pending = (@ \ {p}) \union {r},
                          !.op = IF p.kind = "open" THEN [@ EXCEPT ![p.op] = "ended"] ELSE @]
<1>0. /\ c \in Transports /\ Limited(c) /\ On(c) /\ Session(c, ag, w, debts)
      /\ c.op \in [A!Ops -> OpStates] /\ c.counter \in Nat /\ c.pending \in SUBSET Asks
  BY DEF Fine, Off, Transports
<1>1. p \in Asks /\ p.op \in Names /\ p.id \in Nat /\ (p.kind = "open" => p.op \in A!Ops)
  BY <1>0 DEF Asks, Session, Asking
<1>2. r \in Asks /\ r.id = p.id /\ r.kind = p.kind /\ r.op = p.op /\ r.cancelled
  BY <1>1 DEF Asks
<1>3. A!Cancel(c, p, full) = A!Control(b, "cancel", p.id, p.op, full)  BY DEF A!Cancel
<1>4. ops \in [A!Ops -> OpStates]  BY <1>0, <1>1 DEF OpStates
<1> HIDE DEF r
<1>5. b = [c EXCEPT !.pending = (c.pending \ {p}) \union {r}, !.op = ops]
  BY <1>0 DEF Transports
<1>6. (c.pending \ {p}) \union {r} \in SUBSET Asks  BY <1>0, <1>2
<1> HIDE DEF ops
<1>7. /\ b.op = ops /\ b.pending = (c.pending \ {p}) \union {r}
      /\ b.out = c.out /\ b.counter = c.counter
      /\ b.from = c.from /\ b.refused = c.refused /\ b.link = c.link
      /\ b.attempt = c.attempt /\ b.socks = c.socks /\ b.gen = c.gen /\ b.socket = c.socket
  BY <1>0, <1>5 DEF Transports
<1>8. b \in Transports  BY <1>0, <1>4, <1>5, <1>6 DEF Transports
<1> HIDE DEF b
<1>9. Alike(c, b)  BY <1>0, <1>7 DEF Alike
<1>10. Session(b, ag, w, debts)
  <2>1. b.op = (IF p.kind = "open" THEN [c.op EXCEPT ![p.op] = "ended"] ELSE c.op)
    BY <1>7 DEF ops
  <2>2. QED BY <1>0, <1>2, <1>7, <1>9, <2>1, RequestCancelled
<1>11. Limited(b)
  <2>1. IsFiniteSet(c.pending) /\ Cardinality(c.pending) <= MaxPending  BY <1>0 DEF Limited
  <2>2. Cardinality(c.pending) \in Nat  BY <2>1, FS_CardinalityType
  <2>3. IsFiniteSet(c.pending \ {p}) /\ Cardinality(c.pending \ {p}) = Cardinality(c.pending) - 1
    BY <2>1, FS_RemoveElement
  <2>4. Cardinality(c.pending \ {p}) \in Nat  BY <2>3, FS_CardinalityType
  <2>5. /\ IsFiniteSet(b.pending)
        /\ Cardinality(b.pending) \in {Cardinality(c.pending \ {p}),
                                       Cardinality(c.pending \ {p}) + 1}
    BY <1>7, <2>3, FS_AddElement
  <2>6. Cardinality(b.pending) <= MaxPending  BY <2>1, <2>2, <2>3, <2>4, <2>5 DEF A!Limits
  <2>7. b.op["sub"] \notin {"offer", "open"} /\ b.op["view"] \notin {"preparing", "ready"}
    BY <1>0, <1>1, <1>7, BoundFacts DEF Limited, ops
  <2>8. QED BY <2>5, <2>6, <2>7 DEF Limited
<1>12. Fine(b, ag, w, debts)  BY <1>0, <1>7, <1>8, <1>10, <1>11 DEF Fine, On
<1>13. LeavesFine(b, A!Control(b, "cancel", p.id, p.op, full), ag, w, debts, b.op)
  BY <1>1, <1>12, ControlCancels
<1>14. QED BY <1>3, <1>7, <1>13 DEF LeavesFine, ops

\* What is owed of what the agent does not hold may be forgotten, and anything may be owed.
LEMMA FineOwing ==
    ASSUME NEW c, NEW ag, NEW w, NEW debts, NEW more, Fine(c, ag, w, more),
           ag.held \intersect more \subseteq debts
    PROVE  Fine(c, ag, w, debts)
BY NothingOwed DEF Fine

\* The view is over: disconnected() of a media session.
ViewOver(c, d) ==
    /\ d.gen = c.gen
    /\ Off(d) \/ /\ d.op["sub"] = c.op["sub"]
                 /\ d.op["view"] = IF c.op["view"] = "idle" THEN "idle" ELSE "ended"

LEMMA EndViewFacts ==
    ASSUME NEW c, NEW ag \in Agents, NEW w \in Seq(Arrivals), NEW debts, Fine(c, ag, w, debts),
           A!Limits, NEW full \in BOOLEAN
    PROVE  LET d == A!EndView(c, full) IN
           /\ c.op["view"] \in {"open", "ended"} => Fine(d, ag, w, debts \union {"view"})
           /\ c.op["view"] \notin {"open", "ended"} => Fine(d, ag, w, debts)
           /\ ViewOver(c, d)
           /\ c.op["view"] # "asked" => d.link = c.link
<1> DEFINE d == A!EndView(c, full)
<1>0. c \in Transports /\ c.op \in [A!Ops -> OpStates]  BY DEF Fine, Transports
<1>1. CASE c.op["view"] = "asked"
  <2> DEFINE p == CHOOSE q \in A!PendingOf(c, "view") : q.kind = "open"
  <2>1. d = A!Cancel(c, p, full)  BY <1>1 DEF A!EndView
  <2>2. Asking(c) /\ "view" \in A!Ops  BY <1>1, BoundFacts DEF Fine, Off, Session
  <2>3. PICK q \in c.pending : Opens(q, "view") /\ ~q.cancelled  BY <1>1, <2>2 DEF Asking
  <2>4. q \in A!PendingOf(c, "view") /\ q.kind = "open"  BY <2>3 DEF A!PendingOf, Opens
  <2>5. p \in A!PendingOf(c, "view") /\ p.kind = "open"  BY <2>4
  <2>6. p \in c.pending /\ p.op = "view"  BY <2>5 DEF A!PendingOf
  <2>7. p = q  BY <2>2, <2>3, <2>5, <2>6 DEF Asking, Opens
  <2> HIDE DEF p, d
  <2>8. ~p.cancelled  BY <2>3, <2>7
  <2>9. LeavesFine(c, d, ag, w, debts, [c.op EXCEPT !["view"] = "ended"])
    BY <2>1, <2>5, <2>6, <2>8, CancelFacts
  <2>10. QED BY <1>0, <1>1, <2>9, BoundFacts DEF LeavesFine, ViewOver, d
<1>2. CASE c.op["view"] = "idle"
  <2>1. d = c  BY <1>2 DEF A!EndView
  <2>2. QED BY <1>2, <2>1 DEF ViewOver
<1>3. CASE c.op["view"] \notin {"asked", "idle"}
  <2>1. d = WithOver(c, "view")  BY <1>3, <1>0 DEF A!EndView, Transports, WithOver
  <2>2. "view" \in A!Ops /\ c.op["view"] # "asked"  BY <1>3, BoundFacts
  <2> HIDE DEF d
  <2>3. /\ Fine(d, ag, w, debts \union {"view"}) /\ d.gen = c.gen /\ d.link = c.link
        /\ d.op = [c.op EXCEPT !["view"] = "ended"]
    BY <2>1, <2>2, Over
  <2>4. ViewOver(c, d)  BY <1>0, <1>3, <2>3, BoundFacts DEF ViewOver
  <2>5. c.op["view"] \notin {"open", "ended"} => Fine(d, ag, w, debts)
    <3> SUFFICES ASSUME c.op["view"] \notin {"open", "ended"} PROVE Fine(d, ag, w, debts)
      OBVIOUS
    <3>1. CASE Off(c)  BY <2>2, <3>1, <1>3 DEF Off
    <3>2. CASE On(c) /\ Session(c, ag, w, debts)
      <4>1. c.op["view"] = "offer"
        BY <1>0, <1>3, <2>2 DEF OpStates, Fine, Limited
      <4>2. "view" \notin ag.held  BY <2>2, <3>2, <4>1 DEF Session, Granted
      <4>3. QED BY <2>3, <4>2, FineOwing
    <3>3. QED BY <3>1, <3>2 DEF Fine
  <2>6. QED BY <2>3, <2>4, <2>5 DEF d
<1>4. QED BY <1>1, <1>2, <1>3

\* fail() of the media session.
LEMMA FailViewFacts ==
    ASSUME NEW c, NEW ag \in Agents, NEW w \in Seq(Arrivals), Fine(c, ag, w, {}),
           A!Limits, c.op["view"] # "ended", NEW full \in BOOLEAN
    PROVE  LET d == A!FailView(c, full) IN Fine(d, ag, w, {}) /\ ViewOver(c, d)
<1> DEFINE e == A!EndView(c, full)
           d == A!FailView(c, full)
<1>1. /\ c.op["view"] \in {"open", "ended"} => Fine(e, ag, w, {} \union {"view"})
      /\ c.op["view"] \notin {"open", "ended"} => Fine(e, ag, w, {})
      /\ ViewOver(c, e)
  BY EndViewFacts
<1>2. CASE c.op["view"] = "open"
  <2>1. d = A!Control(e, "close", 0, "view", full)  BY <1>2 DEF A!FailView
  <2> HIDE DEF e
  <2>2. Fine(e, ag, w, {"view"})  BY <1>1, <1>2
  <2>3. CASE Off(e)
    <3>1. d = e  BY <2>1, <2>3 DEF A!Control, Off
    <3>2. QED BY <1>1, <2>2, <2>3, <3>1 DEF Fine
  <2>4. CASE ~Off(e)
    <3>1. e.op["view"] = "ended" /\ "view" \in A!Ops  BY <1>1, <1>2, <2>4, BoundFacts DEF ViewOver
    <3>2. LeavesFine(e, d, ag, w, Owed({"view"}, "view"), e.op)
      BY <2>1, <2>2, <3>1, ControlCloses
    <3>3. Owed({"view"}, "view") = {}  BY DEF Owed, Parents
    <3>4. Fine(d, ag, w, {}) /\ d.gen = e.gen /\ (Off(d) \/ d.op = e.op)
      BY <3>2, <3>3 DEF LeavesFine
    <3>5. ViewOver(c, d)  BY <1>1, <2>4, <3>4 DEF ViewOver
    <3>6. QED BY <3>4, <3>5
  <2>5. QED BY <2>3, <2>4
<1>3. CASE c.op["view"] # "open"
  <2>1. d = e  BY <1>3 DEF A!FailView
  <2>2. QED BY <1>1, <1>3, <2>1
<1>4. QED BY <1>2, <1>3

\* The subscription is over, and its view.
LEMMA EndSubFacts ==
    ASSUME NEW c, NEW ag \in Agents, NEW w \in Seq(Arrivals), Fine(c, ag, w, {}),
           A!Limits, c.op["sub"] # "asked", NEW full \in BOOLEAN
    PROVE  LET d == A!EndSub(c, full) IN
           /\ Fine(d, ag, w, {"sub", "view"}) /\ d.gen = c.gen
           /\ Off(d) \/ (d.op["sub"] = "ended" /\ d.op["view"] \in {"idle", "ended"})
<1> DEFINE b == WithOver(c, "sub")
           d == A!EndSub(c, full)
<1>0. c \in Transports /\ c.op \in [A!Ops -> OpStates] /\ "sub" \in A!Ops
  BY BoundFacts DEF Fine, Transports
<1>1. d = A!EndView(b, full)
  <2>1. b = [c EXCEPT !.op.sub = "ended"]  BY <1>0 DEF Transports, WithOver
  <2>2. QED BY <2>1 DEF A!EndSub
<1>2. Fine(b, ag, w, {"sub"}) /\ b.gen = c.gen /\ b.op = [c.op EXCEPT !["sub"] = "ended"]
  <2>1. /\ Fine(b, ag, w, {} \union {"sub"}) /\ b.gen = c.gen
        /\ b.op = [c.op EXCEPT !["sub"] = "ended"]
    BY <1>0, Over
  <2>2. {} \union {"sub"} = {"sub"}  OBVIOUS
  <2>3. QED BY <2>1, <2>2
<1> HIDE DEF b
<1> HIDE DEF d
<1>3. /\ Fine(d, ag, w, {"sub"} \union {"view"}) \/ Fine(d, ag, w, {"sub"})
      /\ ViewOver(b, d)
  BY <1>1, <1>2, EndViewFacts
<1>4. Fine(d, ag, w, {"sub", "view"})  BY <1>3, FineOwing
<1>5. QED BY <1>0, <1>2, <1>3, <1>4 DEF ViewOver, d

\* A subscription is ready.
LEMMA SubReady ==
    ASSUME NEW c, NEW d, NEW ag \in Agents, NEW w \in Seq(Arrivals), NEW debts,
           Session(c, ag, w, debts), Alike(c, d), c.op["sub"] \in {"preparing", "ready"},
           d.op = [c.op EXCEPT !["sub"] = "ready"], d.out = c.out, d.pending = c.pending,
           d.from = c.from, d.refused = c.refused
    PROVE  Session(d, ag, w, debts)
<1> USE DEF Session
<1>t. c.op \in [A!Ops -> OpStates] /\ d.socket = c.socket /\ d.gen = c.gen
  BY DEF Transports, Alike
<1>o. /\ \A u \in A!Ops : \A s \in {"idle", "offer", "asked", "ended"} : d.op[u] = s <=> c.op[u] = s
      /\ d.op["view"] = c.op["view"]
  BY <1>t, BoundFacts
<1>1. Tracked(d, ag, w) /\ OnePlace(d, ag, w) /\ Answered(d, ag, w)  BY PlacesStay
<1>2. A!Bound(d) = A!Bound(c)
  <2>1. d.op["sub"] = "ready"  BY <1>t, BoundFacts
  <2>2. "sub" \in A!Bound(d) /\ "sub" \in A!Bound(c)  BY <2>1, BoundFacts
  <2>3. "view" \in A!Bound(d) <=> "view" \in A!Bound(c)  BY <1>o, BoundFacts
  <2>4. \A u \in A!Ops : u \in A!Bound(d) <=> u \in A!Bound(c)  BY <2>2, <2>3, BoundFacts
  <2>5. QED BY <2>4, BoundFacts
<1>3. Asking(d)
  <2>1. \A p \in c.pending : p.kind = "open" =>
          p.op \in A!Ops /\ d.op[p.op] = (IF p.cancelled THEN "ended" ELSE "asked")
    BY <1>o DEF Asking
  <2>2. \A u \in A!Ops : d.op[u] = "asked" => c.op[u] = "asked"  BY <1>o
  <2>3. QED BY <1>2, <2>1, <2>2, <1>t DEF Asking
<1>4. Closed(d)  BY <1>o DEF Closed
<1>a. \A u : Fails(d, w, u) <=> Fails(c, w, u)  BY <1>t DEF Fails, Failure
<1>b. \A i, n, ok : Answer(d, w, i, n, ok) <=> Answer(c, w, i, n, ok)
  BY <1>t DEF Answer, Response
<1>c. \A j, u : Failure(d, w, j, u) <=> Failure(c, w, j, u)  BY <1>t DEF Failure
<1>5. Granted(d, ag, w)
  <2>1. \A u \in A!Ops : c.op[u] \notin {"idle", "offer"} => d.op[u] \notin {"idle", "offer"}
    BY <1>o
  <2>2. ASSUME NEW u \in A!Ops, u \in ag.held \/ Fails(d, w, u)
        PROVE  /\ d.op[u] \notin {"idle", "offer"}
               /\ \A i \in 1 .. Len(d.out) : ~(d.out[i].kind = "open" /\ d.out[i].op = u)
               /\ \A m \in ag.work : ~(m.kind = "open" /\ m.op = u)
               /\ \A p \in d.pending, i \in 1 .. Len(w) :
                     Opens(p, u) => ~Answer(d, w, i, p.id, FALSE)
    <3>1. u \in ag.held \/ Fails(c, w, u)  BY <2>2, <1>a
    <3>2. d.op[u] \notin {"idle", "offer"}  BY <3>1, <2>1 DEF Granted
    <3>3. /\ \A i \in 1 .. Len(c.out) : ~(c.out[i].kind = "open" /\ c.out[i].op = u)
          /\ \A m \in ag.work : ~(m.kind = "open" /\ m.op = u)
      BY <3>1 DEF Granted
    <3>4. \A p \in c.pending, i \in 1 .. Len(w) : Opens(p, u) => ~Answer(c, w, i, p.id, FALSE)
      BY <3>1 DEF Granted
    <3>5. \A p \in d.pending, i \in 1 .. Len(w) : Opens(p, u) => ~Answer(d, w, i, p.id, FALSE)
      BY <3>4, <1>b
    <3>6. QED BY <3>2, <3>3, <3>5
  <2>3. \A u \in A!Ops : Fails(d, w, u) => u \notin ag.held  BY <1>a DEF Granted
  <2>4. "view" \in ag.held => "sub" \in ag.held  BY DEF Granted
  <2>5. QED BY <2>2, <2>3, <2>4 DEF Granted
<1>6. Kept(d, ag, w)  BY <1>2, <1>a, <1>b, <1>c DEF Kept
<1>7. Released(d, ag, w, debts)
  <2>1. \A u : Granting(c, w, u) => Granting(d, w, u)  BY <1>b DEF Granting
  <2>2. \A u : Leaves(c, u) => Leaves(d, u)  BY DEF Leaves
  <2>3. QED BY <1>2, <2>1, <2>2 DEF Released
<1>8. QED BY <1>1, <1>3, <1>4, <1>5, <1>6, <1>7

\* A client that has ended, or for which the first message says nothing any more.
LEMMA TakenFine ==
    ASSUME NEW c, NEW ag \in Agents, NEW w \in Seq(Arrivals), w # <<>>, NEW debts,
           Fine(c, ag, w, debts), ViewWithin(c),
           On(c) => /\ Response(c, w, 1) => \A p \in c.pending : p.id # w[1].id
                    /\ \A u : Failure(c, w, 1, u) => u \notin A!Bound(c)
    PROVE  Fine(c, ag, Tail(w), debts)
BY MessageTaken DEF Fine

LEMMA OffHasNoView == ASSUME NEW c, Off(c) PROVE ViewWithin(c)
BY BoundFacts DEF Off, ViewWithin

\* A response.
LEMMA ReceiveFacts ==
    ASSUME NEW c, NEW ag \in Agents, NEW w \in Seq(Arrivals), w # <<>>,
           Fine(c, ag, w, {}), On(c), ViewWithin(c), A!Limits, NEW p \in c.pending,
           Response(c, w, 1), p.id = w[1].id, NEW m, m = w[1], NEW full \in BOOLEAN
    PROVE  LET d == A!Receive(c, p, m, full) IN
           Fine(d, ag, Tail(w), {}) /\ d.gen = c.gen /\ ViewWithin(d)
<1> DEFINE d == A!Receive(c, p, m, full)
           without == [c EXCEPT !.pending = @ \ {p}]
<1>0. /\ c \in Transports /\ Limited(c) /\ Session(c, ag, w, {}) /\ Asking(c) /\ Tracked(c, ag, w)
      /\ c.op \in [A!Ops -> OpStates] /\ c.from \in [A!Ops -> Nat] /\ c.counter \in Nat
      /\ c.pending \in SUBSET Asks /\ c.gen \in Nat
  BY DEF Fine, Off, On, Transports, Session
<1>1. 1 \in 1 .. Len(w) /\ m \in Arrivals  OBVIOUS
<1>2. m.ok \in BOOLEAN /\ m.session = c.gen /\ Answer(c, w, 1, p.id, m.ok)
  BY <1>1 DEF Arrivals, Response, Answer, On
<1>3. /\ p \in Asks /\ p.cancelled \in BOOLEAN
      /\ p.kind = "open" =>
            p.op \in A!Ops /\ c.op[p.op] = (IF p.cancelled THEN "ended" ELSE "asked")
  BY <1>0 DEF Asks, Asking
<1>4. /\ without \in Transports /\ without.pending = c.pending \ {p}
      /\ without.op = c.op /\ without.out = c.out /\ without.counter = c.counter
      /\ without.from = c.from /\ without.refused = c.refused /\ without.link = c.link
      /\ without.attempt = c.attempt /\ without.socks = c.socks /\ without.gen = c.gen
      /\ without.socket = c.socket
  <2>1. c.pending \ {p} \in SUBSET Asks  BY <1>0
  <2>2. QED BY <1>0, <2>1 DEF Transports
<1> HIDE DEF without
<1>5. IsFiniteSet(c.pending \ {p}) /\ Cardinality(c.pending \ {p}) <= MaxPending
  <2>1. IsFiniteSet(c.pending) /\ Cardinality(c.pending) <= MaxPending  BY <1>0 DEF Limited
  <2>2. Cardinality(c.pending) \in Nat  BY <2>1, FS_CardinalityType
  <2>3. IsFiniteSet(c.pending \ {p}) /\ Cardinality(c.pending \ {p}) = Cardinality(c.pending) - 1
    BY <2>1, FS_RemoveElement
  <2>4. QED BY <2>1, <2>2, <2>3 DEF A!Limits
<1>6. \A q \in c.pending \ {p} : q.id # p.id  BY <1>0 DEF Tracked
<1>7. \A u : ~Failure(c, w, 1, u)  BY DEF Failure, Response
\* One of the results that the lemmas know, before the message is taken.
<1>8. ASSUME NEW e \in Transports, NEW debts, Session(e, ag, w, debts), ViewWithin(e),
             e.pending = c.pending \ {p}, e.link = c.link, e.attempt = c.attempt,
             e.socks = c.socks, e.gen = c.gen, e.socket = c.socket,
             e.op["sub"] \notin {"offer", "open"}, e.op["view"] \notin {"preparing", "ready"}
      PROVE  Fine(e, ag, Tail(w), debts) /\ e.gen = c.gen
  <2>1. Limited(e)  BY <1>5, <1>8 DEF Limited
  <2>2. On(e)  BY <1>8 DEF On
  <2>3. Fine(e, ag, w, debts)  BY <1>8, <2>1, <2>2 DEF Fine
  <2>4. \A u : ~Failure(e, w, 1, u)  BY <1>7, <1>8 DEF Failure
  <2>5. QED BY <1>6, <1>8, <2>3, <2>4, TakenFine
<1>9. CASE p.kind # "open"
  <2>1. d = without  BY <1>9 DEF A!Receive, without
  <2>2. Alike(c, without)  BY <1>0, <1>4 DEF Alike
  <2>3. Session(without, ag, w, {})
    <3>1. AfterAnswer(c, without, p, m.ok)  BY <1>4, <1>9 DEF AfterAnswer
    <3>2. QED BY <1>0, <1>1, <1>2, <1>9, <2>2, <3>1, RequestAnswered
  <2>4. ViewWithin(without)  BY <1>4 DEF ViewWithin
  <2>5. QED BY <1>0, <1>4, <1>8, <2>1, <2>3, <2>4 DEF Limited
<1>10. CASE p.kind = "open" /\ p.cancelled
  <2>2. Alike(c, without)  BY <1>0, <1>4 DEF Alike
  <2>a. without.op = [c.op EXCEPT ![p.op] = "ended"]  BY <1>0, <1>3, <1>4, <1>10
  <2>3. /\ m.ok => Session(without, ag, w, {} \union {p.op})
        /\ ~m.ok => Session(without, ag, w, {})
    <3>1. AfterAnswer(c, without, p, m.ok)  BY <1>4, <1>10, <2>a DEF AfterAnswer
    <3>2. QED BY <1>0, <1>1, <1>2, <1>10, <2>2, <3>1, RequestAnswered
  <2>4. ViewWithin(without)  BY <1>4 DEF ViewWithin
  <2>5. /\ m.ok => Fine(without, ag, Tail(w), {} \union {p.op})
        /\ ~m.ok => Fine(without, ag, Tail(w), {})
        /\ without.gen = c.gen
    BY <1>0, <1>4, <1>8, <2>3, <2>4 DEF Limited
  <2>6. CASE ~m.ok
    <3>1. d = without  BY <1>10, <2>6 DEF A!Receive, without
    <3>2. QED BY <2>4, <2>5, <2>6, <3>1
  <2>7. CASE m.ok
    <3>1. d = A!Control(without, "close", 0, p.op, full)
      BY <1>10, <2>7 DEF A!Receive, without
    <3>2. without.op[p.op] = "ended" /\ p.op \in A!Ops  BY <1>3, <1>4, <1>10
    <3>3. p.op = "sub" => without.op["view"] \in {"idle", "ended"}
      BY <1>0, <1>4, <3>2, <2>4, BoundFacts DEF ViewWithin, OpStates, Limited
    <3>4. Tail(w) \in Seq(Arrivals)  BY HeadAndTail
    <3>5. Fine(without, ag, Tail(w), {p.op})  BY <2>5, <2>7
    <3>6. LeavesFine(without, d, ag, Tail(w), Owed({p.op}, p.op), without.op)
      BY <3>1, <3>2, <3>3, <3>4, <3>5, ControlCloses
    <3>7. Owed({p.op}, p.op) = {}  BY DEF Owed, Parents
    <3>8. Fine(d, ag, Tail(w), {}) /\ d.gen = without.gen /\ (Off(d) \/ d.op = without.op)
      BY <3>6, <3>7 DEF LeavesFine
    <3> HIDE DEF d
    <3>9. ViewWithin(d)  BY <2>4, <3>8, OffHasNoView DEF ViewWithin
    <3>10. QED BY <1>4, <3>8, <3>9 DEF d
  <2>8. QED BY <1>2, <2>6, <2>7
<1>11. CASE p.kind = "open" /\ ~p.cancelled /\ ~m.ok
  <2>1. d = WithOver(without, p.op)
    BY <1>3, <1>4, <1>11 DEF A!Receive, without, WithOver, Transports
  <2>a. [c.op EXCEPT ![p.op] = "ended"] \in [A!Ops -> OpStates]  BY <1>0 DEF OpStates
  <2> DEFINE ops == [c.op EXCEPT ![p.op] = "ended"]
  <2>b. d = [without EXCEPT !.op = ops]  BY <1>4, <2>1 DEF WithOver
  <2>c. ops \in [A!Ops -> OpStates]  BY <2>a
  <2>d. ops = [c.op EXCEPT ![p.op] = "ended"]  OBVIOUS
  <2> HIDE DEF ops
  <2>2. /\ d \in Transports /\ d.pending = c.pending \ {p}
        /\ d.op = ops /\ d.out = c.out /\ d.counter = c.counter
        /\ d.from = c.from /\ d.refused = c.refused /\ d.link = c.link
        /\ d.attempt = c.attempt /\ d.socks = c.socks /\ d.gen = c.gen
        /\ d.socket = c.socket
    BY <1>4, <2>b, <2>c DEF Transports
  <2> HIDE DEF d
  <2>3. Alike(c, d)  BY <1>0, <2>2 DEF Alike
  <2>4. Session(d, ag, w, {})
    <3>1. AfterAnswer(c, d, p, m.ok)  BY <1>11, <2>d, <2>2 DEF AfterAnswer
    <3>2. QED BY <1>0, <1>1, <1>2, <1>11, <2>3, <3>1, RequestAnswered
  <2>5. ViewWithin(d) /\ d.op["sub"] \notin {"offer", "open"}
        /\ d.op["view"] \notin {"preparing", "ready"}
    BY <1>0, <1>3, <1>11, <2>d, <2>2, BoundFacts DEF ViewWithin, Limited
  <2>6. QED BY <1>8, <2>2, <2>4, <2>5 DEF d
<1>12. CASE p.kind = "open" /\ ~p.cancelled /\ m.ok
  <2> DEFINE ops == [c.op EXCEPT ![p.op] = IF p.op = "sub" THEN "preparing" ELSE "open"]
             fr == [c.from EXCEPT ![p.op] = c.gen]
  <2>1. d = [without EXCEPT !.op = ops, !.from = fr]
    BY <1>2, <1>3, <1>4, <1>12 DEF A!Receive, without, Transports
  <2>a. ops \in [A!Ops -> OpStates] /\ fr \in [A!Ops -> Nat]  BY <1>0 DEF OpStates
  <2>b. /\ ops = [c.op EXCEPT ![p.op] = IF p.op = "sub" THEN "preparing" ELSE "open"]
        /\ fr = [c.from EXCEPT ![p.op] = c.gen]
    OBVIOUS
  <2> HIDE DEF ops, fr, d
  <2>c. d \in Transports  BY <1>4, <2>1, <2>a DEF Transports
  <2>e. d.op = ops /\ d.from = fr  BY <1>4, <2>1 DEF Transports
  <2>2. /\ d \in Transports /\ d.pending = c.pending \ {p}
        /\ d.op = ops /\ d.out = c.out /\ d.counter = c.counter
        /\ d.from = fr /\ d.refused = c.refused /\ d.link = c.link
        /\ d.attempt = c.attempt /\ d.socks = c.socks /\ d.gen = c.gen
        /\ d.socket = c.socket
    BY <1>4, <2>1, <2>c, <2>e
  <2>3. Alike(c, d)  BY <1>0, <2>2 DEF Alike
  <2>4. Session(d, ag, w, {})
    <3>1. AfterAnswer(c, d, p, m.ok)  BY <1>12, <2>b, <2>2 DEF AfterAnswer
    <3>2. QED BY <1>0, <1>1, <1>2, <1>12, <2>3, <3>1, RequestAnswered
  <2>5. ViewWithin(d)
    <3>1. CASE p.op = "sub"
      <4>1. c.op["sub"] = "asked" /\ d.op["view"] = c.op["view"]
        BY <1>0, <1>3, <1>12, <2>b, <2>2, <3>1, BoundFacts
      <4>2. QED BY <4>1 DEF ViewWithin
    <3>2. CASE p.op = "view"
      <4>1. c.op["view"] = "asked" /\ d.op["sub"] = c.op["sub"]
        BY <1>0, <1>3, <1>12, <2>b, <2>2, <3>2, BoundFacts
      <4>2. QED BY <4>1 DEF ViewWithin
    <3>3. QED BY <1>3, <1>12, <3>1, <3>2, BoundFacts
  <2>6. d.op["sub"] \notin {"offer", "open"}
        /\ d.op["view"] \notin {"preparing", "ready"}
    BY <1>0, <1>3, <1>12, <2>b, <2>2, BoundFacts DEF Limited
  <2>7. QED BY <1>8, <2>2, <2>4, <2>5, <2>6 DEF d
<1>13. QED BY <1>2, <1>3, <1>9, <1>10, <1>11, <1>12

\* An event of a resource: it is ready, or has failed, and the client with it.
LEMMA EventFacts ==
    ASSUME NEW c, NEW ag \in Agents, NEW w \in Seq(Arrivals), w # <<>>,
           Fine(c, ag, w, {}), On(c), ViewWithin(c), A!Limits,
           w[1].session = c.socket, w[1].kind # "response", NEW m, m = w[1], NEW full \in BOOLEAN
    PROVE  LET d == A!Event(c, m, full) IN
           Fine(d, ag, Tail(w), {}) /\ d.gen = c.gen /\ ViewWithin(d)
<1> DEFINE d == A!Event(c, m, full)
<1>0. /\ c \in Transports /\ Limited(c) /\ Session(c, ag, w, {}) /\ Granted(c, ag, w)
      /\ c.op \in [A!Ops -> OpStates] /\ c.counter \in Nat /\ c.gen \in Nat
  BY DEF Fine, Off, On, Transports, Session
<1>1. 1 \in 1 .. Len(w) /\ m \in Arrivals /\ m.op \in A!Ops
  <2>1. 1 \in 1 .. Len(w) /\ m \in Arrivals  OBVIOUS
  <2>2. QED BY <2>1 DEF Arrivals
<1>2. m.kind \in {"ready", "error"}  BY <1>1 DEF Arrivals
<1>3. ASSUME NEW e, On(e), e.gen = c.gen
      PROVE  ~Response(e, w, 1) /\ \A u : Failure(e, w, 1, u) <=> m.kind = "error" /\ u = m.op
  BY <1>3 DEF On, Response, Failure
<1>4. CASE m.op \notin A!Bound(c)
  <2>1. d = c  BY <1>4 DEF A!Event
  <2>2. \A u : Failure(c, w, 1, u) => u \notin A!Bound(c)  BY <1>3, <1>4
  <2>3. ~Response(c, w, 1)  BY <1>3
  <2>4. QED BY <2>1, <2>2, <2>3, TakenFine
<1>5. CASE m.op \in A!Bound(c) /\ m.kind = "ready"
  <2> DEFINE ops == [c.op EXCEPT !["sub"] = "ready"]
  <2>1. d = [c EXCEPT !.op = ops]  BY <1>0, <1>5 DEF A!Event, Transports
  <2>2. ops \in [A!Ops -> OpStates] /\ ops = [c.op EXCEPT !["sub"] = "ready"]
    BY <1>0 DEF OpStates
  <2>3. c.op["sub"] \in {"preparing", "ready"}
    BY <1>1, <1>5, BoundFacts DEF ViewWithin
  <2> HIDE DEF ops
  <2>4. /\ d \in Transports /\ d.pending = c.pending
        /\ d.op = ops /\ d.out = c.out /\ d.counter = c.counter
        /\ d.from = c.from /\ d.refused = c.refused /\ d.link = c.link
        /\ d.attempt = c.attempt /\ d.socks = c.socks /\ d.gen = c.gen
        /\ d.socket = c.socket
    BY <1>0, <2>1, <2>2 DEF Transports
  <2> HIDE DEF d
  <2>5. Alike(c, d)  BY <1>0, <2>4 DEF Alike
  <2>6. d.op = [c.op EXCEPT !["sub"] = "ready"]  BY <2>2, <2>4
  <2>7. Session(d, ag, w, {})  BY <1>0, <2>3, <2>4, <2>5, <2>6, SubReady
  <2>8. On(d) /\ d.op["sub"] = "ready" /\ d.op["view"] = c.op["view"]
    BY <1>0, <2>4, <2>6, BoundFacts DEF On
  <2>9. Limited(d) /\ ViewWithin(d)  BY <1>0, <2>4, <2>8 DEF Limited, ViewWithin
  <2>10. Fine(d, ag, w, {})  BY <2>4, <2>7, <2>8, <2>9 DEF Fine
  <2>11. ~Response(d, w, 1) /\ \A u : ~Failure(d, w, 1, u)  BY <1>3, <1>5, <2>4, <2>8
  <2>12. Fine(d, ag, Tail(w), {})  BY <2>9, <2>10, <2>11, TakenFine
  <2>13. QED BY <2>4, <2>9, <2>12 DEF d
<1>6. CASE m.op = "sub" /\ m.op \in A!Bound(c) /\ m.kind = "error"
  <2>1. d = A!EndSub(c, full)  BY <1>6 DEF A!Event
  <2>2. c.op["sub"] # "asked"  BY <1>6, BoundFacts
  <2> HIDE DEF d
  <2>3. /\ Fine(d, ag, w, {"sub", "view"}) /\ d.gen = c.gen
        /\ Off(d) \/ (d.op["sub"] = "ended" /\ d.op["view"] \in {"idle", "ended"})
    BY <2>1, <2>2, EndSubFacts
  <2>4. Failure(c, w, 1, "sub") /\ "sub" \in A!Ops  BY <1>1, <1>3, <1>6
  <2>5. Fails(c, w, "sub")  BY <1>1, <2>4 DEF Fails
  <2>6. "sub" \notin ag.held /\ "view" \notin ag.held  BY <1>0, <2>4, <2>5 DEF Granted
  <2>7. Fine(d, ag, w, {})
    <3>1. ag.held \intersect {"sub", "view"} \subseteq {}  BY <2>6
    <3>2. QED BY <2>3, <3>1, FineOwing
  <2>8. ViewWithin(d)  BY <2>3, OffHasNoView DEF ViewWithin
  <2>9. ASSUME On(d) PROVE ~Response(d, w, 1) /\ \A u : Failure(d, w, 1, u) => u \notin A!Bound(d)
    <3>1. ~Off(d)  BY <2>9 DEF On, Off
    <3>2. "sub" \notin A!Bound(d)  BY <2>3, <3>1, BoundFacts
    <3>3. QED BY <1>3, <1>6, <2>3, <2>9, <3>2
  <2>10. Fine(d, ag, Tail(w), {})  BY <2>7, <2>8, <2>9, TakenFine
  <2>11. QED BY <2>3, <2>8, <2>10 DEF d
<1>7. CASE m.op = "view" /\ m.op \in A!Bound(c) /\ m.kind = "error"
  <2>1. d = A!FailView(c, full)  BY <1>7 DEF A!Event
  <2>2. c.op["view"] = "open"  BY <1>7, BoundFacts
  <2> HIDE DEF d
  <2>3. Fine(d, ag, w, {}) /\ ViewOver(c, d)  BY <2>1, <2>2, FailViewFacts
  <2>4. d.gen = c.gen /\ (Off(d) \/ d.op["view"] = "ended")  BY <2>2, <2>3 DEF ViewOver
  <2>5. ViewWithin(d)  BY <2>4, OffHasNoView DEF ViewWithin
  <2>6. ASSUME On(d) PROVE ~Response(d, w, 1) /\ \A u : Failure(d, w, 1, u) => u \notin A!Bound(d)
    <3>1. ~Off(d)  BY <2>6 DEF On, Off
    <3>2. "view" \notin A!Bound(d)  BY <2>4, <3>1, BoundFacts
    <3>3. QED BY <1>3, <1>7, <2>4, <2>6, <3>2
  <2>7. Fine(d, ag, Tail(w), {})  BY <2>3, <2>5, <2>6, TakenFine
  <2>8. QED BY <2>4, <2>5, <2>7 DEF d
<1>8. QED BY <1>1, <1>2, <1>4, <1>5, <1>6, <1>7, BoundFacts

\* onmessage, of the session's own socket or of one that is no more.
LEMMA OnMessageFacts ==
    ASSUME NEW c, NEW ag \in Agents, NEW w \in Seq(Arrivals), w # <<>>,
           Fine(c, ag, w, {}), On(c), ViewWithin(c), A!Limits, NEW full \in BOOLEAN
    PROVE  LET d == A!OnMessage(c, Head(w), full) IN
           Fine(d, ag, Tail(w), {}) /\ d.gen = c.gen /\ ViewWithin(d)
<1> DEFINE m == Head(w)
           d == A!OnMessage(c, m, full)
<1>1. m = w[1] /\ 1 \in 1 .. Len(w) /\ m \in Arrivals  BY HeadAndTail
<1> HIDE DEF m
<1>2. A!FromItsSocket(c, m) <=> m.session = c.socket  BY DEF A!FromItsSocket, On
<1>3. CASE m.session # c.socket
  <2>1. d = c  BY <1>2, <1>3 DEF A!OnMessage
  <2>2. ~Response(c, w, 1) /\ \A u : ~Failure(c, w, 1, u)  BY <1>1, <1>3 DEF Response, Failure
  <2>3. QED BY <2>1, <2>2, TakenFine DEF m
<1>4. CASE m.session = c.socket /\ m.kind # "response"
  <2>1. d = A!Event(c, m, full)  BY <1>2, <1>4 DEF A!OnMessage
  <2>2. QED BY <1>1, <1>4, <2>1, EventFacts DEF m
<1>5. CASE m.session = c.socket /\ m.kind = "response" /\ \E p \in c.pending : p.id = m.id
  <2> DEFINE p == CHOOSE q \in c.pending : q.id = m.id
  <2>1. d = A!Receive(c, p, m, full)  BY <1>2, <1>5 DEF A!OnMessage
  <2>2. p \in c.pending /\ p.id = m.id  BY <1>5
  <2>3. Response(c, w, 1)  BY <1>1, <1>5 DEF Response
  <2> HIDE DEF p
  <2>4. QED BY <1>1, <2>1, <2>2, <2>3, ReceiveFacts DEF m
<1>6. CASE m.session = c.socket /\ m.kind = "response" /\ ~\E p \in c.pending : p.id = m.id
  <2>1. d = c  BY <1>2, <1>6 DEF A!OnMessage
  <2>2. \A u : ~Failure(c, w, 1, u)  BY <1>1, <1>6 DEF Failure
  <2>3. \A p \in c.pending : p.id # w[1].id  BY <1>1, <1>6
  <2>4. QED BY <2>1, <2>2, <2>3, TakenFine DEF m
<1>7. QED BY <1>3, <1>4, <1>5, <1>6

-----------------------------------------------------------------------------
\* The steps of the agent.

\* An answer of the agent is on its way.
LEMMA AnswerSent ==
    ASSUME NEW c \in Transports, NEW ag \in Agents, NEW w \in Seq(Arrivals), Session(c, ag, w, {}),
           NEW n \in ag.work, NEW ok \in BOOLEAN,
           n.op = "view" /\ "sub" \notin ag.held => ~ok,
           NEW bg \in Agents, bg.work = ag.work \ {n},
           bg.held = (IF ok /\ n.kind = "open" THEN ag.held \union {n.op} ELSE ag.held),
           NEW a \in Arrivals, a.session = c.socket, a.kind = "response", a.id = n.id, a.ok = ok
    PROVE  Session(c, bg, Append(w, a), {})
<1> USE DEF Session
<1> DEFINE v == Append(w, a)
<1>t. /\ v \in Seq(Arrivals) /\ Len(v) = Len(w) + 1 /\ Len(w) \in Nat /\ v[Len(w) + 1] = a
      /\ \A i \in 1 .. Len(w) : v[i] = w[i] /\ i \in 1 .. Len(v)
      /\ \A i \in 1 .. Len(v) : i \in 1 .. Len(w) \/ (i = Len(w) + 1 /\ v[i] = a)
      /\ Len(w) + 1 \in 1 .. Len(v)
  <2>1. /\ v \in Seq(Arrivals) /\ Len(v) = Len(w) + 1 /\ Len(w) \in Nat
        /\ v[Len(w) + 1] = a /\ \A i \in 1 .. Len(w) : v[i] = w[i]
    BY Appended
  <2> HIDE DEF v
  <2>2. QED BY <2>1
<1> HIDE DEF v
<1>p. PICK p \in c.pending : Tracks(p, n)  BY DEF Tracked
<1>n. /\ n.kind \in {"open", "call"} /\ n.id = p.id /\ n.kind = p.kind /\ n.op = p.op
      /\ p.id <= c.counter
  BY <1>p DEF Tracked, Tracks
<1>o. n.kind = "open" => n.op \in A!Ops /\ c.op[n.op] \in {"asked", "ended"}
  BY <1>n DEF Asking
<1>q. \A q \in c.pending : q.id = n.id => q = p  BY <1>n DEF Tracked
<1>m. \A u \in A!Ops : u \in ag.held \/ Fails(c, w, u) => ~(n.kind = "open" /\ n.op = u)
  BY DEF Granted
<1>r. /\ \A i \in 1 .. Len(w) : Response(c, v, i) <=> Response(c, w, i)
      /\ Response(c, v, Len(w) + 1)
  BY <1>t DEF Response
<1>f. /\ \A i \in 1 .. Len(w) : \A u : Failure(c, v, i, u) <=> Failure(c, w, i, u)
      /\ \A u : ~Failure(c, v, Len(w) + 1, u)
  BY <1>t DEF Failure
<1>g. \A u : Fails(c, v, u) <=> Fails(c, w, u)  BY <1>t, <1>f DEF Fails
<1>a. /\ \A i \in 1 .. Len(w) : \A x, k : Answer(c, v, i, x, k) <=> Answer(c, w, i, x, k)
      /\ \A x, k : Answer(c, v, Len(w) + 1, x, k) <=> x = n.id /\ k = ok
  BY <1>t, <1>r DEF Answer
<1>1. Tracked(c, bg, v)  BY DEF Tracked
<1>2. OnePlace(c, bg, v)  BY DEF OnePlace
<1>3. Answered(c, bg, v)
  <2>1. ASSUME NEW i \in 1 .. Len(w), Response(c, w, i)
        PROVE  /\ w[i].id <= c.counter
               /\ \A j \in 1 .. Len(c.out) : Numbered(c.out[j]) => c.out[j].id # w[i].id
               /\ \A x \in bg.work : x.id # w[i].id
               /\ w[i].id # n.id
    BY <2>1 DEF Answered
  <2>2. /\ n.id <= c.counter
        /\ \A j \in 1 .. Len(c.out) : Numbered(c.out[j]) => c.out[j].id # n.id
        /\ \A x \in bg.work : x.id # n.id
    BY <1>n DEF OnePlace
  <2>3. ASSUME NEW i \in 1 .. Len(v), Response(c, v, i)
        PROVE  /\ v[i].id <= c.counter
               /\ \A j \in 1 .. Len(c.out) : Numbered(c.out[j]) => c.out[j].id # v[i].id
               /\ \A x \in bg.work : x.id # v[i].id
    <3>1. CASE i \in 1 .. Len(w)  BY <3>1, <2>1, <2>3, <1>t, <1>r
    <3>2. CASE i = Len(w) + 1 /\ v[i] = a  BY <3>2, <2>2
    <3>3. QED BY <3>1, <3>2, <1>t
  <2>4. ASSUME NEW i \in 1 .. Len(v), NEW j \in 1 .. Len(v), Response(c, v, i), Response(c, v, j),
               v[j].id = v[i].id
        PROVE  i = j
    <3>1. CASE i \in 1 .. Len(w) /\ j \in 1 .. Len(w)
      BY <3>1, <2>4, <1>t, <1>r DEF Answered
    <3>2. CASE i \in 1 .. Len(w) /\ j = Len(w) + 1 /\ v[j] = a  BY <3>2, <2>1, <2>4, <1>t, <1>r
    <3>3. CASE j \in 1 .. Len(w) /\ i = Len(w) + 1 /\ v[i] = a  BY <3>3, <2>1, <2>4, <1>t, <1>r
    <3>4. QED BY <3>1, <3>2, <3>3, <1>t
  <2>5. QED BY <2>3, <2>4 DEF Answered
<1>4. Asking(c) /\ Closed(c)  OBVIOUS
<1>5. Granted(c, bg, v)
  <2>1. ASSUME NEW u \in A!Ops, u \in bg.held \/ Fails(c, v, u)
        PROVE  /\ c.op[u] \notin {"idle", "offer"}
               /\ \A i \in 1 .. Len(c.out) : ~(c.out[i].kind = "open" /\ c.out[i].op = u)
               /\ \A x \in bg.work : ~(x.kind = "open" /\ x.op = u)
               /\ \A q \in c.pending, i \in 1 .. Len(v) :
                     Opens(q, u) => ~Answer(c, v, i, q.id, FALSE)
    <3>1. CASE u \in ag.held \/ Fails(c, w, u)
      <4>1. \A q \in c.pending, i \in 1 .. Len(w) : Opens(q, u) => ~Answer(c, w, i, q.id, FALSE)
        BY <3>1 DEF Granted
      <4>2. \A q \in c.pending : Opens(q, u) => q.id # n.id
        BY <3>1, <1>m, <1>n, <1>q DEF Opens
      <4>3. ASSUME NEW q \in c.pending, NEW i \in 1 .. Len(v), Opens(q, u)
            PROVE  ~Answer(c, v, i, q.id, FALSE)
        <5>1. CASE i \in 1 .. Len(w)  BY <5>1, <4>1, <4>3, <1>a
        <5>2. CASE i = Len(w) + 1  BY <5>2, <4>2, <4>3, <1>a
        <5>3. QED BY <5>1, <5>2, <1>t
      <4>4. QED BY <3>1, <4>3 DEF Granted
    <3>2. CASE ok /\ n.kind = "open" /\ u = n.op
      <4>1. c.op[u] \notin {"idle", "offer"}  BY <3>2, <1>o
      <4>2. \A i \in 1 .. Len(c.out) : ~(c.out[i].kind = "open" /\ c.out[i].op = u)
        <5> SUFFICES ASSUME NEW i \in 1 .. Len(c.out), c.out[i].kind = "open", c.out[i].op = u
                     PROVE  FALSE
          OBVIOUS
        <5>1. Numbered(c.out[i])  BY DEF Numbered
        <5>2. PICK q \in c.pending : Tracks(q, c.out[i])  BY <5>1 DEF Tracked
        <5>3. q = p  BY <5>2, <3>2, <1>n DEF Tracks, Asking
        <5>4. c.out[i].id = n.id  BY <5>2, <5>3, <1>n DEF Tracks
        <5>5. QED BY <5>1, <5>4 DEF OnePlace
      <4>3. \A x \in bg.work : ~(x.kind = "open" /\ x.op = u)
        <5> SUFFICES ASSUME NEW x \in ag.work, x # n, x.kind = "open", x.op = u PROVE FALSE
          OBVIOUS
        <5>1. PICK q \in c.pending : Tracks(q, x)  BY DEF Tracked
        <5>2. q = p  BY <5>1, <3>2, <1>n DEF Tracks, Asking
        <5>3. x.id = n.id  BY <5>1, <5>2, <1>n DEF Tracks
        <5>4. QED BY <5>3 DEF OnePlace
      <4>4. \A q \in c.pending, i \in 1 .. Len(v) : Opens(q, u) => ~Answer(c, v, i, q.id, FALSE)
        <5> SUFFICES ASSUME NEW q \in c.pending, NEW i \in 1 .. Len(v), Opens(q, u),
                            Answer(c, v, i, q.id, FALSE)
                     PROVE  FALSE
          OBVIOUS
        <5>1. q = p  BY <3>2, <1>n DEF Opens, Asking
        <5>2. CASE i \in 1 .. Len(w)
          <6>1. Answer(c, w, i, q.id, FALSE)  BY <5>2, <1>a
          <6>2. Response(c, w, i) /\ w[i].id = n.id  BY <6>1, <5>1, <1>n DEF Answer
          <6>3. QED BY <5>2, <6>2 DEF Answered
        <5>3. CASE i = Len(w) + 1  BY <5>3, <3>2, <1>a
        <5>4. QED BY <5>2, <5>3, <1>t
      <4>5. QED BY <4>1, <4>2, <4>3, <4>4
    <3>3. QED BY <2>1, <3>1, <3>2, <1>g
  <2>2. \A u \in A!Ops : Fails(c, v, u) => u \notin bg.held
    BY <1>g, <1>m DEF Granted
  <2>3. "view" \in bg.held => "sub" \in bg.held  BY DEF Granted
  <2>4. QED BY <2>1, <2>2, <2>3 DEF Granted
<1>6. Kept(c, bg, v)
  <2>1. ASSUME NEW q \in c.pending, NEW i \in 1 .. Len(v), q.kind = "open", ~q.cancelled,
               Answer(c, v, i, q.id, TRUE), q.op \notin bg.held
        PROVE  \E u \in Parents(q.op), j \in i + 1 .. Len(v) : Failure(c, v, j, u)
    <3>1. CASE i \in 1 .. Len(w)
      <4>1. PICK u \in Parents(q.op), j \in i + 1 .. Len(w) : Failure(c, w, j, u)
        BY <2>1, <3>1, <1>a DEF Kept
      <4>2. j \in 1 .. Len(w) /\ j \in i + 1 .. Len(v)  BY <3>1, <1>t
      <4>3. QED BY <4>1, <4>2, <1>f
    <3>2. CASE i = Len(w) + 1
      <4>1. ok /\ q = p  BY <2>1, <3>2, <1>a, <1>q
      <4>2. QED BY <2>1, <4>1, <1>n
    <3>3. QED BY <3>1, <3>2, <1>t
  <2>2. QED BY <2>1, <1>g DEF Kept
<1>7. Released(c, bg, v, {})
  <2>1. \A u : Granting(c, w, u) => Granting(c, v, u)  BY <1>t, <1>a DEF Granting
  <2>2. ok /\ n.kind = "open" => Granting(c, v, n.op)
    <3> SUFFICES ASSUME ok, n.kind = "open" PROVE Granting(c, v, n.op)  OBVIOUS
    <3>1. Opens(p, n.op)  BY <1>n DEF Opens
    <3>2. Answer(c, v, Len(w) + 1, p.id, TRUE)  BY <1>a, <1>n
    <3>3. QED BY <3>1, <3>2, <1>t DEF Granting
  <2>3. QED BY <2>1, <2>2 DEF Released
<1>8. QED BY <1>1, <1>2, <1>3, <1>4, <1>5, <1>6, <1>7 DEF v

\* The agent takes the oldest message of the client.
Shortened(c) == [c EXCEPT !.out = Tail(@)]
AfterTaking(ag, bg, m) ==
    /\ bg.work = (IF m.kind \in {"open", "call"} THEN ag.work \union {m} ELSE ag.work)
    /\ bg.held = (IF m.kind = "close" THEN A!Without(ag.held, m.op) ELSE ag.held)

LEMMA ShortenedFacts ==
    ASSUME NEW c \in Transports, c.out # <<>>
    PROVE  LET d == Shortened(c) IN
           /\ d \in Transports /\ d.out = Tail(c.out) /\ d.pending = c.pending /\ d.op = c.op
           /\ d.from = c.from /\ d.refused = c.refused /\ d.link = c.link /\ d.counter = c.counter
           /\ d.attempt = c.attempt /\ d.socks = c.socks /\ d.gen = c.gen /\ d.socket = c.socket
<1>1. c.out \in Seq(Sendings)  BY DEF Transports
<1>2. Tail(c.out) \in Seq(Sendings)  BY <1>1
<1>3. QED BY <1>2 DEF Shortened, Transports

LEMMA WithoutFacts ==
    ASSUME NEW had \in SUBSET A!Ops, NEW o \in A!Ops
    PROVE  /\ A!Without(had, o) \in SUBSET A!Ops
           /\ \A x \in A!Ops : x \in A!Without(had, o) <=> x \in had /\ o \notin Parents(x)
BY DEF A!Without, A!Ops, Parents

LEMMA OutTaken ==
    ASSUME NEW c \in Transports, NEW ag \in Agents, NEW w \in Seq(Arrivals), Session(c, ag, w, {}),
           c.out # <<>>, NEW m, m = c.out[1], NEW bg \in Agents, AfterTaking(ag, bg, m)
    PROVE  LET d == Shortened(c) IN
           /\ Session(d, bg, w, {})
           /\ Numbered(m) => /\ \A i \in 1 .. Len(d.out) : Numbered(d.out[i]) => d.out[i].id # m.id
                             /\ \A i \in 1 .. Len(w) : Response(d, w, i) => w[i].id # m.id
                             /\ \A x \in ag.work : x.id # m.id
                             /\ \E p \in d.pending : Tracks(p, m)
<1> USE DEF Session
<1> DEFINE d == Shortened(c)
<1>d. /\ d \in Transports /\ d.out = Tail(c.out) /\ d.pending = c.pending /\ d.op = c.op
      /\ d.from = c.from /\ d.refused = c.refused /\ d.link = c.link /\ d.counter = c.counter
      /\ d.attempt = c.attempt /\ d.socks = c.socks /\ d.gen = c.gen /\ d.socket = c.socket
  BY ShortenedFacts
<1> HIDE DEF d
<1>s. c.out \in Seq(Sendings)  BY DEF Transports
<1>t. /\ Len(d.out) = Len(c.out) - 1 /\ Len(c.out) \in Nat /\ Len(c.out) >= 1
      /\ \A i \in 1 .. Len(d.out) : d.out[i] = c.out[i + 1] /\ i + 1 \in 1 .. Len(c.out)
      /\ \A i \in 2 .. Len(c.out) : d.out[i - 1] = c.out[i] /\ i - 1 \in 1 .. Len(d.out)
      /\ 1 \in 1 .. Len(c.out)
  BY <1>s, <1>d, HeadAndTail
<1>m. m \in Sendings /\ m.kind \in {"open", "call", "close", "cancel"}
  <2>1. m \in Sendings  BY <1>s, <1>t
  <2>2. QED BY <2>1 DEF Sendings
<1>n. m.kind \in {"open", "call"} => Numbered(m)  BY DEF Numbered
<1>k. Numbered(m) => /\ \A i \in 1 .. Len(d.out) : Numbered(d.out[i]) => d.out[i].id # m.id
                     /\ \A i \in 1 .. Len(w) : Response(c, w, i) => w[i].id # m.id
                     /\ \A x \in ag.work : x.id # m.id
                     /\ \E p \in c.pending : Tracks(p, m)
  <2> SUFFICES ASSUME Numbered(m)
               PROVE  /\ \A i \in 1 .. Len(d.out) : Numbered(d.out[i]) => d.out[i].id # m.id
                      /\ \A i \in 1 .. Len(w) : Response(c, w, i) => w[i].id # m.id
                      /\ \A x \in ag.work : x.id # m.id
                      /\ \E p \in c.pending : Tracks(p, m)
    OBVIOUS
  <2>1. ASSUME NEW i \in 1 .. Len(d.out), Numbered(d.out[i]) PROVE d.out[i].id # m.id
    <3>1. d.out[i] = c.out[i + 1] /\ i + 1 \in 1 .. Len(c.out) /\ i + 1 # 1  BY <1>t
    <3>2. QED BY <2>1, <3>1, <1>t DEF OnePlace
  <2>2. \A i \in 1 .. Len(w) : Response(c, w, i) => w[i].id # m.id  BY <1>t DEF Answered
  <2>3. \A x \in ag.work : x.id # m.id  BY <1>t DEF OnePlace
  <2>4. \E p \in c.pending : Tracks(p, m)  BY <1>t DEF Tracked
  <2>5. QED BY <2>1, <2>2, <2>3, <2>4
<1>r. \A i : Response(d, w, i) <=> Response(c, w, i)  BY <1>d DEF Response
<1>a. \A i, n, ok : Answer(d, w, i, n, ok) <=> Answer(c, w, i, n, ok)  BY <1>r DEF Answer
<1>f. /\ \A i, u : Failure(d, w, i, u) <=> Failure(c, w, i, u)
      /\ \A u : Fails(d, w, u) <=> Fails(c, w, u)
  BY <1>d DEF Failure, Fails
<1>b. A!Bound(d) = A!Bound(c)  BY <1>d DEF A!Bound
<1>w. \A x \in bg.work : x \in ag.work \/ (x = m /\ m.kind \in {"open", "call"})
  BY DEF AfterTaking
<1>h. /\ ag.held \in SUBSET A!Ops /\ bg.held \in SUBSET A!Ops /\ bg.held \subseteq ag.held
      /\ m.kind # "close" => bg.held = ag.held
      /\ m.kind = "close" => /\ m.op \in A!Ops /\ c.op[m.op] = "ended"
                             /\ m.op = "sub" => c.op["view"] \in {"idle", "ended"}
                             /\ \A x \in A!Ops :
                                   x \in bg.held <=> x \in ag.held /\ m.op \notin Parents(x)
  <2>1. ag.held \in SUBSET A!Ops /\ bg.held \in SUBSET A!Ops  BY DEF Agents
  <2>2. CASE m.kind # "close"  BY <2>1, <2>2 DEF AfterTaking
  <2>3. CASE m.kind = "close"
    <3>1. /\ m.op \in A!Ops /\ c.op[m.op] = "ended"
          /\ m.op = "sub" => c.op["view"] \in {"idle", "ended"}
      BY <2>3, <1>t DEF Closed, Closes
    <3>2. bg.held = A!Without(ag.held, m.op)  BY <2>3 DEF AfterTaking
    <3>3. QED BY <2>1, <2>3, <3>1, <3>2, WithoutFacts
  <2>4. QED BY <2>2, <2>3
<1>1. Tracked(d, bg, w)
  <2>1. /\ \A p \in d.pending : p.id <= d.counter
        /\ \A p, q \in d.pending : p.id = q.id => p = q
    BY <1>d DEF Tracked
  <2>2. \A i \in 1 .. Len(d.out) : Numbered(d.out[i]) => \E p \in d.pending : Tracks(p, d.out[i])
    BY <1>d, <1>t DEF Tracked
  <2>3. \A x \in bg.work : x.kind \in {"open", "call"} /\ \E p \in d.pending : Tracks(p, x)
    BY <1>d, <1>w, <1>n, <1>k DEF Tracked
  <2>4. QED BY <2>1, <2>2, <2>3 DEF Tracked
<1>2. OnePlace(d, bg, w)
  <2>1. ASSUME NEW i \in 1 .. Len(d.out), NEW j \in 1 .. Len(d.out),
               Numbered(d.out[i]), Numbered(d.out[j]), d.out[i].id = d.out[j].id
        PROVE  i = j
    <3>1. /\ d.out[i] = c.out[i + 1] /\ i + 1 \in 1 .. Len(c.out)
          /\ d.out[j] = c.out[j + 1] /\ j + 1 \in 1 .. Len(c.out)
      BY <1>t
    <3>2. i + 1 = j + 1  BY <2>1, <3>1 DEF OnePlace
    <3>3. QED BY <3>2
  <2>2. ASSUME NEW x \in bg.work, NEW y \in bg.work, x.id = y.id PROVE x = y
    BY <2>2, <1>w, <1>n, <1>k DEF OnePlace
  <2>3. ASSUME NEW i \in 1 .. Len(d.out), NEW x \in bg.work, Numbered(d.out[i])
        PROVE  x.id # d.out[i].id
    <3>1. CASE x \in ag.work
      <4>1. d.out[i] = c.out[i + 1] /\ i + 1 \in 1 .. Len(c.out)  BY <1>t
      <4>2. QED BY <2>3, <3>1, <4>1 DEF OnePlace
    <3>2. CASE x = m /\ m.kind \in {"open", "call"}  BY <2>3, <3>2, <1>n, <1>k
    <3>3. QED BY <3>1, <3>2, <1>w
  <2>4. QED BY <2>1, <2>2, <2>3 DEF OnePlace
<1>3. Answered(d, bg, w)
  <2>1. ASSUME NEW i \in 1 .. Len(w), Response(c, w, i)
        PROVE  /\ w[i].id <= d.counter
               /\ \A j \in 1 .. Len(d.out) : Numbered(d.out[j]) => d.out[j].id # w[i].id
               /\ \A x \in bg.work : x.id # w[i].id
               /\ \A j \in 1 .. Len(w) : Response(c, w, j) /\ w[j].id = w[i].id => i = j
    <3>1. \A x \in bg.work : x.id # w[i].id  BY <2>1, <1>w, <1>n, <1>k DEF Answered
    <3>2. ASSUME NEW j \in 1 .. Len(d.out), Numbered(d.out[j]) PROVE d.out[j].id # w[i].id
      <4>1. d.out[j] = c.out[j + 1] /\ j + 1 \in 1 .. Len(c.out)  BY <1>t
      <4>2. QED BY <2>1, <3>2, <4>1 DEF Answered
    <3>3. QED BY <2>1, <3>1, <3>2, <1>d DEF Answered
  <2>2. QED BY <2>1, <1>r DEF Answered
<1>4. Asking(d)  BY <1>d, <1>b DEF Asking
<1>5. Closed(d)
  <2>1. \A i \in 1 .. Len(d.out) : d.out[i].kind = "close" =>
            d.out[i].op \in A!Ops /\ d.op[d.out[i].op] = "ended"
    BY <1>d, <1>t DEF Closed
  <2>2. \A i \in 1 .. Len(d.out) : Closes(d.out[i], "sub") => d.op["view"] \in {"idle", "ended"}
    BY <1>d, <1>t DEF Closed
  <2>3. QED BY <2>1, <2>2 DEF Closed
<1>6. Granted(d, bg, w)
  <2>1. ASSUME NEW u \in A!Ops, u \in ag.held \/ Fails(c, w, u)
        PROVE  /\ d.op[u] \notin {"idle", "offer"}
               /\ \A i \in 1 .. Len(d.out) : ~(d.out[i].kind = "open" /\ d.out[i].op = u)
               /\ \A x \in bg.work : ~(x.kind = "open" /\ x.op = u)
               /\ \A p \in d.pending, i \in 1 .. Len(w) :
                     Opens(p, u) => ~Answer(c, w, i, p.id, FALSE)
    <3>1. \A i \in 1 .. Len(c.out) : ~(c.out[i].kind = "open" /\ c.out[i].op = u)
      BY <2>1 DEF Granted
    <3>2. \A i \in 1 .. Len(d.out) : ~(d.out[i].kind = "open" /\ d.out[i].op = u)
      BY <3>1, <1>t
    <3>3. \A x \in bg.work : ~(x.kind = "open" /\ x.op = u)
      BY <2>1, <3>1, <1>t, <1>w DEF Granted
    <3>4. QED BY <2>1, <3>2, <3>3, <1>d DEF Granted
  <2>2. \A u \in A!Ops : Fails(c, w, u) => u \notin bg.held  BY <1>h DEF Granted
  <2>3. "view" \in bg.held => "sub" \in bg.held
    BY <1>h, BoundFacts DEF Granted, Parents
  <2>4. QED BY <2>1, <2>2, <2>3, <1>a, <1>f, <1>h DEF Granted
<1>7. Kept(d, bg, w)
  <2>1. ASSUME NEW u \in A!Ops, c.op[u] \in {"asked", "preparing", "ready", "open"}, u \in ag.held,
               u = "sub" => c.op[u] # "open"
        PROVE  u \in bg.held
    BY <2>1, <1>h, BoundFacts DEF Parents
  <2>2. \A u \in A!Bound(c) : u \in A!Ops /\ c.op[u] \in {"preparing", "ready", "open"}
                              /\ (u = "sub" => c.op[u] # "open")
    BY BoundFacts
  <2>3. \A u \in A!Bound(d) : u \in bg.held \/ \E x \in Parents(u) : Fails(d, w, x)
    BY <2>1, <2>2, <1>b, <1>f DEF Kept
  <2>4. ASSUME NEW p \in c.pending, NEW i \in 1 .. Len(w), p.kind = "open", ~p.cancelled,
               Answer(c, w, i, p.id, TRUE)
        PROVE  \/ p.op \in bg.held
               \/ \E u \in Parents(p.op), j \in i + 1 .. Len(w) : Failure(c, w, j, u)
    <3>1. p.op \in A!Ops /\ c.op[p.op] = "asked"  BY <2>4 DEF Asking
    <3>2. p.op \in ag.held => p.op \in bg.held  BY <2>1, <3>1
    <3>3. QED BY <2>4, <3>2 DEF Kept
  <2>5. QED BY <2>3, <2>4, <1>a, <1>f, <1>d DEF Kept
<1>8. Released(d, bg, w, {})
  <2> SUFFICES ASSUME NEW u \in bg.held \ A!Bound(d)
               PROVE  Granting(d, w, u) \/ Leaves(d, u) \/ d.refused \intersect Parents(u) # {}
    BY DEF Released
  <2>1. u \in A!Ops /\ u \in ag.held /\ u \notin A!Bound(c)  BY <1>h, <1>b
  <2>2. Granting(c, w, u) \/ Leaves(c, u) \/ c.refused \intersect Parents(u) # {}
    BY <2>1 DEF Released
  <2>3. Granting(c, w, u) => Granting(d, w, u)  BY <1>a, <1>d DEF Granting
  <2>4. Leaves(c, u) => Leaves(d, u)
    <3> SUFFICES ASSUME NEW i \in 1 .. Len(c.out), NEW x \in Parents(u), Closes(c.out[i], x)
                 PROVE  Leaves(d, u)
      BY DEF Leaves
    <3>1. i # 1  BY <2>1, <1>h DEF Closes
    <3>2. i \in 2 .. Len(c.out)  BY <3>1, <1>t
    <3>3. d.out[i - 1] = c.out[i] /\ i - 1 \in 1 .. Len(d.out)  BY <3>2, <1>t
    <3>4. QED BY <3>3 DEF Leaves
  <2>5. QED BY <2>2, <2>3, <2>4, <1>d
<1>9. /\ Session(d, bg, w, {})
      /\ Numbered(m) => /\ \A i \in 1 .. Len(d.out) : Numbered(d.out[i]) => d.out[i].id # m.id
                        /\ \A i \in 1 .. Len(w) : Response(d, w, i) => w[i].id # m.id
                        /\ \A x \in ag.work : x.id # m.id
                        /\ \E p \in d.pending : Tracks(p, m)
  BY <1>1, <1>2, <1>3, <1>4, <1>5, <1>6, <1>7, <1>8, <1>k, <1>r, <1>d
<1>10. QED BY <1>9 DEF d

\* The agent answers a close; or an event of the agent is on its way.
LEMMA ReplySent ==
    ASSUME NEW c \in Transports, NEW ag \in Agents, NEW w \in Seq(Arrivals), Session(c, ag, w, {}),
           NEW p \in c.pending, p.kind # "open",
           \A i \in 1 .. Len(c.out) : Numbered(c.out[i]) => c.out[i].id # p.id,
           \A i \in 1 .. Len(w) : Response(c, w, i) => w[i].id # p.id,
           \A x \in ag.work : x.id # p.id,
           NEW a \in Arrivals, a.session = c.socket, a.kind = "response", a.id = p.id
    PROVE  Session(c, ag, Append(w, a), {})
<1> USE DEF Session
<1> DEFINE v == Append(w, a)
<1>t. /\ v \in Seq(Arrivals) /\ Len(v) = Len(w) + 1 /\ Len(w) \in Nat /\ v[Len(w) + 1] = a
      /\ \A i \in 1 .. Len(w) : v[i] = w[i] /\ i \in 1 .. Len(v)
      /\ \A i \in 1 .. Len(v) : i \in 1 .. Len(w) \/ (i = Len(w) + 1 /\ v[i] = a)
      /\ Len(w) + 1 \in 1 .. Len(v)
  <2>1. /\ v \in Seq(Arrivals) /\ Len(v) = Len(w) + 1 /\ Len(w) \in Nat
        /\ v[Len(w) + 1] = a /\ \A i \in 1 .. Len(w) : v[i] = w[i]
    BY Appended
  <2> HIDE DEF v
  <2>2. QED BY <2>1
<1> HIDE DEF v
<1>p. p.id <= c.counter /\ \A q \in c.pending : q.id = p.id => q = p  BY DEF Tracked
<1>r. /\ \A i \in 1 .. Len(w) : Response(c, v, i) <=> Response(c, w, i)
      /\ Response(c, v, Len(w) + 1)
  BY <1>t DEF Response
<1>f. /\ \A i \in 1 .. Len(w) : \A u : Failure(c, v, i, u) <=> Failure(c, w, i, u)
      /\ \A u : ~Failure(c, v, Len(w) + 1, u)
  BY <1>t DEF Failure
<1>g. \A u : Fails(c, v, u) <=> Fails(c, w, u)  BY <1>t, <1>f DEF Fails
<1>a. /\ \A i \in 1 .. Len(w) : \A x, k : Answer(c, v, i, x, k) <=> Answer(c, w, i, x, k)
      /\ \A x, k : Answer(c, v, Len(w) + 1, x, k) => x = p.id
  BY <1>t, <1>r DEF Answer
<1>o. \A q \in c.pending, i \in 1 .. Len(v) : \A k :
          q.kind = "open" /\ Answer(c, v, i, q.id, k) =>
              i \in 1 .. Len(w) /\ Answer(c, w, i, q.id, k)
  <2> SUFFICES ASSUME NEW q \in c.pending, NEW i \in 1 .. Len(v), NEW k,
                      q.kind = "open", Answer(c, v, i, q.id, k)
               PROVE  i \in 1 .. Len(w) /\ Answer(c, w, i, q.id, k)
    OBVIOUS
  <2>1. CASE i \in 1 .. Len(w)  BY <2>1, <1>a
  <2>2. CASE i = Len(w) + 1  BY <2>2, <1>a, <1>p
  <2>3. QED BY <2>1, <2>2, <1>t
<1>1. Tracked(c, ag, v)  BY DEF Tracked
<1>2. OnePlace(c, ag, v)  BY DEF OnePlace
<1>3. Answered(c, ag, v)
  <2>3. ASSUME NEW i \in 1 .. Len(v), Response(c, v, i)
        PROVE  /\ v[i].id <= c.counter
               /\ \A j \in 1 .. Len(c.out) : Numbered(c.out[j]) => c.out[j].id # v[i].id
               /\ \A x \in ag.work : x.id # v[i].id
    <3>1. CASE i \in 1 .. Len(w)  BY <3>1, <2>3, <1>t, <1>r DEF Answered
    <3>2. CASE i = Len(w) + 1 /\ v[i] = a  BY <3>2, <1>p
    <3>3. QED BY <3>1, <3>2, <1>t
  <2>4. ASSUME NEW i \in 1 .. Len(v), NEW j \in 1 .. Len(v), Response(c, v, i), Response(c, v, j),
               v[j].id = v[i].id
        PROVE  i = j
    <3>1. CASE i \in 1 .. Len(w) /\ j \in 1 .. Len(w)
      BY <3>1, <2>4, <1>t, <1>r DEF Answered
    <3>2. CASE i \in 1 .. Len(w) /\ j = Len(w) + 1 /\ v[j] = a  BY <3>2, <2>4, <1>t, <1>r
    <3>3. CASE j \in 1 .. Len(w) /\ i = Len(w) + 1 /\ v[i] = a  BY <3>3, <2>4, <1>t, <1>r
    <3>4. QED BY <3>1, <3>2, <3>3, <1>t
  <2>5. QED BY <2>3, <2>4 DEF Answered
<1>4. Asking(c) /\ Closed(c)  OBVIOUS
<1>5. Granted(c, ag, v)
  <2>1. ASSUME NEW u \in A!Ops, u \in ag.held \/ Fails(c, v, u)
        PROVE  /\ c.op[u] \notin {"idle", "offer"}
               /\ \A i \in 1 .. Len(c.out) : ~(c.out[i].kind = "open" /\ c.out[i].op = u)
               /\ \A x \in ag.work : ~(x.kind = "open" /\ x.op = u)
               /\ \A q \in c.pending, i \in 1 .. Len(v) :
                     Opens(q, u) => ~Answer(c, v, i, q.id, FALSE)
    <3>1. u \in ag.held \/ Fails(c, w, u)  BY <2>1, <1>g
    <3>2. \A q \in c.pending, i \in 1 .. Len(v) : Opens(q, u) => ~Answer(c, v, i, q.id, FALSE)
      <4>1. \A q \in c.pending, i \in 1 .. Len(w) : Opens(q, u) => ~Answer(c, w, i, q.id, FALSE)
        BY <3>1 DEF Granted
      <4>2. QED BY <4>1, <1>o DEF Opens
    <3>3. QED BY <3>1, <3>2 DEF Granted
  <2>2. \A u \in A!Ops : Fails(c, v, u) => u \notin ag.held  BY <1>g DEF Granted
  <2>3. "view" \in ag.held => "sub" \in ag.held  BY DEF Granted
  <2>4. QED BY <2>1, <2>2, <2>3 DEF Granted
<1>6. Kept(c, ag, v)
  <2>1. ASSUME NEW q \in c.pending, NEW i \in 1 .. Len(v), q.kind = "open", ~q.cancelled,
               Answer(c, v, i, q.id, TRUE), q.op \notin ag.held
        PROVE  \E u \in Parents(q.op), j \in i + 1 .. Len(v) : Failure(c, v, j, u)
    <3>1. i \in 1 .. Len(w) /\ Answer(c, w, i, q.id, TRUE)  BY <2>1, <1>o
    <3>2. PICK u \in Parents(q.op), j \in i + 1 .. Len(w) : Failure(c, w, j, u)
      BY <2>1, <3>1 DEF Kept
    <3>3. j \in 1 .. Len(w) /\ j \in i + 1 .. Len(v)  BY <3>1, <1>t
    <3>4. QED BY <3>2, <3>3, <1>f
  <2>2. QED BY <2>1, <1>g DEF Kept
<1>7. Released(c, ag, v, {})
  <2>1. \A u : Granting(c, w, u) => Granting(c, v, u)  BY <1>t, <1>a DEF Granting
  <2>2. QED BY <2>1 DEF Released
<1>8. QED BY <1>1, <1>2, <1>3, <1>4, <1>5, <1>6, <1>7 DEF v

LEMMA EventSent ==
    ASSUME NEW c \in Transports, NEW ag \in Agents, NEW w \in Seq(Arrivals), Session(c, ag, w, {}),
           NEW a \in Arrivals, a.session = c.socket, a.kind \in {"ready", "error"},
           a.kind = "error" => a.op \in ag.held,
           NEW bg \in Agents, bg.work = ag.work,
           bg.held = (IF a.kind = "error" THEN A!Without(ag.held, a.op) ELSE ag.held)
    PROVE  Session(c, bg, Append(w, a), {})
<1> USE DEF Session
<1> DEFINE v == Append(w, a)
<1>t. /\ v \in Seq(Arrivals) /\ Len(v) = Len(w) + 1 /\ Len(w) \in Nat /\ v[Len(w) + 1] = a
      /\ \A i \in 1 .. Len(w) : v[i] = w[i] /\ i \in 1 .. Len(v)
      /\ \A i \in 1 .. Len(v) : i \in 1 .. Len(w) \/ (i = Len(w) + 1 /\ v[i] = a)
      /\ Len(w) + 1 \in 1 .. Len(v)
  <2>1. /\ v \in Seq(Arrivals) /\ Len(v) = Len(w) + 1 /\ Len(w) \in Nat
        /\ v[Len(w) + 1] = a /\ \A i \in 1 .. Len(w) : v[i] = w[i]
    BY Appended
  <2> HIDE DEF v
  <2>2. QED BY <2>1
<1> HIDE DEF v
<1>r. /\ \A i \in 1 .. Len(w) : Response(c, v, i) <=> Response(c, w, i)
      /\ ~Response(c, v, Len(w) + 1)
  BY <1>t DEF Response
<1>e. \A i \in 1 .. Len(v) : Response(c, v, i) =>
          i \in 1 .. Len(w) /\ Response(c, w, i) /\ v[i] = w[i]
  BY <1>t, <1>r
<1>f. /\ \A i \in 1 .. Len(w) : \A u : Failure(c, v, i, u) <=> Failure(c, w, i, u)
      /\ \A u : Failure(c, v, Len(w) + 1, u) <=> (a.kind = "error" /\ u = a.op)
  BY <1>t DEF Failure
<1>g. \A u : Fails(c, v, u) <=> Fails(c, w, u) \/ (a.kind = "error" /\ u = a.op)
  <2> TAKE u
  <2>1. Fails(c, w, u) => Fails(c, v, u)  BY <1>t, <1>f DEF Fails
  <2>2. a.kind = "error" /\ u = a.op => Fails(c, v, u)  BY <1>t, <1>f DEF Fails
  <2>3. Fails(c, v, u) => Fails(c, w, u) \/ (a.kind = "error" /\ u = a.op)
    BY <1>t, <1>f DEF Fails
  <2>4. QED BY <2>1, <2>2, <2>3
<1>a. /\ \A i \in 1 .. Len(w) : \A x, k : Answer(c, v, i, x, k) <=> Answer(c, w, i, x, k)
      /\ \A i \in 1 .. Len(v) : \A x, k : Answer(c, v, i, x, k) =>
             i \in 1 .. Len(w) /\ Answer(c, w, i, x, k)
  BY <1>t, <1>r DEF Answer
<1>h. /\ bg.held \subseteq ag.held /\ ag.held \in SUBSET A!Ops
      /\ a.kind # "error" => bg.held = ag.held
      /\ a.kind = "error" => \A u \in A!Ops :
             u \in bg.held <=> u \in ag.held /\ a.op \notin Parents(u)
  <2>1. ag.held \in SUBSET A!Ops /\ a.op \in A!Ops  BY DEF Agents, Arrivals
  <2>2. QED BY <2>1, WithoutFacts
<1>1. Tracked(c, bg, v)  BY DEF Tracked
<1>2. OnePlace(c, bg, v)  BY DEF OnePlace
<1>3. Answered(c, bg, v)  BY <1>e DEF Answered
<1>4. Asking(c) /\ Closed(c)  OBVIOUS
<1>5. Granted(c, bg, v)
  <2>1. ASSUME NEW u \in A!Ops, u \in bg.held \/ Fails(c, v, u)
        PROVE  /\ c.op[u] \notin {"idle", "offer"}
               /\ \A i \in 1 .. Len(c.out) : ~(c.out[i].kind = "open" /\ c.out[i].op = u)
               /\ \A x \in bg.work : ~(x.kind = "open" /\ x.op = u)
               /\ \A q \in c.pending, i \in 1 .. Len(v) :
                     Opens(q, u) => ~Answer(c, v, i, q.id, FALSE)
    <3>1. u \in ag.held \/ Fails(c, w, u)  BY <2>1, <1>g, <1>h
    <3>2. \A q \in c.pending, i \in 1 .. Len(w) : Opens(q, u) => ~Answer(c, w, i, q.id, FALSE)
      BY <3>1 DEF Granted
    <3>3. \A q \in c.pending, i \in 1 .. Len(v) : Opens(q, u) => ~Answer(c, v, i, q.id, FALSE)
      BY <3>2, <1>a
    <3>4. QED BY <3>1, <3>3 DEF Granted
  <2>2. \A u \in A!Ops : Fails(c, v, u) => u \notin bg.held  BY <1>g, <1>h DEF Granted, Parents
  <2>3. "view" \in bg.held => "sub" \in bg.held  BY <1>h, BoundFacts DEF Granted, Parents
  <2>4. QED BY <2>1, <2>2, <2>3 DEF Granted
<1>6. Kept(c, bg, v)
  <2>1. \A u \in A!Ops : u \in ag.held => u \in bg.held \/ (a.kind = "error" /\ a.op \in Parents(u))
    BY <1>h
  <2>2. ASSUME NEW u \in A!Bound(c), u \notin bg.held
        PROVE  \E x \in Parents(u) : Fails(c, v, x)
    BY <2>1, <2>2, <1>g, BoundFacts DEF Kept
  <2>3. ASSUME NEW q \in c.pending, NEW i \in 1 .. Len(v), q.kind = "open", ~q.cancelled,
               Answer(c, v, i, q.id, TRUE), q.op \notin bg.held
        PROVE  \E u \in Parents(q.op), j \in i + 1 .. Len(v) : Failure(c, v, j, u)
    <3>1. i \in 1 .. Len(w) /\ Answer(c, w, i, q.id, TRUE) /\ q.op \in A!Ops
      BY <2>3, <1>a DEF Asking
    <3>2. CASE q.op \in ag.held
      <4>1. a.op \in Parents(q.op) /\ Failure(c, v, Len(w) + 1, a.op)
        BY <2>1, <2>3, <3>1, <3>2, <1>f
      <4>2. Len(w) + 1 \in i + 1 .. Len(v)  BY <3>1, <1>t
      <4>3. QED BY <4>1, <4>2
    <3>3. CASE q.op \notin ag.held
      <4>1. PICK u \in Parents(q.op), j \in i + 1 .. Len(w) : Failure(c, w, j, u)
        BY <2>3, <3>1, <3>3 DEF Kept
      <4>2. j \in 1 .. Len(w) /\ j \in i + 1 .. Len(v)  BY <3>1, <1>t
      <4>3. QED BY <4>1, <4>2, <1>f
    <3>4. QED BY <3>2, <3>3
  <2>4. QED BY <2>2, <2>3 DEF Kept
<1>7. Released(c, bg, v, {})
  <2>1. \A u : Granting(c, w, u) => Granting(c, v, u)  BY <1>t, <1>a DEF Granting
  <2>2. QED BY <2>1, <1>h DEF Released
<1>8. QED BY <1>1, <1>2, <1>3, <1>4, <1>5, <1>6, <1>7 DEF v

-----------------------------------------------------------------------------
\* The steps, and the invariant.

LEMMA NothingHeld ==
    A!NoSession \in Agents /\ A!NoSession.work = {} /\ A!NoSession.held = {} /\ ~A!NoSession.readied
BY DEF A!NoSession, Agents

\* What holds of a session that is connected.
LEMMA InSession ==
    ASSUME AgentInv, transport.link = "connected"
    PROVE  /\ On(transport) /\ transport.gen \notin fetching /\ ViewWithin(transport)
           /\ Session(transport, agent, wire, {}) /\ Fine(transport, agent, wire, {})
           /\ transport \in Transports /\ agent \in Agents /\ wire \in Seq(Arrivals)
           /\ transport.op \in [A!Ops -> OpStates] /\ Limited(transport)
BY DEF AgentInv, AgentTyped, Off, Begun, Fine, Transports

\* What remains of the messages is of the same sessions.
Remaining(v) == v \in Seq(Arrivals) /\ \A i \in 1 .. Len(v) : v[i].session <= transport.gen

LEMMA WireRemains ==
    ASSUME AgentInv
    PROVE  Remaining(wire) /\ (wire # <<>> => Remaining(Tail(wire)))
<1>1. Remaining(wire)  BY DEF AgentInv, AgentTyped, Remaining
<1>2. ASSUME wire # <<>> PROVE Remaining(Tail(wire))
  <2>1. /\ Tail(wire) \in Seq(Arrivals) /\ Len(Tail(wire)) = Len(wire) - 1
        /\ \A i \in 1 .. Len(wire) - 1 : Tail(wire)[i] = wire[i + 1]
    BY <1>1, <1>2, HeadAndTail DEF Remaining
  <2>2. Len(wire) \in Nat  BY <1>1 DEF Remaining
  <2>3. QED BY <1>1, <2>1, <2>2 DEF Remaining
<1>3. QED BY <1>1, <1>2

\* The transport after a handler: over, or still in its session.
LEMMA Becoming ==
    ASSUME AgentInv, NEW d \in Transports, Limited(d), d.gen = transport.gen,
           A!Becomes(d), Remaining(wire'), fetching' \subseteq fetching,
           \/ Off(d)
           \/ /\ On(d) /\ transport.gen \notin fetching /\ ViewWithin(d)
              /\ Session(d, agent, wire', {})
    PROVE  AgentInv'
<1>1. transport' = d /\ agent' = (IF d.link = "connected" THEN agent ELSE A!NoSession)
  BY DEF A!Becomes
<1>2. agent' \in Agents  BY <1>1, NothingHeld DEF AgentInv, AgentTyped
<1>3. AgentTyped'
  BY <1>1, <1>2 DEF AgentInv, AgentTyped, Remaining
<1>4. CASE Off(d)
  <2>1. Off(transport)' /\ agent' = A!NoSession /\ (transport.link # "socket")'
    BY <1>1, <1>4 DEF Off
  <2>2. QED BY <1>3, <2>1 DEF AgentInv
<1>5. CASE On(d) /\ transport.gen \notin fetching /\ ViewWithin(d) /\ Session(d, agent, wire', {})
  <2>1. agent' = agent /\ d.link = "connected"  BY <1>1, <1>5 DEF On
  <2>2. On(transport') /\ ViewWithin(transport') /\ Session(transport', agent', wire', {})
    BY <1>1, <1>5, <2>1
  <2>3. transport'.gen \notin fetching' /\ transport'.link # "socket"  BY <1>1, <1>5, <2>1
  <2>4. QED BY <1>3, <2>2, <2>3 DEF AgentInv
<1>6. QED BY <1>4, <1>5

\* A handler of the session.
LEMMA Handled ==
    ASSUME AgentInv, transport.link = "connected", NEW d, A!Becomes(d), Fine(d, agent, wire', {}),
           ViewWithin(d), d.gen = transport.gen, Remaining(wire'), fetching' = fetching
    PROVE  AgentInv'
BY InSession, Becoming DEF Fine

\* The end of an attempt or a session.
LEMMA Overs ==
    ASSUME AgentInv, A!Limits, A!Becomes(A!Disconnect(transport)), wire' = wire,
           fetching' \subseteq fetching
    PROVE  AgentInv'
<1>1. transport \in Transports /\ transport.socks = {transport.socket} \ {0}
  BY DEF AgentInv, AgentTyped, Off, Begun, On, Transports
<1> DEFINE d == A!Disconnect(transport)
<1>2. d \in Transports /\ Limited(d) /\ Off(d) /\ d.gen = transport.gen
  BY <1>1, Disconnected
<1> HIDE DEF d
<1>3. Remaining(wire')  BY WireRemains
<1>4. A!Becomes(d)  BY DEF d
<1>5. QED BY <1>2, <1>3, <1>4, Becoming

LEMMA LinkOpens == AgentInv /\ A!Limits /\ A!Connect => AgentInv'
<1> SUFFICES ASSUME AgentInv, A!Limits, A!Connect PROVE AgentInv'  OBVIOUS
<1> DEFINE g == transport.gen + 1
<1>1. /\ transport \in Transports /\ transport.gen \in Nat /\ g \in Nat /\ g # 0 /\ g <= MaxSessions
      /\ Limited(transport) /\ transport.link = "off"
  BY DEF AgentInv, AgentTyped, Transports, A!Connect, A!Limits
<1>2. Off(transport) /\ agent = A!NoSession
  BY <1>1 DEF AgentInv, Begun, On
<1>3. /\ transport' = [transport EXCEPT !.link = "credential", !.attempt = g, !.gen = g,
                                        !.counter = 0, !.op = A!Idle]
      /\ fetching' = fetching \union {g} /\ agent' = agent /\ wire' = wire
  BY DEF A!Connect
<1>4. A!Idle \in [A!Ops -> OpStates] /\ \A o \in A!Ops : A!Idle[o] = "idle"
  BY DEF A!Idle, A!Ops, OpStates
<1>5. 0 \in 0 .. MaxControls  BY DEF A!Limits
<1>6. transport' \in Transports
  BY <1>1, <1>3, <1>4, <1>5 DEF Transports
<1>7. /\ transport'.link = "credential" /\ transport'.attempt = g /\ transport'.gen = g
      /\ transport'.op = A!Idle /\ transport'.pending = transport.pending
      /\ transport'.socket = transport.socket /\ transport'.socks = transport.socks
      /\ transport'.out = transport.out
  BY <1>1, <1>3 DEF Transports
<1>8. Limited(transport')  BY <1>1, <1>4, <1>7, BoundFacts DEF Limited
<1>9. AgentTyped'
  <2>1. /\ fetching \subseteq 1 .. transport.gen /\ agent \in Agents /\ wire \in Seq(Arrivals)
        /\ \A i \in 1 .. Len(wire) : wire[i].session <= transport.gen
    BY DEF AgentInv, AgentTyped
  <2>2. fetching' \subseteq 1 .. g  BY <2>1, <1>1, <1>3
  <2>3. \A i \in 1 .. Len(wire) : wire[i].session <= g
    <3>1. \A i \in 1 .. Len(wire) : wire[i] \in Arrivals  BY <2>1
    <3>2. \A i \in 1 .. Len(wire) : wire[i].session \in Nat  BY <3>1 DEF Arrivals
    <3>3. QED BY <3>2, <2>1, <1>1
  <2>4. QED BY <2>1, <2>2, <2>3, <1>1, <1>3, <1>6, <1>7, <1>8 DEF AgentTyped
<1>10. \A i \in 1 .. Len(wire) : wire[i].session # g
  BY <1>1 DEF AgentInv, AgentTyped, Arrivals
<1>11. Begun(transport', wire')
  BY <1>1, <1>2, <1>3, <1>4, <1>7, <1>10 DEF Begun, Off
<1>12. QED BY <1>2, <1>3, <1>7, <1>9, <1>11 DEF AgentInv

\* Of the attempt under way, a credential that is being fetched is the latest.
LEMMA FetchingFacts ==
    ASSUME AgentInv, NEW g \in fetching
    PROVE  /\ g \in Nat \ {0} /\ transport \in Transports /\ transport.gen \in Nat
           /\ transport.attempt = g => /\ g = transport.gen /\ transport.link = "credential"
                                       /\ Begun(transport, wire)
BY DEF AgentInv, AgentTyped, Transports, Off, Begun, On

\* Nothing but the credentials changes.
LEMMA NotForUs ==
    ASSUME AgentInv, A!Becomes(transport), wire' = wire, fetching' \subseteq fetching
    PROVE  AgentInv'
<1>1. transport' = transport /\ agent' = agent
  BY DEF A!Becomes, AgentInv, Off, Begun, On
<1>2. QED BY <1>1 DEF AgentInv, AgentTyped

LEMMA CredentialKeeps == \A g \in fetching : AgentInv /\ A!Limits /\ A!Credential(g) => AgentInv'
<1> SUFFICES ASSUME NEW g \in fetching, AgentInv, A!Limits, A!Credential(g) PROVE AgentInv'
  OBVIOUS
<1>1. fetching' = fetching \ {g} /\ wire' = wire  BY DEF A!Credential
<1>2. CASE transport.attempt # g
  <2>1. A!Becomes(transport)  BY <1>2 DEF A!Credential, A!OfThisAttempt
  <2>2. QED BY <1>1, <2>1, NotForUs
<1>3. CASE transport.attempt = g
  <2> DEFINE d == [transport EXCEPT !.link = "socket", !.socket = g, !.socks = @ \union {g}]
  <2>1. /\ g \in Nat \ {0} /\ g = transport.gen /\ transport.link = "credential"
        /\ Begun(transport, wire) /\ transport \in Transports /\ Limited(transport)
    BY <1>3, FetchingFacts DEF AgentInv, AgentTyped
  <2>2. transport' = d /\ agent' = A!NoSession
    BY <1>3 DEF A!Credential, A!OfThisAttempt, A!Becomes
  <2>3. d \in Transports  BY <2>1 DEF Transports
  <2>4. /\ d.link = "socket" /\ d.socket = g /\ d.socks = transport.socks \union {g}
        /\ d.attempt = transport.attempt /\ d.gen = transport.gen /\ d.op = transport.op
        /\ d.pending = transport.pending /\ d.out = transport.out
    BY <2>1 DEF Transports
  <2> HIDE DEF d
  <2>5. Limited(d)  BY <2>1, <2>4 DEF Limited
  <2>6. Begun(d, wire)  BY <2>1, <2>4 DEF Begun
  <2>7. AgentTyped'
    BY <1>1, <2>2, <2>3, <2>4, <2>5, NothingHeld DEF AgentInv, AgentTyped
  <2>8. transport'.gen \notin fetching'  BY <1>1, <2>1, <2>2, <2>4
  <2>9. Begun(transport', wire')  BY <1>1, <2>2, <2>6
  <2>10. QED BY <2>2, <2>7, <2>8, <2>9 DEF AgentInv
<1>4. QED BY <1>2, <1>3

LEMMA CredentialFailsKeeps ==
    \A g \in fetching : AgentInv /\ A!Limits /\ A!CredentialFails(g) => AgentInv'
<1> SUFFICES ASSUME NEW g \in fetching, AgentInv, A!Limits, A!CredentialFails(g) PROVE AgentInv'
  OBVIOUS
<1>1. fetching' = fetching \ {g} /\ wire' = wire  BY DEF A!CredentialFails
<1>2. CASE transport.attempt # g
  <2>1. A!Becomes(transport)  BY <1>2 DEF A!CredentialFails
  <2>2. QED BY <1>1, <2>1, NotForUs
<1>3. CASE transport.attempt = g
  <2>1. A!Becomes(A!Disconnect(transport))  BY <1>3 DEF A!CredentialFails
  <2>2. QED BY <1>1, <2>1, Overs
<1>4. QED BY <1>2, <1>3

LEMMA ReadyKeeps == AgentInv /\ A!Limits /\ A!Ready => AgentInv'
<1> SUFFICES ASSUME AgentInv, A!Limits, A!Ready PROVE AgentInv'  OBVIOUS
<1> DEFINE d == [transport EXCEPT !.link = "connected"]
<1>1. /\ transport.link = "socket" /\ A!Becomes(d) /\ fetching' = fetching /\ wire' = wire
  BY DEF A!Ready
<1>2. /\ Begun(transport, wire) /\ agent = A!NoSession /\ transport.gen \notin fetching
      /\ transport \in Transports /\ Limited(transport) /\ wire \in Seq(Arrivals)
  BY <1>1 DEF AgentInv, AgentTyped, Off, On
<1>3. d \in Transports  BY <1>2 DEF Transports
<1>4. /\ d.link = "connected" /\ d.socket = transport.socket /\ d.socks = transport.socks
      /\ d.attempt = transport.attempt /\ d.gen = transport.gen /\ d.op = transport.op
      /\ d.pending = transport.pending /\ d.out = transport.out
  BY <1>2 DEF Transports
<1> HIDE DEF d
<1>5. /\ d.pending = {} /\ Len(d.out) = 0 /\ 1 .. Len(d.out) = {}
      /\ \A o \in A!Ops : d.op[o] \in {"idle", "ended"}
      /\ d.socket = d.gen /\ \A i \in 1 .. Len(wire) : wire[i].session # d.gen
  BY <1>1, <1>2, <1>4 DEF Begun
<1>6. /\ \A i \in 1 .. Len(wire) : ~Response(d, wire, i)
      /\ \A o : ~Fails(d, wire, o)
  BY <1>5 DEF Response, Fails, Failure
<1>7. A!Bound(d) = {}  BY <1>5, BoundFacts
<1>8. /\ Tracked(d, agent, wire) /\ OnePlace(d, agent, wire) /\ Answered(d, agent, wire)
      /\ Asking(d) /\ Closed(d)
  BY <1>2, <1>5, <1>6, <1>7, NothingHeld DEF Tracked, OnePlace, Answered, Asking, Closed
<1>9. Granted(d, agent, wire) /\ Kept(d, agent, wire) /\ Released(d, agent, wire, {})
  BY <1>2, <1>5, <1>6, <1>7, NothingHeld DEF Granted, Kept, Released
<1>10. On(d) /\ ViewWithin(d)
  BY <1>1, <1>2, <1>4, <1>5, BoundFacts DEF On, Begun, ViewWithin
<1>11. Limited(d)  BY <1>2, <1>4 DEF Limited
<1>12. Session(d, agent, wire', {})  BY <1>1, <1>8, <1>9 DEF Session
<1>13. Remaining(wire')  BY <1>1, WireRemains
<1>14. QED BY <1>1, <1>2, <1>3, <1>4, <1>10, <1>11, <1>12, <1>13, Becoming

LEMMA LinkEnds == AgentInv /\ A!Limits /\ (A!Ends \/ A!CancelTimer) => AgentInv'
BY Overs DEF A!Ends, A!CancelTimer, A!Call

\* The operations that a handler leaves, and the view with its subscription.
LEMMA LeavesKeeps ==
    ASSUME AgentInv, transport.link = "connected", NEW d, NEW op,
           LeavesFine(transport, d, agent, wire, {}, op), A!Becomes(d),
           op["view"] \in {"offer", "asked", "open"} => op["sub"] = "ready",
           wire' = wire, fetching' = fetching
    PROVE  AgentInv'
<1>1. Fine(d, agent, wire', {}) /\ d.gen = transport.gen /\ ViewWithin(d)
  BY OffHasNoView DEF LeavesFine, ViewWithin
<1>2. QED BY <1>1, WireRemains, Handled

LEMMA SubscribeKeeps ==
    \A full \in BOOLEAN : AgentInv /\ A!Limits /\ A!Subscribe(full) => AgentInv'
<1> SUFFICES ASSUME NEW full \in BOOLEAN, AgentInv, A!Limits, A!Subscribe(full) PROVE AgentInv'
  OBVIOUS
<1> DEFINE b == [transport EXCEPT !.op["sub"] = "asked"]
           d == A!Request(b, "open", "sub", full)
<1>1. /\ transport.link = "connected" /\ transport.op["sub"] = "idle" /\ A!Becomes(d)
      /\ wire' = wire /\ fetching' = fetching
  BY DEF A!Subscribe, A!Call
<1>2. /\ On(transport) /\ Fine(transport, agent, wire, {}) /\ agent \in Agents
      /\ wire \in Seq(Arrivals) /\ transport.op \in [A!Ops -> OpStates] /\ ViewWithin(transport)
  BY <1>1, InSession
<1>3. "sub" \in A!Ops /\ "view" \in A!Ops  BY BoundFacts
<1>4. \/ LeavesFine(transport, d, agent, wire, {}, [transport.op EXCEPT !["sub"] = "asked"])
      \/ LeavesFine(transport, d, agent, wire, {}, [transport.op EXCEPT !["sub"] = "ended"])
  BY <1>1, <1>2, <1>3, RequestOpens
<1>5. \A s : [transport.op EXCEPT !["sub"] = s]["view"] \notin {"offer", "asked", "open"}
  BY <1>1, <1>2, <1>3 DEF ViewWithin
<1> HIDE DEF d
<1>6. QED BY <1>1, <1>4, <1>5, LeavesKeeps

LEMMA OfferKeeps ==
    \A full \in BOOLEAN : AgentInv /\ A!Limits /\ A!Offer(full) => AgentInv'
<1> SUFFICES ASSUME NEW full \in BOOLEAN, AgentInv, A!Limits, A!Offer(full) PROVE AgentInv'
  OBVIOUS
<1> DEFINE b == [transport EXCEPT !.op["view"] = "asked"]
           d == A!Request(b, "open", "view", full)
<1>1. /\ transport.op["view"] = "offer" /\ A!Becomes(d) /\ wire' = wire /\ fetching' = fetching
  BY DEF A!Offer, A!Call
<1>2. transport.link = "connected"
  BY <1>1, BoundFacts DEF AgentInv, Off, Begun, On
<1>3. /\ On(transport) /\ Fine(transport, agent, wire, {}) /\ agent \in Agents
      /\ wire \in Seq(Arrivals) /\ transport.op \in [A!Ops -> OpStates] /\ ViewWithin(transport)
  BY <1>2, InSession
<1>4. "sub" \in A!Ops /\ "view" \in A!Ops  BY BoundFacts
<1>5. \/ LeavesFine(transport, d, agent, wire, {}, [transport.op EXCEPT !["view"] = "asked"])
      \/ LeavesFine(transport, d, agent, wire, {}, [transport.op EXCEPT !["view"] = "ended"])
  BY <1>1, <1>3, <1>4, RequestOpens
<1>6. \A s : LET op == [transport.op EXCEPT !["view"] = s] IN op["sub"] = "ready"
  BY <1>1, <1>3, <1>4 DEF ViewWithin
<1> HIDE DEF d
<1>7. QED BY <1>1, <1>2, <1>5, <1>6, LeavesKeeps

LEMMA PlainCallKeeps ==
    \A full \in BOOLEAN : AgentInv /\ A!Limits /\ A!PlainCall(full) => AgentInv'
<1> SUFFICES ASSUME NEW full \in BOOLEAN, AgentInv, A!Limits, A!PlainCall(full) PROVE AgentInv'
  OBVIOUS
<1> DEFINE d == A!Request(transport, "call", "none", full)
<1>1. transport.link = "connected" /\ A!Becomes(d) /\ wire' = wire /\ fetching' = fetching
  BY DEF A!PlainCall
<1>2. /\ On(transport) /\ Fine(transport, agent, wire, {}) /\ agent \in Agents
      /\ wire \in Seq(Arrivals) /\ ViewWithin(transport)
  BY <1>1, InSession
<1>3. LeavesFine(transport, d, agent, wire, {}, transport.op)  BY <1>2, RequestCalls
<1> HIDE DEF d
<1>4. QED BY <1>1, <1>2, <1>3, LeavesKeeps DEF ViewWithin

LEMMA RequestTimerKeeps ==
    \A full \in BOOLEAN : AgentInv /\ A!Limits /\ A!RequestTimer(full) => AgentInv'
<1> SUFFICES ASSUME NEW full \in BOOLEAN, AgentInv, A!Limits, A!RequestTimer(full) PROVE AgentInv'
  OBVIOUS
<1>1. PICK p \in transport.pending : ~p.cancelled /\ A!Call(A!Cancel(transport, p, full), full)
  BY DEF A!RequestTimer
<1> DEFINE d == A!Cancel(transport, p, full)
           op == IF p.kind = "open" THEN [transport.op EXCEPT ![p.op] = "ended"] ELSE transport.op
<1>2. A!Becomes(d) /\ wire' = wire /\ fetching' = fetching  BY <1>1 DEF A!Call
<1>3. transport.link = "connected"  BY <1>1 DEF AgentInv, Off, Begun, On
<1>4. /\ Fine(transport, agent, wire, {}) /\ agent \in Agents /\ Asking(transport)
      /\ wire \in Seq(Arrivals) /\ transport.op \in [A!Ops -> OpStates] /\ ViewWithin(transport)
  BY <1>3, InSession DEF Session
<1>5. LeavesFine(transport, d, agent, wire, {}, op)  BY <1>1, <1>4, CancelFacts
<1>6. op["view"] \in {"offer", "asked", "open"} => op["sub"] = "ready"
  <2>1. CASE p.kind = "open"
    <3>1. p.op \in A!Ops /\ transport.op[p.op] = "asked"  BY <1>1, <1>4, <2>1 DEF Asking
    <3>2. "sub" \in A!Ops /\ "view" \in A!Ops  BY BoundFacts
    <3>3. QED BY <1>4, <2>1, <3>1, <3>2 DEF ViewWithin
  <2>2. CASE p.kind # "open"  BY <1>4, <2>2 DEF ViewWithin
  <2>3. QED BY <2>1, <2>2
<1> HIDE DEF d, op
<1>7. QED BY <1>2, <1>3, <1>5, <1>6, LeavesKeeps

\* A view is negotiated: its peer connection, before its request.
LEMMA ViewOffers ==
    ASSUME NEW c, NEW d, NEW ag \in Agents, NEW w \in Seq(Arrivals),
           Session(c, ag, w, {}), Alike(c, d), c.op["view"] = "idle", c.op["sub"] = "ready",
           d.op = [c.op EXCEPT !["view"] = "offer"], d.out = c.out, d.pending = c.pending,
           d.from = c.from, d.refused = c.refused
    PROVE  Session(d, ag, w, {})
<1> USE DEF Session
<1>t. c.op \in [A!Ops -> OpStates] /\ d.socket = c.socket /\ d.gen = c.gen
  BY DEF Transports, Alike
<1>o. /\ \A u \in A!Ops : \A s \in {"asked", "preparing", "ready", "open", "ended"} :
             d.op[u] = s <=> c.op[u] = s
      /\ d.op["sub"] = c.op["sub"] /\ d.op["view"] = "offer"
      /\ \A u \in A!Ops : u = "view" \/ d.op[u] = c.op[u]
  BY <1>t, BoundFacts
<1>1. Tracked(d, ag, w) /\ OnePlace(d, ag, w) /\ Answered(d, ag, w)  BY PlacesStay
<1>2. A!Bound(d) = A!Bound(c)
  <2>1. "sub" \in A!Bound(d) <=> "sub" \in A!Bound(c)  BY <1>o, BoundFacts
  <2>2. "view" \in A!Bound(d) <=> "view" \in A!Bound(c)  BY <1>o, BoundFacts
  <2>3. \A u \in A!Ops : u \in A!Bound(d) <=> u \in A!Bound(c)  BY <2>1, <2>2, BoundFacts
  <2>4. QED BY <2>3, BoundFacts
<1>3. Asking(d)
  <2>1. \A p \in c.pending : p.kind = "open" =>
          p.op \in A!Ops /\ d.op[p.op] = (IF p.cancelled THEN "ended" ELSE "asked")
    BY <1>o DEF Asking
  <2>2. \A u \in A!Ops : d.op[u] = "asked" => c.op[u] = "asked"  BY <1>o
  <2>3. QED BY <1>2, <2>1, <2>2, <1>t DEF Asking
<1>4. Closed(d)
  <2>1. \A i \in 1 .. Len(c.out) : ~Closes(c.out[i], "sub")  BY <1>o DEF Closed, Closes
  <2>2. QED BY <2>1, <1>o DEF Closed
<1>a. \A u : Fails(d, w, u) <=> Fails(c, w, u)  BY <1>t DEF Fails, Failure
<1>b. \A i, n, ok : Answer(d, w, i, n, ok) <=> Answer(c, w, i, n, ok)
  BY <1>t DEF Answer, Response
<1>c. \A i, u : Failure(d, w, i, u) <=> Failure(c, w, i, u)  BY <1>t DEF Failure
<1>5. Granted(d, ag, w)
  <2>1. \A u \in A!Ops : c.op[u] \notin {"idle", "offer"} => d.op[u] \notin {"idle", "offer"}
    BY <1>o
  <2>2. ASSUME NEW u \in A!Ops, u \in ag.held \/ Fails(d, w, u)
        PROVE  /\ d.op[u] \notin {"idle", "offer"}
               /\ \A i \in 1 .. Len(d.out) : ~(d.out[i].kind = "open" /\ d.out[i].op = u)
               /\ \A m \in ag.work : ~(m.kind = "open" /\ m.op = u)
               /\ \A p \in d.pending, i \in 1 .. Len(w) :
                     Opens(p, u) => ~Answer(d, w, i, p.id, FALSE)
    <3>1. u \in ag.held \/ Fails(c, w, u)  BY <2>2, <1>a
    <3>2. d.op[u] \notin {"idle", "offer"}  BY <3>1, <2>1 DEF Granted
    <3>3. /\ \A i \in 1 .. Len(c.out) : ~(c.out[i].kind = "open" /\ c.out[i].op = u)
          /\ \A m \in ag.work : ~(m.kind = "open" /\ m.op = u)
      BY <3>1 DEF Granted
    <3>4. \A p \in c.pending, i \in 1 .. Len(w) : Opens(p, u) => ~Answer(c, w, i, p.id, FALSE)
      BY <3>1 DEF Granted
    <3>5. \A p \in d.pending, i \in 1 .. Len(w) : Opens(p, u) => ~Answer(d, w, i, p.id, FALSE)
      BY <3>4, <1>b
    <3>6. QED BY <3>2, <3>3, <3>5
  <2>3. \A u \in A!Ops : Fails(d, w, u) => u \notin ag.held  BY <1>a DEF Granted
  <2>4. "view" \in ag.held => "sub" \in ag.held  BY DEF Granted
  <2>5. QED BY <2>2, <2>3, <2>4 DEF Granted
<1>6. Kept(d, ag, w)  BY <1>2, <1>a, <1>b, <1>c DEF Kept
<1>7. Released(d, ag, w, {})
  <2>1. \A u : Granting(c, w, u) => Granting(d, w, u)  BY <1>b DEF Granting
  <2>2. \A u : Leaves(c, u) => Leaves(d, u)  BY DEF Leaves
  <2>3. QED BY <1>2, <2>1, <2>2 DEF Released
<1>8. QED BY <1>1, <1>3, <1>4, <1>5, <1>6, <1>7

LEMMA OffersView == AgentInv /\ A!Limits /\ A!Watch => AgentInv'
<1> SUFFICES ASSUME AgentInv, A!Limits, A!Watch PROVE AgentInv'  OBVIOUS
<1> DEFINE d == [transport EXCEPT !.op["view"] = "offer"]
<1>1. /\ transport.link = "connected" /\ transport.op["sub"] = "ready"
      /\ transport.op["view"] = "idle"
      /\ A!Becomes(d) /\ wire' = wire /\ fetching' = fetching
  BY DEF A!Watch, A!Call
<1>2. /\ On(transport) /\ Session(transport, agent, wire, {}) /\ agent \in Agents
      /\ wire \in Seq(Arrivals) /\ transport.op \in [A!Ops -> OpStates]
      /\ transport \in Transports /\ Limited(transport)
  BY <1>1, InSession
<1>3. "sub" \in A!Ops /\ "view" \in A!Ops  BY BoundFacts
<1>4. [transport.op EXCEPT !["view"] = "offer"] \in [A!Ops -> OpStates]  BY <1>2 DEF OpStates
<1>5. d = [transport EXCEPT !.op = [transport.op EXCEPT !["view"] = "offer"]]  OBVIOUS
<1> HIDE DEF d
<1>6. d \in Transports  BY <1>2, <1>4, <1>5 DEF Transports
<1>7. /\ d.op = [transport.op EXCEPT !["view"] = "offer"]
      /\ d.out = transport.out /\ d.pending = transport.pending /\ d.counter = transport.counter
      /\ d.from = transport.from /\ d.refused = transport.refused /\ d.link = transport.link
      /\ d.attempt = transport.attempt /\ d.socks = transport.socks
      /\ d.gen = transport.gen /\ d.socket = transport.socket
  BY <1>2, <1>5 DEF Transports
<1>8. d.op["view"] = "offer" /\ d.op["sub"] = "ready"  BY <1>1, <1>2, <1>3, <1>7
<1>9. Alike(transport, d)
  <2>1. transport.counter \in Nat  BY <1>2 DEF Transports, A!Limits
  <2>2. QED BY <1>2, <1>7, <2>1 DEF Alike
<1>10. Session(d, agent, wire', {})  BY <1>1, <1>2, <1>7, <1>9, ViewOffers
<1>11. Limited(d)  BY <1>2, <1>7, <1>8 DEF Limited
<1>12. On(d) /\ ViewWithin(d)  BY <1>2, <1>7, <1>8 DEF On, ViewWithin
<1>13. Fine(d, agent, wire', {})  BY <1>6, <1>10, <1>11, <1>12 DEF Fine
<1>14. QED BY <1>1, <1>7, <1>12, <1>13, WireRemains, Handled

LEMMA CloseSubKeeps ==
    \A full \in BOOLEAN : AgentInv /\ A!Limits /\ A!CloseSub(full) => AgentInv'
<1> SUFFICES ASSUME NEW full \in BOOLEAN, AgentInv, A!Limits, A!CloseSub(full) PROVE AgentInv'
  OBVIOUS
<1> DEFINE e == A!EndSub(transport, full)
           d == IF e.link = "connected" THEN A!Request(e, "close", "sub", full) ELSE e
<1>1. /\ transport.op["sub"] \in {"preparing", "ready"} /\ A!Becomes(d)
      /\ wire' = wire /\ fetching' = fetching
  BY DEF A!CloseSub, A!Call
<1>2. transport.link = "connected"
  BY <1>1, BoundFacts DEF AgentInv, Off, Begun, On
<1>3. /\ Fine(transport, agent, wire, {}) /\ agent \in Agents /\ wire \in Seq(Arrivals)
  BY <1>2, InSession
<1>4. /\ Fine(e, agent, wire, {"sub", "view"}) /\ e.gen = transport.gen
      /\ Off(e) \/ (e.op["sub"] = "ended" /\ e.op["view"] \in {"idle", "ended"})
  BY <1>1, <1>3, EndSubFacts
<1>5. "sub" \in A!Ops  BY BoundFacts
<1> HIDE DEF e
<1>6. CASE e.link = "connected"
  <2>1. On(e) /\ e.op["sub"] = "ended" /\ e.op["view"] \in {"idle", "ended"}
    BY <1>4, <1>6 DEF Fine, Off
  <2>2. Owed({"sub", "view"}, "sub") = {}  BY DEF Owed, Parents
  <2>3. LeavesFine(e, d, agent, wire, {}, e.op)
    BY <1>3, <1>4, <1>5, <1>6, <2>1, <2>2, RequestCloses
  <2> HIDE DEF d
  <2>4. LeavesFine(transport, d, agent, wire, {}, e.op)  BY <2>3, <1>4 DEF LeavesFine
  <2>5. QED BY <1>1, <1>2, <2>1, <2>4, LeavesKeeps
<1>7. CASE e.link # "connected"
  <2>1. d = e /\ Off(e)  BY <1>4, <1>7 DEF Fine, On
  <2>2. LeavesFine(transport, d, agent, wire, {}, [o \in A!Ops |-> "ended"])
    BY <2>1, <1>4 DEF LeavesFine, Fine, On, Off
  <2> HIDE DEF d
  <2>3. [o \in A!Ops |-> "ended"]["view"] = "ended"  BY BoundFacts
  <2>4. QED BY <1>1, <1>2, <2>2, <2>3, LeavesKeeps
<1>8. QED BY <1>6, <1>7

LEMMA CloseViewKeeps ==
    \A full \in BOOLEAN : AgentInv /\ A!Limits /\ A!CloseView(full) => AgentInv'
<1> SUFFICES ASSUME NEW full \in BOOLEAN, AgentInv, A!Limits, A!CloseView(full) PROVE AgentInv'
  OBVIOUS
<1> DEFINE e == A!EndView(transport, full)
           d == A!Request(e, "close", "view", full)
<1>1. transport.op["view"] = "open" /\ A!Becomes(d) /\ wire' = wire /\ fetching' = fetching
  BY DEF A!CloseView, A!Call
<1>2. transport.link = "connected"
  BY <1>1, BoundFacts DEF AgentInv, Off, Begun, On
<1>3. /\ Fine(transport, agent, wire, {}) /\ agent \in Agents /\ wire \in Seq(Arrivals)
  BY <1>2, InSession
<1>4. Fine(e, agent, wire, {} \union {"view"}) /\ ViewOver(transport, e) /\ e.link = transport.link
  BY <1>1, <1>3, EndViewFacts
<1>5. "view" \in A!Ops  BY BoundFacts
<1> HIDE DEF e
<1>6. On(e) /\ e.op["view"] = "ended" /\ e.gen = transport.gen
  BY <1>1, <1>2, <1>4 DEF Fine, Off, ViewOver
<1>7. Owed({} \union {"view"}, "view") = {}  BY DEF Owed, Parents
<1>8. LeavesFine(e, d, agent, wire, {}, e.op)
  BY <1>3, <1>4, <1>5, <1>6, <1>7, RequestCloses
<1> HIDE DEF d
<1>9. LeavesFine(transport, d, agent, wire, {}, e.op)  BY <1>6, <1>8 DEF LeavesFine
<1>10. QED BY <1>1, <1>2, <1>6, <1>9, LeavesKeeps

LEMMA ViewFailsKeeps ==
    \A full \in BOOLEAN : AgentInv /\ A!Limits /\ A!ViewFails(full) => AgentInv'
<1> SUFFICES ASSUME NEW full \in BOOLEAN, AgentInv, A!Limits, A!ViewFails(full) PROVE AgentInv'
  OBVIOUS
<1> DEFINE d == A!FailView(transport, full)
<1>1. /\ transport.op["view"] \in {"offer", "asked", "open"} /\ A!Becomes(d)
      /\ wire' = wire /\ fetching' = fetching
  BY DEF A!ViewFails
<1>2. transport.link = "connected"
  BY <1>1, BoundFacts DEF AgentInv, Off, Begun, On
<1>3. /\ Fine(transport, agent, wire, {}) /\ agent \in Agents /\ wire \in Seq(Arrivals)
  BY <1>2, InSession
<1>4. Fine(d, agent, wire, {}) /\ ViewOver(transport, d)  BY <1>1, <1>3, FailViewFacts
<1> HIDE DEF d
<1>5. ViewWithin(d) /\ d.gen = transport.gen
  BY <1>1, <1>4, OffHasNoView DEF ViewOver, ViewWithin
<1>6. QED BY <1>1, <1>2, <1>4, <1>5, WireRemains, Handled

LEMMA NotReadyKeeps ==
    \A full \in BOOLEAN : AgentInv /\ A!Limits /\ A!NotReady(full) => AgentInv'
<1> SUFFICES ASSUME NEW full \in BOOLEAN, AgentInv, A!Limits, A!NotReady(full) PROVE AgentInv'
  OBVIOUS
<1> DEFINE e == A!EndSub(transport, full)
           d == A!Control(e, "close", 0, "sub", full)
<1>1. /\ transport.op["sub"] = "preparing" /\ A!Becomes(d)
      /\ wire' = wire /\ fetching' = fetching
  BY DEF A!NotReady
<1>2. transport.link = "connected"
  BY <1>1, BoundFacts DEF AgentInv, Off, Begun, On
<1>3. /\ Fine(transport, agent, wire, {}) /\ agent \in Agents /\ wire \in Seq(Arrivals)
  BY <1>2, InSession
<1>4. /\ Fine(e, agent, wire, {"sub", "view"}) /\ e.gen = transport.gen
      /\ Off(e) \/ (e.op["sub"] = "ended" /\ e.op["view"] \in {"idle", "ended"})
  BY <1>1, <1>3, EndSubFacts
<1>5. "sub" \in A!Ops  BY BoundFacts
<1> HIDE DEF e
<1>6. CASE ~Off(e)
  <2>1. e.op["sub"] = "ended" /\ e.op["view"] \in {"idle", "ended"}  BY <1>4, <1>6
  <2>2. Owed({"sub", "view"}, "sub") = {}  BY DEF Owed, Parents
  <2>3. LeavesFine(e, d, agent, wire, {}, e.op)
    BY <1>3, <1>4, <1>5, <2>1, <2>2, ControlCloses
  <2> HIDE DEF d
  <2>4. LeavesFine(transport, d, agent, wire, {}, e.op)  BY <2>3, <1>4 DEF LeavesFine
  <2>5. QED BY <1>1, <1>2, <2>1, <2>4, LeavesKeeps
<1>7. CASE Off(e)
  <2>1. d = e  BY <1>7 DEF Off, A!Control
  <2>2. LeavesFine(transport, d, agent, wire, {}, [o \in A!Ops |-> "ended"])
    BY <2>1, <1>4, <1>7 DEF LeavesFine, Fine
  <2> HIDE DEF d
  <2>3. [o \in A!Ops |-> "ended"]["view"] = "ended"  BY BoundFacts
  <2>4. QED BY <1>1, <1>2, <2>2, <2>3, LeavesKeeps
<1>8. QED BY <1>6, <1>7

LEMMA DeliverKeeps ==
    \A full \in BOOLEAN : AgentInv /\ A!Limits /\ A!Deliver(full) => AgentInv'
<1> SUFFICES ASSUME NEW full \in BOOLEAN, AgentInv, A!Limits, A!Deliver(full) PROVE AgentInv'
  OBVIOUS
<1> DEFINE d == A!OnMessage(transport, Head(wire), full)
<1>1. wire # <<>> /\ wire' = Tail(wire) /\ A!Becomes(d) /\ fetching' = fetching
  BY DEF A!Deliver
<1>2. Remaining(wire')  BY <1>1, WireRemains
<1>3. CASE transport.link = "connected"
  <2>1. /\ On(transport) /\ Fine(transport, agent, wire, {}) /\ agent \in Agents
        /\ wire \in Seq(Arrivals) /\ ViewWithin(transport)
    BY <1>3, InSession
  <2>2. Fine(d, agent, wire', {}) /\ d.gen = transport.gen /\ ViewWithin(d)
    BY <1>1, <2>1, OnMessageFacts
  <2> HIDE DEF d
  <2>3. QED BY <1>1, <1>2, <1>3, <2>2, Handled
<1>4. CASE transport.link # "connected"
  <2>1. d = transport  BY <1>4 DEF A!OnMessage, A!FromItsSocket
  <2> HIDE DEF d
  <2>2. transport' = transport /\ agent' = agent /\ agent = A!NoSession
    BY <1>1, <1>4, <2>1 DEF A!Becomes, AgentInv, Off, Begun, On
  <2>3. AgentTyped'  BY <1>1, <1>2, <2>2 DEF AgentInv, AgentTyped, Remaining
  <2>4. CASE Off(transport)  BY <1>1, <2>2, <2>3, <2>4 DEF AgentInv, Off
  <2>5. CASE Begun(transport, wire)
    <3>1. wire \in Seq(Arrivals)  BY DEF AgentInv, AgentTyped
    <3>2. /\ Len(wire') = Len(wire) - 1 /\ Len(wire) \in Nat
          /\ \A i \in 1 .. Len(wire) - 1 : wire'[i] = wire[i + 1]
      BY <1>1, <3>1, HeadAndTail
    <3>3. \A i \in 1 .. Len(wire') : wire'[i].session # transport.gen
      <4>1. \A i \in 1 .. Len(wire') : wire'[i] = wire[i + 1] /\ i + 1 \in 1 .. Len(wire)
        BY <3>2
      <4>2. QED BY <2>5, <4>1 DEF Begun
    <3>4. Begun(transport', wire')  BY <2>2, <2>5, <3>3 DEF Begun
    <3>5. (transport.link = "socket" => transport.gen \notin fetching)'
      BY <1>1, <2>2 DEF AgentInv
    <3>6. QED BY <2>2, <2>3, <3>4, <3>5 DEF AgentInv
  <2>6. QED BY <1>4, <2>4, <2>5 DEF AgentInv, On
<1>5. QED BY <1>3, <1>4

\* What the agent does in a session.
LEMMA AgentActs ==
    ASSUME AgentInv, transport.link = "connected", NEW d \in Transports, Limited(d), On(d),
           ViewWithin(d), d.gen = transport.gen, transport' = d, agent' \in Agents,
           Session(d, agent', wire', {}), Remaining(wire'), fetching' = fetching
    PROVE  AgentInv'
<1>1. AgentTyped'  BY DEF AgentInv, AgentTyped, Remaining
<1>2. On(transport') /\ ViewWithin(transport') /\ Session(transport', agent', wire', {})
  OBVIOUS
<1>3. transport'.gen \notin fetching' /\ transport'.link # "socket"
  BY InSession DEF On
<1>4. QED BY <1>1, <1>2, <1>3 DEF AgentInv

\* A message of the agent follows what is on its way.
LEMMA WireGrows ==
    ASSUME AgentInv, transport.link = "connected", NEW a, a \in Arrivals,
           a.session = transport.socket
    PROVE  Remaining(Append(wire, a))
<1>1. /\ wire \in Seq(Arrivals) /\ \A i \in 1 .. Len(wire) : wire[i].session <= transport.gen
      /\ transport.gen \in Nat /\ a.session <= transport.gen
  BY InSession DEF AgentInv, AgentTyped, On, Transports
<1> DEFINE v == Append(wire, a)
<1>2. /\ v \in Seq(Arrivals) /\ Len(v) = Len(wire) + 1 /\ Len(wire) \in Nat
      /\ v[Len(wire) + 1] = a /\ \A i \in 1 .. Len(wire) : v[i] = wire[i]
  BY <1>1, Appended
<1> HIDE DEF v
<1>3. ASSUME NEW i \in 1 .. Len(v) PROVE v[i].session <= transport.gen
  <2>1. CASE i \in 1 .. Len(wire)  BY <1>1, <1>2, <2>1
  <2>2. CASE i = Len(wire) + 1  BY <1>1, <1>2, <2>2
  <2>3. QED BY <1>2, <2>1, <2>2
<1>4. Remaining(v)  BY <1>2, <1>3 DEF Remaining
<1>5. QED BY <1>4 DEF v

\* Its messages.
LEMMA MessageFacts ==
    ASSUME AgentInv, transport.link = "connected"
    PROVE  /\ \A id \in Nat, ok \in BOOLEAN : LET a == A!Response(id, ok) IN
                 /\ a \in Arrivals /\ a.session = transport.socket /\ a.kind = "response"
                 /\ a.id = id /\ a.ok = ok
           /\ \A kind \in {"ready", "error"}, o \in A!Ops : LET a == A!EventOf(kind, o) IN
                 /\ a \in Arrivals /\ a.session = transport.socket /\ a.kind = kind /\ a.op = o
<1>1. transport.socket \in Nat \ {0} /\ "sub" \in A!Ops
  BY InSession, BoundFacts DEF On, Transports
<1>2. QED BY <1>1 DEF A!Response, A!EventOf, Arrivals

LEMMA AnswersKeeps == \A ok \in BOOLEAN : AgentInv /\ A!Limits /\ A!AgentAnswers(ok) => AgentInv'
<1> SUFFICES ASSUME NEW ok \in BOOLEAN, AgentInv, A!Limits, A!AgentAnswers(ok) PROVE AgentInv'
  OBVIOUS
<1>1. PICK n \in agent.work :
          /\ n.op = "view" /\ "sub" \notin agent.held => ~ok
          /\ agent' = [agent EXCEPT !.work = @ \ {n},
                         !.held = IF ok /\ n.kind = "open" THEN @ \union {n.op} ELSE @]
          /\ wire' = Append(wire, A!Response(n.id, ok))
          /\ transport' = transport /\ fetching' = fetching
  BY DEF A!AgentAnswers
<1>2. transport.link = "connected"  BY <1>1, NothingHeld DEF AgentInv, On
<1>3. /\ On(transport) /\ ViewWithin(transport) /\ Session(transport, agent, wire, {})
      /\ transport \in Transports /\ agent \in Agents /\ wire \in Seq(Arrivals)
      /\ Limited(transport)
  BY <1>2, InSession
<1>4. n \in Sendings /\ n.id \in Nat  BY <1>3 DEF Agents, Sendings
<1>5. n.kind = "open" => n.op \in A!Ops
  <2>1. PICK p \in transport.pending : Tracks(p, n)  BY <1>3 DEF Session, Tracked
  <2>2. QED BY <1>3, <2>1 DEF Session, Asking, Tracks
<1>6. /\ agent' \in Agents /\ agent'.work = agent.work \ {n}
      /\ agent'.held = (IF ok /\ n.kind = "open" THEN agent.held \union {n.op} ELSE agent.held)
  BY <1>1, <1>3, <1>5 DEF Agents
<1> DEFINE a == A!Response(n.id, ok)
<1>7. /\ a \in Arrivals /\ a.session = transport.socket /\ a.kind = "response" /\ a.id = n.id
      /\ a.ok = ok
  BY <1>2, <1>4, MessageFacts
<1>8. wire' = Append(wire, a)  BY <1>1
<1> HIDE DEF a
<1>9. Remaining(wire')  BY <1>2, <1>7, <1>8, WireGrows
<1>10. Session(transport, agent', wire', {})
  <2>1. n.op = "view" /\ "sub" \notin agent.held => ~ok  BY <1>1
  <2>2. Session(transport, agent', Append(wire, a), {})
    BY <1>3, <1>6, <1>7, <2>1, AnswerSent
  <2>3. QED BY <1>8, <2>2
<1>11. QED BY <1>1, <1>2, <1>3, <1>6, <1>9, <1>10, AgentActs

LEMMA ReadiesKeeps == AgentInv /\ A!Limits /\ A!AgentReadies => AgentInv'
<1> SUFFICES ASSUME AgentInv, A!Limits, A!AgentReadies PROVE AgentInv'  OBVIOUS
<1> DEFINE a == A!EventOf("ready", "sub")
<1>1. /\ "sub" \in agent.held /\ agent' = [agent EXCEPT !.readied = TRUE]
      /\ wire' = Append(wire, a) /\ transport' = transport /\ fetching' = fetching
  BY DEF A!AgentReadies
<1>2. transport.link = "connected"  BY <1>1, NothingHeld DEF AgentInv, On
<1>3. /\ On(transport) /\ ViewWithin(transport) /\ Session(transport, agent, wire, {})
      /\ transport \in Transports /\ agent \in Agents /\ wire \in Seq(Arrivals)
      /\ Limited(transport)
  BY <1>2, InSession
<1>4. agent' \in Agents /\ agent'.work = agent.work /\ agent'.held = agent.held
  BY <1>1, <1>3 DEF Agents
<1>5. a \in Arrivals /\ a.session = transport.socket /\ a.kind = "ready"
  BY <1>2, BoundFacts, MessageFacts
<1> HIDE DEF a
<1>6. Remaining(wire')  BY <1>1, <1>2, <1>5, WireGrows
<1>7. Session(transport, agent', wire', {})  BY <1>1, <1>3, <1>4, <1>5, EventSent
<1>8. QED BY <1>1, <1>2, <1>3, <1>4, <1>6, <1>7, AgentActs

LEMMA DropsKeeps == \A o \in A!Ops : AgentInv /\ A!Limits /\ A!AgentDrops(o) => AgentInv'
<1> SUFFICES ASSUME NEW o \in A!Ops, AgentInv, A!Limits, A!AgentDrops(o) PROVE AgentInv'  OBVIOUS
<1> DEFINE a == A!EventOf("error", o)
<1>1. /\ o \in agent.held /\ agent' = [agent EXCEPT !.held = A!Without(@, o)]
      /\ wire' = Append(wire, a) /\ transport' = transport /\ fetching' = fetching
  BY DEF A!AgentDrops
<1>2. transport.link = "connected"  BY <1>1, NothingHeld DEF AgentInv, On
<1>3. /\ On(transport) /\ ViewWithin(transport) /\ Session(transport, agent, wire, {})
      /\ transport \in Transports /\ agent \in Agents /\ wire \in Seq(Arrivals)
      /\ Limited(transport)
  BY <1>2, InSession
<1>4. /\ agent' \in Agents /\ agent'.work = agent.work
      /\ agent'.held = A!Without(agent.held, o)
  <2>1. agent.held \in SUBSET A!Ops  BY <1>3 DEF Agents
  <2>2. A!Without(agent.held, o) \in SUBSET A!Ops  BY <2>1, WithoutFacts
  <2>3. QED BY <1>1, <1>3, <2>2 DEF Agents
<1>5. a \in Arrivals /\ a.session = transport.socket /\ a.kind = "error" /\ a.op = o
  BY <1>2, MessageFacts
<1> HIDE DEF a
<1>6. Remaining(wire')  BY <1>1, <1>2, <1>5, WireGrows
<1>7. Session(transport, agent', wire', {})  BY <1>1, <1>3, <1>4, <1>5, EventSent
<1>8. QED BY <1>1, <1>2, <1>3, <1>4, <1>6, <1>7, AgentActs

LEMMA TakesKeeps == AgentInv /\ A!Limits /\ A!AgentTakes => AgentInv'
<1> SUFFICES ASSUME AgentInv, A!Limits, A!AgentTakes PROVE AgentInv'  OBVIOUS
<1> DEFINE d == Shortened(transport)
           m == transport.out[1]
           worked == {x \in agent.work : x.id = m.id}
<1>1. transport.out # <<>> /\ transport' = d /\ fetching' = fetching
  BY DEF A!AgentTakes, Shortened
<1>2. transport.link = "connected"  BY <1>1 DEF AgentInv, Off, Begun, On
<1>3. /\ On(transport) /\ ViewWithin(transport) /\ Session(transport, agent, wire, {})
      /\ transport \in Transports /\ agent \in Agents /\ wire \in Seq(Arrivals)
      /\ Limited(transport)
  BY <1>2, InSession
<1>4. /\ d \in Transports /\ d.out = Tail(transport.out) /\ d.pending = transport.pending
      /\ d.op = transport.op /\ d.from = transport.from /\ d.refused = transport.refused
      /\ d.link = transport.link /\ d.counter = transport.counter
      /\ d.attempt = transport.attempt /\ d.socks = transport.socks
      /\ d.gen = transport.gen /\ d.socket = transport.socket
  BY <1>1, <1>3, ShortenedFacts
<1>5. transport.out \in Seq(Sendings)  BY <1>3 DEF Transports
<1>6. Head(transport.out) = m /\ m \in Sendings  BY <1>1, <1>5
<1>7. \/ /\ m.kind \in {"open", "call"} /\ wire' = wire
         /\ agent' = [agent EXCEPT !.work = @ \union {m}]
      \/ /\ m.kind = "cancel" /\ agent' = [agent EXCEPT !.work = @ \ worked]
         /\ wire' = IF worked = {} THEN wire ELSE Append(wire, A!Response(m.id, FALSE))
      \/ /\ m.kind = "close" /\ agent' = [agent EXCEPT !.held = A!Without(@, m.op)]
         /\ wire' = IF m.id = 0 THEN wire ELSE Append(wire, A!Response(m.id, TRUE))
  BY <1>6 DEF A!AgentTakes
<1>8. ASSUME NEW bg \in Agents, AfterTaking(agent, bg, m)
      PROVE  /\ Session(d, bg, wire, {})
             /\ Numbered(m) =>
                   /\ \A i \in 1 .. Len(d.out) : Numbered(d.out[i]) => d.out[i].id # m.id
                   /\ \A i \in 1 .. Len(wire) : Response(d, wire, i) => wire[i].id # m.id
                   /\ \A x \in agent.work : x.id # m.id
                   /\ \E p \in d.pending : Tracks(p, m)
  BY <1>1, <1>3, <1>8, OutTaken
<1>m. m.kind = "close" => m.op \in A!Ops
  <2>1. 1 \in 1 .. Len(transport.out)  BY <1>1, <1>5
  <2>2. QED BY <1>3, <2>1 DEF Session, Closed
<1>r. ASSUME NEW ok \in BOOLEAN
      PROVE  /\ A!Response(m.id, ok) \in Arrivals
             /\ A!Response(m.id, ok).session = transport.socket
             /\ A!Response(m.id, ok).kind = "response"
             /\ A!Response(m.id, ok).id = m.id /\ A!Response(m.id, ok).ok = ok
             /\ Remaining(Append(wire, A!Response(m.id, ok)))
  <2>1. m.id \in Nat  BY <1>6 DEF Sendings
  <2> DEFINE a == A!Response(m.id, ok)
  <2>2. /\ a \in Arrivals /\ a.session = transport.socket /\ a.kind = "response"
        /\ a.id = m.id /\ a.ok = ok
    BY <1>2, <2>1, MessageFacts
  <2> HIDE DEF a
  <2>3. Remaining(Append(wire, a))  BY <1>2, <2>2, WireGrows
  <2>4. QED BY <2>2, <2>3 DEF a
<1>w. agent.work \in SUBSET Sendings /\ agent.held \in SUBSET A!Ops  BY <1>3 DEF Agents
<1> HIDE DEF d, m
<1>9. Limited(d) /\ On(d) /\ ViewWithin(d)
  BY <1>3, <1>4 DEF Limited, On, ViewWithin
<1>e. ASSUME agent' \in Agents, Session(d, agent', wire', {}), Remaining(wire') PROVE AgentInv'
  BY <1>1, <1>2, <1>4, <1>9, <1>e, AgentActs
<1>10. CASE m.kind \in {"open", "call"}
  <2>1. wire' = wire /\ agent' = [agent EXCEPT !.work = @ \union {m}]  BY <1>7, <1>10
  <2>2. agent.work \union {m} \in SUBSET Sendings  BY <1>6, <1>w
  <2>3. /\ agent' \in Agents /\ agent'.work = agent.work \union {m} /\ agent'.held = agent.held
    BY <2>1, <2>2, <1>3 DEF Agents
  <2>4. AfterTaking(agent, agent', m)  BY <2>3, <1>10 DEF AfterTaking
  <2>5. Session(d, agent', wire', {})  BY <1>8, <2>1, <2>3, <2>4
  <2>6. QED BY <1>e, <2>1, <2>3, <2>5, WireRemains
<1>11. CASE m.kind = "cancel"
  <2>1. /\ agent' = [agent EXCEPT !.work = @ \ worked]
        /\ wire' = IF worked = {} THEN wire ELSE Append(wire, A!Response(m.id, FALSE))
    BY <1>7, <1>11
  <2>2. agent' \in Agents /\ agent'.work = agent.work \ worked /\ agent'.held = agent.held
    BY <2>1, <1>3, <1>w DEF Agents
  <2>3. AfterTaking(agent, agent, m)  BY <1>11 DEF AfterTaking
  <2>4. Session(d, agent, wire, {})  BY <1>3, <1>8, <2>3
  <2>5. CASE worked = {}
    <3>1. agent'.work = agent.work /\ wire' = wire  BY <2>1, <2>2, <2>5
    <3>2. AfterTaking(agent, agent', m)  BY <3>1, <2>2, <1>11 DEF AfterTaking
    <3>3. Session(d, agent', wire', {})  BY <3>1, <3>2, <2>2, <1>8
    <3>4. QED BY <1>e, <2>2, <3>1, <3>3, WireRemains
  <2>6. ASSUME NEW n \in worked PROVE AgentInv'
    <3>1. n \in agent.work /\ n.id = m.id  BY <2>6
    <3>2. worked = {n}  BY <3>1, <1>3 DEF Session, OnePlace
    <3>3. agent'.work = agent.work \ {n} /\ wire' = Append(wire, A!Response(m.id, FALSE))
      BY <2>1, <2>2, <3>2
    <3>4. Session(d, agent', Append(wire, A!Response(m.id, FALSE)), {})
      BY <2>2, <2>4, <3>1, <3>3, <1>3, <1>4, <1>r, AnswerSent
    <3>5. QED BY <1>e, <1>r, <2>2, <3>3, <3>4
  <2>7. QED BY <2>5, <2>6
<1>12. CASE m.kind = "close"
  <2>1. /\ agent' = [agent EXCEPT !.held = A!Without(@, m.op)]
        /\ wire' = IF m.id = 0 THEN wire ELSE Append(wire, A!Response(m.id, TRUE))
    BY <1>7, <1>12
  <2>2. A!Without(agent.held, m.op) \in SUBSET A!Ops  BY <1>m, <1>w, <1>12, WithoutFacts
  <2>3. /\ agent' \in Agents /\ agent'.work = agent.work
        /\ agent'.held = A!Without(agent.held, m.op)
    BY <2>1, <2>2, <1>3 DEF Agents
  <2>4. AfterTaking(agent, agent', m)  BY <2>3, <1>12 DEF AfterTaking
  <2>5. Session(d, agent', wire, {})  BY <1>8, <2>3, <2>4
  <2>6. CASE m.id = 0
    <3>1. wire' = wire  BY <2>1, <2>6
    <3>2. QED BY <1>e, <2>3, <2>5, <3>1, WireRemains
  <2>7. CASE m.id # 0
    <3>1. Numbered(m) /\ wire' = Append(wire, A!Response(m.id, TRUE))
      BY <2>1, <2>7, <1>12 DEF Numbered
    <3>2. PICK p \in d.pending : Tracks(p, m)  BY <1>8, <2>3, <2>4, <3>1
    <3>3. p.id = m.id /\ p.kind # "open"  BY <3>2, <1>12 DEF Tracks
    <3>4. /\ \A i \in 1 .. Len(d.out) : Numbered(d.out[i]) => d.out[i].id # p.id
          /\ \A i \in 1 .. Len(wire) : Response(d, wire, i) => wire[i].id # p.id
          /\ \A x \in agent'.work : x.id # p.id
      BY <1>8, <2>3, <2>4, <3>1, <3>3
    <3>5. Session(d, agent', Append(wire, A!Response(m.id, TRUE)), {})
      BY <2>3, <2>5, <3>3, <3>4, <1>3, <1>4, <1>r, ReplySent
    <3>6. QED BY <1>e, <1>r, <2>3, <3>1, <3>5
  <2>8. QED BY <2>6, <2>7
<1>13. QED BY <1>7, <1>10, <1>11, <1>12

LEMMA AgentInit == A!Init /\ A!Limits => AgentInv
<1> SUFFICES ASSUME A!Init, A!Limits PROVE AgentInv  OBVIOUS
<1>1. /\ transport = [link |-> "off", attempt |-> 0, gen |-> 0, socket |-> 0, socks |-> {},
                      counter |-> 0, pending |-> {}, op |-> A!Idle,
                      from |-> [o \in A!Ops |-> 0], refused |-> {}, out |-> <<>>]
      /\ fetching = {} /\ agent = A!NoSession /\ wire = <<>>
  BY DEF A!Init
<1>2. A!Idle \in [A!Ops -> OpStates] /\ \A o \in A!Ops : A!Idle[o] = "idle"
  BY DEF A!Idle, A!Ops, OpStates
<1>3. 0 \in 0 .. MaxControls /\ 0 <= MaxPending /\ 0 <= MaxSessions  BY DEF A!Limits
<1>4. transport \in Transports
  <2>1. <<>> \in Seq(Sendings) /\ [o \in A!Ops |-> 0] \in [A!Ops -> Nat]  OBVIOUS
  <2>2. QED BY <1>1, <1>2, <1>3, <2>1 DEF Transports
<1>5. /\ transport.link = "off" /\ transport.attempt = 0 /\ transport.gen = 0
      /\ transport.socket = 0 /\ transport.socks = {} /\ transport.pending = {}
      /\ transport.op = A!Idle /\ transport.out = <<>>
  BY <1>1
<1>6. Limited(transport)
  <2>1. IsFiniteSet({}) /\ Cardinality({}) = 0  BY FS_EmptySet
  <2>2. QED BY <1>2, <1>3, <1>5, <2>1, BoundFacts DEF Limited
<1>7. Off(transport)  BY <1>2, <1>5 DEF Off
<1>8. AgentTyped
  <2>1. wire \in Seq(Arrivals) /\ 1 .. Len(wire) = {}  BY <1>1
  <2>2. QED BY <1>1, <1>3, <1>4, <1>5, <1>6, <2>1, NothingHeld DEF AgentTyped
<1>9. QED BY <1>1, <1>5, <1>7, <1>8 DEF AgentInv

LEMMA AgentNext == AgentInv /\ A!Limits /\ [A!Next]_(A!vars) => AgentInv'
<1> SUFFICES ASSUME AgentInv, A!Limits, [A!Next]_(A!vars) PROVE AgentInv'  OBVIOUS
<1>1. CASE UNCHANGED A!vars
  <2>1. transport' = transport /\ fetching' = fetching /\ agent' = agent /\ wire' = wire
    BY <1>1 DEF A!vars
  <2>2. QED BY <2>1 DEF AgentInv, AgentTyped
<1>2. CASE A!Connect  BY <1>2, LinkOpens
<1>3. CASE A!Ready  BY <1>3, ReadyKeeps
<1>4. CASE A!Ends \/ A!CancelTimer  BY <1>4, LinkEnds
<1>5. CASE A!Watch  BY <1>5, OffersView
<1>6. CASE \E g \in fetching : A!Credential(g) \/ A!CredentialFails(g)
  BY <1>6, CredentialKeeps, CredentialFailsKeeps
<1>7. CASE \E full \in BOOLEAN :
               \/ A!PlainCall(full) \/ A!Subscribe(full) \/ A!Offer(full) \/ A!CloseSub(full)
               \/ A!CloseView(full) \/ A!ViewFails(full) \/ A!NotReady(full)
               \/ A!RequestTimer(full) \/ A!Deliver(full)
  BY <1>7, PlainCallKeeps, SubscribeKeeps, OfferKeeps, CloseSubKeeps, CloseViewKeeps,
     ViewFailsKeeps, NotReadyKeeps, RequestTimerKeeps, DeliverKeeps
<1>8. CASE A!AgentTakes  BY <1>8, TakesKeeps
<1>9. CASE \E ok \in BOOLEAN : A!AgentAnswers(ok)  BY <1>9, AnswersKeeps
<1>10. CASE A!AgentReadies  BY <1>10, ReadiesKeeps
<1>11. CASE \E o \in A!Ops : A!AgentDrops(o)  BY <1>11, DropsKeeps
<1>12. QED
  BY <1>1, <1>2, <1>3, <1>4, <1>5, <1>6, <1>7, <1>8, <1>9, <1>10, <1>11 DEF A!Next

\* What the invariant says when everything has been answered: the agent holds what the client
\* has, and the rest only where its close, or its parent's, was refused.
LEMMA QuietAgrees == AgentInv => A!AgentAgrees
<1> SUFFICES ASSUME AgentInv, A!Quiet
             PROVE  /\ A!Bound(transport) \subseteq agent.held
                    /\ \A o \in agent.held \ A!Bound(transport) :
                          transport.refused \intersect {o, "sub"} # {}
  BY DEF A!AgentAgrees
<1>1. /\ Kept(transport, agent, wire) /\ Released(transport, agent, wire, {})
      /\ 1 .. Len(wire) = {} /\ 1 .. Len(transport.out) = {}
  BY InSession DEF A!Quiet, Session
<1>2. A!Bound(transport) \subseteq agent.held  BY <1>1 DEF Kept, Fails
<1>3. ASSUME NEW o \in agent.held \ A!Bound(transport)
      PROVE  transport.refused \intersect {o, "sub"} # {}
  BY <1>1 DEF Released, Granting, Leaves, Parents
<1>4. QED BY <1>2, <1>3

\* Whatever is cancelled, refused, dropped or answered late, for any number of sessions and
\* requests (web-agent/transport.ts, resources.ts): no socket is leaked, what a call is given
\* is of its own session, a view does not outlive its subscription, and when everything has
\* been answered the agent holds what the client has handles for, but for a refused close.
THEOREM AgentIsSound ==
    ASSUME A!Limits
    PROVE  A!Spec => [](A!TypeOK /\ A!OneSocket /\ A!OwnSession
                        /\ A!ViewEndsWithSubscription /\ A!AgentAgrees)
<1>1. AgentInv => A!TypeOK /\ A!OneSocket /\ A!OwnSession /\ A!ViewEndsWithSubscription
                  /\ A!AgentAgrees
  <2> SUFFICES ASSUME AgentInv
               PROVE  A!TypeOK /\ A!OneSocket /\ A!OwnSession /\ A!ViewEndsWithSubscription
    BY QuietAgrees
  <2>1. A!TypeOK
    <3>1. /\ transport \in Transports /\ Limited(transport) /\ transport.gen <= MaxSessions
          /\ agent \in Agents
      BY DEF AgentInv, AgentTyped
    <3>2. A!Cardinality(transport.pending) = Cardinality(transport.pending)
      BY DEF A!Cardinality, Cardinality
    <3>3. /\ transport.op["sub"] \in OpStates \ {"offer", "open"}
          /\ transport.op["view"] \in OpStates \ {"preparing", "ready"}
      BY <3>1, BoundFacts DEF Transports, Limited
    <3>4. agent.held \subseteq A!Ops  BY <3>1 DEF Agents
    <3>5. transport.gen \in Nat /\ transport.counter \in 0 .. MaxControls
          /\ transport.link \in {"off", "credential", "socket", "connected"}
      BY <3>1 DEF Transports
    <3>6. QED BY <3>1, <3>2, <3>3, <3>4, <3>5 DEF A!TypeOK, OpStates, Limited
  <2>2. A!OneSocket
    <3>1. transport.socks = {transport.socket} \ {0}
      BY DEF AgentInv, AgentTyped, Off, Begun, On, Transports
    <3>2. QED BY <3>1 DEF A!OneSocket
  <2>3. A!OwnSession
    <3>1. CASE transport.link = "connected"
      BY <3>1, InSession DEF Session, Asking, A!OwnSession
    <3>2. CASE transport.link # "connected"
      <4>1. A!Bound(transport) = {}  BY <3>2, BoundFacts DEF AgentInv, Off, Begun, On
      <4>2. QED BY <4>1 DEF A!OwnSession
    <3>3. QED BY <3>1, <3>2
  <2>4. A!ViewEndsWithSubscription
    BY BoundFacts DEF AgentInv, Off, Begun, ViewWithin, A!ViewEndsWithSubscription
  <2>5. QED BY <2>1, <2>2, <2>3, <2>4
<1>2. A!Init => AgentInv  BY AgentInit
<1>3. AgentInv /\ [A!Next]_(A!vars) => AgentInv'  BY AgentNext
<1>4. QED BY <1>1, <1>2, <1>3, PTL DEF A!Spec

=============================================================================
