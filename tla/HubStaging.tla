----------------------------- MODULE HubStaging -----------------------------
(***************************************************************************)
(* A transfer to Hugging Face, src/sdks/typescript/src/client.ts and       *)
(* huggingface.ts: planHuggingFaceUploads asks the Hub for upload URLs,    *)
(* the Hub chooses the part size, BeamCore plans chunks, and               *)
(* assertHuggingFacePlan compares the two layouts.  The ETags that the     *)
(* completion quotes are hashed from the source beside the transfer.       *)
(* When the uploads are finalized, and for whom, is in TransferWait.       *)
(*                                                                         *)
(* Content is abstracted to the positions of its bytes: an MD5 is the      *)
(* interval that was hashed.                                               *)
(***************************************************************************)
EXTENDS Naturals, Sequences

CONSTANTS
    Targets,        \* 1..n: the huggingface destinations, in order
    Size,           \* bytes of the source, as prepared
    Lengths,        \* bytes that reading the source may give
    PartSizes,      \* chunk_size values the Hub may choose
    PlanSizes,      \* chunk sizes BeamCore may plan
    MaxTroubles     \* bound: refusals and surprises

VARIABLES
    pc,             \* "planning", "preparing", "checking", "streaming", "closing", "closed", "failed"
    target,         \* the destination being planned
    hub,            \* [target |-> what the Hub issued: state, chunk, urls]
    partSize,       \* providerPartSize, 0 if undefined
    plan,           \* BeamCore's plan: [chunk, count], of the one source
    body,           \* [target |-> bytes that hashing this source will read]
    read,           \* [target |-> bytes hashed so far]
    partBytes,      \* [target |-> bytes of the part being hashed]
    etags,          \* [target |-> partEtags]
    hashing,        \* targets whose hashSourceStream runs
    parts,          \* external: [target |-> parts uploaded: number, bytes]
    committed,      \* targets whose upload was completed and its commit published
    troubles

vars == <<pc, target, hub, partSize, plan, body, read, partBytes, etags, hashing, parts, committed,
          troubles>>
hashVars == <<body, read, partBytes, etags, hashing>>
hubVars == <<parts, committed>>

Ceil(n, d) == (n + d - 1) \div d
Least(m, n) == IF m < n THEN m ELSE n
Interval(from, to) == <<from, to>>

NoUpload == [state |-> "none", chunk |-> 0, urls |-> 0]
Init ==
    /\ pc = "planning" /\ target = 1 /\ partSize = 0 /\ plan = [chunk |-> 0, count |-> 0]
    /\ hub = [t \in Targets |-> NoUpload]
    /\ body \in [Targets -> Lengths]
    /\ read = [t \in Targets |-> 0] /\ partBytes = read
    /\ etags = [t \in Targets |-> <<>>] /\ hashing = {}
    /\ parts = [t \in Targets |-> {}] /\ committed = {}
    /\ troubles = 0

Trouble == troubles < MaxTroubles /\ troubles' = troubles + 1

-----------------------------------------------------------------------------
(* planHuggingFaceUploads, one destination after the other. *)

\* A bucket, no sha256 and no leave to compute it, a regular blob, a malformed answer.
Refused ==
    /\ pc = "planning" /\ Trouble
    /\ pc' = "failed"
    /\ UNCHANGED <<target, hub, partSize, plan, hashVars, hubVars>>

Planned(upload) ==
    /\ hub' = [hub EXCEPT ![target] = upload]
    /\ target' = target + 1
    /\ pc' = IF target + 1 \in Targets THEN "planning" ELSE "preparing"

\* The batch has no upload action: the Hub has the content.
Stored ==
    /\ pc = "planning"
    /\ Planned([NoUpload EXCEPT !.state = "stored"])
    /\ UNCHANGED <<partSize, plan, hashVars, hubVars, troubles>>

\* One PUT, without a chunk_size.
SinglePart ==
    /\ pc = "planning"
    /\ Planned([state |-> "single", chunk |-> 0, urls |-> 1])
    /\ UNCHANGED <<partSize, plan, hashVars, hubVars, troubles>>

\* Part URLs; every destination must agree with the part size of the others.
Disagree(c) == partSize # 0 /\ partSize # c

Multipart(c, urls) ==
    /\ pc = "planning"
    /\ IF urls # Ceil(Size, c) \/ Disagree(c)
       THEN /\ Trouble /\ pc' = "failed"
            /\ UNCHANGED <<target, hub, partSize, hashing>>
       ELSE /\ Planned([state |-> "multipart", chunk |-> c, urls |-> urls])
            /\ partSize' = c
            /\ hashing' = hashing \union {target}
            /\ UNCHANGED troubles
    /\ UNCHANGED <<plan, body, read, partBytes, etags, hubVars>>

-----------------------------------------------------------------------------
(* hashSourceStream with a partSize: the body arrives in pieces. *)

\* The parts that n bytes more than b fill; the inner loop closes each of them.
Full(n, b, c) == (n + b) \div c

Piece(t, n) ==
    LET c == hub[t].chunk
        from == read[t] - partBytes[t]
        full == Full(n, partBytes[t], c)
    IN [etags |-> etags[t] \o [i \in 1..full |-> Interval(from + (i - 1) * c, from + i * c)],
        partBytes |-> n + partBytes[t] - full * c]

Hash(t, n) ==
    /\ t \in hashing /\ n <= body[t] - read[t]
    /\ LET piece == Piece(t, n)
           done == read[t] + n = body[t]
       IN /\ etags' = [etags EXCEPT ![t] =
                IF done /\ piece.partBytes > 0
                THEN Append(piece.etags, Interval(body[t] - piece.partBytes, body[t]))
                ELSE piece.etags]
          /\ partBytes' = [partBytes EXCEPT ![t] = piece.partBytes]
          /\ hashing' = IF done THEN hashing \ {t} ELSE hashing
    /\ read' = [read EXCEPT ![t] = @ + n]
    /\ UNCHANGED <<pc, target, hub, partSize, plan, body, hubVars, troubles>>

-----------------------------------------------------------------------------
(* The plan, and the check of its layout. *)

\* External: BeamCore takes the provider's part size, and one chunk for a single PUT, or not.
Adopts(c) ==
    /\ partSize \in {0, c}
    /\ (\E t \in Targets : hub[t].chunk = 0) => c >= Size
Prepare(c) ==
    /\ pc = "preparing"
    /\ pc' = "checking"
    /\ plan' = [chunk |-> c, count |-> Ceil(Size, c)]
    /\ IF Adopts(c) THEN UNCHANGED troubles ELSE Trouble
    /\ UNCHANGED <<target, hub, partSize, hashVars, hubVars>>

\* assertHuggingFacePlan
Fits(t) ==
    IF hub[t].chunk = 0 THEN plan.count = 1
    ELSE plan.chunk = hub[t].chunk /\ plan.count = hub[t].urls

Check ==
    /\ pc = "checking"
    /\ pc' = IF \A t \in Targets : Fits(t) THEN "streaming" ELSE "failed"
    /\ UNCHANGED <<target, hub, partSize, plan, hashVars, hubVars, troubles>>

-----------------------------------------------------------------------------
(* Routes, and the commit. *)

Chunk(k) == Interval(k * plan.chunk, Least((k + 1) * plan.chunk, Size))

\* signProviderRoute: chunk k has the URL of part k + 1; a worker uploads to it.
Url(t, k) == IF hub[t].chunk = 0 THEN hub[t].state = "single" ELSE k < hub[t].urls
Route(t, k) ==
    /\ pc = "streaming" /\ \A part \in parts[t] : part.number # k + 1
    /\ IF Url(t, k)
       THEN /\ parts' = [parts EXCEPT ![t] = @ \union {[number |-> k + 1, bytes |-> Chunk(k)]}]
            /\ UNCHANGED pc
       ELSE /\ pc' = "failed"
            /\ UNCHANGED parts
    /\ UNCHANGED <<target, hub, partSize, plan, hashVars, committed, troubles>>

Transferred ==
    /\ pc = "streaming" /\ \A t \in Targets : \A k \in 1..plan.count : \E part \in parts[t] : part.number = k
    /\ pc' = "closing" /\ target' = 1
    /\ UNCHANGED <<hub, partSize, plan, hashVars, hubVars, troubles>>

\* finalizeHuggingFaceUploads: the Hub compares the ETags with the parts that it has.
Matches(t) == \A part \in parts[t] : etags[t][part.number] = part.bytes
Finalize ==
    /\ pc = "closing"
    /\ target \notin hashing
    /\ IF hub[target].state = "multipart"
            /\ (Len(etags[target]) # hub[target].urls \/ ~Matches(target))
       THEN /\ pc' = "failed"
            /\ UNCHANGED <<target, committed>>
       ELSE /\ committed' = committed \union {target}
            /\ target' = target + 1
            /\ pc' = IF target + 1 \in Targets THEN "closing" ELSE "closed"
    /\ UNCHANGED <<hub, partSize, plan, hashVars, parts, troubles>>

-----------------------------------------------------------------------------
Next ==
    \/ Refused \/ Stored \/ SinglePart \/ Check \/ Transferred \/ Finalize
    \/ \E c \in PartSizes, urls \in 0..Size : Multipart(c, urls)
    \/ \E t \in Targets, n \in 1..Size + 1 : Hash(t, n)
    \/ \E c \in PlanSizes : Prepare(c)
    \/ \E t \in Targets, k \in 0..plan.count - 1 : Route(t, k)

Spec == Init /\ [][Next]_vars

\* What the constants are: a source without content is refused before it is planned.
Limits ==
    /\ \E n \in Targets \cap Nat : Targets = 1..n
    /\ Size \in Nat \ {0} /\ Lengths \subseteq Nat
    /\ PartSizes \subseteq Nat \ {0} /\ PlanSizes \subseteq Nat \ {0}

-----------------------------------------------------------------------------
\* huggingface.ts:319-358: however the body is cut into pieces on its way, the
\* ETags are those of the parts of the Hub's size, the last one shorter.
EtagsFollowParts == \A t \in Targets :
    hub[t].state = "multipart" /\ t \notin hashing =>
        etags[t] = [i \in 1..Ceil(body[t], hub[t].chunk) |->
                      Interval((i - 1) * hub[t].chunk, Least(i * hub[t].chunk, body[t]))]

\* client.ts:928, "Fail before any byte moves if BeamCore did not adopt the Hub's
\* part layout": every uploaded part holds exactly the bytes of its part at the Hub.
PartsAsIssued == \A t \in Targets : \A part \in parts[t] :
    part.bytes = IF hub[t].chunk = 0 THEN Interval(0, Size)
                 ELSE Interval((part.number - 1) * hub[t].chunk, Least(part.number * hub[t].chunk, Size))

\* client.ts:890-1012: unless something was refused, the source changed, or the Hub
\* had the content before, every upload is completed with ETags that the Hub accepts.
QuietUploadCommits ==
    /\ pc = "failed" => \/ troubles > 0
                        \/ \E t \in Targets : body[t] # Size \/ hub[t].state = "stored"
    /\ pc = "closed" => committed = Targets
=============================================================================
