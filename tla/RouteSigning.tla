---------------------------- MODULE RouteSigning ----------------------------
(***************************************************************************)
(* How src/sdks/typescript/src/client.ts and provider-signing.ts make the  *)
(* signed routes of a transfer from its compact plan: the coordinates of a *)
(* chunk (materializePlanChunk), one source grant shared by the routes of  *)
(* the chunk (signSourceChunk), a URL for each destination                 *)
(* (signDestinationRoute) and the lifetime a route advertises              *)
(* (boundedGrantExpiry); and the checks of a recovery request before a     *)
(* route is signed again (startProviderRouteRecoverySigner).               *)
(*                                                                         *)
(* Time passes while a provider is asked, and an object may be replaced.   *)
(***************************************************************************)
EXTENDS Naturals, Sequences, FiniteSets

CONSTANTS
    Plans,          \* external: what BeamCore planned, a sequence of the sources' descriptors
    SourceKind,     \* [source |-> "s3", "hippius" or "huggingface"]
    DestinationKind,\* the same of the destinations, a sequence
    ChunkSize,
    MaxPart,        \* MULTIPART_MAX_PART_NUMBER, 10000
    PageSize,       \* parts on a page of ListParts, 1000
    ExpiresIn,      \* seconds a URL is signed for
    HubLife,        \* seconds a URL of the Hub is good for
    Jobs,           \* bound: chunks signed at the same time
    MaxTime, MaxTroubles    \* bounds

VARIABLES
    plan,           \* plan_descriptor.sources
    now,
    replaced,       \* sources whose object is not the planned one any more
    job,            \* [job |-> what is signed, and its source grant]
    leg,            \* [job |-> [destination |-> its URL]]
    route,          \* the route, or the pair of audit grants, that the job signed last
    delivered,      \* external: what was read through it
    troubles

vars == <<plan, now, replaced, job, leg, route, delivered, troubles>>

Sources == DOMAIN plan
Destinations == DOMAIN DestinationKind
Lesser(m, n) == IF m < n THEN m ELSE n

-----------------------------------------------------------------------------
(* The coordinates of the plan. *)

Chunks(s) == plan[s].global_chunk_start..plan[s].global_chunk_start + plan[s].chunk_count - 1

\* source_chunk_index * chunk_size, not the global index.
SourceOffset(s, g) == (g - plan[s].global_chunk_start) * ChunkSize
SizeOfChunk(s, g) == Lesser(ChunkSize, plan[s].size - SourceOffset(s, g))

DeliveryIndex(s, g, d) == g * Len(DestinationKind) + (d - 1)
PartNumber(s, g) == g - plan[s].global_chunk_start + 1
Coordinates == UNION {{s} \X Chunks(s) \X Destinations : s \in Sources}

\* multipartListPageMarkers and multipartListPageIndex of a group of `count' parts.
PageMarkers(count) == {m \in 0..count - 1 : m % PageSize = 0}
PageIndex(part) == (part - 1) \div PageSize

-----------------------------------------------------------------------------
NoJob == [state |-> "idle", kind |-> "none", source |-> 0, chunk |-> 0, offset |-> 0, size |-> 0,
          bound |-> 0, ends |-> 0, pinned |-> FALSE, says |-> 0]
NoLeg == [state |-> "none", part |-> 0, bound |-> 0, ends |-> 0, says |-> 0]
NoRoute == [source |-> 0, chunk |-> 0, destination |-> 0, part |-> 0, offset |-> 0, size |-> 0, pinned |-> FALSE,
            sourceEnds |-> 0, sourceSays |-> 0, destinationEnds |-> 0, destinationSays |-> 0]
NoRead == [source |-> 0, planned |-> TRUE]

Init ==
    /\ plan \in Plans /\ now = 0 /\ replaced = {} /\ troubles = 0
    /\ job = [j \in Jobs |-> NoJob]
    /\ leg = [j \in Jobs |-> [d \in Destinations |-> NoLeg]]
    /\ route = NoRoute /\ delivered = NoRead

Trouble == troubles < MaxTroubles /\ troubles' = troubles + 1

-----------------------------------------------------------------------------
(* What is to be signed. *)

\* expiresAtIso is taken before a provider is asked.
SourceJob(kind, s, g, offset, size) ==
    [NoJob EXCEPT !.state = "asked", !.kind = kind, !.source = s, !.chunk = g, !.offset = offset,
                  !.size = size, !.bound = now + ExpiresIn]
Asked(part) == [NoLeg EXCEPT !.state = "asked", !.part = part, !.bound = now + ExpiresIn]
Due(part) == [NoLeg EXCEPT !.state = "due", !.part = part]

\* streamPreparedRoutes: every destination's route, once its multipart group is ready.
SignChunk(j, s, g) ==
    /\ job[j].state = "idle" /\ g \in Chunks(s)
    /\ PartNumber(s, g) <= MaxPart
    /\ job' = [job EXCEPT ![j] = SourceJob("route", s, g, SourceOffset(s, g), SizeOfChunk(s, g))]
    /\ leg' = [leg EXCEPT ![j] = [d \in Destinations |-> Due(PartNumber(s, g))]]
    /\ route' = NoRoute /\ delivered' = NoRead
    /\ UNCHANGED <<plan, now, replaced, troubles>>

\* The checks of a recovery request: its own coordinates, and no others.
PartMatches(q) == q.part = PartNumber(q.source, q.chunk)
RecoveryAccepted(q) ==
    /\ q.chunk \in Chunks(q.source)
    /\ PartNumber(q.source, q.chunk) <= MaxPart /\ PartMatches(q)
    /\ q.offset = SourceOffset(q.source, q.chunk) /\ q.size = SizeOfChunk(q.source, q.chunk)
    /\ q.delivery = DeliveryIndex(q.source, q.chunk, q.destination)

Recover(j, q) ==
    /\ job[j].state = "idle" /\ RecoveryAccepted(q)
    /\ job' = [job EXCEPT ![j] = SourceJob("route", q.source, q.chunk, SourceOffset(q.source, q.chunk),
                                           SizeOfChunk(q.source, q.chunk))]
    /\ leg' = [leg EXCEPT ![j] = [d \in Destinations |-> IF d = q.destination THEN Due(q.part) ELSE NoLeg]]
    /\ route' = NoRoute /\ delivered' = NoRead
    /\ UNCHANGED <<plan, now, replaced, troubles>>

\* buildProviderIntegrityAuditGrants: a range inside a planned chunk.
InsideChunk(q) ==
    /\ q.offset >= SourceOffset(q.source, q.chunk)
    /\ q.offset + q.size <= SourceOffset(q.source, q.chunk) + SizeOfChunk(q.source, q.chunk)

Audit(j, q) ==
    /\ job[j].state = "idle" /\ q.chunk \in Chunks(q.source) /\ PartNumber(q.source, q.chunk) <= MaxPart
    /\ InsideChunk(q) /\ q.delivery = DeliveryIndex(q.source, q.chunk, q.destination)
    /\ job' = [job EXCEPT ![j] = SourceJob("audit", q.source, q.chunk, q.offset, q.size)]
    /\ leg' = [leg EXCEPT ![j] = [d \in Destinations |-> IF d = q.destination
                                    THEN Asked(PartNumber(q.source, q.chunk)) ELSE NoLeg]]
    /\ route' = NoRoute /\ delivered' = NoRead
    /\ UNCHANGED <<plan, now, replaced, troubles>>

-----------------------------------------------------------------------------
(* The providers, and the lifetime that is advertised. *)

\* boundedGrantExpiry: S3 and the Hub put the end of a URL into its query.
Visible(kind) == kind # "hippius"
BoundedGrantExpiry(kind, ends, bound) == IF Visible(kind) THEN Lesser(bound, ends) ELSE bound

\* When a URL ends: S3 signs locally, Hippius while it was asked, the Hub as it likes.
Ends(kind, bound) ==
    CASE kind = "s3" -> {now + ExpiresIn}
      [] kind = "hippius" -> bound..now + ExpiresIn
      [] kind = "huggingface" -> {now + HubLife}
\* The Hub issued its upload targets when the transfer was planned, at 0.
UploadEnds(kind, bound) == IF kind = "huggingface" THEN {HubLife} ELSE Ends(kind, bound)

\* The ETag and the version id of the plan go into the URL.
Pinned(kind) == kind = "s3"

\* Mutant: the expiry is taken when the URL has been signed.
LateBound(j) == now + ExpiresIn
SourceBound(j) == job[j].bound
SourceGrant(j) ==
    /\ job[j].state = "asked"
    /\ LET kind == SourceKind[job[j].source] IN
       \E ends \in Ends(kind, job[j].bound) :
          job' = [job EXCEPT ![j].state = "ready", ![j].ends = ends, ![j].pinned = Pinned(kind),
                             ![j].says = BoundedGrantExpiry(kind, ends, SourceBound(j))]
    /\ UNCHANGED <<plan, now, replaced, leg, route, delivered, troubles>>
SourceReady(j) == job[j].kind = "route" /\ SourceGrant(j)
AuditSourceReady(j) == job[j].kind = "audit" /\ SourceGrant(j)

AskDestination(j, d) ==
    /\ leg[j][d].state = "due"
    /\ leg' = [leg EXCEPT ![j][d] = Asked(leg[j][d].part)]
    /\ UNCHANGED <<plan, now, replaced, job, route, delivered, troubles>>

DestinationGrant(j, d, lives) ==
    /\ leg[j][d].state = "asked"
    /\ \E ends \in lives :
          leg' = [leg EXCEPT ![j][d].state = "ready", ![j][d].ends = ends,
                     ![j][d].says = BoundedGrantExpiry(DestinationKind[d], ends, leg[j][d].bound)]
    /\ UNCHANGED <<plan, now, replaced, job, route, delivered, troubles>>
DestinationReady(j, d) ==
    /\ job[j].kind = "route"
    /\ DestinationGrant(j, d, UploadEnds(DestinationKind[d], leg[j][d].bound))
\* The file that was committed is resolved again.
AuditDestinationReady(j, d) ==
    /\ job[j].kind = "audit"
    /\ DestinationGrant(j, d, Ends(DestinationKind[d], leg[j][d].bound))

\* A route has one lifetime, the shortest; the grants of an audit have their own.
Sign(j, d) ==
    /\ job[j].state = "ready" /\ leg[j][d].state = "ready"
    /\ LET both == Lesser(job[j].says, leg[j][d].says) IN
       route' = [source |-> job[j].source, chunk |-> job[j].chunk, destination |-> d, part |-> leg[j][d].part,
                 offset |-> job[j].offset, size |-> job[j].size, pinned |-> job[j].pinned,
                 sourceEnds |-> job[j].ends, destinationEnds |-> leg[j][d].ends,
                 sourceSays |-> IF job[j].kind = "audit" THEN job[j].says ELSE both,
                 destinationSays |-> IF job[j].kind = "audit" THEN leg[j][d].says ELSE both]
    /\ leg' = [leg EXCEPT ![j][d] = NoLeg]
    /\ job' = IF \A e \in Destinations \ {d} : leg[j][e].state = "none" THEN [job EXCEPT ![j] = NoJob] ELSE job
    /\ UNCHANGED <<plan, now, replaced, delivered, troubles>>

SigningFails(j) ==
    /\ job[j].state # "idle" /\ Trouble
    /\ job' = [job EXCEPT ![j] = NoJob]
    /\ leg' = [leg EXCEPT ![j] = [d \in Destinations |-> NoLeg]]
    /\ UNCHANGED <<plan, now, replaced, route, delivered>>

-----------------------------------------------------------------------------
(* The world: time, the owner of a source object, a worker. *)

Tick ==
    /\ now < MaxTime
    /\ now' = now + 1
    /\ UNCHANGED <<plan, replaced, job, leg, route, delivered, troubles>>

Overwrite(s) ==
    /\ s \notin replaced /\ Trouble
    /\ replaced' = replaced \union {s}
    /\ UNCHANGED <<plan, now, job, leg, route, delivered>>

\* If-Match and the version id: storage refuses another object.
Read ==
    /\ route.source # 0 /\ now < route.sourceEnds
    /\ route.pinned => route.source \notin replaced
    /\ delivered' = [source |-> route.source, planned |-> route.source \notin replaced]
    /\ UNCHANGED <<plan, now, replaced, job, leg, route, troubles>>

-----------------------------------------------------------------------------
\* A request of the plan, and the same with one field changed.
Planned ==
    {[source |-> c[1], chunk |-> c[2], destination |-> c[3], part |-> PartNumber(c[1], c[2]),
      delivery |-> DeliveryIndex(c[1], c[2], c[3]), offset |-> SourceOffset(c[1], c[2]),
      size |-> SizeOfChunk(c[1], c[2])] : c \in Coordinates}
Requested ==
    Planned \union UNION {{[q EXCEPT !.source = (@ % Len(plan)) + 1], [q EXCEPT !.chunk = @ + 1],
                          [q EXCEPT !.part = @ + 1], [q EXCEPT !.delivery = @ + 1],
                          [q EXCEPT !.offset = @ + 1], [q EXCEPT !.size = 1]} : q \in Planned}

Next ==
    \/ \E j \in Jobs :
          \/ \E s \in Sources : \E g \in Chunks(s) : SignChunk(j, s, g)
          \/ \E q \in Requested : Recover(j, q) \/ Audit(j, q)
          \/ SourceReady(j) \/ AuditSourceReady(j) \/ SigningFails(j)
          \/ \E d \in Destinations : \/ AskDestination(j, d) \/ DestinationReady(j, d)
                                     \/ AuditDestinationReady(j, d) \/ Sign(j, d)
    \/ \E s \in Sources : Overwrite(s)
    \/ Tick \/ Read

Spec == Init /\ [][Next]_vars

\* What the constants are: a plan is a sequence of descriptors, for providers that are known.
Kinds == {"s3", "hippius", "huggingface"}
Descriptors == [size : Nat, chunk_count : Nat, global_chunk_start : Nat]
Limits ==
    /\ {ChunkSize, PageSize} \subseteq Nat \ {0} /\ {MaxPart, ExpiresIn, HubLife} \subseteq Nat
    /\ DestinationKind \in Seq(Kinds)
    /\ \A p \in Plans : p \in Seq(Descriptors) /\ \A s \in DOMAIN p : SourceKind[s] \in Kinds

\* External: BeamCore lays the sources out one after the other, each in chunks of ChunkSize,
\* the last one shorter.
LaidOut(p) ==
    /\ p # <<>> => p[1].global_chunk_start = 0
    /\ \A s \in 1..Len(p) : p[s].chunk_count = (p[s].size + ChunkSize - 1) \div ChunkSize
    /\ \A s \in 1..Len(p) - 1 :
          p[s + 1].global_chunk_start = p[s].global_chunk_start + p[s].chunk_count

-----------------------------------------------------------------------------
\* provider-signing.ts:433, "Never advertise a renewed lifetime": while a route or a
\* grant says that it is good, both of its URLs still are, though the source grant is
\* older than the route, a Hub URL older than both, and the providers answered late.
HonestExpiry ==
    /\ now < route.sourceSays => now < route.sourceEnds
    /\ now < route.destinationSays => now < route.destinationEnds

\* client.ts:1116-1143, 1380-1402: whatever is asked, what is signed lies inside its
\* planned chunk and carries the part number and the source of that chunk.
SignedInPlace ==
    route.source # 0 =>
        /\ route.chunk \in Chunks(route.source)
        /\ route.part = route.chunk - plan[route.source].global_chunk_start + 1
        /\ \E k \in 0..plan[route.source].chunk_count - 1 :
              /\ route.part = k + 1
              /\ route.offset >= k * ChunkSize
              /\ route.offset + route.size <= Lesser((k + 1) * ChunkSize, plan[route.source].size)

\* client.ts:1912-1958: the chunks of a source cover each of its bytes once, and the
\* delivery indices of the whole plan are 0, 1, 2 ... without a gap or a repetition.
PlanTiles ==
    /\ \A s \in Sources : \A b \in 0..plan[s].size - 1 :
          Cardinality({g \in Chunks(s) : SourceOffset(s, g) <= b /\ b < SourceOffset(s, g) + SizeOfChunk(s, g)}) = 1
    /\ {DeliveryIndex(c[1], c[2], c[3]) : c \in Coordinates} = 0..Cardinality(Coordinates) - 1

\* client.ts:2283-2305: the listing pages that a group signs hold each of its parts,
\* on the page that the part's route names, and there is none without a part.
PagesHoldParts == \A count \in 1..MaxPart :
    /\ \A part \in 1..count : \E m \in PageMarkers(count) :
          m = PageIndex(part) * PageSize /\ m < part /\ part <= m + PageSize
    /\ \A m \in PageMarkers(count) : \E part \in 1..count : part > m

\* client.ts:1899-1910: a source on S3 that is overwritten meanwhile is never read in
\* place of the object that was planned.
PlannedVersionOnly ==
    delivered.source # 0 /\ SourceKind[delivered.source] = "s3" => delivered.planned
=============================================================================
