----------------------------- MODULE RelayStarts -----------------------------
(***************************************************************************)
(* runStarts of relay.ts: the relay follows the TransferRequested logs up  *)
(* to the finalized block, in ranges, and delivers each to Studio.  Its    *)
(* cursor file holds the next block to scan.  The chain and Studio are     *)
(* external: a delivery whose reply is lost may have started its run.      *)
(***************************************************************************)
EXTENDS Integers, Sequences, FiniteSetsExt

CONSTANTS
    Log,            \* the requests in chain order: their block, and whether
                    \* this deployment has a workflow for their kind
    LastBlock,      \* bound: blocks of the chain
    StartBlock,     \* settings.startBlock
    LogRangeBlocks, \* settings.logRangeBlocks
    MaxFaults       \* bound: failed calls and crashes

ASSUME BoundsAssumption ==
    /\ {StartBlock, LastBlock, MaxFaults} \subseteq Nat
    /\ StartBlock <= LastBlock /\ LogRangeBlocks \in Nat \ {0}

\* The contract logs its requests in chain order, from the start block on.
ASSUME LogAssumption ==
    /\ Log \in Seq([block : Nat, startable : BOOLEAN])
    /\ \A i, j \in DOMAIN Log : i <= j => Log[i].block <= Log[j].block
    /\ \A i \in DOMAIN Log : StartBlock <= Log[i].block

VARIABLES
    finalized, \* external: the finalized block
    runs,      \* external: the requests Studio has a run for
    refused,   \* history: the requests Studio refused
    cursor,    \* the cursor file
    pc,
    upTo,      \* the finalized block the pass goes by
    next,      \* the first block of the range
    logs,      \* the positions of what of the range is still to be delivered
    faults

vars == <<finalized, runs, refused, cursor, pc, upTo, next, logs, faults>>

Init ==
    /\ finalized = StartBlock - 1
    /\ runs = {} /\ refused = {}
    /\ cursor = StartBlock
    /\ pc = "idle" /\ upTo = 0 /\ next = 0 /\ logs = {}
    /\ faults = 0

Fault == faults < MaxFaults /\ faults' = faults + 1

EndOfRange == Min({next + LogRangeBlocks - 1, upTo})

Stop == pc' = "idle" /\ upTo' = 0 /\ next' = 0 /\ logs' = {}

StartPass ==
    /\ pc = "idle"
    /\ upTo' = finalized /\ next' = cursor
    /\ pc' = "scan"
    /\ UNCHANGED <<finalized, runs, refused, cursor, logs, faults>>

\* The logs of a range, delivered in the order of their block and log index.
ReadLogs ==
    /\ pc = "scan" /\ next <= upTo
    /\ logs' = {i \in DOMAIN Log : Log[i].block \in next..EndOfRange}
    /\ pc' = "deliver"
    /\ UNCHANGED <<finalized, runs, refused, cursor, upTo, next, faults>>

ReadFails ==
    /\ pc = "scan"
    /\ Fault /\ Stop
    /\ UNCHANGED <<finalized, runs, refused, cursor>>

\* Mutant: the latest log of the range is delivered first.
DeliverLatest ==
    /\ pc = "deliver" /\ logs # {}
    /\ LET i == Max(logs)
       IN  \/ ~Log[i].startable /\ UNCHANGED <<runs, refused>>
           \/ Log[i].startable /\ runs' = runs \cup {i} /\ UNCHANGED refused
    /\ logs' = logs \ {Max(logs)}
    /\ UNCHANGED <<finalized, cursor, pc, upTo, next, faults>>

\* A request of a kind without workflow is passed over, one that is refused too.
Deliver ==
    /\ pc = "deliver" /\ logs # {}
    /\ LET i == Min(logs)
       IN  \/ ~Log[i].startable /\ UNCHANGED <<runs, refused>>
           \/ Log[i].startable /\ runs' = runs \cup {i} /\ UNCHANGED refused
           \/ Log[i].startable /\ i \notin runs /\ refused' = refused \cup {i} /\ UNCHANGED runs
    /\ logs' = logs \ {Min(logs)}
    /\ UNCHANGED <<finalized, cursor, pc, upTo, next, faults>>

\* Mutant: the next pass begins after the block of the request.
UnavailablePassed ==
    /\ pc = "deliver" /\ logs # {} /\ Log[Min(logs)].startable
    /\ Fault /\ Stop
    /\ cursor' = Log[Min(logs)].block + 1
    /\ runs' \in {runs, runs \cup {Min(logs)}}
    /\ UNCHANGED <<finalized, refused>>

\* The pass ends, and the next one delivers again from the request's block.
Unavailable ==
    /\ pc = "deliver" /\ logs # {} /\ Log[Min(logs)].startable
    /\ Fault /\ Stop
    /\ cursor' = Log[Min(logs)].block
    /\ runs' \in {runs, runs \cup {Min(logs)}}
    /\ UNCHANGED <<finalized, refused>>

\* Mutant: the pass ends after a range without saving the cursor.
RangeForgotten ==
    /\ pc = "deliver" /\ logs = {}
    /\ Stop
    /\ UNCHANGED <<finalized, runs, refused, cursor, faults>>

RangeDone ==
    /\ pc = "deliver" /\ logs = {}
    /\ next' = EndOfRange + 1 /\ cursor' = next'
    /\ pc' = "scan"
    /\ UNCHANGED <<finalized, runs, refused, upTo, logs, faults>>

EndPass ==
    /\ pc = "scan" /\ next > upTo
    /\ Stop
    /\ UNCHANGED <<finalized, runs, refused, cursor, faults>>

Crash ==
    /\ pc # "idle"
    /\ Fault /\ Stop
    /\ UNCHANGED <<finalized, runs, refused, cursor>>

Finalize ==
    /\ finalized < LastBlock
    /\ finalized' \in (finalized + 1)..LastBlock
    /\ UNCHANGED <<runs, refused, cursor, pc, upTo, next, logs, faults>>

RelayStep ==
    \/ StartPass \/ ReadLogs \/ ReadFails \/ Deliver \/ Unavailable
    \/ RangeDone \/ EndPass

Next == RelayStep \/ Crash \/ Finalize

\* The relay's loop goes on.
Spec == Init /\ [][Next]_vars /\ WF_vars(RelayStep)

-----------------------------------------------------------------------------
(* Properties.                                                             *)

\* Types; the cursor is never past the block after the finalized one.
TypeOK ==
    /\ finalized \in (StartBlock - 1)..LastBlock
    /\ cursor \in StartBlock..(finalized + 1)
    /\ runs \subseteq DOMAIN Log /\ refused \subseteq DOMAIN Log
    /\ pc \in {"idle", "scan", "deliver"}
    /\ upTo \in -1..LastBlock /\ next \in 0..(LastBlock + 1)
    /\ logs \subseteq DOMAIN Log
    /\ faults \in 0..MaxFaults

Answered(i) == ~Log[i].startable \/ i \in runs \cup refused

\* No request is left behind the cursor: what is in a block before it was
\* accepted or refused, wherever a pass stopped or the relay crashed.
BehindCursorAnswered ==
    \A i \in DOMAIN Log : Log[i].block < cursor => Answered(i)

\* Requests reach Studio in chain order, repeated deliveries apart.
DeliveredInOrder ==
    \A i, j \in DOMAIN Log : i < j /\ j \in runs \cup refused => Answered(i)

\* Every request of a finalized block is accepted or refused: what the passes come to
\* in the end.
FinalizedAnswered ==
    \A i \in DOMAIN Log : Log[i].block <= finalized => Answered(i)

=============================================================================
