------------------------ MODULE RelayAllowlistProofs ------------------------
(***************************************************************************)
(* Proofs about RelayAllowlist, for any addresses and any number of lost   *)
(* calls, crashes and transactions on their way: types, and that what the  *)
(* registry shows of the contract is so, but for a removal.                *)
(*                                                                         *)
(* A decision of Beam is never taken back, so what the pass read of it may *)
(* be old but not wrong.  The invariant says what that makes of the        *)
(* transactions that are on their way and of the change the pass is at.    *)
(***************************************************************************)
EXTENDS RelayAllowlist, TLAPS

\* The pass has a snapshot, and a change when it waits for or reports one.
PassInStep ==
    /\ pc # "idle" => registry # None
    /\ pc \in {"wait", "report"} <=> doing # None

\* What the pass read as revoked is revoked, and it allows only what it read as
\* approved and removes only what it read as revoked.
ReadSound ==
    /\ registry # None => \A a \in Addresses :
          registry.status[a] = "REVOKED" => status[a] = "REVOKED"
    /\ doing # None =>
          registry.status[doing.address] = IF doing.allowed THEN "APPROVED" ELSE "REVOKED"

\* Only a revoked address is on its way off the contract.
RemovalsRevoked ==
    \A i \in DOMAIN sent : ~sent[i].allowed => status[sent[i].address] = "REVOKED"

\* The change the pass is at is the last one sent, until it is mined and in force.
ChangeTracked ==
    doing # None =>
        IF sent = <<>> THEN doing.allowed <=> doing.address \in requesters
        ELSE pc = "wait" /\ sent[Len(sent)] = doing

\* An address shown as removed is revoked and not on its way onto the contract,
\* nor will this pass send it there.
RemovedForGood ==
    \A a \in Addresses : allowlist[a] = "REMOVED" =>
        /\ status[a] = "REVOKED"
        /\ \A i \in DOMAIN sent : sent[i].address = a => ~sent[i].allowed
        /\ registry # None /\ a \in left => registry.status[a] # "APPROVED"

AInv ==
    /\ TypeOK /\ PassInStep /\ ReadSound /\ RemovalsRevoked /\ ChangeTracked
    /\ RemovedForGood /\ RegistryFollows

-----------------------------------------------------------------------------
\* The invariant holds at the beginning.
LEMMA AInvInit == Limits /\ Init => AInv
<1> SUFFICES ASSUME Limits, Init PROVE AInv  OBVIOUS
<1> USE DEF Limits
<1>1. TypeOK
  BY DEF Init, TypeOK, Statuses, Reports
<1>2. sent = <<>> /\ doing = None /\ registry = None /\ pc = "idle"
  BY DEF Init
<1>3. \A a \in Addresses : allowlist[a] = "NONE"
  BY DEF Init
<1>4. QED
  BY <1>1, <1>2, <1>3 DEF AInv, PassInStep, ReadSound, RemovalsRevoked, ChangeTracked,
     RemovedForGood, RegistryFollows

\* What a sent change is made of, for the steps that leave the queue alone.
LEMMA SentChanges ==
    ASSUME TypeOK
    PROVE  \A i \in DOMAIN sent : sent[i] \in Changes
BY DEF TypeOK

\* StartPass keeps the invariant.
LEMMA StartPassKeeps == Limits /\ AInv /\ StartPass => AInv'
<1> SUFFICES ASSUME Limits, AInv, StartPass PROVE AInv'  OBVIOUS
<1> USE DEF Limits, AInv, StartPass, world
<1>1. registry' \in Snapshots /\ doing' = None /\ doing = None
  BY DEF TypeOK, Snapshots, PassInStep
<1>2. TypeOK'  BY <1>1 DEF TypeOK
<1>3. registry'.status = status /\ registry'.allowlist = allowlist  OBVIOUS
<1>4. PassInStep' /\ ReadSound' /\ RemovalsRevoked' /\ ChangeTracked'
  BY <1>1, <1>3 DEF PassInStep, ReadSound, RemovalsRevoked, ChangeTracked
<1>5. RemovedForGood' /\ RegistryFollows'
  BY <1>1, <1>3 DEF RemovedForGood, RegistryFollows
<1>6. QED BY <1>2, <1>4, <1>5

\* A step that only shortens the list of what is left to send.
LEMMA LooksAway ==
    ASSUME Limits, AInv, UNCHANGED <<requesters, world, sent, registry, doing, pc>>,
           left' \subseteq left, faults' \in 0..MaxFaults
    PROVE  AInv'
<1> USE DEF Limits, AInv, world
<1>1. TypeOK' /\ PassInStep' /\ ReadSound' /\ RemovalsRevoked'
  BY DEF TypeOK, PassInStep, ReadSound, RemovalsRevoked
<1>2. ChangeTracked' /\ RemovedForGood' /\ RegistryFollows'
  BY DEF ChangeTracked, RemovedForGood, RegistryFollows
<1>3. QED BY <1>1, <1>2

\* Send keeps the invariant.
LEMMA SendKeeps == ASSUME Limits, AInv, NEW a \in Addresses, Send(a) PROVE AInv'
<1> USE DEF Limits, AInv, world
<1>1. /\ registry \in Snapshots /\ doing = None /\ sent \in Seq(Changes)
      /\ a \in left /\ pc' = "wait" /\ left' = left \ {a}
      /\ UNCHANGED <<requesters, status, allowlist, registry, faults>>
  BY DEF Send, TypeOK, PassInStep
<1>2. PICK c : /\ c = [address |-> a, allowed |-> ToAllow(a)]
               /\ doing' = c /\ sent' = Append(sent, c)
  BY DEF Send
<1>3. /\ registry.status[a] = IF c.allowed THEN "APPROVED" ELSE "REVOKED"
      /\ c \in Changes /\ c.address = a
  BY <1>1, <1>2 DEF Send, ToAllow, ToRemove, Changes
<1>4. Len(sent') = Len(sent) + 1 /\ Len(sent') <= MaxSent /\ sent' \in Seq(Changes)
  BY <1>1, <1>2, <1>3 DEF Send, TypeOK
<1>5. /\ DOMAIN sent' = DOMAIN sent \cup {Len(sent')} /\ sent'[Len(sent')] = c
      /\ \A i \in DOMAIN sent : sent'[i] = sent[i]
      /\ sent' # <<>>
  BY <1>1, <1>2, <1>3, <1>4
<1>6. TypeOK'  BY <1>1, <1>2, <1>3, <1>4 DEF TypeOK
<1>7. PassInStep' /\ ReadSound' /\ ChangeTracked'
  BY <1>1, <1>2, <1>3, <1>5 DEF PassInStep, ReadSound, ChangeTracked
<1>8. RemovalsRevoked'
  <2> SUFFICES ASSUME NEW i \in DOMAIN sent', ~sent'[i].allowed
               PROVE  status[sent'[i].address] = "REVOKED"
    BY <1>1 DEF RemovalsRevoked
  <2>1. CASE i \in DOMAIN sent  BY <1>5, <2>1 DEF RemovalsRevoked
  <2>2. CASE i = Len(sent')  BY <1>1, <1>3, <1>5, <2>2 DEF ReadSound
  <2>3. QED BY <1>5, <2>1, <2>2
<1>9. RemovedForGood'
  <2> SUFFICES ASSUME NEW b \in Addresses, allowlist[b] = "REMOVED"
               PROVE  /\ status[b] = "REVOKED"
                      /\ \A i \in DOMAIN sent' : sent'[i].address = b => ~sent'[i].allowed
                      /\ b \in left' => registry.status[b] # "APPROVED"
    BY <1>1 DEF RemovedForGood
  <2>1. /\ status[b] = "REVOKED" /\ (b \in left => registry.status[b] # "APPROVED")
        /\ \A i \in DOMAIN sent : sent[i].address = b => ~sent[i].allowed
    BY <1>1 DEF RemovedForGood
  <2>2. c.address = b => ~c.allowed  BY <1>1, <1>3, <2>1
  <2>3. QED BY <1>1, <1>5, <2>1, <2>2
<1>10. RegistryFollows'  BY <1>1 DEF RegistryFollows
<1>11. QED BY <1>6, <1>7, <1>8, <1>9, <1>10

\* Waited keeps the invariant.
LEMMA WaitedKeeps == Limits /\ AInv /\ Waited => AInv'
<1> SUFFICES ASSUME Limits, AInv, Waited PROVE AInv'  OBVIOUS
<1> USE DEF Limits, AInv, Waited, world
<1>1. TypeOK' /\ PassInStep' /\ ReadSound' /\ RemovalsRevoked'
  BY DEF TypeOK, PassInStep, ReadSound, RemovalsRevoked
<1>2. ChangeTracked' /\ RemovedForGood' /\ RegistryFollows'
  BY DEF ChangeTracked, RemovedForGood, RegistryFollows
<1>3. QED BY <1>1, <1>2

\* WaitFails keeps the invariant.
LEMMA WaitFailsKeeps == Limits /\ AInv /\ WaitFails => AInv'
<1> SUFFICES ASSUME Limits, AInv, WaitFails PROVE AInv'  OBVIOUS
<1> USE DEF Limits, AInv, WaitFails, Fault, world
<1>1. TypeOK' /\ PassInStep' /\ ReadSound' /\ RemovalsRevoked'
  BY DEF TypeOK, PassInStep, ReadSound, RemovalsRevoked
<1>2. ChangeTracked' /\ RemovedForGood' /\ RegistryFollows'
  BY DEF ChangeTracked, RemovedForGood, RegistryFollows
<1>3. QED BY <1>1, <1>2

\* A report follows a transaction that is in force, with nothing left on its way.
LEMMA ReportKeeps == Limits /\ AInv /\ Report => AInv'
<1> SUFFICES ASSUME Limits, AInv, Report PROVE AInv'  OBVIOUS
<1> USE DEF Limits, AInv
<1>1. /\ pc = "report" /\ pc' = "next" /\ doing' = None /\ faults' \in 0..MaxFaults
      /\ UNCHANGED <<requesters, status, sent, registry, left>>
  BY DEF Report, Fault, TypeOK
<1>2. doing \in Changes /\ sent = <<>> /\ (doing.allowed <=> doing.address \in requesters)
  BY <1>1 DEF PassInStep, ChangeTracked, TypeOK
<1>3. doing.address \in Addresses /\ doing.allowed \in BOOLEAN  BY <1>2 DEF Changes
<1>4. PICK now : /\ now = IF doing.allowed THEN "ALLOWED" ELSE "REMOVED"
                 /\ \/ allowlist' = [allowlist EXCEPT ![doing.address] = now]
                    \/ allowlist' = allowlist
  BY DEF Report
<1>5. allowlist' \in Reports
  BY <1>3, <1>4 DEF TypeOK, Reports
<1>6. \A a \in Addresses : allowlist'[a] = allowlist[a] \/ (a = doing.address /\ allowlist'[a] = now)
  BY <1>3, <1>4 DEF TypeOK, Reports
<1>7. TypeOK'  BY <1>1, <1>5 DEF TypeOK
<1>8. PassInStep' /\ ReadSound' /\ RemovalsRevoked' /\ ChangeTracked'
  BY <1>1, <1>2 DEF PassInStep, ReadSound, RemovalsRevoked, ChangeTracked
<1>9. registry # None  BY <1>1 DEF PassInStep
<1>10. ~doing.allowed => /\ registry.status[doing.address] = "REVOKED"
                         /\ status[doing.address] = "REVOKED"
  BY <1>2, <1>3, <1>9 DEF ReadSound
<1>11. RemovedForGood'
  <2> SUFFICES ASSUME NEW a \in Addresses, allowlist'[a] = "REMOVED"
               PROVE  /\ status[a] = "REVOKED"
                      /\ a \in left => registry.status[a] # "APPROVED"
    BY <1>1, <1>2 DEF RemovedForGood
  <2>1. CASE allowlist'[a] = allowlist[a]  BY <1>9, <2>1 DEF RemovedForGood
  <2>2. CASE a = doing.address /\ allowlist'[a] = now  BY <1>4, <1>10, <2>2
  <2>3. QED BY <1>6, <2>1, <2>2
<1>12. RegistryFollows'
  <2> SUFFICES ASSUME NEW a \in Addresses
               PROVE  /\ allowlist'[a] = "REMOVED" => a \notin requesters
                      /\ allowlist'[a] = "ALLOWED" => a \in requesters \/ status[a] = "REVOKED"
    BY <1>1 DEF RegistryFollows
  <2>1. CASE allowlist'[a] = allowlist[a]  BY <2>1 DEF RegistryFollows
  <2>2. CASE a = doing.address /\ allowlist'[a] = now  BY <1>2, <1>4, <2>2
  <2>3. QED BY <1>6, <2>1, <2>2
<1>13. QED BY <1>7, <1>8, <1>11, <1>12

\* A pass ends, or the relay does.
LEMMA PassEnds ==
    ASSUME Limits, AInv, EndPass \/ Crash
    PROVE  AInv'
<1> USE DEF Limits, AInv, world
<1>1. /\ UNCHANGED <<requesters, status, allowlist, sent>>
      /\ pc' = "idle" /\ registry' = None /\ left' \subseteq left /\ doing' = None
      /\ faults' \in 0..MaxFaults
  BY DEF EndPass, Crash, Fault, TypeOK, PassInStep
<1>2. TypeOK' /\ PassInStep' /\ ReadSound' /\ RemovalsRevoked'
  BY <1>1 DEF TypeOK, PassInStep, ReadSound, RemovalsRevoked
<1>3. ChangeTracked' /\ RemovedForGood' /\ RegistryFollows'
  BY <1>1 DEF ChangeTracked, RemovedForGood, RegistryFollows
<1>4. QED BY <1>2, <1>3

\* A removal takes only a revoked address off the contract, and nothing puts one
\* back that is shown as removed.
LEMMA MineKeeps == Limits /\ AInv /\ Mine => AInv'
<1> SUFFICES ASSUME Limits, AInv, Mine PROVE AInv'  OBVIOUS
<1> USE DEF Limits, AInv
<1>1. /\ sent # <<>> /\ sent \in Seq(Changes) /\ sent' = Tail(sent)
      /\ UNCHANGED <<status, allowlist, registry, left, doing, pc, faults>>
  BY DEF Mine, TypeOK, world, pass
<1>2. requesters' = IF sent[1].allowed THEN requesters \cup {sent[1].address}
                    ELSE requesters \ {sent[1].address}
  <2>1. sent[1] = Head(sent)  BY <1>1
  <2>2. QED BY <2>1 DEF Mine, Contract!SetRequester
<1>3. sent[1] \in Changes  BY <1>1
<1>4. sent[1].address \in Addresses /\ sent[1].allowed \in BOOLEAN  BY <1>3 DEF Changes
<1>5. /\ sent' \in Seq(Changes) /\ Len(sent') = Len(sent) - 1
      /\ \A i \in DOMAIN sent' : i + 1 \in DOMAIN sent /\ sent'[i] = sent[i + 1]
      /\ 1 \in DOMAIN sent
  BY <1>1
<1>6. TypeOK'  BY <1>1, <1>2, <1>4, <1>5 DEF TypeOK
<1>7. PassInStep' /\ ReadSound' /\ RemovalsRevoked'
  BY <1>1, <1>5 DEF PassInStep, ReadSound, RemovalsRevoked
<1>8. ChangeTracked'
  <2> SUFFICES ASSUME doing # None
               PROVE  IF sent' = <<>> THEN doing.allowed <=> doing.address \in requesters'
                      ELSE pc = "wait" /\ sent'[Len(sent')] = doing
    BY <1>1 DEF ChangeTracked
  <2>1. pc = "wait" /\ sent[Len(sent)] = doing  BY <1>1 DEF ChangeTracked
  <2>2. CASE sent' = <<>>
    <3>1. Len(sent) \in Nat  BY <1>1
    <3>2. Len(sent') = 0  BY <2>2
    <3>3. Len(sent) = 1  BY <1>5, <3>1, <3>2
    <3>4. sent[1] = doing  BY <2>1, <3>3
    <3>5. QED BY <1>2, <1>4, <2>2, <3>4
  <2>3. CASE sent' # <<>>  BY <1>1, <1>5, <2>1, <2>3
  <2>4. QED BY <2>2, <2>3
<1>9. RemovedForGood'
  <2> SUFFICES ASSUME NEW a \in Addresses, allowlist[a] = "REMOVED"
               PROVE  /\ status[a] = "REVOKED"
                      /\ \A i \in DOMAIN sent' : sent'[i].address = a => ~sent'[i].allowed
                      /\ registry # None /\ a \in left => registry.status[a] # "APPROVED"
    BY <1>1 DEF RemovedForGood
  <2>1. QED BY <1>5 DEF RemovedForGood
<1>10. RegistryFollows'
  <2> SUFFICES ASSUME NEW a \in Addresses
               PROVE  /\ allowlist[a] = "REMOVED" => a \notin requesters'
                      /\ allowlist[a] = "ALLOWED" => a \in requesters' \/ status[a] = "REVOKED"
    BY <1>1 DEF RegistryFollows
  <2>1. allowlist[a] = "REMOVED" /\ sent[1].address = a => ~sent[1].allowed
    BY <1>5 DEF RemovedForGood
  <2>2. ~sent[1].allowed => status[sent[1].address] = "REVOKED"
    BY <1>5 DEF RemovalsRevoked
  <2>3. QED BY <1>2, <2>1, <2>2 DEF RegistryFollows
<1>11. QED BY <1>6, <1>7, <1>8, <1>9, <1>10

\* A decision only ever moves on, and a revocation stays.
LEMMA DecideKeeps == ASSUME Limits, AInv, NEW a \in Addresses, Decide(a) PROVE AInv'
<1> USE DEF Limits, AInv
<1>1. UNCHANGED <<requesters, allowlist, sent, registry, left, doing, pc, faults>>
  BY DEF Decide, pass
<1>2. /\ status' \in Statuses
      /\ \A b \in Addresses : status[b] = "REVOKED" => status'[b] = "REVOKED"
  BY DEF Decide, TypeOK, Statuses
<1>3. \A i \in DOMAIN sent : sent[i].address \in Addresses
  BY SentChanges DEF Changes
<1>4. TypeOK' /\ PassInStep' /\ ReadSound' /\ RemovalsRevoked'
  BY <1>1, <1>2, <1>3 DEF TypeOK, PassInStep, ReadSound, RemovalsRevoked
<1>5. ChangeTracked' /\ RemovedForGood' /\ RegistryFollows'
  BY <1>1, <1>2 DEF ChangeTracked, RemovedForGood, RegistryFollows
<1>6. QED BY <1>4, <1>5

\* Every step keeps the invariant.
LEMMA AInvNext == Limits /\ AInv /\ [Next]_vars => AInv'
<1> SUFFICES ASSUME Limits, AInv, [Next]_vars PROVE AInv'  OBVIOUS
<1>1. CASE StartPass  BY <1>1, StartPassKeeps
<1>2. ASSUME NEW a \in Addresses, Skip(a) \/ SendFails(a) PROVE AInv'
  <2>1. /\ UNCHANGED <<requesters, world, sent, registry, doing, pc>>
        /\ left' \subseteq left /\ faults' \in 0..MaxFaults
    BY <1>2 DEF Skip, SendFails, Fault, AInv, TypeOK, Limits
  <2>2. QED BY <2>1, LooksAway
<1>3. ASSUME NEW a \in Addresses, Send(a) PROVE AInv'  BY <1>3, SendKeeps
<1>4. CASE Waited  BY <1>4, WaitedKeeps
<1>5. CASE WaitFails  BY <1>5, WaitFailsKeeps
<1>6. CASE Report  BY <1>6, ReportKeeps
<1>7. CASE EndPass \/ Crash  BY <1>7, PassEnds
<1>8. CASE Mine  BY <1>8, MineKeeps
<1>9. ASSUME NEW a \in Addresses, Decide(a) PROVE AInv'  BY <1>9, DecideKeeps
<1>10. CASE UNCHANGED vars
  BY <1>10, LooksAway DEF vars, pass, AInv, TypeOK
<1>11. QED
  BY <1>1, <1>2, <1>3, <1>4, <1>5, <1>6, <1>7, <1>8, <1>9, <1>10 DEF Next, RelayStep

-----------------------------------------------------------------------------
\* The strengthening that the theorems below follow from.
THEOREM AllowlistInductive == ASSUME Limits PROVE Spec => []AInv
<1>1. Init => AInv  BY AInvInit
<1>2. AInv /\ [Next]_vars => AInv'  BY AInvNext
<1>3. QED BY <1>1, <1>2, PTL DEF Spec

\* Types (the variables of syncAllowlist and of what it talks to), in every
\* reachable state.
THEOREM TypeCorrect == ASSUME Limits PROVE Spec => []TypeOK
<1>1. Spec => []AInv  BY AllowlistInductive
<1>2. AInv => TypeOK  BY DEF AInv
<1>3. QED BY <1>1, <1>2, PTL

\* What reportAllowlist has told the registry of the contract is so, but for a
\* removal, whatever calls are lost and however late a transaction is mined.
THEOREM RegistrySound == ASSUME Limits PROVE Spec => []RegistryFollows
<1>1. Spec => []AInv  BY AllowlistInductive
<1>2. AInv => RegistryFollows  BY DEF AInv
<1>3. QED BY <1>1, <1>2, PTL

=============================================================================
