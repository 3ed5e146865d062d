---------------------- MODULE FleetIngestHistory_proofs ----------------------
(***************************************************************************)
(* Proofs about FleetIngestHistory: a machine's drift events and asset     *)
(* count, and a tenant's snapshot, agree with the rows unless one of the   *)
(* interferences it names has come between the statements that write them. *)
(***************************************************************************)
EXTENDS FleetIngestHistory, FleetIngest_proofs

USE DEF db, locals

-----------------------------------------------------------------------------
(* The history variables only watch.                                       *)

LEMMA HistoryRefines ==
    /\ HInit => Init
    /\ [HNext]_hvars => [Next]_vars
BY DEF HInit, HNext, hvars

\* So whatever is proved of the ingestion holds with the history variables.
LEMMA HistoryWatches == HSpec => Spec
BY HistoryRefines, PTL DEF HSpec, Spec

LEMMA HistoryTypes == HSpec => []TypeOK
BY HistoryWatches, TypeCorrect

-----------------------------------------------------------------------------
(* A step of one handler, seen from machine i: it is not about i, it takes  *)
(* the handler into the sync of i, or it is a statement of that sync.      *)

Elsewhere(r, i) ==
    /\ r \notin Syncing(i) /\ r \notin Syncing(i)'
    /\ assets'[i] = assets[i]
    /\ drift'[i] = drift[i]
    /\ machines'[i] = machines[i]

Enters(r, i) ==
    /\ r \notin Syncing(i) /\ r \in Syncing(i)'
    /\ pc[r] = "upsert" /\ pc'[r] = "baseline" /\ mid[r] = i
    /\ machines' = [machines EXCEPT ![i] = Upserted(r)]
    /\ UNCHANGED <<assets, drift, locals>>

Continues(r, i) ==
    /\ r \in Syncing(i)
    /\ \/ ReadBaseline(r) \/ Lock(r) \/ Purge(r) \/ RecordDrift(r) \/ Ends(r)
       \/ InsertAndCommit(r) /\ ~Finish(r)

LEMMA MachineStep ==
    ASSUME TypeOK, NEW r \in Slots, NEW i \in Ids,
           Authenticates(r) \/ Statement(r) \/ Ends(r)
    PROVE  /\ Elsewhere(r, i) \/ Enters(r, i) \/ Continues(r, i)
           /\ UNCHANGED adm
<1>1. CASE Authenticates(r)
  BY <1>1 DEF Authenticates, AuthToken, AuthLicense, Goto, TypeOK, Elsewhere,
     Syncing
<1>2. CASE Ends(r)
  <2>1. pc'[r] = "idle"
    BY <1>2 DEF Ends, Finish, Goto, TypeOK
  <2> QED
    BY <1>2, <2>1 DEF Ends, Elsewhere, Continues, Syncing
<1>3. CASE Upsert(r) /\ ~Ends(r)
  <2>1. /\ pc'[r] = "baseline"
        /\ machines' = [machines EXCEPT ![mid[r]] = Upserted(r)]
        /\ UNCHANGED <<assets, drift, locals, adm>>
    BY <1>3 DEF Upsert, Ends, Goto, TypeOK
  <2>2. CASE mid[r] = i
    BY <1>3, <2>1, <2>2 DEF Enters, Syncing, Upsert
  <2>3. CASE mid[r] # i
    BY <2>1, <2>3 DEF Elsewhere, Syncing, TypeOK
  <2> QED  BY <2>1, <2>2, <2>3
<1>4. CASE InsertAndCommit(r) /\ ~Ends(r)
  <2>1. ~Finish(r) /\ UNCHANGED <<machines, drift, adm, mid>>
    BY <1>4 DEF InsertAndCommit, Ends, Finish, Goto, TypeOK
  <2>2. CASE mid[r] = i
    BY <1>4, <2>1, <2>2 DEF Continues, Syncing, InsertAndCommit
  <2>3. CASE mid[r] # i
    BY <1>4, <2>1, <2>3 DEF Elsewhere, Syncing, InsertAndCommit, TypeOK
  <2> QED  BY <2>1, <2>2, <2>3
<1>5. CASE ReadBaseline(r) \/ Lock(r) \/ Purge(r)
  <2>1. UNCHANGED <<machines, assets, drift, adm, mid>>
    BY <1>5 DEF ReadBaseline, Lock, Purge
  <2>2. CASE mid[r] = i
    BY <1>5, <2>1, <2>2 DEF Continues, Syncing, ReadBaseline, Lock, Purge
  <2>3. CASE mid[r] # i
    BY <2>1, <2>3 DEF Elsewhere, Syncing
  <2> QED  BY <2>1, <2>2, <2>3
<1>6. CASE RecordDrift(r)
  <2>1. UNCHANGED <<machines, assets, adm, mid>>
    BY <1>6 DEF RecordDrift
  <2>2. CASE mid[r] = i
    BY <1>6, <2>1, <2>2 DEF Continues, Syncing, RecordDrift
  <2>3. CASE mid[r] # i
    BY <1>6, <2>1, <2>3 DEF Elsewhere, Syncing, RecordDrift, TypeOK
  <2> QED  BY <2>1, <2>2, <2>3
<1>7. CASE /\ \/ PickTenantToken(r) \/ Lookup(r) \/ Adopt(r) \/ ReadLimit(r)
              \/ CountSeats(r) \/ ChooseId(r) \/ Aggregate(r) \/ WriteSnapshot(r)
           /\ ~Ends(r)
  BY <1>7 DEF PickTenantToken, Lookup, Adopt, ReadLimit, CountSeats, ChooseId,
     Aggregate, WriteSnapshot, Ends, Finish, Goto, TypeOK, Elsewhere, Syncing
<1> QED
  BY <1>1, <1>2, <1>3, <1>4, <1>5, <1>6, <1>7 DEF Statement

\* What an administrator does to a machine he is not deleting.
LEMMA AdminElsewhere ==
    ASSUME TypeOK, Admin \/ UNCHANGED vars, NEW i \in Ids, adm # i, adm' # i
    PROVE  /\ assets'[i] = assets[i]
           /\ drift'[i] = drift[i]
           /\ machines'[i] = machines[i]
           /\ Syncing(i)' = Syncing(i)
<1>1. assets'[i] = assets[i] /\ drift' = drift /\ machines'[i] = machines[i]
  BY DEF vars, Admin, IssueToken, DeleteToken, RevokeLicense, ReactivateLicense,
     ExpireLicense, SetLicense, DeleteMachineAssets, DeleteMachineRow, TypeOK
<1> QED
  BY <1>1, AdminKeepsHandlers DEF Syncing

LEMMA OthersSync ==
    ASSUME NEW r \in Slots, Kept(r), NEW i
    PROVE  \A s \in Slots \ {r} : s \in Syncing(i)' <=> s \in Syncing(i)
BY DEF Kept, Syncing

-----------------------------------------------------------------------------
(***************************************************************************)
(* Drift events.  The events of a machine that nothing has interfered with *)
(* are right about its inventory while it is not being synced, and about   *)
(* the baseline from the moment the baseline is read: only the sync itself *)
(* changes the inventory before it writes the events.                      *)
(***************************************************************************)

\* The events of machine i are right about inventory A, and there is none while
\* A is empty.
Agrees(i, A) ==
    /\ \A a \in Assets : /\ drift[i][a] = "added"   => a \in A
                         /\ drift[i][a] = "removed" => a \notin A
    /\ A = {} => \A a \in Assets : drift[i][a] = "none"

DriftAt(r, i) ==
    /\ pc[r] = "baseline" => Agrees(i, Inventory(i))
    /\ pc[r] \in {"lock", "purge", "insert"} =>
          base[r] = Inventory(i) /\ Agrees(i, base[r])
    /\ pc[r] = "insert" => del[r] = assets[i]
    /\ pc[r] = "drift" => /\ Inventory(i) = rep[r].assets
                          /\ Agrees(i, base[r])
                          /\ rep[r].assets = {} => base[r] = {}

OneSync(i) ==
    /\ \A r, s \in Syncing(i) : r = s
    /\ adm # i

DriftOf(i) ==
    /\ OneSync(i)
    /\ Syncing(i) = {} => Agrees(i, Inventory(i))
    /\ \A r \in Syncing(i) : DriftAt(r, i)

DriftInv == \A i \in Ids \ unlogged : DriftOf(i)

\* The rows of a payload have the report's fingerprints.
LEMMA PayloadFingerprints ==
    ASSUME NEW S, NEW t
    PROVE  {p[1] : p \in S \X {t}} = S
<1>1. ASSUME NEW a \in S  PROVE a \in {p[1] : p \in S \X {t}}
  <2>1. <<a, t>> \in S \X {t} /\ <<a, t>>[1] = a
    OBVIOUS
  <2> QED  BY <2>1
<1> QED
  BY <1>1

\* A machine that stays untouched was untouched, and no rule names it.
LEMMA DriftUntouched ==
    ASSUME HNext, NEW i \in Ids, i \notin unlogged'
    PROVE  i \notin unlogged /\ ~Unlogged(i) /\ OneSync(i)'
BY DEF HNext, Record, Unlogged, Crossed, OneSync

\* What a sync's own statements do.
LEMMA DriftContinues ==
    ASSUME TypeOK, TypeOK', NEW i \in Ids, NEW r \in Slots, DriftOf(i),
           Continues(r, i), Kept(r), ~Unlogged(i)
    PROVE  DriftOf(i)' \/ ~OneSync(i)'
<1> SUFFICES ASSUME OneSync(i)'  PROVE DriftOf(i)'
  OBVIOUS
<1>1. /\ r \in Syncing(i) /\ Syncing(i) = {r} /\ mid[r] = i /\ DriftAt(r, i)
      /\ \A s \in Syncing(i)' : s = r
  BY OthersSync DEF Continues, DriftOf, OneSync, Syncing
<1>2. CASE Ends(r)
  <2>1. pc'[r] = "idle" /\ UNCHANGED <<assets, drift>>
    BY <1>2 DEF Ends, Finish, Goto, TypeOK
  <2>2. Syncing(i)' = {}
    BY <1>1, <2>1 DEF Syncing
  <2>3. pc[r] \in {"baseline", "lock", "purge", "insert"}
    BY <1>1, <2>1 DEF Unlogged, Syncing
  <2>4. Agrees(i, Inventory(i))
    BY <1>1, <2>3 DEF DriftAt
  <2>5. Agrees(i, Inventory(i))'
    BY <2>1, <2>4 DEF Agrees, Inventory
  <2> QED  BY <2>2, <2>5 DEF DriftOf
<1>3. CASE ReadBaseline(r) \/ Lock(r) \/ Purge(r)
  <2>1. UNCHANGED <<assets, drift, mid, rep>>
    BY <1>3 DEF ReadBaseline, Lock, Purge
  <2>2. r \in Syncing(i)' /\ Syncing(i)' # {}
    BY <1>1, <1>3 DEF Syncing, ReadBaseline, Lock, Purge, Goto, TypeOK
  <2>3. pc'[r] \in {"lock", "purge", "insert"}
    BY <1>3 DEF ReadBaseline, Lock, Purge, Goto, TypeOK
  <2>4. base'[r] = Inventory(i) /\ Agrees(i, Inventory(i))
    BY <1>1, <1>3 DEF ReadBaseline, Lock, Purge, DriftAt, Inventory, TypeOK
  <2>5. Inventory(i)' = Inventory(i) /\ Agrees(i, base[r])'
    BY <2>1, <2>4 DEF Agrees, Inventory
  <2>6. pc'[r] = "insert" => del'[r] = assets'[i]
    BY <1>1, <1>3 DEF ReadBaseline, Lock, Purge, Goto, TypeOK
  <2>7. DriftAt(r, i)'
    BY <2>3, <2>4, <2>5, <2>6 DEF DriftAt
  <2> QED  BY <1>1, <2>2, <2>7 DEF DriftOf
<1>4. CASE InsertAndCommit(r) /\ ~Finish(r)
  <2>1. /\ assets' = [assets EXCEPT ![i] = (@ \ del[r]) \cup Payload(r)]
        /\ UNCHANGED <<drift, mid, rep, base>>
        /\ pc[r] = "insert" /\ pc'[r] = "drift"
    BY <1>1, <1>4 DEF InsertAndCommit, Goto, TypeOK
  <2>2. assets'[i] = Payload(r)
    BY <1>1, <2>1 DEF DriftAt, TypeOK
  <2>3. assets'[i] = Payload(r)'
    BY <2>1, <2>2 DEF Payload, TenantOf
  <2>4. Inventory(i)' = rep'[r].assets
    <3>1. Inventory(i)' = {p[1] : p \in rep'[r].assets \X {TenantOf(r)'}}
      BY <2>3 DEF Inventory, Payload
    <3> QED  BY <3>1, PayloadFingerprints
  <2>5. rep[r].assets = {} => base[r] = {}
    BY <1>1, <2>1 DEF Unlogged
  <2>6. Agrees(i, base[r])'
    BY <1>1, <2>1 DEF DriftAt, Agrees
  <2>7. DriftAt(r, i)'
    BY <2>1, <2>4, <2>5, <2>6 DEF DriftAt
  <2>8. r \in Syncing(i)'
    BY <1>1, <2>1 DEF Syncing
  <2> QED  BY <1>1, <2>7, <2>8 DEF DriftOf
<1>5. CASE RecordDrift(r)
  <2>1. /\ drift' = [drift EXCEPT ![i] = DriftAfter(r)]
        /\ UNCHANGED <<assets, mid, rep, base>>
        /\ pc[r] = "drift" /\ pc'[r] = "agg"
    BY <1>1, <1>5 DEF RecordDrift, Goto, TypeOK
  <2>2. Syncing(i)' = {}
    BY <1>1, <2>1 DEF Syncing
  <2>3. /\ Inventory(i) = rep[r].assets /\ Agrees(i, base[r])
        /\ rep[r].assets = {} => base[r] = {}
    BY <1>1, <2>1 DEF DriftAt
  <2>4. Inventory(i)' = rep[r].assets
    BY <2>1, <2>3 DEF Inventory
  <2>5. \A a \in Assets : drift'[i][a] = DriftAfter(r)[a]
    BY <2>1 DEF TypeOK
  <2>6. Agrees(i, Inventory(i))'
    <3>1. CASE base[r] = {}
      BY <1>1, <2>3, <2>4, <2>5, <3>1 DEF Agrees, DriftAfter
    <3>2. CASE base[r] # {}
      <4>1. rep[r].assets # {}
        BY <2>3, <3>2
      <4>2. \A a \in Assets :
               /\ DriftAfter(r)[a] = "added"   => a \in rep[r].assets
               /\ DriftAfter(r)[a] = "removed" => a \notin rep[r].assets
        BY <1>1, <2>3, <3>2 DEF DriftAfter, Agrees
      <4> QED  BY <2>4, <2>5, <4>1, <4>2 DEF Agrees
    <3> QED  BY <3>1, <3>2
  <2> QED  BY <2>2, <2>6 DEF DriftOf
<1> QED
  BY <1>2, <1>3, <1>4, <1>5 DEF Continues

LEMMA DriftStep ==
    ASSUME TypeOK, TypeOK', DriftInv, HNext
    PROVE  DriftInv'
<1> SUFFICES ASSUME NEW i \in Ids, i \notin unlogged'  PROVE DriftOf(i)'
  BY DEF DriftInv
<1>1. DriftOf(i) /\ ~Unlogged(i) /\ OneSync(i)'
  BY DriftUntouched DEF DriftInv
<1>2. CASE Admin
  <2>1. /\ assets'[i] = assets[i] /\ drift'[i] = drift[i]
        /\ Syncing(i)' = Syncing(i) /\ UNCHANGED <<pc, locals>>
    BY <1>1, <1>2, AdminElsewhere, AdminKeepsHandlers DEF OneSync, DriftOf
  <2> QED
    BY <1>1, <2>1 DEF DriftOf, DriftAt, Agrees, Inventory
<1>3. ASSUME NEW r \in Slots, Authenticates(r) \/ Statement(r) \/ Ends(r)
      PROVE  DriftOf(i)'
  <2>1. Kept(r) /\ \A s \in Slots \ {r} : s \in Syncing(i)' <=> s \in Syncing(i)
    BY <1>3, OthersKept, OthersSync DEF Ends
  <2>2. CASE Elsewhere(r, i)
    <3>1. Syncing(i)' = Syncing(i) /\ Inventory(i)' = Inventory(i)
      BY <2>1, <2>2 DEF Elsewhere, Syncing, Inventory
    <3>2. Syncing(i) = {} => Agrees(i, Inventory(i))'
      BY <1>1, <2>2, <3>1 DEF DriftOf, Agrees, Elsewhere
    <3>3. ASSUME NEW s \in Syncing(i)  PROVE DriftAt(s, i)'
      <4>1. s \in Slots \ {r}
        BY <2>2, <3>3 DEF Elsewhere, Syncing
      <4> QED
        BY <1>1, <2>1, <2>2, <3>1, <4>1
           DEF DriftOf, DriftAt, Agrees, Elsewhere, Kept
    <3> QED  BY <1>1, <3>1, <3>2, <3>3 DEF DriftOf
  <2>3. CASE Enters(r, i)
    <3>1. Syncing(i)' = {r} /\ Syncing(i) = {}
      BY <1>1, <2>1, <2>3 DEF OneSync, Enters, Syncing
    <3>2. Agrees(i, Inventory(i))'
      BY <1>1, <2>3, <3>1 DEF DriftOf, Agrees, Inventory, Enters
    <3>3. DriftAt(r, i)'
      BY <2>3, <3>2 DEF DriftAt, Enters
    <3> QED  BY <1>1, <3>1, <3>3 DEF DriftOf
  <2>4. CASE Continues(r, i)
    BY <1>1, <2>1, <2>4, DriftContinues
  <2> QED  BY <1>3, <2>2, <2>3, <2>4, MachineStep
<1> QED
  BY <1>2, <1>3, StepCases DEF HNext

\* DEF-36: the latest event about an asset agrees with the inventory, unless
\* two reports of the machine have crossed, it has been deleted, a report has
\* ended before its events, or a scan found nothing where there was something.
THEOREM DriftAgrees == HSpec => []DriftAgreesWithInventory
<1>1. HInit => DriftInv
  BY IdAssumption DEF HInit, Init, DriftInv, DriftOf, OneSync, Syncing, Agrees
<1>2. TypeOK /\ TypeOK' /\ DriftInv /\ [HNext]_hvars => DriftInv'
  <2>1. ASSUME DriftInv, UNCHANGED hvars  PROVE DriftInv'
    <3> SUFFICES ASSUME NEW i \in Ids \ unlogged  PROVE DriftOf(i)'
      BY <2>1 DEF hvars, marks, DriftInv
    <3>1. UNCHANGED <<db, pc, locals, adm>> /\ DriftOf(i)
      BY <2>1 DEF hvars, vars, DriftInv
    <3>2. UNCHANGED <<Syncing(i), Inventory(i)>>
      BY <3>1 DEF Syncing, Inventory
    <3> QED
      BY <3>1, <3>2 DEF DriftOf, OneSync, DriftAt, Agrees
  <2> QED  BY <2>1, DriftStep
<1>3. DriftInv => DriftAgreesWithInventory
  BY DEF DriftInv, DriftOf, Agrees, DriftAgreesWithInventory
<1> QED
  BY <1>1, <1>2, <1>3, HistoryTypes, PTL DEF HSpec

-----------------------------------------------------------------------------
(***************************************************************************)
(* The asset count.  From the upsert to the commit the row of a machine    *)
(* counts the report's assets, and the commit makes them its rows.         *)
(***************************************************************************)

CountAt(r, i) ==
    /\ Exists(i)
    /\ machines[i].count = IF pc[r] = "drift" THEN Cardinality(assets[i])
                                              ELSE Cardinality(rep[r].assets)
    /\ pc[r] = "insert" => del[r] = assets[i]

CountOf(i) ==
    /\ OneSync(i)
    /\ Syncing(i) = {} /\ Exists(i) => machines[i].count = Cardinality(assets[i])
    /\ \A r \in Syncing(i) : CountAt(r, i)

CountInv == \A i \in Ids \ miscounted : CountOf(i)

\* A payload has as many rows as the report has assets.
LEMMA PayloadCardinality ==
    ASSUME NEW S, IsFiniteSet(S), NEW t
    PROVE  Cardinality(S \X {t}) = Cardinality(S)
<1>1. IsFiniteSet({t}) /\ Cardinality({t}) = 1
  BY FS_Singleton
<1>2. Cardinality(S \X {t}) = Cardinality(S) * 1
  BY <1>1, FS_Product
<1> QED
  BY <1>2, FS_CardinalityType

LEMMA CountUntouched ==
    ASSUME HNext, NEW i \in Ids, i \notin miscounted'
    PROVE  i \notin miscounted /\ ~Miscounted(i) /\ OneSync(i)'
BY DEF HNext, Record, Miscounted, Crossed, OneSync

LEMMA CountContinues ==
    ASSUME TypeOK, NEW i \in Ids, NEW r \in Slots, CountOf(i),
           Continues(r, i), Kept(r), ~Miscounted(i), OneSync(i)'
    PROVE  CountOf(i)'
<1>1. /\ r \in Syncing(i) /\ Syncing(i) = {r} /\ mid[r] = i /\ CountAt(r, i)
      /\ \A s \in Syncing(i)' : s = r
  BY OthersSync DEF Continues, CountOf, OneSync, Syncing
<1>2. CASE Ends(r)
  <2>1. pc'[r] = "idle" /\ UNCHANGED <<assets, machines>>
    BY <1>2 DEF Ends, Finish, Goto, TypeOK
  <2>2. Syncing(i)' = {}
    BY <1>1, <2>1 DEF Syncing
  <2>3. pc[r] = "drift"
    BY <1>1, <2>1 DEF Miscounted, Syncing
  <2> QED  BY <1>1, <2>1, <2>2, <2>3 DEF CountOf, CountAt
<1>3. CASE ReadBaseline(r) \/ Lock(r) \/ Purge(r)
  <2>1. /\ UNCHANGED <<assets, machines, mid, rep>>
        /\ pc[r] # "drift" /\ pc'[r] # "drift"
        /\ pc'[r] = "insert" => del'[r] = assets'[i]
    BY <1>1, <1>3 DEF ReadBaseline, Lock, Purge, Goto, TypeOK
  <2>2. r \in Syncing(i)'
    BY <1>1, <1>3 DEF Syncing, ReadBaseline, Lock, Purge, Goto, TypeOK
  <2>3. CountAt(r, i)'
    BY <1>1, <2>1 DEF CountAt, Exists
  <2> QED  BY <1>1, <2>2, <2>3 DEF CountOf
<1>4. CASE InsertAndCommit(r) /\ ~Finish(r)
  <2>1. /\ assets' = [assets EXCEPT ![i] = (@ \ del[r]) \cup Payload(r)]
        /\ UNCHANGED <<machines, mid, rep>>
        /\ pc[r] = "insert" /\ pc'[r] = "drift"
    BY <1>1, <1>4 DEF InsertAndCommit, Goto, TypeOK
  <2>2. assets'[i] = Payload(r)
    BY <1>1, <2>1 DEF CountAt, TypeOK
  <2>3. IsFiniteSet(rep[r].assets)
    BY <2>1, TypeSplit, ReportType, FiniteAssumption, FS_Subset
  <2>4. Cardinality(assets'[i]) = Cardinality(rep[r].assets)
    BY <2>2, <2>3, PayloadCardinality DEF Payload
  <2>5. CountAt(r, i)'
    BY <1>1, <2>1, <2>4 DEF CountAt, Exists
  <2>6. r \in Syncing(i)'
    BY <1>1, <2>1 DEF Syncing
  <2> QED  BY <1>1, <2>5, <2>6 DEF CountOf
<1>5. CASE RecordDrift(r)
  <2>1. /\ UNCHANGED <<assets, machines, mid>>
        /\ pc[r] = "drift" /\ pc'[r] = "agg"
    BY <1>5 DEF RecordDrift, Goto, TypeOK
  <2>2. Syncing(i)' = {}
    BY <1>1, <2>1 DEF Syncing
  <2> QED  BY <1>1, <2>1, <2>2 DEF CountOf, CountAt
<1> QED
  BY <1>2, <1>3, <1>4, <1>5 DEF Continues

\* The upsert of a row that is not another tenant's counts the report's assets.
LEMMA UpsertCounts ==
    ASSUME TypeOK, NEW i \in Ids, NEW r \in Slots, Enters(r, i), ~Miscounted(i)
    PROVE  CountAt(r, i)'
<1>1. /\ mid[r] = i /\ mid'[r] = i /\ pc[r] = "upsert" /\ pc'[r] = "baseline"
      /\ machines'[i] = Upserted(r) /\ UNCHANGED rep
  BY DEF Enters, TypeOK
<1>2. Exists(i) => machines[i].tenant = TenantOf(r)
  BY <1>1 DEF Miscounted
<1>3. Upserted(r).count = Cardinality(rep[r].assets)
  BY <1>1, <1>2 DEF Upserted
<1>4. Upserted(r) # NoRow
  BY <1>1, UpsertedType, ReportAssumption
<1> QED
  BY <1>1, <1>3, <1>4 DEF CountAt, Exists

LEMMA CountStep ==
    ASSUME TypeOK, CountInv, HNext
    PROVE  CountInv'
<1> SUFFICES ASSUME NEW i \in Ids, i \notin miscounted'  PROVE CountOf(i)'
  BY DEF CountInv
<1>1. CountOf(i) /\ ~Miscounted(i) /\ OneSync(i)'
  BY CountUntouched DEF CountInv
<1>2. CASE Admin
  <2>1. /\ assets'[i] = assets[i] /\ machines'[i] = machines[i]
        /\ Syncing(i)' = Syncing(i) /\ UNCHANGED <<pc, locals>>
    BY <1>1, <1>2, AdminElsewhere, AdminKeepsHandlers DEF OneSync, CountOf
  <2> QED
    BY <1>1, <2>1 DEF CountOf, CountAt, Exists
<1>3. ASSUME NEW r \in Slots, Authenticates(r) \/ Statement(r) \/ Ends(r)
      PROVE  CountOf(i)'
  <2>1. Kept(r) /\ \A s \in Slots \ {r} : s \in Syncing(i)' <=> s \in Syncing(i)
    BY <1>3, OthersKept, OthersSync DEF Ends
  <2>2. CASE Elsewhere(r, i)
    <3>1. Syncing(i)' = Syncing(i)
      BY <2>1, <2>2 DEF Elsewhere, Syncing
    <3>2. ASSUME NEW s \in Syncing(i)  PROVE CountAt(s, i)'
      <4>1. s \in Slots \ {r}
        BY <2>2, <3>2 DEF Elsewhere, Syncing
      <4> QED
        BY <1>1, <2>1, <2>2, <4>1 DEF CountOf, CountAt, Exists, Elsewhere, Kept
    <3> QED  BY <1>1, <2>2, <3>1, <3>2 DEF CountOf, Exists, Elsewhere
  <2>3. CASE Enters(r, i)
    <3>1. Syncing(i)' = {r}
      BY <1>1, <2>1, <2>3 DEF OneSync, Enters, Syncing
    <3> QED  BY <1>1, <2>3, <3>1, UpsertCounts DEF CountOf
  <2>4. CASE Continues(r, i)
    BY <1>1, <2>1, <2>4, CountContinues
  <2> QED  BY <1>3, <2>2, <2>3, <2>4, MachineStep
<1> QED
  BY <1>2, <1>3, StepCases DEF HNext

\* asset_count is the number of a machine's asset rows, unless two reports of
\* the machine have crossed, it has been deleted, a report has ended between
\* the upsert and the commit, or its id has been taken by another tenant.
THEOREM CountsMatch == HSpec => []CountMatchesInventory
<1>1. HInit => CountInv
  BY IdAssumption
     DEF HInit, Init, CountInv, CountOf, OneSync, Syncing, Exists
<1>2. TypeOK /\ CountInv /\ [HNext]_hvars => CountInv'
  <2>1. ASSUME CountInv, UNCHANGED hvars  PROVE CountInv'
    <3> SUFFICES ASSUME NEW i \in Ids \ miscounted  PROVE CountOf(i)'
      BY <2>1 DEF hvars, marks, CountInv
    <3>1. UNCHANGED <<db, pc, locals, adm>> /\ CountOf(i)
      BY <2>1 DEF hvars, vars, CountInv
    <3>2. UNCHANGED Syncing(i)
      BY <3>1 DEF Syncing
    <3> QED
      BY <3>1, <3>2 DEF CountOf, OneSync, CountAt, Exists
  <2> QED  BY <2>1, CountStep
<1>3. CountInv => CountMatchesInventory
  BY DEF CountInv, CountOf, CountMatchesInventory
<1> QED
  BY <1>1, <1>2, <1>3, HistoryTypes, PTL DEF HSpec

-----------------------------------------------------------------------------
(***************************************************************************)
(* The snapshot.  A handler that has counted a tenant's machines holds     *)
(* their number until it writes it, as long as none comes or goes.         *)
(***************************************************************************)

SnapshotOf(t) ==
    /\ Enrolled(t) = {} => snapshots[t] = Cardinality(RowsOf(t))
    /\ \A r \in Enrolled(t) : pc[r] = "snap" => agg[r] = Cardinality(RowsOf(t))

SnapshotInv == \A t \in Tenants \ outdated : SnapshotOf(t)

LEMMA SnapshotUntouched ==
    ASSUME HNext, NEW t \in Tenants, t \notin outdated'
    PROVE  t \notin outdated /\ ~Outdated(t)
BY DEF HNext, Record

\* A row comes or goes only by the upsert of a handler that is then enrolled,
\* or by a deletion.
LEMMA RowsStep ==
    ASSUME TypeOK, NEW r \in Slots, NEW t \in Tenants, ~Outdated(t),
           Authenticates(r) \/ Statement(r) \/ Ends(r)
    PROVE  RowsOf(t)' = RowsOf(t) \/ (pc[r] = "upsert" /\ r \in Enrolled(t)')
<1>1. CASE Upsert(r)
  <2> SUFFICES ASSUME RowsOf(t)' # RowsOf(t)
               PROVE  pc[r] = "upsert" /\ r \in Enrolled(t)'
    OBVIOUS
  <2>1. /\ machines' = [machines EXCEPT ![mid[r]] = Upserted(r)]
        /\ pc[r] = "upsert" /\ pc'[r] = "baseline" /\ UNCHANGED rep
    BY <1>1 DEF Upsert, Goto, TypeOK, RowsOf, Exists
  <2>2. PICK i \in Ids : i \in RowsOf(t)' /\ i \notin RowsOf(t)
    BY DEF Outdated, RowsOf
  <2>3. i = mid[r] /\ Upserted(r).tenant = t
    BY <2>1, <2>2 DEF RowsOf, Exists, TypeOK
  <2>4. TenantOf(r) = t
    BY <2>2, <2>3 DEF Upserted, RowsOf
  <2> QED  BY <2>1, <2>4 DEF Enrolled, TenantOf
<1>2. CASE UNCHANGED machines
  BY <1>2 DEF RowsOf, Exists
<1> QED
  BY <1>1, <1>2 DEF Authenticates, AuthToken, AuthLicense, Ends, Statement,
     PickTenantToken, Lookup, Adopt, ReadLimit, CountSeats, ChooseId,
     ReadBaseline, Lock, Purge, InsertAndCommit, RecordDrift, Aggregate,
     WriteSnapshot

\* A step of one handler, seen from tenant t.
LEMMA TenantStep ==
    ASSUME TypeOK, NEW r \in Slots, NEW t \in Tenants,
           Authenticates(r) \/ Statement(r) \/ Ends(r)
    PROVE  \/ r \notin Enrolled(t) /\ r \notin Enrolled(t)' /\ snapshots'[t] = snapshots[t]
           \/ r \notin Enrolled(t) /\ r \in Enrolled(t)' /\ pc'[r] = "baseline"
           \/ /\ r \in Enrolled(t) /\ r \in Enrolled(t)'
              /\ pc'[r] = "snap" =>
                    agg'[r] = Cardinality(RowsOf(t)) /\ UNCHANGED machines
           \/ r \in Enrolled(t) /\ pc'[r] = "idle"
<1>1. CASE Authenticates(r)
  BY <1>1 DEF Authenticates, AuthToken, AuthLicense, Goto, TypeOK, Enrolled
<1>2. CASE Ends(r)
  BY <1>2 DEF Ends, Finish, Goto, TypeOK, Enrolled
<1>3. CASE WriteSnapshot(r)
  <2>1. /\ pc[r] = "snap" /\ pc'[r] = "idle"
        /\ snapshots' = [snapshots EXCEPT ![TenantOf(r)] = agg[r]]
    BY <1>3 DEF WriteSnapshot, Finish, Goto, TypeOK
  <2>2. CASE TenantOf(r) = t
    BY <2>1, <2>2 DEF Enrolled
  <2>3. CASE TenantOf(r) # t
    BY <2>1, <2>3 DEF Enrolled, TypeOK
  <2> QED  BY <2>2, <2>3
<1>4. CASE Upsert(r) /\ ~Ends(r)
  BY <1>4 DEF Upsert, Ends, Goto, TypeOK, Enrolled
<1>5. CASE Aggregate(r)
  <2>1. /\ pc[r] = "agg" /\ pc'[r] = "snap" /\ UNCHANGED <<rep, machines, snapshots>>
        /\ agg'[r] = Cardinality(RowsOf(TenantOf(r)))
    BY <1>5 DEF Aggregate, Goto, TypeOK
  <2> QED  BY <2>1 DEF Enrolled, TenantOf
<1>6. CASE /\ \/ PickTenantToken(r) \/ Lookup(r) \/ Adopt(r) \/ ReadLimit(r)
              \/ CountSeats(r) \/ ChooseId(r)
           /\ ~Ends(r)
  BY <1>6 DEF PickTenantToken, Lookup, Adopt, ReadLimit, CountSeats, ChooseId,
     Ends, Goto, TypeOK, Enrolled
<1>7. CASE /\ \/ ReadBaseline(r) \/ Lock(r) \/ Purge(r) \/ InsertAndCommit(r)
              \/ RecordDrift(r)
           /\ ~Ends(r)
  BY <1>7 DEF ReadBaseline, Lock, Purge, InsertAndCommit, RecordDrift, Ends,
     Goto, TypeOK, Enrolled, TenantOf
<1> QED
  BY <1>1, <1>2, <1>3, <1>4, <1>5, <1>6, <1>7 DEF Statement

LEMMA SnapshotStep ==
    ASSUME TypeOK, SnapshotInv, HNext
    PROVE  SnapshotInv'
<1> SUFFICES ASSUME NEW t \in Tenants, t \notin outdated'  PROVE SnapshotOf(t)'
  BY DEF SnapshotInv
<1>1. SnapshotOf(t) /\ ~Outdated(t)
  BY SnapshotUntouched DEF SnapshotInv
<1>2. CASE Admin
  <2>1. UNCHANGED <<pc, locals, snapshots>>
    BY <1>2, AdminKeepsHandlers
       DEF Admin, IssueToken, DeleteToken, RevokeLicense, ReactivateLicense,
           ExpireLicense, SetLicense, DeleteMachineAssets, DeleteMachineRow
  <2>2. \A i \in Ids : machines'[i] \in {machines[i], NoRow}
    BY <1>2 DEF Admin, IssueToken, DeleteToken, RevokeLicense, ReactivateLicense,
       ExpireLicense, SetLicense, DeleteMachineAssets, DeleteMachineRow, TypeOK
  <2>3. RowsOf(t)' \subseteq RowsOf(t)
    BY <2>2 DEF RowsOf, Exists
  <2>4. UNCHANGED <<RowsOf(t), Enrolled(t)>>
    BY <1>1, <2>1, <2>3 DEF Outdated, Enrolled, TenantOf
  <2> QED  BY <1>1, <2>1, <2>4 DEF SnapshotOf
<1>3. ASSUME NEW r \in Slots, Authenticates(r) \/ Statement(r) \/ Ends(r)
      PROVE  SnapshotOf(t)'
  <2>1. Kept(r) /\ \A s \in Slots \ {r} : s \in Enrolled(t)' <=> s \in Enrolled(t)
    BY <1>3, OthersKept DEF Ends, Kept, Enrolled, TenantOf
  <2>2. ASSUME NEW s \in Enrolled(t)', s # r, pc'[s] = "snap"
        PROVE  agg'[s] = Cardinality(RowsOf(t)')
    <3>1. s \in Slots \ {r} /\ s \in Enrolled(t)
      BY <2>1, <2>2 DEF Enrolled
    <3>2. pc[s] = "snap" /\ agg'[s] = agg[s]
      BY <2>1, <2>2, <3>1 DEF Kept
    <3>3. RowsOf(t)' = RowsOf(t)
      BY <1>1, <3>1, <3>2 DEF Outdated
    <3> QED  BY <1>1, <3>1, <3>2, <3>3 DEF SnapshotOf
  <2>3. CASE /\ r \notin Enrolled(t) /\ r \notin Enrolled(t)'
             /\ snapshots'[t] = snapshots[t]
    <3>1. RowsOf(t)' = RowsOf(t)
      BY <1>1, <1>3, <2>3, RowsStep
    <3>2. Enrolled(t)' = Enrolled(t)
      BY <2>1, <2>3 DEF Enrolled
    <3> QED  BY <1>1, <2>2, <2>3, <3>1, <3>2 DEF SnapshotOf
  <2>4. CASE r \notin Enrolled(t) /\ r \in Enrolled(t)' /\ pc'[r] = "baseline"
    BY <2>2, <2>4 DEF SnapshotOf
  <2>5. CASE /\ r \in Enrolled(t) /\ r \in Enrolled(t)'
             /\ pc'[r] = "snap" =>
                   agg'[r] = Cardinality(RowsOf(t)) /\ UNCHANGED machines
    <3>1. pc'[r] = "snap" => agg'[r] = Cardinality(RowsOf(t)')
      BY <2>5 DEF RowsOf, Exists
    <3> QED  BY <2>2, <2>5, <3>1 DEF SnapshotOf
  <2>6. CASE r \in Enrolled(t) /\ pc'[r] = "idle"
    <3>1. WriteSnapshot(r) /\ pc[r] = "snap" /\ TenantOf(r) = t
      BY <1>1, <2>6 DEF Outdated, WriteSnapshot, Enrolled
    <3>2. snapshots'[t] = agg[r] /\ UNCHANGED machines
      BY <3>1 DEF WriteSnapshot, TypeOK
    <3>3. snapshots'[t] = Cardinality(RowsOf(t)')
      BY <1>1, <2>6, <3>1, <3>2 DEF SnapshotOf, RowsOf, Exists
    <3>4. r \notin Enrolled(t)'
      BY <2>6 DEF Enrolled
    <3> QED  BY <2>2, <3>3, <3>4 DEF SnapshotOf
  <2> QED  BY <1>3, <2>3, <2>4, <2>5, <2>6, TenantStep
<1> QED
  BY <1>2, <1>3, StepCases DEF HNext

\* Today's snapshot counts a tenant's machines once nothing of it is enrolled
\* any more, unless one has been deleted, a report has ended before its snapshot
\* or a machine has come after a report had counted.
THEOREM SnapshotsCurrent == HSpec => []SnapshotCurrent
<1>1. HInit => SnapshotInv
  <2> SUFFICES ASSUME HInit, NEW t \in Tenants  PROVE SnapshotOf(t)
    BY DEF SnapshotInv
  <2>1. RowsOf(t) = {} /\ Enrolled(t) = {} /\ snapshots[t] = 0
    BY DEF HInit, Init, RowsOf, Exists, Enrolled
  <2>2. Cardinality({}) = 0
    BY FS_EmptySet
  <2> QED
    BY <2>1, <2>2 DEF SnapshotOf
<1>2. TypeOK /\ SnapshotInv /\ [HNext]_hvars => SnapshotInv'
  <2>1. ASSUME SnapshotInv, UNCHANGED hvars  PROVE SnapshotInv'
    <3> SUFFICES ASSUME NEW t \in Tenants \ outdated  PROVE SnapshotOf(t)'
      BY <2>1 DEF hvars, marks, SnapshotInv
    <3>1. UNCHANGED <<db, pc, locals, adm>> /\ SnapshotOf(t)
      BY <2>1 DEF hvars, vars, SnapshotInv
    <3>2. UNCHANGED <<Enrolled(t), RowsOf(t)>>
      BY <3>1 DEF Enrolled, RowsOf, Exists, TenantOf
    <3> QED
      BY <3>1, <3>2 DEF SnapshotOf
  <2> QED  BY <2>1, SnapshotStep
<1>3. SnapshotInv => SnapshotCurrent
  BY DEF SnapshotInv, SnapshotOf, SnapshotCurrent
<1> QED
  BY <1>1, <1>2, <1>3, HistoryTypes, PTL DEF HSpec
=============================================================================
