------------------------- MODULE FleetIngest_proofs -------------------------
(***************************************************************************)
(* Proofs about FleetIngest, for every number of handlers, tenants, tokens,*)
(* licences, machines and reports.                                         *)
(***************************************************************************)
EXTENDS FleetIngest, FiniteSetTheorems, FunctionTheorems, TLAPS

USE DEF db, locals

-----------------------------------------------------------------------------
(* Type correctness.                                                       *)

\* The slot-local part of TypeOK, and the database part.
LocalsOK ==
    /\ pc \in [Slots -> Labels]
    /\ rep \in [Slots -> Reports \cup {NoReport}]
    /\ \A r \in Slots : pc[r] # "idle" => rep[r] \in Reports
    /\ tok \in [Slots -> Tokens \cup {NoToken}]
    /\ mid \in [Slots -> Ids \cup {NoId}]
    /\ \A r \in Slots : pc[r] \in {"upsert", "baseline", "lock", "purge",
                                   "insert", "drift", "agg", "snap"}
                            => mid[r] \in Ids
    /\ lim \in [Slots -> Nat]
    /\ base \in [Slots -> SUBSET Assets]
    /\ del \in [Slots -> SUBSET (Assets \X Tenants)]
    /\ locked \in [Slots -> BOOLEAN]
    /\ agg \in [Slots -> Nat]

DbOK ==
    /\ tokens \in [Tokens -> {"unissued", "active", "deleted"}]
    /\ licenses \in [Licenses -> {"active", "expired", "revoked"}]
    /\ machines \in [Ids -> Row \cup {NoRow}]
    /\ assets \in [Ids -> SUBSET (Assets \X Tenants)]
    /\ drift \in [Ids -> [Assets -> {"none", "added", "removed"}]]
    /\ snapshots \in [Tenants -> Nat]
    /\ adm \in Ids \cup {NoId}

LEMMA TypeSplit ==
    /\ TypeOK <=> LocalsOK /\ DbOK
    /\ TypeOK' <=> LocalsOK' /\ DbOK'
BY DEF TypeOK, LocalsOK, DbOK

LEMMA FinishLocals ==
    ASSUME LocalsOK, NEW r \in Slots, Finish(r)
    PROVE  LocalsOK'
BY DEF LocalsOK, Finish, Goto, Labels

\* Nothing but the row of slot r is replaced, by a label that needs no id.
LEMMA GotoLocals ==
    ASSUME LocalsOK, NEW r \in Slots, pc[r] # "idle", UNCHANGED locals,
           NEW l \in Labels, Goto(r, l),
           mid[r] \in Ids \/ l \in {"idle", "lictoken", "lookup", "adopt",
                                    "limit", "count", "owner"}
    PROVE  LocalsOK'
BY DEF LocalsOK, Goto, Labels

LEMMA RowsOfFinite ==
    ASSUME NEW t
    PROVE  IsFiniteSet(RowsOf(t)) /\ Cardinality(RowsOf(t)) \in Nat
BY FiniteAssumption, FS_Subset, FS_CardinalityType DEF RowsOf

LEMMA ReportType ==
    ASSUME LocalsOK, NEW r \in Slots, pc[r] # "idle"
    PROVE  /\ rep[r] \in Reports
           /\ rep[r] \in Report
           /\ TenantOf(r) \in Tenants
           /\ Device(r) \in Devices
           /\ rep[r].assets \in SUBSET Assets
           /\ Payload(r) \in SUBSET (Assets \X Tenants)
<1>1. rep[r] \in Reports /\ rep[r] \in Report
  BY ReportAssumption DEF LocalsOK
<1>2. TenantOf(r) \in Tenants
  BY <1>1, CredAssumption DEF Report, TenantOf
<1>3. Device(r) \in Devices
  BY <1>1 DEF Report, Device, Devices
<1> QED
  BY <1>1, <1>2, <1>3 DEF Payload, Report

\* The row an upsert leaves.
LEMMA UpsertedType ==
    ASSUME TypeOK, NEW r \in Slots, pc[r] = "upsert"
    PROVE  Upserted(r) \in Row
<1> USE TypeSplit
<1>1. /\ rep[r] \in Report /\ TenantOf(r) \in Tenants
      /\ rep[r].assets \in SUBSET Assets
  BY ReportType
<1>2. Cardinality(rep[r].assets) \in Nat
  BY <1>1, FiniteAssumption, FS_Subset, FS_CardinalityType
<1>3. mid[r] \in Ids
  BY DEF LocalsOK
<1>4. Exists(mid[r]) => machines[mid[r]] \in Row
  BY <1>3 DEF DbOK, Exists
<1> QED
  BY <1>1, <1>2, <1>3, <1>4 DEF Upserted, Row, Report

\* What a handler's statement does to the database keeps it well typed.
LEMMA StatementDb ==
    ASSUME TypeOK, NEW r \in Slots, Statement(r)
    PROVE  DbOK'
<1> USE TypeSplit
<1>1. CASE /\ UNCHANGED <<db, adm>>
  BY <1>1 DEF DbOK
<1>2. CASE Upsert(r)
  <2>1. Upserted(r) \in Row
    BY <1>2, UpsertedType DEF Upsert
  <2>2. machines' \in [Ids -> Row \cup {NoRow}]
    BY <1>2, <2>1 DEF Upsert, DbOK
  <2> QED  BY <1>2, <2>2 DEF Upsert, DbOK
<1>3. CASE InsertAndCommit(r)
  <2>1. Payload(r) \in SUBSET (Assets \X Tenants)
    BY <1>3, ReportType DEF InsertAndCommit
  <2>2. assets' \in [Ids -> SUBSET (Assets \X Tenants)]
    BY <1>3, <2>1 DEF InsertAndCommit, DbOK
  <2> QED  BY <1>3, <2>2 DEF InsertAndCommit, DbOK
<1>4. CASE RecordDrift(r)
  <2>1. mid[r] \in Ids
    BY <1>4 DEF RecordDrift, LocalsOK
  <2>2. DriftAfter(r) \in [Assets -> {"none", "added", "removed"}]
    BY <2>1 DEF DriftAfter, DbOK
  <2> QED  BY <1>4, <2>2 DEF RecordDrift, DbOK
<1>5. CASE WriteSnapshot(r)
  BY <1>5 DEF WriteSnapshot, DbOK, LocalsOK
<1> QED
  BY <1>1, <1>2, <1>3, <1>4, <1>5
     DEF Statement, PickTenantToken, Lookup, Adopt, ReadLimit, CountSeats,
         ChooseId, ReadBaseline, Lock, Purge, Aggregate

\* A handler's statement keeps the variables of the slots well typed.
LEMMA StatementLocals ==
    ASSUME TypeOK, NEW r \in Slots, Statement(r)
    PROVE  LocalsOK'
<1> USE TypeSplit
<1>1. CASE PickTenantToken(r)
  BY <1>1 DEF PickTenantToken, LocalsOK, Goto, Labels
<1>2. CASE Lookup(r)
  BY <1>2 DEF Lookup, LocalsOK, Goto, Labels, UuidMatches, HostMatches, RowsOf
<1>3. CASE Adopt(r)
  BY <1>3 DEF Adopt, LocalsOK, Goto, Labels, HostMatches, RowsOf
<1>4. CASE ReadLimit(r)
  <2>1. SeatSources(TenantOf(r)) \subseteq Nat
    BY <1>4, ReportType, CredAssumption DEF SeatSources, ReadLimit
  <2> QED  BY <1>4, <2>1 DEF ReadLimit, LocalsOK, Goto, Labels
<1>5. CASE CountSeats(r)
  BY <1>5, FinishLocals, GotoLocals DEF CountSeats, Labels
<1>6. CASE ChooseId(r)
  <2>1. TenantOf(r) \in Tenants /\ Device(r) \in Devices
    BY <1>6, ReportType DEF ChooseId
  <2>2. /\ HashId[Key(TenantOf(r), Device(r))] \in Ids
        /\ HashIdV2[Key(TenantOf(r), Device(r))] \in Ids
    BY <2>1, IdAssumption DEF Key
  <2> QED  BY <1>6, <2>2 DEF ChooseId, LocalsOK, Goto, Labels
<1>7. CASE Upsert(r)
  <2>1. mid[r] \in Ids
    BY <1>7 DEF Upsert, LocalsOK
  <2> QED  BY <1>7, <2>1, FinishLocals, GotoLocals DEF Upsert, Labels
<1>8. CASE ReadBaseline(r)
  <2>1. mid[r] \in Ids
    BY <1>8 DEF ReadBaseline, LocalsOK
  <2>2. {p[1] : p \in assets[mid[r]]} \in SUBSET Assets
    BY <2>1 DEF DbOK
  <2> QED  BY <1>8, <2>1, <2>2 DEF ReadBaseline, LocalsOK, Goto, Labels
<1>9. CASE Lock(r)
  BY <1>9 DEF Lock, LocalsOK, Goto, Labels, Exists
<1>10. CASE Purge(r)
  BY <1>10 DEF Purge, LocalsOK, DbOK, Goto, Labels
<1>11. CASE InsertAndCommit(r)
  <2>1. CASE Finish(r)
    BY <2>1, FinishLocals
  <2>2. CASE ~Finish(r)
    BY <1>11, <2>2 DEF InsertAndCommit, LocalsOK, Goto, Labels
  <2> QED  BY <2>1, <2>2
<1>12. CASE RecordDrift(r)
  <2>1. mid[r] \in Ids
    BY <1>12 DEF RecordDrift, LocalsOK
  <2> QED  BY <1>12, <2>1, GotoLocals DEF RecordDrift, Labels
<1>13. CASE Aggregate(r)
  BY <1>13, RowsOfFinite DEF Aggregate, LocalsOK, Goto, Labels
<1>14. CASE WriteSnapshot(r)
  BY <1>14, FinishLocals DEF WriteSnapshot
<1> QED
  BY <1>1, <1>2, <1>3, <1>4, <1>5, <1>6, <1>7, <1>8, <1>9, <1>10, <1>11,
     <1>12, <1>13, <1>14 DEF Statement

\* Authentication and the ways a request ends without finishing.
LEMMA RequestType ==
    ASSUME TypeOK, NEW r \in Slots,
           \/ \E rp \in Reports : AuthToken(r, rp) \/ AuthLicense(r, rp)
           \/ Abort(r)
           \/ \E s \in Slots : BreakDeadlock(r, s)
    PROVE  TypeOK'
<1> USE TypeSplit
<1>1. ASSUME NEW rp \in Reports, AuthToken(r, rp)  PROVE TypeOK'
  BY <1>1 DEF AuthToken, LocalsOK, DbOK, Goto, Labels
<1>2. ASSUME NEW rp \in Reports, AuthLicense(r, rp)  PROVE TypeOK'
  BY <1>2 DEF AuthLicense, LocalsOK, DbOK, Goto, Labels
<1>3. CASE Abort(r)
  BY <1>3, FinishLocals DEF Abort, DbOK
<1>4. ASSUME NEW s \in Slots, BreakDeadlock(r, s)  PROVE TypeOK'
  <2>1. LocalsOK'
    BY <1>4, FinishLocals DEF BreakDeadlock
  <2> QED  BY <1>4, <2>1 DEF BreakDeadlock, DbOK
<1> QED
  BY <1>1, <1>2, <1>3, <1>4

LEMMA AdminType ==
    ASSUME TypeOK, Admin
    PROVE  TypeOK'
<1> USE TypeSplit
<1>1. LocalsOK'
  BY DEF Admin, IssueToken, DeleteToken, RevokeLicense, ReactivateLicense,
         ExpireLicense, SetLicense, DeleteMachineAssets, DeleteMachineRow,
         LocalsOK
<1>2. ASSUME NEW k \in Tokens, IssueToken(k) \/ DeleteToken(k)  PROVE DbOK'
  BY <1>2 DEF IssueToken, DeleteToken, DbOK
<1>3. ASSUME NEW l \in Licenses,
             RevokeLicense(l) \/ ReactivateLicense(l) \/ ExpireLicense(l)
      PROVE  DbOK'
  BY <1>3 DEF RevokeLicense, ReactivateLicense, ExpireLicense, SetLicense, DbOK
<1>4. ASSUME NEW i \in Ids, DeleteMachineAssets(i)  PROVE DbOK'
  BY <1>4 DEF DeleteMachineAssets, DbOK
<1>5. CASE DeleteMachineRow
  BY <1>1, <1>5 DEF DeleteMachineRow, DbOK
<1> QED
  BY <1>1, <1>2, <1>3, <1>4, <1>5 DEF Admin

LEMMA TypeInit == Init => TypeOK
BY DEF Init, TypeOK, Labels

LEMMA TypeStep == TypeOK /\ [Next]_vars => TypeOK'
<1> SUFFICES ASSUME TypeOK, [Next]_vars  PROVE TypeOK'
  OBVIOUS
<1> USE TypeSplit
<1>1. ASSUME NEW r \in Slots, Statement(r)  PROVE TypeOK'
  BY <1>1, StatementDb, StatementLocals
<1>2. CASE UNCHANGED vars
  BY <1>2 DEF vars, TypeOK
<1> QED
  BY <1>1, <1>2, RequestType, AdminType DEF Next

\* Every state of the ingestion is well typed.
THEOREM TypeCorrect == Spec => []TypeOK
BY TypeInit, TypeStep, PTL DEF Spec

-----------------------------------------------------------------------------
(***************************************************************************)
(* Seats.  A tenant's claims are its rows, the ids its handlers are about  *)
(* to upsert, and its handlers that have passed the seat check and have    *)
(* not chosen an id.  The check bounds the rows only, so when it passes    *)
(* every handler may hold a claim besides the rows: the invariant counts   *)
(* the claims, and every other step at most turns one claim into another.  *)
(***************************************************************************)

Upserting(t) == {r \in Slots : pc[r] = "upsert" /\ TenantOf(r) = t}
SeatsUsed(t) == RowsOf(t) \cup {mid[r] : r \in Upserting(t)}
Cleared(t) == {r \in Slots : pc[r] = "owner" /\ TenantOf(r) = t}

LimitOK ==
    \A r \in Slots : pc[r] = "count" => lim[r] \in SeatsEverGranted(TenantOf(r))

Within(t) ==
    \E n \in SeatsEverGranted(t) :
        Cardinality(SeatsUsed(t)) + Cardinality(Cleared(t))
            =< n + Cardinality(Slots) - 1

SeatInv == LimitOK /\ \A t \in Tenants : McaLimit[t] > 0 => Within(t)

\* No claim is added for t.
Shrinks(t) == SeatsUsed(t)' \subseteq SeatsUsed(t) /\ Cleared(t)' \subseteq Cleared(t)

OthersUnchanged(r) ==
    \A s \in Slots \ {r} : /\ pc'[s] = pc[s]
                            /\ rep'[s] = rep[s]
                            /\ mid'[s] = mid[s]
                            /\ lim'[s] = lim[s]

LEMMA SlotsFinite ==
    /\ IsFiniteSet(Slots)
    /\ Cardinality(Slots) \in Nat
BY FiniteAssumption, FS_CardinalityType

LEMMA GrantedType ==
    ASSUME NEW t \in Tenants
    PROVE  /\ SeatsEverGranted(t) \subseteq Nat
           /\ SeatSources(t) \subseteq SeatsEverGranted(t)
           /\ McaLimit[t] \in SeatSources(t)
BY CredAssumption DEF SeatsEverGranted, SeatSources

\* The ids about to be upserted are no more than the handlers about to.
LEMMA MidsBound ==
    ASSUME NEW U \in SUBSET Slots
    PROVE  LET M == {mid[r] : r \in U}
           IN  /\ IsFiniteSet(M)
               /\ Cardinality(M) =< Cardinality(U)
               /\ Cardinality(M) \in Nat
<1> DEFINE M == {mid[r] : r \in U}
           f == [r \in U |-> mid[r]]
<1>1. IsFiniteSet(U)
  BY SlotsFinite, FS_Subset
<1>2. f \in Surjection(U, M)
  BY DEF Surjection
<1>3. IsFiniteSet(M) /\ Cardinality(M) =< Cardinality(U)
  BY <1>1, <1>2, FS_Surjection
<1> QED
  BY <1>3, FS_CardinalityType

LEMMA ClaimsFinite ==
    ASSUME NEW t
    PROVE  /\ IsFiniteSet(SeatsUsed(t)) /\ Cardinality(SeatsUsed(t)) \in Nat
           /\ IsFiniteSet(Cleared(t)) /\ Cardinality(Cleared(t)) \in Nat
           /\ Cardinality(RowsOf(t)) =< Cardinality(SeatsUsed(t))
           /\ Cardinality(SeatsUsed(t))
                  =< Cardinality(RowsOf(t)) + Cardinality(Upserting(t))
<1> DEFINE M == {mid[r] : r \in Upserting(t)}
<1>1. Upserting(t) \in SUBSET Slots /\ Cleared(t) \in SUBSET Slots
  BY DEF Upserting, Cleared
<1>2. IsFiniteSet(Cleared(t)) /\ Cardinality(Cleared(t)) \in Nat
  BY <1>1, SlotsFinite, FS_Subset, FS_CardinalityType
<1>3. /\ IsFiniteSet(M)
      /\ Cardinality(M) =< Cardinality(Upserting(t))
      /\ Cardinality(M) \in Nat
  BY <1>1, MidsBound
<1>4. IsFiniteSet(RowsOf(t)) /\ Cardinality(RowsOf(t)) \in Nat
  BY RowsOfFinite
<1>5. IsFiniteSet(Upserting(t)) /\ Cardinality(Upserting(t)) \in Nat
  BY <1>1, SlotsFinite, FS_Subset, FS_CardinalityType
<1>6. /\ IsFiniteSet(RowsOf(t) \cup M)
      /\ Cardinality(RowsOf(t) \cup M)
            = Cardinality(RowsOf(t)) + Cardinality(M)
                - Cardinality(RowsOf(t) \cap M)
  BY <1>3, <1>4, FS_Union
<1>7. Cardinality(RowsOf(t) \cap M) \in Nat
  BY <1>4, FS_Subset, FS_CardinalityType
<1>8. Cardinality(RowsOf(t) \cup M) \in Nat
  BY <1>6, FS_CardinalityType
<1>9. Cardinality(RowsOf(t)) =< Cardinality(RowsOf(t) \cup M)
  BY <1>6, FS_Subset
<1> QED
  BY <1>2, <1>3, <1>4, <1>5, <1>6, <1>7, <1>8, <1>9 DEF SeatsUsed

LEMMA ShrinkKeepsWithin ==
    ASSUME NEW t \in Tenants, Shrinks(t), Within(t)
    PROVE  Within(t)'
<1>1. PICK n \in SeatsEverGranted(t) :
         Cardinality(SeatsUsed(t)) + Cardinality(Cleared(t))
            =< n + Cardinality(Slots) - 1
  BY DEF Within
<1>2. /\ IsFiniteSet(SeatsUsed(t)) /\ Cardinality(SeatsUsed(t)) \in Nat
      /\ IsFiniteSet(Cleared(t)) /\ Cardinality(Cleared(t)) \in Nat
  BY ClaimsFinite
<1>3. /\ IsFiniteSet(SeatsUsed(t)')
      /\ Cardinality(SeatsUsed(t)') =< Cardinality(SeatsUsed(t))
  BY <1>2, FS_Subset DEF Shrinks
<1>4. /\ IsFiniteSet(Cleared(t)')
      /\ Cardinality(Cleared(t)') =< Cardinality(Cleared(t))
  BY <1>2, FS_Subset DEF Shrinks
<1>5. Cardinality(SeatsUsed(t)') \in Nat /\ Cardinality(Cleared(t)') \in Nat
  BY <1>3, <1>4, FS_CardinalityType
<1>6. n \in Nat
  BY <1>1, GrantedType
<1>7. Cardinality(SeatsUsed(t)') + Cardinality(Cleared(t)')
         =< n + Cardinality(Slots) - 1
  BY <1>1, <1>2, <1>3, <1>4, <1>5, <1>6, SlotsFinite
<1>8. SeatsEverGranted(t)' = SeatsEverGranted(t)
  BY DEF SeatsEverGranted
<1> QED
  BY <1>1, <1>7, <1>8 DEF Within

\* A step of one slot that neither passes the check nor gets an id adds no
\* claim, if the rows it leaves were claimed before.
LEMMA QuietStep ==
    ASSUME TypeOK, NEW r \in Slots, OthersUnchanged(r),
           pc'[r] \notin {"upsert", "owner"},
           NEW t, RowsOf(t)' \subseteq SeatsUsed(t)
    PROVE  Shrinks(t)
BY DEF Shrinks, SeatsUsed, Cleared, Upserting, OthersUnchanged, TenantOf

LEMMA FinishQuiet ==
    ASSUME TypeOK, NEW r \in Slots, Finish(r)
    PROVE  OthersUnchanged(r) /\ pc'[r] = "idle"
BY DEF TypeOK, Finish, Goto, OthersUnchanged

\* A step of the handler of slot r that is not ChooseId or a passed check.
LEMMA StatementShrinks ==
    ASSUME TypeOK, NEW r \in Slots, Statement(r), ~ChooseId(r), pc'[r] # "owner",
           NEW t
    PROVE  Shrinks(t)
<1>0. OthersUnchanged(r)
  BY DEF TypeOK, OthersUnchanged, Statement, PickTenantToken, Lookup, Adopt,
         ReadLimit, CountSeats, ChooseId, Upsert, ReadBaseline, Lock, Purge,
         InsertAndCommit, RecordDrift, Aggregate, WriteSnapshot, Finish, Goto
<1>1. CASE pc'[r] = "upsert"
  <2>1. Lookup(r) \/ Adopt(r)
    BY <1>1 DEF TypeOK, Statement, PickTenantToken, Lookup, Adopt, ReadLimit,
         CountSeats, Upsert, ReadBaseline, Lock, Purge,
         InsertAndCommit, RecordDrift, Aggregate, WriteSnapshot, Finish, Goto
  <2>2. mid'[r] \in RowsOf(TenantOf(r)) /\ UNCHANGED <<machines, rep>>
    BY <1>1, <2>1 DEF TypeOK, Lookup, Adopt, UuidMatches, HostMatches, Goto
  <2>3. RowsOf(t)' = RowsOf(t)
    BY <2>2 DEF RowsOf, Exists
  <2> QED
    BY <1>0, <1>1, <2>2, <2>3
       DEF Shrinks, SeatsUsed, Cleared, Upserting, OthersUnchanged, TenantOf
<1>2. CASE pc'[r] # "upsert"
  <2>1. RowsOf(t)' \subseteq SeatsUsed(t)
    <3>1. CASE Upsert(r)
      <4>1. mid[r] \in Ids
        BY <3>1 DEF Upsert, TypeOK
      <4>2. \A i \in Ids \ {mid[r]} : machines'[i] = machines[i]
        BY <3>1 DEF Upsert, TypeOK
      <4>3. CASE machines'[mid[r]] = machines[mid[r]]
        BY <4>2, <4>3 DEF RowsOf, Exists, SeatsUsed
      <4>4. CASE machines'[mid[r]] = Upserted(r)
        <5>1. mid[r] \in RowsOf(t)' => mid[r] \in RowsOf(t) \/ TenantOf(r) = t
          BY <4>1, <4>4 DEF RowsOf, Exists, Upserted
        <5>2. TenantOf(r) = t => r \in Upserting(t)
          BY <3>1 DEF Upserting, Upsert
        <5> QED  BY <4>2, <5>1, <5>2 DEF RowsOf, Exists, SeatsUsed
      <4> QED
        BY <3>1, <4>1, <4>3, <4>4 DEF Upsert, TypeOK
    <3>2. CASE ~Upsert(r)
      <4>1. UNCHANGED machines
        BY <3>2 DEF Statement, PickTenantToken, Lookup, Adopt, ReadLimit,
           CountSeats, ChooseId, ReadBaseline, Lock, Purge, InsertAndCommit,
           RecordDrift, Aggregate, WriteSnapshot
      <4> QED  BY <4>1 DEF RowsOf, Exists, SeatsUsed
    <3> QED  BY <3>1, <3>2
  <2> QED
    BY <1>0, <1>2, <2>1, QuietStep
<1> QED
  BY <1>1, <1>2

LEMMA AddOne ==
    ASSUME NEW S, NEW x, IsFiniteSet(S)
    PROVE  /\ IsFiniteSet(S \cup {x})
           /\ Cardinality(S \cup {x}) =< Cardinality(S) + 1
<1>1. Cardinality(S) \in Nat
  BY FS_CardinalityType
<1> QED
  BY <1>1, FS_AddElement

\* ChooseId turns a passed check into an id to upsert.
LEMMA ChooseIdWithin ==
    ASSUME TypeOK, NEW r \in Slots, ChooseId(r), NEW t \in Tenants, Within(t)
    PROVE  Within(t)'
<1>1. RowsOf(t)' = RowsOf(t)
  BY DEF ChooseId, RowsOf, Exists
<1>2. CASE TenantOf(r) # t
  <2>1. Shrinks(t)
    BY <1>1, <1>2 DEF ChooseId, Goto, TypeOK, Shrinks, SeatsUsed, Cleared,
                      Upserting, TenantOf
  <2> QED  BY <2>1, ShrinkKeepsWithin
<1>3. CASE TenantOf(r) = t
  <2>1. PICK n \in SeatsEverGranted(t) :
           Cardinality(SeatsUsed(t)) + Cardinality(Cleared(t))
              =< n + Cardinality(Slots) - 1
    BY DEF Within
  <2>2. SeatsUsed(t)' \subseteq SeatsUsed(t) \cup {mid'[r]}
    BY <1>1, <1>3 DEF ChooseId, Goto, TypeOK, SeatsUsed, Upserting, TenantOf
  <2>3. Cleared(t)' = Cleared(t) \ {r} /\ r \in Cleared(t)
    BY <1>3 DEF ChooseId, Goto, TypeOK, Cleared, TenantOf
  <2>4. /\ IsFiniteSet(SeatsUsed(t)) /\ Cardinality(SeatsUsed(t)) \in Nat
        /\ IsFiniteSet(Cleared(t)) /\ Cardinality(Cleared(t)) \in Nat
    BY ClaimsFinite
  <2>5. /\ IsFiniteSet(SeatsUsed(t) \cup {mid'[r]})
        /\ Cardinality(SeatsUsed(t) \cup {mid'[r]}) =< Cardinality(SeatsUsed(t)) + 1
    BY <2>4, AddOne
  <2>6. /\ IsFiniteSet(SeatsUsed(t)')
        /\ Cardinality(SeatsUsed(t)') =< Cardinality(SeatsUsed(t) \cup {mid'[r]})
    BY <2>2, <2>5, FS_Subset
  <2>7. Cardinality(Cleared(t)') = Cardinality(Cleared(t)) - 1
    BY <2>3, <2>4, FS_RemoveElement
  <2>8. /\ Cardinality(SeatsUsed(t)') \in Nat
        /\ Cardinality(SeatsUsed(t) \cup {mid'[r]}) \in Nat
        /\ n \in Nat
    BY <2>1, <2>5, <2>6, FS_CardinalityType, GrantedType
  <2>9. Cardinality(SeatsUsed(t)') + Cardinality(Cleared(t)')
           =< n + Cardinality(Slots) - 1
    BY <2>1, <2>4, <2>5, <2>6, <2>7, <2>8, SlotsFinite
  <2> QED
    BY <2>1, <2>9 DEF Within, SeatsEverGranted
<1> QED
  BY <1>2, <1>3

\* A passed check: besides the rows, which are fewer than the limit, each
\* handler claims at most one seat.
LEMMA PassedCheckWithin ==
    ASSUME TypeOK, LimitOK, NEW r \in Slots, CountSeats(r), pc'[r] = "owner",
           NEW t \in Tenants, Within(t)
    PROVE  Within(t)'
<1>0. ~Finish(r) /\ UNCHANGED <<rep, mid, machines>>
  <2>1. ~Finish(r)
    BY FinishQuiet
  <2> QED  BY <2>1 DEF CountSeats
<1>1. SeatsUsed(t)' = SeatsUsed(t)
  BY <1>0 DEF CountSeats, Goto, TypeOK, SeatsUsed, Upserting, TenantOf, RowsOf,
              Exists
<1>2. CASE TenantOf(r) # t
  <2>1. Cleared(t)' = Cleared(t)
    BY <1>0, <1>2 DEF CountSeats, Goto, TypeOK, Cleared, TenantOf
  <2> QED  BY <1>1, <2>1, ShrinkKeepsWithin DEF Shrinks
<1>3. CASE TenantOf(r) = t
  <2>1. lim[r] \in SeatsEverGranted(t) /\ lim[r] \in Nat
    BY <1>3, GrantedType DEF CountSeats, LimitOK
  <2>2. Cardinality(RowsOf(t)) < lim[r] /\ Cardinality(RowsOf(t)) \in Nat
    BY <1>0, <1>3, <2>1, RowsOfFinite DEF CountSeats
  <2>3. Cleared(t)' \in SUBSET Slots /\ Upserting(t) \in SUBSET Slots
    BY DEF Cleared, Upserting
  <2>4. Upserting(t) \cap Cleared(t)' = {}
    BY <1>0 DEF CountSeats, Goto, TypeOK, Upserting, Cleared, TenantOf
  <2>5. /\ IsFiniteSet(Cleared(t)') /\ Cardinality(Cleared(t)') \in Nat
        /\ IsFiniteSet(Upserting(t)) /\ Cardinality(Upserting(t)) \in Nat
    BY <2>3, SlotsFinite, FS_Subset, FS_CardinalityType
  <2>6. Cardinality(Upserting(t) \cup Cleared(t)')
           = Cardinality(Upserting(t)) + Cardinality(Cleared(t)')
    BY <2>4, <2>5, FS_Union, FS_EmptySet
  <2>7. Cardinality(Upserting(t) \cup Cleared(t)') =< Cardinality(Slots)
    BY <2>3, SlotsFinite, FS_Subset
  <2>8. /\ Cardinality(SeatsUsed(t)) \in Nat
        /\ Cardinality(SeatsUsed(t))
              =< Cardinality(RowsOf(t)) + Cardinality(Upserting(t))
    BY ClaimsFinite
  <2>9. Cardinality(SeatsUsed(t)') + Cardinality(Cleared(t)')
           =< lim[r] + Cardinality(Slots) - 1
    BY <1>1, <2>1, <2>2, <2>5, <2>6, <2>7, <2>8, SlotsFinite
  <2> QED
    BY <2>1, <2>9 DEF Within, SeatsEverGranted
<1> QED
  BY <1>2, <1>3

LEMMA SeatInit == Init => SeatInv
<1> SUFFICES ASSUME Init PROVE SeatInv
  OBVIOUS
<1>1. LimitOK
  BY DEF Init, LimitOK
<1>2. ASSUME NEW t \in Tenants, McaLimit[t] > 0  PROVE Within(t)
  <2>1. SeatsUsed(t) = {} /\ Cleared(t) = {}
    BY DEF Init, SeatsUsed, Cleared, Upserting, RowsOf, Exists
  <2>2. McaLimit[t] \in SeatsEverGranted(t) /\ McaLimit[t] \in Nat
    BY GrantedType
  <2> QED
    BY <1>2, <2>1, <2>2, SlotsFinite, FS_EmptySet DEF Within
<1> QED
  BY <1>1, <1>2 DEF SeatInv

\* The limit a handler compares with was granted at some time.
LEMMA LimitStep ==
    ASSUME TypeOK, LimitOK, [Next]_vars
    PROVE  LimitOK'
<1>1. ASSUME NEW r \in Slots, ReadLimit(r)  PROVE LimitOK'
  <2>1. TenantOf(r) \in Tenants
    BY <1>1, ReportType, TypeSplit DEF ReadLimit
  <2>2. lim'[r] \in SeatsEverGranted(TenantOf(r))
    BY <1>1, <2>1, GrantedType DEF ReadLimit, TypeOK
  <2> QED
    BY <1>1, <2>2 DEF ReadLimit, LimitOK, Goto, TypeOK, TenantOf, SeatsEverGranted
<1>2. ASSUME NEW r \in Slots, Finish(r)  PROVE LimitOK'
  BY <1>2 DEF Finish, Goto, LimitOK, TypeOK, TenantOf, SeatsEverGranted
<1>3. ASSUME NEW r \in Slots, Statement(r), ~ReadLimit(r), ~Finish(r)
      PROVE  LimitOK'
  <2>1. UNCHANGED <<rep, lim>>
    BY <1>3 DEF Statement, PickTenantToken, Lookup, Adopt, CountSeats, ChooseId,
         Upsert, ReadBaseline, Lock, Purge, InsertAndCommit, RecordDrift,
         Aggregate, WriteSnapshot
  <2>2. PICK label \in Labels \ {"count"} : Goto(r, label)
    BY <1>3 DEF Statement, PickTenantToken, Lookup, Adopt, CountSeats, ChooseId,
         Upsert, ReadBaseline, Lock, Purge, InsertAndCommit, RecordDrift,
         Aggregate, WriteSnapshot, Labels
  <2> QED
    BY <2>1, <2>2 DEF Goto, LimitOK, TypeOK, TenantOf, SeatsEverGranted
<1>4. ASSUME NEW r \in Slots, NEW rp \in Reports,
             AuthToken(r, rp) \/ AuthLicense(r, rp)
      PROVE  LimitOK'
  <2>1. /\ pc'[r] # "count"
        /\ \A s \in Slots \ {r} : pc'[s] = pc[s] /\ rep'[s] = rep[s]
        /\ lim' = lim
    BY <1>4 DEF AuthToken, AuthLicense, Goto, TypeOK
  <2> QED
    BY <2>1 DEF LimitOK, TenantOf, SeatsEverGranted
<1>5. CASE Admin \/ UNCHANGED vars
  <2>1. UNCHANGED <<pc, rep, lim>>
    BY <1>5 DEF vars, Admin, IssueToken, DeleteToken, RevokeLicense,
         ReactivateLicense, ExpireLicense, SetLicense, DeleteMachineAssets,
         DeleteMachineRow
  <2> QED  BY <2>1 DEF LimitOK, TenantOf, SeatsEverGranted
<1> QED
  BY <1>1, <1>2, <1>3, <1>4, <1>5 DEF Next, Abort, BreakDeadlock

\* Every step keeps a limited tenant's claims within its bound.
LEMMA WithinStep ==
    ASSUME TypeOK, LimitOK, [Next]_vars,
           NEW t \in Tenants, McaLimit[t] > 0, Within(t)
    PROVE  Within(t)'
<1>1. ASSUME NEW r \in Slots, ChooseId(r)  PROVE Within(t)'
  BY <1>1, ChooseIdWithin
<1>2. ASSUME NEW r \in Slots, CountSeats(r), pc'[r] = "owner"  PROVE Within(t)'
  BY <1>2, PassedCheckWithin
<1>3. ASSUME NEW r \in Slots, ReadLimit(r), pc'[r] = "owner"  PROVE Within(t)'
  \* Without a limit: then the tenant is another one.
  <2>1. TenantOf(r) \in Tenants
    BY <1>3, ReportType, TypeSplit DEF ReadLimit
  <2>2. TenantOf(r) # t
    <3>1. SUFFICES ASSUME TenantOf(r) = t PROVE FALSE
      OBVIOUS
    <3>2. PICK n \in SeatSources(t) :
             /\ \A k \in SeatSources(t) : k =< n
             /\ Goto(r, IF n > 0 THEN "count" ELSE "owner")
      BY <1>3, <3>1 DEF ReadLimit
    <3>3. n \in Nat /\ McaLimit[t] =< n /\ McaLimit[t] \in Nat
      BY <3>2, GrantedType
    <3>4. pc'[r] = "count"
      BY <3>2, <3>3 DEF Goto, TypeOK
    <3> QED  BY <1>3, <3>4
  <2>3. Shrinks(t)
    BY <1>3, <2>2 DEF ReadLimit, Goto, TypeOK, Shrinks, SeatsUsed, Cleared,
         Upserting, TenantOf, RowsOf, Exists
  <2> QED  BY <2>3, ShrinkKeepsWithin
<1>4. ASSUME NEW r \in Slots, Statement(r), ~ChooseId(r), pc'[r] # "owner"
      PROVE  Within(t)'
  BY <1>4, StatementShrinks, ShrinkKeepsWithin
<1>5. ASSUME NEW r \in Slots, Statement(r), pc'[r] = "owner"
      PROVE  ReadLimit(r) \/ CountSeats(r)
  BY <1>5 DEF Statement, PickTenantToken, Lookup, Adopt, ChooseId, Upsert,
       ReadBaseline, Lock, Purge, InsertAndCommit, RecordDrift, Aggregate,
       WriteSnapshot, Finish, Goto, TypeOK
<1>6. ASSUME NEW r \in Slots, Finish(r), UNCHANGED machines  PROVE Within(t)'
  <2>1. RowsOf(t)' \subseteq SeatsUsed(t)
    BY <1>6 DEF RowsOf, Exists, SeatsUsed
  <2>2. Shrinks(t)
    BY <1>6, <2>1, FinishQuiet, QuietStep
  <2> QED  BY <2>2, ShrinkKeepsWithin
<1>7. ASSUME NEW r \in Slots, NEW rp \in Reports,
             AuthToken(r, rp) \/ AuthLicense(r, rp)
      PROVE  Within(t)'
  <2>1. Shrinks(t)
    BY <1>7 DEF AuthToken, AuthLicense, Goto, TypeOK, Shrinks, SeatsUsed,
         Cleared, Upserting, TenantOf, RowsOf, Exists
  <2> QED  BY <2>1, ShrinkKeepsWithin
<1>8. CASE Admin \/ UNCHANGED vars
  <2>1. UNCHANGED <<pc, rep, mid>>
    BY <1>8 DEF vars, Admin, IssueToken, DeleteToken, RevokeLicense,
         ReactivateLicense, ExpireLicense, SetLicense, DeleteMachineAssets,
         DeleteMachineRow
  <2>2. RowsOf(t)' \subseteq RowsOf(t)
    BY <1>8 DEF vars, Admin, IssueToken, DeleteToken, RevokeLicense,
         ReactivateLicense, ExpireLicense, SetLicense, DeleteMachineAssets,
         DeleteMachineRow, RowsOf, Exists, TypeOK
  <2>3. Shrinks(t)
    BY <2>1, <2>2 DEF Shrinks, SeatsUsed, Cleared, Upserting, TenantOf
  <2> QED  BY <2>3, ShrinkKeepsWithin
<1> QED
  BY <1>1, <1>2, <1>3, <1>4, <1>5, <1>6, <1>7, <1>8
     DEF Next, Abort, BreakDeadlock

LEMMA SeatBound ==
    ASSUME SeatInv
    PROVE  SeatOvershootBounded
<1> SUFFICES ASSUME NEW t \in Tenants, McaLimit[t] > 0
             PROVE  \E n \in SeatsEverGranted(t) :
                       Cardinality(RowsOf(t)) =< n + Cardinality(Slots) - 1
  BY DEF SeatOvershootBounded
<1>1. PICK n \in SeatsEverGranted(t) :
         Cardinality(SeatsUsed(t)) + Cardinality(Cleared(t))
            =< n + Cardinality(Slots) - 1
  BY DEF SeatInv, Within
<1>2. n \in Nat
  BY <1>1, GrantedType
<1> QED
  BY <1>1, <1>2, ClaimsFinite, RowsOfFinite, SlotsFinite

\* However many handlers run, a tenant with a client limit exceeds its seats by
\* less than their number (DEF-21's check, counted before the insert).
THEOREM SeatsBounded == Spec => []SeatOvershootBounded
<1>1. TypeOK /\ SeatInv /\ [Next]_vars => SeatInv'
  <2> SUFFICES ASSUME TypeOK, SeatInv, [Next]_vars  PROVE SeatInv'
    OBVIOUS
  <2>1. LimitOK'
    BY LimitStep DEF SeatInv
  <2>2. ASSUME NEW t \in Tenants, McaLimit[t] > 0  PROVE Within(t)'
    BY <2>2, WithinStep DEF SeatInv
  <2> QED  BY <2>1, <2>2 DEF SeatInv
<1>2. SeatInv => SeatOvershootBounded
  BY SeatBound
<1> QED
  BY <1>1, <1>2, SeatInit, TypeCorrect, PTL DEF Spec

\* With one handler DEF-21's limit is exact: it is the interleaving of handlers,
\* and nothing else in the code, that lets a tenant exceed its seats.
THEOREM SeatLimitExactAlone ==
    ASSUME Cardinality(Slots) = 1
    PROVE  Spec => []SeatLimitEnforced
<1>1. SeatOvershootBounded => SeatLimitEnforced
  <2> SUFFICES ASSUME SeatOvershootBounded, NEW t \in Tenants, McaLimit[t] > 0
               PROVE  \E n \in SeatsEverGranted(t) : Cardinality(RowsOf(t)) =< n
    BY DEF SeatLimitEnforced
  <2>1. PICK n \in SeatsEverGranted(t) :
           Cardinality(RowsOf(t)) =< n + Cardinality(Slots) - 1
    BY DEF SeatOvershootBounded
  <2>2. n \in Nat /\ Cardinality(RowsOf(t)) \in Nat
    BY GrantedType, RowsOfFinite
  <2> QED  BY <2>1, <2>2
<1> QED
  BY <1>1, SeatsBounded, PTL

-----------------------------------------------------------------------------
(* Tenants and devices.                                                    *)

\* An upsert never re-homes a row, whatever ids collide.
THEOREM TenantsFixed == Spec => RowTenantFixed
<1>1. TypeOK /\ [Next]_vars =>
        [\A i \in Ids : (Exists(i) /\ Exists(i)')
            => machines'[i].tenant = machines[i].tenant]_vars
  <2> SUFFICES ASSUME TypeOK, Next, NEW i \in Ids, Exists(i), Exists(i)'
               PROVE  machines'[i].tenant = machines[i].tenant
    BY DEF TypeOK
  <2>1. ASSUME NEW r \in Slots, Upsert(r)
        PROVE  machines'[i].tenant = machines[i].tenant
    <3>1. mid[r] = i => Upserted(r).tenant = machines[i].tenant
      BY DEF Upserted
    <3> QED  BY <2>1, <3>1 DEF Upsert, TypeOK
  <2>2. CASE DeleteMachineRow
    BY <2>2 DEF DeleteMachineRow, TypeOK, Exists
  <2>3. CASE UNCHANGED machines
    BY <2>3
  <2> QED
    BY <2>1, <2>2, <2>3
       DEF Next, AuthToken, AuthLicense, Statement, PickTenantToken, Lookup,
           Adopt, ReadLimit, CountSeats, ChooseId, ReadBaseline, Lock, Purge,
           InsertAndCommit, RecordDrift, Aggregate, WriteSnapshot, Abort,
           BreakDeadlock, Admin, IssueToken, DeleteToken, RevokeLicense,
           ReactivateLicense, ExpireLicense, SetLicense, DeleteMachineAssets
<1> QED
  BY <1>1, TypeCorrect, PTL DEF Spec, RowTenantFixed

(***************************************************************************)
(* One row per device, when every agent reports a device id and no two ids *)
(* collide: a row then always sits at the hash of its tenant and device, so *)
(* two handlers that both miss it still upsert the same row.               *)
(***************************************************************************)

AllIdentified == \A rp \in Reports : rp.uuid # NoUuid

IdsInjective ==
    \A p, q \in Tenants \X Devices : HashId[p] = HashId[q] => p = q

AtItsHash ==
    /\ \A i \in Ids : Exists(i) =>
          /\ machines[i].uuid # NoUuid
          /\ i = HashId[Key(machines[i].tenant, machines[i].uuid)]
    /\ \A r \in Slots : pc[r] = "upsert" =>
          mid[r] = HashId[Key(TenantOf(r), rep[r].uuid)]

LEMMA IdentifiedReport ==
    ASSUME AllIdentified, TypeOK, NEW r \in Slots, pc[r] # "idle"
    PROVE  /\ rep[r].uuid \in Uuids
           /\ Device(r) = rep[r].uuid
           /\ Key(TenantOf(r), rep[r].uuid) \in Tenants \X Devices
<1>1. /\ rep[r] \in Reports /\ rep[r] \in Report /\ TenantOf(r) \in Tenants
  BY TypeSplit, ReportType
<1>2. rep[r].uuid \in Uuids
  BY <1>1 DEF AllIdentified, Report
<1> QED
  BY <1>1, <1>2, ReportAssumption DEF Device, Key, Devices

LEMMA RowKey ==
    ASSUME TypeOK, AtItsHash, NEW i \in Ids, Exists(i)
    PROVE  Key(machines[i].tenant, machines[i].uuid) \in Tenants \X Devices
BY DEF TypeOK, AtItsHash, Exists, Row, Key, Devices

LEMMA AtItsHashInit == Init => AtItsHash
BY DEF Init, AtItsHash, Exists

LEMMA AtItsHashStep ==
    ASSUME AllIdentified, IdsInjective, TypeOK, AtItsHash, [Next]_vars
    PROVE  AtItsHash'
<1>1. ASSUME NEW r \in Slots, Lookup(r)  PROVE AtItsHash'
  <2>1. \A i \in UuidMatches(r) : i = HashId[Key(TenantOf(r), rep[r].uuid)]
    BY DEF UuidMatches, RowsOf, AtItsHash
  <2>2. rep[r].uuid # NoUuid
    BY <1>1, IdentifiedReport, ReportAssumption DEF Lookup
  <2> QED
    BY <1>1, <2>1, <2>2 DEF Lookup, AtItsHash, Goto, TypeOK, Exists, TenantOf
<1>2. ASSUME NEW r \in Slots, Adopt(r)  PROVE AtItsHash'
  <2>1. HostMatches(r) = {}
    BY DEF HostMatches, RowsOf, AtItsHash
  <2> QED
    BY <1>2, <2>1 DEF Adopt, AtItsHash, Goto, TypeOK, Exists, TenantOf
<1>3. ASSUME NEW r \in Slots, ChooseId(r)  PROVE AtItsHash'
  <2> DEFINE key == Key(TenantOf(r), rep[r].uuid)
  <2>1. key \in Tenants \X Devices /\ Device(r) = rep[r].uuid
    BY <1>3, IdentifiedReport DEF ChooseId
  <2>2. HashId[key] \in Ids
    BY <2>1, IdAssumption
  <2>3. ASSUME Exists(HashId[key])
        PROVE  machines[HashId[key]].tenant = TenantOf(r)
    <3> DEFINE i == HashId[key]
    <3>1. Key(machines[i].tenant, machines[i].uuid) \in Tenants \X Devices
      BY <2>2, <2>3, RowKey
    <3>2. HashId[key] = HashId[Key(machines[i].tenant, machines[i].uuid)]
      BY <2>2, <2>3 DEF AtItsHash
    <3>3. key = Key(machines[i].tenant, machines[i].uuid)
      BY <2>1, <3>1, <3>2 DEF IdsInjective
    <3> QED  BY <3>3 DEF Key
  <2>4. mid' = [mid EXCEPT ![r] = HashId[key]]
    BY <1>3, <2>1, <2>3 DEF ChooseId
  <2> QED
    BY <1>3, <2>4 DEF ChooseId, AtItsHash, Goto, TypeOK, Exists, TenantOf
<1>4. ASSUME NEW r \in Slots, Upsert(r)  PROVE AtItsHash'
  <2>1. CASE Finish(r) /\ UNCHANGED machines
    BY <2>1 DEF Finish, Goto, AtItsHash, TypeOK, Exists, TenantOf
  <2>2. CASE ~(Finish(r) /\ UNCHANGED machines)
    <3>1. /\ machines' = [machines EXCEPT ![mid[r]] = Upserted(r)]
          /\ UNCHANGED <<rep, mid>>
          /\ pc' = [pc EXCEPT ![r] = "baseline"]
      BY <1>4, <2>2 DEF Upsert, Goto
    <3>2. /\ mid[r] = HashId[Key(TenantOf(r), rep[r].uuid)]
          /\ rep[r].uuid \in Uuids
          /\ mid[r] \in Ids
      BY <1>4, IdentifiedReport DEF Upsert, AtItsHash, TypeOK
    <3>3. /\ Upserted(r).uuid # NoUuid
          /\ mid[r] = HashId[Key(Upserted(r).tenant, Upserted(r).uuid)]
      BY <3>2, ReportAssumption DEF Upserted, AtItsHash
    <3> QED
      BY <3>1, <3>2, <3>3 DEF AtItsHash, TypeOK, Exists, TenantOf
  <2> QED
    BY <1>4, <2>1, <2>2 DEF Upsert
<1>5. ASSUME NEW r \in Slots, Finish(r), UNCHANGED machines  PROVE AtItsHash'
  BY <1>5 DEF Finish, Goto, AtItsHash, TypeOK, Exists, TenantOf
<1>6. ASSUME NEW r \in Slots, Statement(r), ~Lookup(r), ~Adopt(r), ~ChooseId(r),
             ~Upsert(r), ~Finish(r)
      PROVE  AtItsHash'
  BY <1>6 DEF Statement, PickTenantToken, ReadLimit, CountSeats, ReadBaseline,
       Lock, Purge, InsertAndCommit, RecordDrift, Aggregate, WriteSnapshot,
       Goto, AtItsHash, TypeOK, Exists, TenantOf
<1>7. ASSUME NEW r \in Slots, Statement(r), Finish(r), ~Upsert(r)
      PROVE  UNCHANGED machines
  BY <1>7 DEF Statement, PickTenantToken, Lookup, Adopt, ReadLimit, CountSeats,
       ChooseId, ReadBaseline, Lock, Purge, InsertAndCommit, RecordDrift,
       Aggregate, WriteSnapshot
<1>8. ASSUME NEW r \in Slots, NEW rp \in Reports,
             AuthToken(r, rp) \/ AuthLicense(r, rp)
      PROVE  AtItsHash'
  BY <1>8 DEF AuthToken, AuthLicense, Goto, AtItsHash, TypeOK, Exists, TenantOf
<1>9. CASE Admin \/ UNCHANGED vars
  <2>1. /\ UNCHANGED <<pc, rep, mid>>
        /\ \A i \in Ids : machines'[i] \in {machines[i], NoRow}
    BY <1>9 DEF vars, Admin, IssueToken, DeleteToken, RevokeLicense,
         ReactivateLicense, ExpireLicense, SetLicense, DeleteMachineAssets,
         DeleteMachineRow, TypeOK
  <2> QED
    BY <2>1 DEF AtItsHash, Exists, TenantOf
<1> QED
  BY <1>1, <1>2, <1>3, <1>4, <1>5, <1>6, <1>7, <1>8, <1>9
     DEF Next, Abort, BreakDeadlock

\* A tenant has one row, and so one seat, per device id.
THEOREM OneSeatPerDevice ==
    ASSUME AllIdentified, IdsInjective
    PROVE  Spec => []OneRowPerUuid
<1>1. TypeOK /\ AtItsHash /\ [Next]_vars => AtItsHash'
  BY AtItsHashStep
<1>2. AtItsHash => OneRowPerUuid
  BY DEF AtItsHash, OneRowPerUuid
<1> QED
  BY <1>1, <1>2, AtItsHashInit, TypeCorrect, PTL DEF Spec

\* And the row stays that device's for as long as it exists.
THEOREM DevicesKeepTheirRow ==
    ASSUME AllIdentified, IdsInjective
    PROVE  Spec => UuidNeverReassigned
<1>1. TypeOK /\ AtItsHash /\ [Next]_vars => AtItsHash'
  BY AtItsHashStep
<1>2. TypeOK /\ AtItsHash /\ AtItsHash' /\ TypeOK' /\ [Next]_vars =>
        [\A i \in Ids :
            (Exists(i) /\ Exists(i)' /\ machines[i].uuid # NoUuid)
              => machines'[i].uuid = machines[i].uuid]_vars
  <2> SUFFICES ASSUME TypeOK, AtItsHash, Next, NEW i \in Ids, Exists(i),
                      Exists(i)'
               PROVE  machines'[i].uuid = machines[i].uuid
    OBVIOUS
  <2>1. ASSUME NEW r \in Slots, Upsert(r), mid[r] = i
        PROVE  machines'[i].uuid = machines[i].uuid
    <3>1. CASE machines[i].tenant = TenantOf(r)
      <4>1. /\ Key(TenantOf(r), rep[r].uuid) \in Tenants \X Devices
            /\ HashId[Key(TenantOf(r), rep[r].uuid)] = i
        BY <2>1, IdentifiedReport DEF Upsert, AtItsHash
      <4>2. /\ Key(machines[i].tenant, machines[i].uuid) \in Tenants \X Devices
            /\ HashId[Key(machines[i].tenant, machines[i].uuid)] = i
        BY RowKey DEF AtItsHash
      <4>3. machines[i].uuid = rep[r].uuid
        BY <4>1, <4>2 DEF IdsInjective, Key
      <4>4. Upserted(r).uuid = machines[i].uuid
        BY <2>1, <4>3 DEF Upserted
      <4> QED  BY <2>1, <4>4 DEF Upsert, TypeOK
    <3>2. CASE machines[i].tenant # TenantOf(r)
      BY <2>1, <3>2 DEF Upsert, Upserted, TypeOK
    <3> QED  BY <3>1, <3>2
  <2>2. ASSUME NEW r \in Slots, Upsert(r), mid[r] # i
        PROVE  machines'[i].uuid = machines[i].uuid
    BY <2>2 DEF Upsert, TypeOK
  <2>3. CASE DeleteMachineRow
    BY <2>3 DEF DeleteMachineRow, TypeOK, Exists
  <2>4. CASE UNCHANGED machines
    BY <2>4
  <2> QED
    BY <2>1, <2>2, <2>3, <2>4
       DEF Next, AuthToken, AuthLicense, Statement, PickTenantToken, Lookup,
           Adopt, ReadLimit, CountSeats, ChooseId, ReadBaseline, Lock, Purge,
           InsertAndCommit, RecordDrift, Aggregate, WriteSnapshot, Abort,
           BreakDeadlock, Admin, IssueToken, DeleteToken, RevokeLicense,
           ReactivateLicense, ExpireLicense, SetLicense, DeleteMachineAssets
<1> QED
  BY <1>1, <1>2, AtItsHashInit, TypeCorrect, PTL DEF Spec, UuidNeverReassigned
\* Two machines are merged only by an agent that reports no device id (or by ids
\* that collide): otherwise a row is only ever written by its own device.
THEOREM IdentifiedRowsNotMerged ==
    ASSUME AllIdentified, IdsInjective
    PROVE  Spec => IdentifiedRowKeptByDevice
<1>1. TypeOK /\ AtItsHash /\ [Next]_vars => AtItsHash'
  BY AtItsHashStep
<1>2. TypeOK /\ AtItsHash /\ [Next]_vars =>
        [\A r \in Slots :
            (/\ pc[r] = "upsert" /\ pc'[r] = "baseline"
             /\ Exists(mid[r]) /\ machines[mid[r]].uuid # NoUuid)
                => rep[r].uuid = machines[mid[r]].uuid]_vars
  <2> SUFFICES ASSUME TypeOK, AtItsHash, NEW r \in Slots, pc[r] = "upsert",
                      Exists(mid[r])
               PROVE  rep[r].uuid = machines[mid[r]].uuid
    OBVIOUS
  <2> DEFINE row == machines[mid[r]]
  <2>1. mid[r] \in Ids
    BY DEF TypeOK
  <2>2. /\ Key(TenantOf(r), rep[r].uuid) \in Tenants \X Devices
        /\ HashId[Key(TenantOf(r), rep[r].uuid)] = mid[r]
    BY IdentifiedReport DEF AtItsHash
  <2>3. /\ Key(row.tenant, row.uuid) \in Tenants \X Devices
        /\ HashId[Key(row.tenant, row.uuid)] = mid[r]
    BY <2>1, RowKey DEF AtItsHash
  <2>4. Key(TenantOf(r), rep[r].uuid) = Key(row.tenant, row.uuid)
    BY <2>2, <2>3 DEF IdsInjective
  <2> QED  BY <2>4 DEF Key
<1> QED
  BY <1>1, <1>2, AtItsHashInit, TypeCorrect, PTL
     DEF Spec, IdentifiedRowKeptByDevice

-----------------------------------------------------------------------------
(***************************************************************************)
(* One slot at a time.  Every step is a step of one handler, which leaves  *)
(* the variables of the others alone, the end of one, or the               *)
(* administrator's, which leaves all handlers alone.                       *)
(***************************************************************************)

Kept(r) ==
    \A s \in Slots \ {r} :
        /\ pc'[s] = pc[s]         /\ rep'[s] = rep[s]   /\ tok'[s] = tok[s]
        /\ mid'[s] = mid[s]       /\ base'[s] = base[s] /\ del'[s] = del[s]
        /\ locked'[s] = locked[s] /\ agg'[s] = agg[s]

Authenticates(r) == \E rp \in Reports : AuthToken(r, rp) \/ AuthLicense(r, rp)
Ends(r) == Finish(r) /\ UNCHANGED <<db, adm>>

LEMMA StepCases ==
    ASSUME Next
    PROVE  \/ \E r \in Slots : Authenticates(r) \/ Statement(r) \/ Ends(r)
           \/ Admin
BY DEF Next, Authenticates, Ends, Abort, BreakDeadlock

LEMMA OthersKept ==
    ASSUME TypeOK, NEW r \in Slots,
           Authenticates(r) \/ Statement(r) \/ Finish(r)
    PROVE  Kept(r)
<1>1. CASE Finish(r)
  BY <1>1 DEF Finish, Goto, Kept, TypeOK
<1>2. CASE Authenticates(r)
  BY <1>2 DEF Authenticates, AuthToken, AuthLicense, Goto, Kept, TypeOK
<1>3. CASE Statement(r) /\ ~Finish(r)
  BY <1>3 DEF Statement, PickTenantToken, Lookup, Adopt, ReadLimit, CountSeats,
       ChooseId, Upsert, ReadBaseline, Lock, Purge, InsertAndCommit,
       RecordDrift, Aggregate, WriteSnapshot, Goto, Kept, TypeOK
<1> QED
  BY <1>1, <1>2, <1>3

LEMMA AdminKeepsHandlers ==
    ASSUME Admin \/ UNCHANGED vars
    PROVE  UNCHANGED <<pc, locals>>
BY DEF vars, Admin, IssueToken, DeleteToken, RevokeLicense, ReactivateLicense,
       ExpireLicense, SetLicense, DeleteMachineAssets, DeleteMachineRow

\* A revoked token enrols nothing: only the upsert of its own report takes a
\* handler past the upsert, and that one the foreign key refuses.
THEOREM RevocationEndsEnrolment == Spec => RevokedTokenEnrolsNothing
<1>1. TypeOK /\ [Next]_vars =>
        [\A r \in Slots :
            (tok[r] # NoToken /\ tokens[tok[r]] = "deleted" /\ pc[r] = "upsert")
              => machines'[mid[r]] = machines[mid[r]] \/ pc'[r] = "upsert"]_vars
  <2> SUFFICES ASSUME TypeOK, Next, NEW r \in Slots, tok[r] # NoToken,
                      tokens[tok[r]] = "deleted", pc[r] = "upsert",
                      pc'[r] # "upsert"
               PROVE  UNCHANGED machines
    OBVIOUS
  <2>1. \/ Authenticates(r) \/ Statement(r) \/ Ends(r)
        \/ \E s \in Slots \ {r} : Authenticates(s) \/ Statement(s) \/ Ends(s)
        \/ Admin
    BY StepCases
  <2>2. ~ \E s \in Slots \ {r} : Authenticates(s) \/ Statement(s) \/ Ends(s)
    BY OthersKept DEF Kept, Ends
  <2>3. ~Admin
    BY AdminKeepsHandlers
  <2>4. CASE Statement(r)
    <3>1. Upsert(r)
      BY <2>4 DEF Statement, PickTenantToken, Lookup, Adopt, ReadLimit,
           CountSeats, ChooseId, ReadBaseline, Lock, Purge, InsertAndCommit,
           RecordDrift, Aggregate, WriteSnapshot
    <3> QED  BY <3>1 DEF Upsert
  <2>5. CASE Authenticates(r) \/ Ends(r)
    BY <2>5 DEF Authenticates, AuthToken, AuthLicense, Ends
  <2> QED
    BY <2>1, <2>2, <2>3, <2>4, <2>5
<1> QED
  BY <1>1, TypeCorrect, PTL DEF Spec, RevokedTokenEnrolsNothing

(***************************************************************************)
(* The inventory.  While a transaction that holds the machine row has      *)
(* purged and not committed, the machine has no asset row that it has not  *)
(* deleted: another sync's inserts wait for the row, a deletion only       *)
(* takes rows away.                                                        *)
(***************************************************************************)

PurgedAll ==
    \A r \in Slots : pc[r] = "insert" /\ locked[r] => assets[mid[r]] \subseteq del[r]

LEMMA PurgedAllStep ==
    ASSUME TypeOK, PurgedAll, [Next]_vars
    PROVE  PurgedAll'
<1>1. ASSUME NEW r \in Slots, Statement(r)  PROVE PurgedAll'
  <2> SUFFICES ASSUME NEW s \in Slots, pc'[s] = "insert", locked'[s]
               PROVE  assets'[mid'[s]] \subseteq del'[s]
    BY DEF PurgedAll
  <2>1. CASE s = r
    BY <1>1, <2>1 DEF Statement, PickTenantToken, Lookup, Adopt, ReadLimit,
       CountSeats, ChooseId, Upsert, ReadBaseline, Lock, Purge,
       InsertAndCommit, RecordDrift, Aggregate, WriteSnapshot, Goto, Finish,
       TypeOK
  <2>2. CASE s # r
    <3>1. /\ pc[s] = "insert" /\ locked[s]
          /\ mid'[s] = mid[s] /\ del'[s] = del[s] /\ mid[s] \in Ids
      BY <1>1, <2>2, OthersKept DEF Kept, TypeOK
    <3>2. assets'[mid[s]] = assets[mid[s]]
      <4>1. CASE InsertAndCommit(r)
        <5>1. mid[r] # mid[s]
          BY <2>2, <3>1, <4>1 DEF InsertAndCommit, HeldByOther
        <5> QED  BY <3>1, <4>1, <5>1 DEF InsertAndCommit, TypeOK
      <4>2. CASE ~InsertAndCommit(r)
        BY <1>1, <4>2 DEF Statement, PickTenantToken, Lookup, Adopt, ReadLimit,
           CountSeats, ChooseId, Upsert, ReadBaseline, Lock, Purge,
           RecordDrift, Aggregate, WriteSnapshot
      <4> QED  BY <4>1, <4>2
    <3> QED  BY <3>1, <3>2 DEF PurgedAll
  <2> QED  BY <2>1, <2>2
<1>2. ASSUME NEW r \in Slots, Authenticates(r) \/ Ends(r)  PROVE PurgedAll'
  <2>1. Kept(r) /\ pc'[r] # "insert" /\ UNCHANGED assets
    BY <1>2, OthersKept DEF Authenticates, AuthToken, AuthLicense, Ends,
       Finish, Goto, TypeOK
  <2> QED  BY <2>1 DEF Kept, PurgedAll
<1>3. CASE Admin \/ UNCHANGED vars
  <2>1. UNCHANGED <<pc, locals>>
    BY <1>3, AdminKeepsHandlers
  <2>2. \A i \in Ids : assets'[i] \subseteq assets[i]
    BY <1>3 DEF vars, Admin, IssueToken, DeleteToken, RevokeLicense,
       ReactivateLicense, ExpireLicense, SetLicense, DeleteMachineAssets,
       DeleteMachineRow, TypeOK
  <2>3. \A r \in Slots : pc[r] = "insert" => mid[r] \in Ids
    BY DEF TypeOK
  <2> QED  BY <2>1, <2>2, <2>3 DEF PurgedAll
<1> QED
  BY <1>1, <1>2, <1>3, StepCases

\* A sync that holds its machine's row leaves its own inventory, whatever other
\* syncs of the machine, deletions and failures come between its statements.
THEOREM InventoryReplaced == Spec => SyncReplacesInventory
<1>1. Init => PurgedAll
  BY DEF Init, PurgedAll
<1>2. TypeOK /\ PurgedAll /\ [Next]_vars => PurgedAll'
  BY PurgedAllStep
<1>3. TypeOK /\ PurgedAll /\ [Next]_vars =>
        [\A r \in Slots : (pc[r] = "insert" /\ locked[r] /\ pc'[r] = "drift")
              => assets'[mid[r]] = Payload(r)]_vars
  <2> SUFFICES ASSUME TypeOK, PurgedAll, Next, NEW r \in Slots,
                      pc[r] = "insert", locked[r], pc'[r] = "drift"
               PROVE  assets'[mid[r]] = Payload(r)
    OBVIOUS
  <2>1. ~ \E s \in Slots \ {r} : Authenticates(s) \/ Statement(s) \/ Ends(s)
    BY OthersKept DEF Kept, Ends
  <2>2. ~Admin /\ ~Authenticates(r) /\ ~Ends(r)
    BY AdminKeepsHandlers DEF Authenticates, AuthToken, AuthLicense, Ends,
       Finish, Goto, TypeOK
  <2>3. Statement(r)
    BY <2>1, <2>2, StepCases
  <2>4. InsertAndCommit(r) /\ ~Finish(r)
    BY <2>3 DEF Statement, PickTenantToken, Lookup, Adopt, ReadLimit,
       CountSeats, ChooseId, Upsert, ReadBaseline, Lock, Purge, RecordDrift,
       Aggregate, WriteSnapshot, Finish, Goto, TypeOK
  <2>5. assets'[mid[r]] = (assets[mid[r]] \ del[r]) \cup Payload(r)
    BY <2>4 DEF InsertAndCommit, TypeOK
  <2> QED  BY <2>5 DEF PurgedAll
<1> QED
  BY <1>1, <1>2, <1>3, TypeCorrect, PTL DEF Spec, SyncReplacesInventory

-----------------------------------------------------------------------------
(***************************************************************************)
(* Locks.  Liveness is beyond the prover; what it rests on is not: whoever *)
(* waits for a row waits for a transaction that can go on, or that stands  *)
(* in a cycle the deadlock detector breaks.                                *)
(***************************************************************************)

\* Nothing holds up the next statement of r.
Ready(r) ==
    /\ pc[r] # "idle"
    /\ pc[r] \in {"upsert", "lock", "insert"} => ~HeldByOther(r, mid[r])
    /\ pc[r] = "purge" => ~PurgedByOther(r, mid[r])

\* The cycle of BreakDeadlock.
Deadlocked(r, s) ==
    /\ pc[r] = "insert" /\ del[r] # {}
    /\ pc[s] = "purge" /\ locked[s]
    /\ mid[s] = mid[r]

NobodyStuck ==
    \A r \in Slots : pc[r] # "idle" =>
        \E s \in Slots : /\ s = r \/ mid[s] = mid[r]
                         /\ Ready(s) \/ \E q \in Slots : Deadlocked(q, s)

\* Row locks and deleted rows belong to open transactions, and a row to one.
LocksOK ==
    /\ \A r \in Slots : locked[r] => pc[r] \in {"purge", "insert"}
    /\ \A r \in Slots : del[r] # {} => pc[r] = "insert"
    /\ \A r, s \in Slots : locked[r] /\ locked[s] /\ mid[r] = mid[s] => r = s

LEMMA LocksStep ==
    ASSUME TypeOK, LocksOK, [Next]_vars
    PROVE  LocksOK'
<1>1. ASSUME NEW r \in Slots, Authenticates(r) \/ Statement(r) \/ Ends(r)
      PROVE  LocksOK'
  <2>1. Kept(r)
    BY <1>1, OthersKept DEF Ends
  <2>2. /\ locked'[r] => pc'[r] \in {"purge", "insert"}
        /\ del'[r] # {} => pc'[r] = "insert"
        /\ locked'[r] => \/ locked[r] /\ mid'[r] = mid[r]
                         \/ ~HeldByOther(r, mid[r]) /\ mid'[r] = mid[r]
    <3>1. CASE Finish(r)
      BY <3>1 DEF Finish, Goto, TypeOK
    <3>2. CASE Authenticates(r)
      BY <3>2 DEF Authenticates, AuthToken, AuthLicense, Goto, TypeOK, LocksOK
    <3>3. CASE Statement(r) /\ ~Finish(r)
      BY <3>3 DEF Statement, PickTenantToken, Lookup, Adopt, ReadLimit,
         CountSeats, ChooseId, Upsert, ReadBaseline, Lock, Purge,
         InsertAndCommit, RecordDrift, Aggregate, WriteSnapshot, Goto, TypeOK,
         LocksOK
    <3> QED  BY <1>1, <3>1, <3>2, <3>3 DEF Ends
  <2>3. ASSUME NEW s \in Slots \ {r}, locked'[r], locked'[s], mid'[r] = mid'[s]
        PROVE  FALSE
    BY <2>1, <2>2, <2>3 DEF Kept, LocksOK, HeldByOther
  <2> QED
    BY <2>1, <2>2, <2>3 DEF Kept, LocksOK
<1>2. CASE Admin \/ UNCHANGED vars
  BY <1>2, AdminKeepsHandlers DEF LocksOK
<1> QED
  BY <1>1, <1>2, StepCases

\* Who holds a machine row is ready, or in a deadlock.
LEMMA HolderMoves ==
    ASSUME TypeOK, LocksOK, NEW s \in Slots, locked[s]
    PROVE  Ready(s) \/ \E q \in Slots : Deadlocked(q, s)
<1>1. CASE pc[s] = "insert"
  BY <1>1 DEF LocksOK, Ready, HeldByOther
<1>2. CASE pc[s] = "purge" /\ PurgedByOther(s, mid[s])
  BY <1>2 DEF LocksOK, PurgedByOther, Deadlocked
<1>3. CASE pc[s] = "purge" /\ ~PurgedByOther(s, mid[s])
  BY <1>3 DEF Ready
<1> QED
  BY <1>1, <1>2, <1>3 DEF LocksOK

\* No handler waits for ever on others that wait: for every report in progress
\* there is one of its machine that can go on, or a deadlock that is detected.
THEOREM WaitingIsForSomeone == Spec => []NobodyStuck
<1>1. Init => LocksOK
  BY DEF Init, LocksOK
<1>2. TypeOK /\ LocksOK /\ [Next]_vars => LocksOK'
  BY LocksStep
<1>3. TypeOK /\ LocksOK => NobodyStuck
  <2> SUFFICES ASSUME TypeOK, LocksOK, NEW r \in Slots, pc[r] # "idle"
               PROVE  \E s \in Slots : /\ s = r \/ mid[s] = mid[r]
                                       /\ \/ Ready(s)
                                          \/ \E q \in Slots : Deadlocked(q, s)
    BY DEF NobodyStuck
  <2>1. CASE Ready(r)
    BY <2>1
  <2>2. CASE HeldByOther(r, mid[r])
    BY <2>2, HolderMoves DEF HeldByOther
  <2>3. CASE pc[r] = "purge" /\ PurgedByOther(r, mid[r])
    <3>1. PICK q \in Slots : mid[q] = mid[r] /\ del[q] # {}
      BY <2>3 DEF PurgedByOther
    <3>2. pc[q] = "insert"
      BY <3>1 DEF LocksOK
    <3>3. CASE HeldByOther(q, mid[q])
      BY <3>1, <3>3, HolderMoves DEF HeldByOther
    <3>4. CASE ~HeldByOther(q, mid[q])
      BY <3>1, <3>2, <3>4 DEF Ready
    <3> QED  BY <3>3, <3>4
  <2> QED
    BY <2>1, <2>2, <2>3 DEF Ready
<1> QED
  BY <1>1, <1>2, <1>3, TypeCorrect, PTL DEF Spec
=============================================================================
