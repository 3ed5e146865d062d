------------------------- MODULE ThreatGraph_proofs -------------------------
(* Theorems about ThreatGraph, for any tenants, callers, reports and bounds. *)
EXTENDS ThreatGraph, TLAPS

USE GraphAssumption DEF GraphAssumption

-----------------------------------------------------------------------------
(* The inductive invariant.                                                  *)

Runs(c) == pc[c] \in RunLabels

\* A run that has its row has a tenant that is listed.
Rows == \A c \in Callers :
    pc[c] \in {"load", "record", "failed"} => arg[c].tenant \in listed

\* A tenant's runs do not overlap: whoever runs is the one in flight, and who
\* waits shares the run in flight, with its promise.
SingleFlight ==
    /\ \A c \in Callers : Runs(c) => inFlight[arg[c].tenant] = c
    /\ \A t \in Tenants : inFlight[t] \in Callers =>
          Runs(inFlight[t]) /\ arg[inFlight[t]].tenant = t
    /\ \A c \in Callers : pc[c] = "wait" =>
          /\ shared[c] \in Callers /\ Runs(shared[c])
          /\ arg[shared[c]].tenant = arg[c].tenant
          /\ promised[shared[c]] = promised[c]

Owed(c) == Runs(c) \/ pc[c] \in {"wait", "answered"}

\* Nothing is dated after the present.
Dates ==
    /\ \A t \in Tenants, i \in Inputs : graph[t].asOf[i] <= clock[t]
    /\ \A c \in Callers : Owed(c) => promised[c] <= clock[arg[c].tenant]

\* asOf is the intelligence of a run that could not read it.
Missing(i, asOf) == i = "intel" /\ asOf = 0

\* What a run has read is not older than its promise, than the graph that it
\* replaces, and than what was promised to those who have their answer.
Readings == \A c \in Callers, i \in Inputs : LET asOf == found[c].asOf[i] IN
    /\ pc[c] \notin {"load", "record", "failed"} => asOf = Unread
    /\ asOf # Unread /\ ~Missing(i, asOf) =>
          /\ promised[c] <= asOf
          /\ asOf <= clock[arg[c].tenant]
          /\ graph[arg[c].tenant].asOf[i] <= asOf
          /\ \A d \in Callers :
                pc[d] = "answered" /\ arg[d].tenant = arg[c].tenant
                    => promised[d] <= asOf

\* A run that has stored its graph finds it there.
Stored == \A c \in Callers, i \in Inputs : pc[c] = "record" =>
    /\ found[c].asOf[i] # Unread
    /\ graph[arg[c].tenant].asOf[i] = found[c].asOf[i]

IInv ==
    /\ TypeOK /\ Rows /\ SingleFlight /\ Dates /\ Readings /\ Stored
    /\ AnswersCoverTheirRun

-----------------------------------------------------------------------------
(* Type correctness.                                                         *)

LEMMA IdsTyped == \A report \in Reports : IdsOf(report) \in SUBSET Ids
  BY DEF Ids

LEMMA NoReadingTyped == NoReading \in Reading
  BY DEF NoReading, Reading

LEMMA StartTyped ==
    ASSUME CallersOK, NEW c \in Callers, NEW label \in Labels, NEW t \in Tenants,
           NEW id \in Ids \cup {NoId}, label = "status" => id # NoId,
           Start(c, label, t, id)
    PROVE  CallersOK'
  BY DEF CallersOK, Start, Arg

LEMMA GotoTyped ==
    ASSUME CallersOK, NEW c \in Callers, NEW label \in Labels, label # "status",
           Goto(c, label)
    PROVE  CallersOK'
  BY DEF CallersOK, Goto

LEMMA ReturnTyped ==
    ASSUME CallersOK, NEW ended \in SUBSET Callers, NEW label \in {"idle", "answered"},
           Return(ended, label)
    PROVE  CallersOK'
  <1>1. label \in Labels /\ label # "status"
    BY DEF Labels
  <1>2. \A c \in Callers : [arg[c] EXCEPT !.id = NoId] \in Arg
    BY DEF CallersOK, Arg
  <1>3. pc' \in [Callers -> Labels] /\ arg' \in [Callers -> Arg]
    BY <1>1, <1>2 DEF CallersOK, Return
  <1>4. /\ shared' \in [Callers -> Callers \cup {NoRun}]
        /\ found' \in [Callers -> Reading]
        /\ promised' \in [Callers -> Nat]
    BY NoReadingTyped DEF CallersOK, Return
  <1>5. \A c \in Callers : pc'[c] = "status" => arg'[c].id # NoId
    BY <1>1 DEF CallersOK, Return
  <1>. QED
    BY <1>3, <1>4, <1>5 DEF CallersOK

LEMMA SettleTyped ==
    ASSUME TypeOK, NEW c \in Callers, NEW label \in {"idle", "answered"},
           NEW promise \in {NoRun, Rejected}, Settle(c, label, promise)
    PROVE  CallersOK' /\ inFlight' \in [Tenants -> Callers \cup {NoRun, Rejected}]
  BY ReturnTyped DEF TypeOK, Settle

LEMMA NextFeedTyped ==
    ASSUME TypeOK, NEW ok \in BOOLEAN, syncing # "none", NextFeed(ok)
    PROVE  CallersOK' /\ syncing' \in {"none", "kev", "epss"} /\ synced' \in BOOLEAN
  <1>1. syncing' \in {"none", "kev", "epss"} /\ synced' \in BOOLEAN
    BY DEF TypeOK, FeedsOK, NextFeed
  <1>2. {"rescore", "idle"} \subseteq Labels \ {"status"}
    BY DEF Labels
  <1>3. pc' \in [Callers -> Labels]
    BY <1>2 DEF TypeOK, CallersOK, NextFeed
  <1>4. \A c \in Callers : pc'[c] = "status" => pc[c] = "status"
    BY DEF NextFeed
  <1>. QED
    BY <1>1, <1>3, <1>4 DEF TypeOK, CallersOK, NextFeed

LEMMA ChangeTyped ==
    ASSUME SourceOK, NEW t \in Tenants, Change(t)
    PROVE  clock' \in [Tenants -> 1 .. MaxChanges + 1]
  BY DEF SourceOK, Change

LEMMA ArgTyped ==
    ASSUME CallersOK, NEW c \in Callers
    PROVE  /\ arg[c].tenant \in Tenants
           /\ arg[c].id \in Ids \cup {NoId}
           /\ pc[c] = "status" => arg[c].id \in Ids
  BY DEF CallersOK, Arg

\* What a step leaves alone keeps its type.
LEMMA Quiet ==
    ASSUME TypeOK
    PROVE  /\ UNCHANGED source => SourceOK'
           /\ UNCHANGED result => ResultOK'
           /\ UNCHANGED calling => CallersOK'
           /\ UNCHANGED feeds => FeedsOK'
           /\ UNCHANGED faults \/ Fault => faults' \in 0 .. MaxFaults
  <1>1. UNCHANGED source => SourceOK'
    BY DEF TypeOK, SourceOK, source
  <1>2. UNCHANGED result => ResultOK'
    BY DEF TypeOK, ResultOK, result
  <1>3. UNCHANGED calling => CallersOK'
    BY DEF TypeOK, CallersOK, calling
  <1>4. UNCHANGED feeds => FeedsOK'
    BY DEF TypeOK, FeedsOK, feeds
  <1>5. UNCHANGED faults \/ Fault => faults' \in 0 .. MaxFaults
    BY DEF TypeOK, Fault
  <1>. QED
    BY <1>1, <1>2, <1>3, <1>4, <1>5

LEMMA InitTyped == Init => TypeOK
  <1>. SUFFICES ASSUME Init PROVE TypeOK
    OBVIOUS
  <1>1. SourceOK
    BY DEF Init, SourceOK
  <1>2. [ids |-> {}, resolved |-> {}, asOf |-> [i \in Inputs |-> 0]] \in Graph
    BY DEF Graph
  <1>3. ResultOK
    BY <1>2 DEF Init, ResultOK
  <1>4. arg \in [Callers -> Arg]
    BY DEF Init, Arg
  <1>5. CallersOK
    BY <1>4, NoReadingTyped DEF Init, CallersOK, Labels
  <1>6. FeedsOK
    BY DEF Init, FeedsOK
  <1>. QED
    BY <1>1, <1>3, <1>5, <1>6 DEF Init, TypeOK

LEMMA WriteTyped ==
    ASSUME TypeOK, NEW c \in Callers, Write(c)
    PROVE  TypeOK'
  <1>. USE Quiet
  <1>1. ASSUME NEW t \in Tenants, NEW report \in Reports, WriteSource(c, t, report)
        PROVE  TypeOK'
    <2>1. CallersOK'
      BY <1>1, StartTyped DEF WriteSource, TypeOK, Labels
    <2>2. SourceOK'
      BY <1>1, ChangeTyped DEF WriteSource, TypeOK, SourceOK
    <2>. QED
      BY <1>1, <2>1, <2>2 DEF WriteSource, TypeOK
  <1>2. CASE Respond(c)
    BY <1>2, ReturnTyped DEF Respond, TypeOK
  <1>3. CASE RespondError(c)
    BY <1>3, ReturnTyped DEF RespondError, TypeOK
  <1>4. ASSUME NEW t \in Tenants, NEW id \in Ids, FindRemediation(c, t, id)
        PROVE  TypeOK'
    BY <1>4, StartTyped DEF FindRemediation, TypeOK, Labels
  <1>5. ASSUME NEW resolved \in BOOLEAN, WriteStatus(c, resolved)
        PROVE  TypeOK'
    <2>1. CallersOK'
      BY <1>5, GotoTyped DEF WriteStatus, TypeOK, Labels
    <2>2. SourceOK'
      BY <1>5, ChangeTyped, ArgTyped DEF WriteStatus, TypeOK, SourceOK
    <2>. QED
      BY <1>5, <2>1, <2>2 DEF WriteStatus, TypeOK
  <1>6. ASSUME NEW t \in Tenants, FindAsset(c, t)
        PROVE  TypeOK'
    BY <1>6, StartTyped DEF FindAsset, TypeOK, Labels
  <1>7. CASE WriteOverride(c)
    <2>1. CallersOK'
      BY <1>7, GotoTyped DEF WriteOverride, TypeOK, Labels
    <2>2. SourceOK'
      BY <1>7, ChangeTyped, ArgTyped DEF WriteOverride, TypeOK, SourceOK
    <2>. QED
      BY <1>7, <2>1, <2>2 DEF WriteOverride, TypeOK
  <1>. QED
    BY <1>1, <1>2, <1>3, <1>4, <1>5, <1>6, <1>7 DEF Write

LEMMA AskTyped ==
    ASSUME TypeOK, NEW c \in Callers, Ask(c)
    PROVE  TypeOK'
  <1>. USE Quiet
  <1>1. ASSUME NEW t \in Tenants, View(c, t) \/ RebuildNow(c, t) PROVE TypeOK'
    BY <1>1, StartTyped DEF View, RebuildNow, TypeOK, Labels
  <1>2. ASSUME NEW t \in Tenants, FireTimer(c, t) PROVE TypeOK'
    <2>1. CallersOK'
      BY <1>2, StartTyped DEF FireTimer, TypeOK, Labels
    <2>. QED
      BY <1>2, <2>1 DEF FireTimer, TypeOK
  <1>3. CASE CheckPlan(c)
    <2>1. CallersOK'
      BY <1>3, GotoTyped, ReturnTyped DEF CheckPlan, TypeOK, Labels
    <2>. QED
      BY <1>3, <2>1 DEF CheckPlan, TypeOK
  <1>4. CASE JoinRun(c)
    <2>1. CallersOK'
      BY <1>4 DEF JoinRun, TypeOK, CallersOK, Labels
    <2>. QED
      BY <1>4, <2>1 DEF JoinRun, TypeOK
  <1>5. CASE JoinRejected(c) \/ Leave(c)
    BY <1>5, ReturnTyped DEF JoinRejected, Leave, TypeOK
  <1>6. CASE BeginRun(c)
    <2>1. clock[arg[c].tenant] \in Nat
      BY ArgTyped DEF TypeOK, SourceOK
    <2>2. CallersOK'
      BY <1>6, <2>1 DEF BeginRun, TypeOK, CallersOK, Labels, RunLabels
    <2>. QED
      BY <1>6, <2>2 DEF BeginRun, TypeOK
  <1>. QED
    BY <1>1, <1>2, <1>3, <1>4, <1>5, <1>6 DEF Ask

\* A reading that goes on is one.
LEMMA ReadTyped ==
    ASSUME NEW r \in Reading, NEW i \in Inputs, NEW n \in Nat,
           NEW ids \in SUBSET Ids, NEW set \in SUBSET Ids
    PROVE  /\ [r EXCEPT !.asOf[i] = n, !.ids = ids, !.settled = set] \in Reading
           /\ [r EXCEPT !.asOf[i] = n] \in Reading
           /\ r.ids \in SUBSET Ids /\ r.settled \in SUBSET Ids
           /\ r.asOf \in [Inputs -> Nat \cup {Unread}]
  BY DEF Reading

LEMMA LoadTyped ==
    ASSUME TypeOK, NEW c \in Callers, NEW i \in Inputs, Load(c, i)
    PROVE  TypeOK'
  <1> DEFINE t == arg[c].tenant
             ids == IF i = "inventory" THEN IdsOf(reported[t]) ELSE found[c].ids
             set == IF i = "states" THEN settled[t] ELSE found[c].settled
  <1>1. found[c] \in Reading /\ t \in Tenants /\ clock[t] \in Nat
    BY ArgTyped DEF TypeOK, CallersOK, SourceOK
  <1>2. ids \in SUBSET Ids /\ set \in SUBSET Ids
    BY <1>1, IdsTyped, ReadTyped DEF TypeOK, SourceOK
  <1>3. found' = [found EXCEPT ![c] =
                    [@ EXCEPT !.asOf[i] = clock[t], !.ids = ids, !.settled = set]]
    BY <1>1 DEF Load, TypeOK, CallersOK, Reading
  <1>4. [found[c] EXCEPT !.asOf[i] = clock[t], !.ids = ids, !.settled = set] \in Reading
    BY <1>1, <1>2, ReadTyped
  <1>5. found' \in [Callers -> Reading]
    BY <1>3, <1>4 DEF TypeOK, CallersOK
  <1>6. CallersOK'
    BY <1>5 DEF Load, TypeOK, CallersOK
  <1>. QED
    BY <1>6, Quiet DEF Load, TypeOK

\* What a run has read makes a graph.
LEMMA PersistTyped ==
    ASSUME TypeOK, NEW c \in Callers, Persist(c)
    PROVE  TypeOK'
  <1>1. found[c] \in Reading
    BY DEF TypeOK, CallersOK
  <1>2. found[c].asOf \in [Inputs -> Nat]
    BY <1>1 DEF Persist, Reading
  <1>3. [ids |-> found[c].ids, resolved |-> found[c].ids \cap found[c].settled,
         asOf |-> found[c].asOf] \in Graph
    BY <1>1, <1>2 DEF Reading, Graph
  <1>4. ResultOK'
    BY <1>3, ArgTyped DEF Persist, TypeOK, ResultOK
  <1>5. CallersOK'
    BY GotoTyped DEF Persist, TypeOK, Labels, RunLabels
  <1>. QED
    BY <1>4, <1>5, Quiet DEF Persist, TypeOK

LEMMA RunTyped ==
    ASSUME TypeOK, Rows, NEW c \in Callers, Run(c)
    PROVE  TypeOK'
  <1>. USE Quiet
  <1>1. CASE InsertRun(c)
    <2>1. CallersOK'
      BY <1>1, GotoTyped DEF InsertRun, TypeOK, Labels, RunLabels
    <2>2. ResultOK'
      BY <1>1, ArgTyped DEF InsertRun, TypeOK, ResultOK
    <2>. QED
      BY <1>1, <2>1, <2>2 DEF InsertRun, TypeOK
  <1>2. CASE InsertFails(c)
    BY <1>2, SettleTyped DEF InsertFails, TypeOK
  <1>3. ASSUME NEW i \in Inputs, Load(c, i) PROVE TypeOK'
    BY <1>3, LoadTyped
  <1>4. CASE LoadNoIntel(c)
    <2>1. found[c] \in Reading /\ "intel" \in Inputs
      BY DEF TypeOK, CallersOK, Inputs
    <2>2. found' = [found EXCEPT ![c] = [@ EXCEPT !.asOf["intel"] = 0]]
      BY <1>4, <2>1 DEF LoadNoIntel, TypeOK, CallersOK
    <2>3. [found[c] EXCEPT !.asOf["intel"] = 0] \in Reading
      BY <2>1 DEF Reading
    <2>4. CallersOK'
      BY <1>4, <2>2, <2>3 DEF LoadNoIntel, TypeOK, CallersOK
    <2>. QED
      BY <1>4, <2>4 DEF LoadNoIntel, TypeOK
  <1>5. CASE Persist(c)
    BY <1>5, PersistTyped
  <1>6. CASE RunFails(c)
    <2>1. CallersOK'
      BY <1>6, GotoTyped DEF RunFails, TypeOK, Labels, RunLabels
    <2>. QED
      BY <1>6, <2>1 DEF RunFails, TypeOK
  <1>7. CASE EndRun(c)
    <2>1. arg[c].tenant \in listed
      BY <1>7 DEF EndRun, Rows
    <2>2. ResultOK'
      BY <1>7, <2>1 DEF EndRun, TypeOK, ResultOK
    <2>. QED
      BY <1>7, <2>2, SettleTyped DEF EndRun, TypeOK
  <1>8. CASE EndFailedRun(c)
    BY <1>8, SettleTyped DEF EndFailedRun, TypeOK
  <1>. QED
    BY <1>1, <1>2, <1>3, <1>4, <1>5, <1>6, <1>7, <1>8 DEF Run

LEMMA FeedsTyped ==
    ASSUME TypeOK, Feeds
    PROVE  TypeOK'
  <1>. USE Quiet
  <1>1. ASSUME NEW c \in Callers, NEW t \in Tenants, TickFeeds(c, t) \/ SyncNow(c, t)
        PROVE  TypeOK'
    <2>1. CallersOK'
      BY <1>1, StartTyped DEF TickFeeds, SyncNow, TypeOK, Labels
    <2>2. FeedsOK'
      BY <1>1 DEF TickFeeds, SyncNow, Syncing, TypeOK, FeedsOK
    <2>. QED
      BY <1>1, <2>1, <2>2 DEF TickFeeds, SyncNow, TypeOK
  <1>2. ASSUME NEW recorded \in BOOLEAN, FeedSwapped(recorded) PROVE TypeOK'
    <2>1. clock' \in [Tenants -> 1 .. MaxChanges + 1]
      BY <1>2 DEF FeedSwapped, TypeOK, SourceOK
    <2>2. SourceOK'
      BY <1>2, <2>1 DEF FeedSwapped, TypeOK, SourceOK
    <2>3. CallersOK' /\ syncing' \in {"none", "kev", "epss"} /\ synced' \in BOOLEAN
      BY <1>2, NextFeedTyped DEF FeedSwapped
    <2>4. kevDue' \in BOOLEAN
      BY <1>2 DEF FeedSwapped, TypeOK, FeedsOK
    <2>. QED
      BY <1>2, <2>2, <2>3, <2>4 DEF FeedSwapped, TypeOK, FeedsOK
  <1>3. CASE FeedFails
    <2>1. CallersOK' /\ syncing' \in {"none", "kev", "epss"} /\ synced' \in BOOLEAN
      BY <1>3, NextFeedTyped DEF FeedFails
    <2>. QED
      BY <1>3, <2>1 DEF FeedFails, TypeOK, FeedsOK
  <1>4. CASE SyncRejected
    <2>1. CallersOK'
      BY <1>4, ReturnTyped DEF SyncRejected, TypeOK
    <2>. QED
      BY <1>4, <2>1 DEF SyncRejected, TypeOK, FeedsOK
  <1>5. CASE KevAges
    <2>1. UNCHANGED calling
      BY <1>5 DEF KevAges
    <2>. QED
      BY <1>5, <2>1 DEF KevAges, TypeOK, FeedsOK
  <1>6. ASSUME NEW c \in Callers, Rescore(c) PROVE TypeOK'
    <2>1. CallersOK'
      BY <1>6, ReturnTyped DEF Rescore, TypeOK
    <2>2. timer' \in [Tenants -> BOOLEAN]
      BY <1>6 DEF Rescore, TypeOK
    <2>. QED
      BY <1>6, <2>1, <2>2 DEF Rescore, TypeOK
  <1>. QED
    BY <1>1, <1>2, <1>3, <1>4, <1>5, <1>6 DEF Feeds

LEMMA NextTyped == TypeOK /\ Rows /\ [Next]_vars => TypeOK'
  <1>. SUFFICES ASSUME TypeOK, Rows, [Next]_vars PROVE TypeOK'
    OBVIOUS
  <1>1. ASSUME NEW c \in Callers, Write(c) \/ Ask(c) \/ Run(c) PROVE TypeOK'
    BY <1>1, WriteTyped, AskTyped, RunTyped
  <1>2. ASSUME NEW t \in Tenants, NEW report \in Reports, WriteSilently(t, report)
        PROVE  TypeOK'
    <2>1. SourceOK'
      BY <1>2, ChangeTyped DEF WriteSilently, TypeOK, SourceOK
    <2>. QED
      BY <1>2, <2>1, Quiet DEF WriteSilently, TypeOK
  <1>3. CASE Feeds
    BY <1>3, FeedsTyped
  <1>4. CASE Restart
    <2>1. CallersOK'
      BY <1>4, ReturnTyped DEF Restart, TypeOK
    <2>2. FeedsOK'
      BY <1>4 DEF Restart, TypeOK, FeedsOK
    <2>. QED
      BY <1>4, <2>1, <2>2, Quiet DEF Restart, TypeOK
  <1>5. CASE UNCHANGED vars
    BY <1>5, Quiet DEF vars, TypeOK
  <1>. QED
    BY <1>1, <1>2, <1>3, <1>4, <1>5 DEF Next

-----------------------------------------------------------------------------
(* Steps that no run and nobody who is owed an answer takes part in, unless  *)
(* to leave.                                                                 *)

Reads(c) == pc[c] \in {"load", "record", "failed"}

Apart ==
    /\ UNCHANGED <<graph, inFlight>>
    /\ listed \subseteq listed'
    /\ \A t \in Tenants : clock[t] <= clock'[t]
    /\ \A c \in Callers : Owed(c)' =>
          /\ pc'[c] = pc[c] /\ arg'[c] = arg[c]
          /\ shared'[c] = shared[c] /\ promised'[c] = promised[c]
    /\ \A c \in Callers : Runs(c) => Runs(c)'
    /\ \A c \in Callers : found'[c] = found[c] \/ (~Runs(c)' /\ found'[c] = NoReading)

LEMMA StartApart ==
    ASSUME TypeOK, NEW c \in Callers, NEW label \in Labels, NEW t \in Tenants,
           NEW id \in Ids \cup {NoId},
           label \notin RunLabels \cup {"wait", "answered"}, Start(c, label, t, id),
           UNCHANGED <<graph, inFlight, listed>>,
           \A u \in Tenants : clock[u] <= clock'[u]
    PROVE  Apart
  BY DEF Apart, Start, Owed, Runs, RunLabels, TypeOK, CallersOK

LEMMA GotoApart ==
    ASSUME TypeOK, NEW c \in Callers, NEW label \in Labels, ~Runs(c),
           label \notin RunLabels \cup {"wait", "answered"}, Goto(c, label),
           UNCHANGED <<graph, inFlight, listed>>,
           \A u \in Tenants : clock[u] <= clock'[u]
    PROVE  Apart
  BY DEF Apart, Goto, Owed, Runs, RunLabels, TypeOK, CallersOK

LEMMA ReturnApart ==
    ASSUME TypeOK, NEW ended \in SUBSET Callers, \A c \in ended : ~Runs(c),
           Return(ended, "idle"), UNCHANGED <<graph, inFlight, listed, clock>>
    PROVE  Apart
  <1>1. \A c \in Callers : Owed(c)' => c \notin ended
    BY DEF Return, Owed, Runs, RunLabels
  <1>2. \A c \in Callers \ ended : /\ pc'[c] = pc[c] /\ arg'[c] = arg[c]
                                   /\ shared'[c] = shared[c]
                                   /\ found'[c] = found[c]
                                   /\ promised'[c] = promised[c]
    BY DEF Return
  <1>3. \A c \in ended : ~Runs(c)' /\ found'[c] = NoReading
    BY DEF Return, Runs, RunLabels
  <1>4. \A c \in Callers : Runs(c) => Runs(c)'
    BY <1>2 DEF Runs
  <1>5. \A t \in Tenants : clock[t] <= clock'[t]
    BY DEF TypeOK, SourceOK
  <1>. QED
    BY <1>1, <1>2, <1>3, <1>4, <1>5 DEF Apart

LEMMA NextFeedApart ==
    ASSUME TypeOK, NEW ok \in BOOLEAN, NextFeed(ok),
           UNCHANGED <<graph, inFlight, listed>>,
           \A u \in Tenants : clock[u] <= clock'[u]
    PROVE  Apart
  BY DEF Apart, NextFeed, Owed, Runs, RunLabels, TypeOK, CallersOK

LEMMA QuietApart ==
    ASSUME TypeOK, UNCHANGED <<calling, graph, inFlight, listed>>,
           \A u \in Tenants : clock[u] <= clock'[u]
    PROVE  Apart
  BY DEF Apart, calling, Owed, Runs, RunLabels, TypeOK, CallersOK

LEMMA ChangeGrows ==
    ASSUME TypeOK, NEW t \in Tenants, Change(t)
    PROVE  \A u \in Tenants : clock[u] <= clock'[u]
  BY DEF TypeOK, SourceOK, Change

LEMMA StayGrows ==
    ASSUME TypeOK, UNCHANGED clock
    PROVE  \A u \in Tenants : clock[u] <= clock'[u]
  BY DEF TypeOK, SourceOK

LEMMA GraphTyped ==
    ASSUME TypeOK, NEW t \in Tenants, NEW i \in Inputs
    PROVE  graph[t].asOf[i] \in Nat /\ clock[t] \in Nat
  BY DEF TypeOK, ResultOK, SourceOK, Graph

LEMMA FoundTyped ==
    ASSUME TypeOK, NEW c \in Callers, NEW i \in Inputs
    PROVE  found[c].asOf[i] \in Nat \cup {Unread} /\ promised[c] \in Nat
  BY DEF TypeOK, CallersOK, Reading

LEMMA ApartKept ==
    ASSUME IInv, TypeOK', Apart
    PROVE  IInv'
  <1>1. Rows'
    BY DEF IInv, Rows, Apart, Owed, Runs, RunLabels
  <1>2. SingleFlight'
    <2>1. \A c \in Callers : Runs(c)' => inFlight'[arg'[c].tenant] = c
      BY DEF IInv, SingleFlight, Apart, Owed, Runs
    <2>2. \A t \in Tenants : inFlight'[t] \in Callers =>
              Runs(inFlight[t])' /\ arg'[inFlight'[t]].tenant = t
      BY DEF IInv, SingleFlight, Apart, Owed, Runs
    <2>3. ASSUME NEW c \in Callers, pc'[c] = "wait"
          PROVE  /\ shared'[c] \in Callers /\ Runs(shared[c])'
                 /\ arg'[shared'[c]].tenant = arg'[c].tenant
                 /\ promised'[shared'[c]] = promised'[c]
      <3>1. pc[c] = "wait" /\ shared'[c] = shared[c] /\ arg'[c] = arg[c]
            /\ promised'[c] = promised[c]
        BY <2>3 DEF Apart, Owed
      <3>2. shared[c] \in Callers /\ Runs(shared[c])
            /\ arg[shared[c]].tenant = arg[c].tenant
            /\ promised[shared[c]] = promised[c]
        BY <3>1 DEF IInv, SingleFlight
      <3>3. PICK s \in Callers : s = shared[c]
        BY <3>2
      <3>4. pc'[s] = pc[s] /\ arg'[s] = arg[s] /\ promised'[s] = promised[s]
        BY <3>2, <3>3 DEF Apart, Owed, Runs
      <3>. QED
        BY <3>1, <3>2, <3>3, <3>4 DEF Runs
    <2>. QED
      BY <2>1, <2>2, <2>3 DEF SingleFlight, Runs
  <1>3. Dates'
    <2>1. ASSUME NEW t \in Tenants, NEW i \in Inputs
          PROVE  graph'[t].asOf[i] <= clock'[t]
      BY GraphTyped DEF IInv, Dates, Apart, TypeOK, SourceOK
    <2>2. ASSUME NEW c \in Callers, Owed(c)'
          PROVE  promised'[c] <= clock'[arg'[c].tenant]
      <3>1. Owed(c) /\ promised'[c] = promised[c] /\ arg'[c] = arg[c]
        BY <2>2 DEF Apart, Owed, Runs
      <3>2. promised[c] \in Nat /\ arg[c].tenant \in Tenants
        BY ArgTyped DEF IInv, TypeOK, CallersOK
      <3>3. promised[c] <= clock[arg[c].tenant]
            /\ clock[arg[c].tenant] <= clock'[arg[c].tenant]
        BY <3>1, <3>2 DEF IInv, Dates, Apart
      <3>. QED
        BY <3>1, <3>2, <3>3 DEF IInv, TypeOK, SourceOK
    <2>. QED
      BY <2>1, <2>2 DEF Dates
  <1>4. Readings'
    <2>1. SUFFICES ASSUME NEW c \in Callers, NEW i \in Inputs
                   PROVE  LET asOf == found'[c].asOf[i] IN
            /\ ~Reads(c)' => asOf = Unread
            /\ asOf # Unread /\ ~Missing(i, asOf) =>
                  /\ promised'[c] <= asOf
                  /\ asOf <= clock'[arg'[c].tenant]
                  /\ graph'[arg'[c].tenant].asOf[i] <= asOf
                  /\ \A d \in Callers :
                        pc'[d] = "answered" /\ arg'[d].tenant = arg'[c].tenant
                            => promised'[d] <= asOf
      BY DEF Readings, Reads
    <2>2. ~Reads(c)' => found'[c].asOf[i] = Unread
      <3>1. CASE Reads(c) /\ ~Reads(c)'
        BY <3>1 DEF Apart, Reads, Runs, RunLabels, Owed, NoReading
      <3>2. CASE ~Reads(c)
        BY <3>2 DEF Apart, Reads, IInv, Readings, NoReading
      <3>. QED
        BY <3>1, <3>2
    <2>3. CASE Reads(c)'
      <3>1. Reads(c) /\ found'[c] = found[c] /\ arg'[c] = arg[c]
            /\ promised'[c] = promised[c]
        BY <2>3 DEF Apart, Reads, Runs, RunLabels, Owed
      <3>2. arg[c].tenant \in Tenants
        BY ArgTyped DEF IInv, TypeOK
      <3>3. clock[arg[c].tenant] <= clock'[arg[c].tenant] /\ graph' = graph
        BY <3>2 DEF Apart
      <3>4. clock[arg[c].tenant] \in Nat /\ clock'[arg[c].tenant] \in Nat
        BY <3>2 DEF IInv, TypeOK, SourceOK
      <3>5. \A d \in Callers : pc'[d] = "answered" =>
                pc[d] = "answered" /\ arg'[d] = arg[d] /\ promised'[d] = promised[d]
        BY DEF Apart, Owed
      <3>. QED
        BY <2>2, <3>1, <3>2, <3>3, <3>4, <3>5, FoundTyped DEF IInv, Readings
    <2>. QED
      BY <2>2, <2>3
  <1>5. Stored'
    BY DEF IInv, Stored, Apart, Owed, Runs, RunLabels
  <1>6. AnswersCoverTheirRun'
    BY DEF IInv, AnswersCoverTheirRun, Apart, Owed
  <1>. QED
    BY <1>1, <1>2, <1>3, <1>4, <1>5, <1>6 DEF IInv

-----------------------------------------------------------------------------
(* Asking for a run.                                                         *)

LEMMA JoinRunKept ==
    ASSUME IInv, TypeOK', NEW c \in Callers, JoinRun(c)
    PROVE  IInv'
  <1>1. PICK o \in Callers : /\ o = inFlight[arg[c].tenant] /\ Runs(o)
                             /\ arg[o].tenant = arg[c].tenant /\ o # c
    BY ArgTyped DEF IInv, SingleFlight, JoinRun, TypeOK, Runs, RunLabels
  <1>2. pc'[c] = "wait" /\ shared'[c] = o /\ promised'[c] = promised[o]
    BY <1>1 DEF JoinRun, IInv, TypeOK, CallersOK
  <1>3. \A d \in Callers \ {c} : /\ pc'[d] = pc[d] /\ shared'[d] = shared[d]
                                 /\ promised'[d] = promised[d]
    BY DEF JoinRun, IInv, TypeOK, CallersOK
  <1>4. pc[c] = "rebuild" /\ UNCHANGED <<arg, found, graph, clock, inFlight, listed>>
    BY DEF JoinRun, source, result
  <1>5. \A d \in Callers : Runs(d)' <=> Runs(d)
    BY <1>2, <1>3, <1>4 DEF Runs, RunLabels
  <1>6. Rows'
    BY <1>2, <1>3, <1>4 DEF IInv, Rows
  <1>7. SingleFlight'
    <2>1. \A d \in Callers : Runs(d)' => inFlight'[arg'[d].tenant] = d
      BY <1>4, <1>5 DEF IInv, SingleFlight
    <2>2. \A t \in Tenants : inFlight'[t] \in Callers =>
              Runs(inFlight[t])' /\ arg'[inFlight'[t]].tenant = t
      BY <1>4, <1>5 DEF IInv, SingleFlight
    <2>3. ASSUME NEW d \in Callers, pc'[d] = "wait"
          PROVE  /\ shared'[d] \in Callers /\ Runs(shared[d])'
                 /\ arg'[shared'[d]].tenant = arg'[d].tenant
                 /\ promised'[shared'[d]] = promised'[d]
      <3>1. CASE d = c
        BY <3>1, <1>1, <1>2, <1>3, <1>4, <1>5 DEF Runs
      <3>2. CASE d # c
        <4>1. PICK s \in Callers : /\ s = shared[d] /\ Runs(s)
                                   /\ arg[s].tenant = arg[d].tenant
                                   /\ promised[s] = promised[d]
          BY <2>3, <3>2, <1>3 DEF IInv, SingleFlight
        <4>2. s # c
          BY <4>1, <1>4 DEF Runs, RunLabels
        <4>. QED
          BY <4>1, <4>2, <3>2, <1>3, <1>4, <1>5 DEF Runs
      <3>. QED
        BY <3>1, <3>2
    <2>. QED
      BY <2>1, <2>2, <2>3 DEF SingleFlight, Runs
  <1>8. Dates'
    <2>1. promised'[c] <= clock'[arg'[c].tenant]
      BY <1>1, <1>2, <1>4 DEF IInv, Dates, Owed
    <2>. QED
      BY <2>1, <1>3, <1>4, <1>5 DEF IInv, Dates, Owed
  <1>9. Readings'
    <2>1. SUFFICES ASSUME NEW d \in Callers, NEW i \in Inputs
                   PROVE  LET asOf == found'[d].asOf[i] IN
            /\ ~Reads(d)' => asOf = Unread
            /\ asOf # Unread /\ ~Missing(i, asOf) =>
                  /\ promised'[d] <= asOf
                  /\ asOf <= clock'[arg'[d].tenant]
                  /\ graph'[arg'[d].tenant].asOf[i] <= asOf
                  /\ \A e \in Callers :
                        pc'[e] = "answered" /\ arg'[e].tenant = arg'[d].tenant
                            => promised'[e] <= asOf
      BY DEF Readings, Reads
    <2>2. ~Reads(d)' => found'[d].asOf[i] = Unread
      BY <1>2, <1>3, <1>4 DEF IInv, Readings, Reads
    <2>3. CASE Reads(d)'
      BY <2>2, <2>3, <1>2, <1>3, <1>4 DEF IInv, Readings, Reads
    <2>. QED
      BY <2>2, <2>3
  <1>10. Stored'
    BY <1>2, <1>3, <1>4 DEF IInv, Stored
  <1>11. AnswersCoverTheirRun'
    BY <1>2, <1>3, <1>4 DEF IInv, AnswersCoverTheirRun
  <1>. QED
    BY <1>6, <1>7, <1>8, <1>9, <1>10, <1>11 DEF IInv

LEMMA BeginRunKept ==
    ASSUME IInv, TypeOK', NEW c \in Callers, BeginRun(c)
    PROVE  IInv'
  <1> DEFINE t == arg[c].tenant
  <1>0. t \in Tenants
    BY ArgTyped DEF IInv, TypeOK
  <1>1. /\ pc[c] = "rebuild" /\ inFlight[t] = NoRun
        /\ UNCHANGED <<arg, shared, found, graph, clock, listed>>
    BY DEF BeginRun, source, result
  <1>2. pc'[c] = "insert" /\ promised'[c] = clock[t]
    BY DEF BeginRun, IInv, TypeOK, CallersOK
  <1>3. \A d \in Callers \ {c} : pc'[d] = pc[d] /\ promised'[d] = promised[d]
    BY DEF BeginRun, IInv, TypeOK, CallersOK
  <1>4. inFlight'[t] = c /\ \A u \in Tenants \ {t} : inFlight'[u] = inFlight[u]
    BY <1>0 DEF BeginRun, IInv, TypeOK
  <1>5. \A d \in Callers : Runs(d) => d # c /\ arg[d].tenant # t /\ arg[d].tenant \in Tenants
    BY <1>1, ArgTyped DEF IInv, SingleFlight, TypeOK, Runs, RunLabels
  <1>. HIDE DEF t
  <1>6. Rows'
    BY <1>1, <1>2, <1>3 DEF IInv, Rows
  <1>7. SingleFlight'
    <2>1. \A d \in Callers : Runs(d)' => inFlight'[arg'[d].tenant] = d
      BY <1>1, <1>3, <1>4, <1>5 DEF IInv, SingleFlight, Runs, t
    <2>2. \A u \in Tenants : inFlight'[u] \in Callers =>
              Runs(inFlight[u])' /\ arg'[inFlight'[u]].tenant = u
      <3>1. ASSUME NEW u \in Tenants, u # t, inFlight[u] \in Callers
            PROVE  inFlight[u] # c /\ Runs(inFlight[u]) /\ arg[inFlight[u]].tenant = u
        BY <3>1, <1>5 DEF IInv, SingleFlight
      <3>3. ASSUME NEW u \in Tenants, u # t, inFlight'[u] \in Callers
            PROVE  Runs(inFlight[u])' /\ arg'[inFlight'[u]].tenant = u
        BY <3>3, <3>1, <1>1, <1>3, <1>4 DEF Runs
      <3>4. ASSUME NEW u \in Tenants, u = t
            PROVE  Runs(inFlight[u])' /\ arg'[inFlight'[u]].tenant = u
        BY <3>4, <1>1, <1>2, <1>4 DEF Runs, RunLabels, t
      <3>. QED
        BY <3>3, <3>4
    <2>3. ASSUME NEW d \in Callers, pc'[d] = "wait"
          PROVE  /\ shared'[d] \in Callers /\ Runs(shared[d])'
                 /\ arg'[shared'[d]].tenant = arg'[d].tenant
                 /\ promised'[shared'[d]] = promised'[d]
      <3>1. d # c /\ pc[d] = "wait"
        BY <2>3, <1>2, <1>3
      <3>2. PICK s \in Callers : /\ s = shared[d] /\ Runs(s)
                                 /\ arg[s].tenant = arg[d].tenant
                                 /\ promised[s] = promised[d]
        BY <3>1 DEF IInv, SingleFlight
      <3>. QED
        BY <3>1, <3>2, <1>1, <1>3, <1>5 DEF Runs
    <2>. QED
      BY <2>1, <2>2, <2>3 DEF SingleFlight, Runs
  <1>8. Dates'
    <2>1. clock[t] \in Nat /\ promised'[c] <= clock'[arg'[c].tenant]
      BY <1>0, <1>1, <1>2 DEF IInv, TypeOK, SourceOK, t
    <2>. QED
      BY <2>1, <1>1, <1>3 DEF IInv, Dates, Owed, Runs
  <1>9. Readings'
    <2>1. SUFFICES ASSUME NEW d \in Callers, NEW i \in Inputs
                   PROVE  LET asOf == found'[d].asOf[i] IN
            /\ ~Reads(d)' => asOf = Unread
            /\ asOf # Unread /\ ~Missing(i, asOf) =>
                  /\ promised'[d] <= asOf
                  /\ asOf <= clock'[arg'[d].tenant]
                  /\ graph'[arg'[d].tenant].asOf[i] <= asOf
                  /\ \A e \in Callers :
                        pc'[e] = "answered" /\ arg'[e].tenant = arg'[d].tenant
                            => promised'[e] <= asOf
      BY DEF Readings, Reads
    <2>2. ~Reads(d)' => found'[d].asOf[i] = Unread
      BY <1>1, <1>2, <1>3 DEF IInv, Readings, Reads
    <2>3. CASE Reads(d)'
      BY <2>2, <2>3, <1>1, <1>2, <1>3 DEF IInv, Readings, Reads
    <2>. QED
      BY <2>2, <2>3
  <1>10. Stored'
    BY <1>1, <1>2, <1>3 DEF IInv, Stored
  <1>11. AnswersCoverTheirRun'
    BY <1>1, <1>2, <1>3 DEF IInv, AnswersCoverTheirRun
  <1>. QED
    BY <1>6, <1>7, <1>8, <1>9, <1>10, <1>11 DEF IInv

LEMMA AskKept ==
    ASSUME IInv, TypeOK', NEW c \in Callers, Ask(c)
    PROVE  IInv'
  <1>0. TypeOK
    BY DEF IInv
  <1>1. ASSUME NEW t \in Tenants, View(c, t) \/ RebuildNow(c, t) \/ FireTimer(c, t)
        PROVE  Apart
    <2>1. \/ Start(c, "rebuild", t, NoId) \/ Start(c, "plan", t, NoId)
      BY <1>1 DEF View, RebuildNow, FireTimer
    <2>2. UNCHANGED <<source, result, inFlight>>
      BY <1>1 DEF View, RebuildNow, FireTimer
    <2>. QED
      BY <1>0, <2>1, <2>2, StartApart, StayGrows DEF source, result, Labels, RunLabels
  <1>2. CASE CheckPlan(c)
    <2>1. Goto(c, "rebuild") \/ Return({c}, "idle")
      BY <1>2 DEF CheckPlan
    <2>2. ~Runs(c) /\ UNCHANGED <<source, result, inFlight>>
      BY <1>2 DEF CheckPlan, Runs, RunLabels
    <2>. QED
      BY <1>0, <2>1, <2>2, GotoApart, ReturnApart, StayGrows, ApartKept
         DEF source, result, Labels, RunLabels
  <1>3. CASE JoinRejected(c) \/ Leave(c)
    <2>1. Return({c}, "idle") /\ ~Runs(c) /\ UNCHANGED <<source, result, inFlight>>
      BY <1>3 DEF JoinRejected, Leave, Runs, RunLabels
    <2>. QED
      BY <1>0, <2>1, ReturnApart, ApartKept DEF source, result
  <1>. QED
    BY <1>1, <1>2, <1>3, ApartKept, JoinRunKept, BeginRunKept DEF Ask

-----------------------------------------------------------------------------
(* The steps of a run.                                                       *)

\* A step of c's run that is not its last.
Onward(c) ==
    /\ Runs(c) /\ Runs(c)'
    /\ UNCHANGED <<arg, shared, promised, inFlight, clock>>
    /\ listed \subseteq listed'
    /\ \A d \in Callers \ {c} : pc'[d] = pc[d] /\ found'[d] = found[d]
    /\ Reads(c)' => arg[c].tenant \in listed'

LEMMA OnwardFlight ==
    ASSUME IInv, NEW c \in Callers, Onward(c)
    PROVE  /\ Rows' /\ SingleFlight'
           /\ \A d \in Callers : Owed(d)' => promised'[d] <= clock'[arg'[d].tenant]
  <1>1. \A d \in Callers : /\ Runs(d)' <=> Runs(d)
                           /\ pc'[d] = "wait" <=> pc[d] = "wait"
                           /\ pc'[d] = "answered" <=> pc[d] = "answered"
    BY DEF Onward, Runs, RunLabels
  <1>2. Rows'
    BY DEF IInv, Rows, Onward, Reads
  <1>3. ASSUME NEW d \in Callers, Runs(d)' PROVE inFlight'[arg'[d].tenant] = d
    BY <1>1, <1>3 DEF IInv, SingleFlight, Onward
  <1>4. ASSUME NEW t \in Tenants, inFlight'[t] \in Callers
        PROVE  Runs(inFlight[t])' /\ arg'[inFlight'[t]].tenant = t
    <2>1. PICK o \in Callers : o = inFlight[t] /\ inFlight' = inFlight /\ arg' = arg
      BY <1>4 DEF Onward
    <2>2. Runs(o) /\ arg[o].tenant = t
      BY <2>1 DEF IInv, SingleFlight
    <2>. QED
      BY <1>1, <2>1, <2>2 DEF Runs
  <1>5. ASSUME NEW d \in Callers, pc'[d] = "wait"
        PROVE  /\ shared'[d] \in Callers /\ Runs(shared[d])'
               /\ arg'[shared'[d]].tenant = arg'[d].tenant
               /\ promised'[shared'[d]] = promised'[d]
    <2>1. PICK s \in Callers : /\ s = shared[d] /\ Runs(s)
                               /\ arg[s].tenant = arg[d].tenant
                               /\ promised[s] = promised[d]
      BY <1>1, <1>5 DEF IInv, SingleFlight
    <2>2. UNCHANGED <<arg, shared, promised>>
      BY DEF Onward
    <2>. QED
      BY <1>1, <2>1, <2>2 DEF Runs
  <1>6. SingleFlight'
    BY <1>3, <1>4, <1>5 DEF SingleFlight, Runs
  <1>7. \A d \in Callers : Owed(d)' => promised'[d] <= clock'[arg'[d].tenant]
    BY <1>1 DEF IInv, Dates, Owed, Onward
  <1>. QED
    BY <1>2, <1>6, <1>7

\* It goes on without reading or storing anything.
LEMMA GotoKept ==
    ASSUME IInv, TypeOK', NEW c \in Callers, NEW label \in {"load", "failed"}, Onward(c),
           Goto(c, label), UNCHANGED graph
    PROVE  IInv'
  <1>1. Rows' /\ SingleFlight' /\ Dates'
    BY OnwardFlight DEF IInv, Dates, Onward
  <1>2. pc'[c] = label /\ UNCHANGED <<arg, found, promised, graph, clock>>
    BY DEF Goto, Onward, IInv, TypeOK, CallersOK
  <1>3. \A d \in Callers \ {c} : pc'[d] = pc[d]
    BY DEF Onward
  <1>4. Reads(c)' /\ \A d \in Callers : pc'[d] = "answered" => pc[d] = "answered"
    BY <1>2, <1>3 DEF Reads
  <1>5. Readings'
    BY <1>2, <1>3, <1>4 DEF IInv, Readings, Reads
  <1>6. Stored'
    BY <1>2, <1>3 DEF IInv, Stored
  <1>7. AnswersCoverTheirRun'
    BY <1>2, <1>3, <1>4 DEF IInv, AnswersCoverTheirRun
  <1>. QED
    BY <1>1, <1>5, <1>6, <1>7 DEF IInv

\* One input more is read, or the intelligence is missing.
LEMMA ReadKept ==
    ASSUME IInv, TypeOK', NEW c \in Callers, NEW i \in Inputs, pc[c] = "load",
           UNCHANGED <<pc, arg, shared, promised, graph, clock, inFlight, listed>>,
           \A d \in Callers \ {c} : found'[d] = found[d],
           \A j \in Inputs \ {i} : found'[c].asOf[j] = found[c].asOf[j],
           found'[c].asOf[i] = clock[arg[c].tenant] \/ Missing(i, found'[c].asOf[i])
    PROVE  IInv'
  <1>0. arg[c].tenant \in Tenants /\ clock[arg[c].tenant] \in Nat
    BY ArgTyped DEF IInv, TypeOK, SourceOK
  <1>1. Rows' /\ SingleFlight' /\ Dates'
    BY DEF IInv, Rows, SingleFlight, Runs, Dates, Owed
  <1>2. Readings'
    <2>1. SUFFICES ASSUME NEW d \in Callers, NEW j \in Inputs
                   PROVE  LET asOf == found'[d].asOf[j] IN
            /\ ~Reads(d) => asOf = Unread
            /\ asOf # Unread /\ ~Missing(j, asOf) =>
                  /\ promised[d] <= asOf
                  /\ asOf <= clock[arg[d].tenant]
                  /\ graph[arg[d].tenant].asOf[j] <= asOf
                  /\ \A e \in Callers :
                        pc[e] = "answered" /\ arg[e].tenant = arg[d].tenant
                            => promised[e] <= asOf
      BY DEF Readings, Reads
    <2>2. CASE d # c \/ j # i
      BY <2>2 DEF IInv, Readings, Reads
    <2>3. CASE d = c /\ j = i
      <3>1. Reads(c) /\ Owed(c)
        BY DEF Reads, Owed, Runs, RunLabels
      <3>2. CASE Missing(i, found'[c].asOf[i])
        BY <2>3, <3>1, <3>2
      <3>3. CASE found'[c].asOf[i] = clock[arg[c].tenant]
        <4>1. promised[c] <= clock[arg[c].tenant]
              /\ graph[arg[c].tenant].asOf[i] <= clock[arg[c].tenant]
          BY <1>0, <3>1 DEF IInv, Dates
        <4>2. \A e \in Callers : pc[e] = "answered" /\ arg[e].tenant = arg[c].tenant
                  => promised[e] <= clock[arg[c].tenant]
          BY DEF IInv, Dates, Owed
        <4>. QED
          BY <1>0, <2>3, <3>1, <3>3, <4>1, <4>2
      <3>. QED
        BY <3>2, <3>3
    <2>. QED
      BY <2>2, <2>3
  <1>3. Stored' /\ AnswersCoverTheirRun'
    <2>1. \A d \in Callers : pc[d] = "record" => d # c
      OBVIOUS
    <2>. QED
      BY <2>1 DEF IInv, Stored, AnswersCoverTheirRun
  <1>. QED
    BY <1>1, <1>2, <1>3 DEF IInv

LEMMA LoadKept ==
    ASSUME IInv, TypeOK', NEW c \in Callers, NEW i \in Inputs, Load(c, i)
    PROVE  IInv'
  <1>1. found[c].asOf \in [Inputs -> Nat \cup {Unread}] /\ found \in [Callers -> Reading]
    BY DEF IInv, TypeOK, CallersOK, Reading
  <1>2. /\ \A d \in Callers \ {c} : found'[d] = found[d]
        /\ found'[c].asOf = [found[c].asOf EXCEPT ![i] = clock[arg[c].tenant]]
    BY <1>1 DEF Load, Reading
  <1>3. /\ \A j \in Inputs \ {i} : found'[c].asOf[j] = found[c].asOf[j]
        /\ found'[c].asOf[i] = clock[arg[c].tenant]
    BY <1>1, <1>2
  <1>4. /\ pc[c] = "load"
        /\ UNCHANGED <<pc, arg, shared, promised, graph, clock, inFlight, listed>>
    BY DEF Load, source, result
  <1>. QED
    BY <1>2, <1>3, <1>4, ReadKept

LEMMA LoadNoIntelKept ==
    ASSUME IInv, TypeOK', NEW c \in Callers, LoadNoIntel(c)
    PROVE  IInv'
  <1>1. found[c].asOf \in [Inputs -> Nat \cup {Unread}] /\ found \in [Callers -> Reading]
    BY DEF IInv, TypeOK, CallersOK, Reading
  <1>2. /\ \A d \in Callers \ {c} : found'[d] = found[d]
        /\ found'[c].asOf = [found[c].asOf EXCEPT !["intel"] = 0]
    BY <1>1 DEF LoadNoIntel, Reading
  <1>3. "intel" \in Inputs
    BY DEF Inputs
  <1>. QED
    BY <1>1, <1>2, <1>3, ReadKept DEF LoadNoIntel, source, result, Missing

\* The graph of c's tenant becomes what c has read.
LEMMA PersistMoves ==
    ASSUME IInv, NEW c \in Callers, Persist(c)
    PROVE  /\ pc[c] = "load" /\ pc'[c] = "record" /\ Onward(c) /\ UNCHANGED found
           /\ \A i \in Inputs : found[c].asOf[i] # Unread
           /\ graph'[arg[c].tenant].asOf = found[c].asOf
           /\ \A t \in Tenants \ {arg[c].tenant} : graph'[t] = graph[t]
           /\ \A d \in Callers \ {c} : arg[d].tenant = arg[c].tenant => ~Runs(d)
  <1>1. arg[c].tenant \in Tenants
    BY ArgTyped DEF IInv, TypeOK
  <1>2. pc[c] = "load" /\ pc'[c] = "record" /\ UNCHANGED found
    BY DEF Persist, Goto, IInv, TypeOK, CallersOK
  <1>3. Runs(c) /\ Runs(c)'
    BY <1>2 DEF Runs, RunLabels
  <1>4. arg[c].tenant \in listed
    BY <1>2 DEF IInv, Rows
  <1>5. Onward(c)
    BY <1>3, <1>4 DEF Onward, Persist, Goto, source, IInv, TypeOK, CallersOK
  <1>6. /\ graph'[arg[c].tenant].asOf = found[c].asOf
        /\ \A t \in Tenants \ {arg[c].tenant} : graph'[t] = graph[t]
    BY <1>1 DEF Persist, IInv, TypeOK, ResultOK
  <1>7. \A d \in Callers \ {c} : arg[d].tenant = arg[c].tenant => ~Runs(d)
    BY <1>3 DEF IInv, SingleFlight
  <1>. QED
    BY <1>2, <1>5, <1>6, <1>7 DEF Persist

LEMMA PersistKept ==
    ASSUME IInv, TypeOK', NEW c \in Callers, Persist(c)
    PROVE  IInv'
  <1> DEFINE t == arg[c].tenant
  <1>0. t \in Tenants
    BY ArgTyped DEF IInv, TypeOK
  <1>1. /\ pc[c] = "load" /\ pc'[c] = "record" /\ Onward(c) /\ UNCHANGED found
        /\ \A i \in Inputs : found[c].asOf[i] # Unread
        /\ graph'[t].asOf = found[c].asOf
        /\ \A u \in Tenants \ {t} : graph'[u] = graph[u]
        /\ \A d \in Callers \ {c} : arg[d].tenant = t => ~Runs(d)
    BY PersistMoves
  <1>2. UNCHANGED <<arg, promised, clock>> /\ \A d \in Callers \ {c} : pc'[d] = pc[d]
    BY <1>1 DEF Onward
  <1>3. \A d \in Callers : arg[d].tenant \in Tenants
    BY ArgTyped DEF IInv, TypeOK
  <1>. HIDE DEF t
  <1>4. ASSUME NEW i \in Inputs
        PROVE  \/ /\ promised[c] <= found[c].asOf[i]
                  /\ found[c].asOf[i] <= clock[t]
                  /\ \A d \in Callers : pc[d] = "answered" /\ arg[d].tenant = t
                        => promised[d] <= found[c].asOf[i]
               \/ Missing(i, found[c].asOf[i])
    BY <1>1 DEF IInv, Readings, t
  <1>5. Rows' /\ SingleFlight'
    BY <1>1, OnwardFlight
  <1>6. Dates'
    <2>1. ASSUME NEW u \in Tenants, NEW i \in Inputs
          PROVE  graph'[u].asOf[i] <= clock'[u]
      <3>1. CASE u = t
        BY <1>0, <1>1, <1>2, <1>4, <3>1 DEF Missing, IInv, TypeOK, SourceOK
      <3>2. CASE u # t
        BY <1>1, <1>2, <3>2 DEF IInv, Dates
      <3>. QED
        BY <3>1, <3>2
    <2>. QED
      BY <1>1, <2>1, OnwardFlight DEF Dates
  <1>7. Readings'
    <2>1. SUFFICES ASSUME NEW d \in Callers, NEW i \in Inputs
                   PROVE  LET asOf == found[d].asOf[i] IN
            /\ ~Reads(d)' => asOf = Unread
            /\ asOf # Unread /\ ~Missing(i, asOf) =>
                  /\ promised[d] <= asOf
                  /\ asOf <= clock[arg[d].tenant]
                  /\ graph'[arg[d].tenant].asOf[i] <= asOf
                  /\ \A e \in Callers :
                        pc'[e] = "answered" /\ arg[e].tenant = arg[d].tenant
                            => promised[e] <= asOf
      BY <1>1, <1>2 DEF Readings, Reads
    <2>2. \A e \in Callers : pc'[e] = "answered" => pc[e] = "answered"
      BY <1>1, <1>2
    <2>3. CASE d = c
      <3>1. found[c].asOf[i] \in Nat
        BY <1>1, FoundTyped DEF IInv
      <3>. QED
        BY <1>1, <1>4, <2>2, <2>3, <3>1 DEF Reads, t
    <2>4. CASE d # c /\ Reads(d)
      <3>1. arg[d].tenant # t
        BY <1>1, <2>4 DEF Reads, Runs, RunLabels
      <3>2. graph'[arg[d].tenant] = graph[arg[d].tenant]
        BY <1>1, <1>3, <3>1
      <3>. QED
        BY <1>2, <2>2, <2>4, <3>2 DEF IInv, Readings, Reads
    <2>5. CASE d # c /\ ~Reads(d)
      BY <2>5 DEF IInv, Readings, Reads
    <2>. QED
      BY <2>3, <2>4, <2>5
  <1>8. Stored'
    <2>1. SUFFICES ASSUME NEW d \in Callers, NEW i \in Inputs, pc'[d] = "record"
                   PROVE  /\ found[d].asOf[i] # Unread
                          /\ graph'[arg[d].tenant].asOf[i] = found[d].asOf[i]
      BY <1>1, <1>2 DEF Stored
    <2>2. CASE d = c
      BY <1>1, <2>2 DEF t
    <2>3. CASE d # c
      <3>1. pc[d] = "record" /\ arg[d].tenant # t
        BY <1>1, <1>2, <2>1, <2>3 DEF Runs, RunLabels
      <3>. QED
        BY <1>1, <1>3, <3>1 DEF IInv, Stored
    <2>. QED
      BY <2>2, <2>3
  <1>9. AnswersCoverTheirRun'
    <2>1. SUFFICES ASSUME NEW d \in Callers, pc[d] = "answered", NEW i \in Inputs
                   PROVE  \/ graph'[arg[d].tenant].asOf[i] >= promised[d]
                          \/ i = "intel" /\ graph'[arg[d].tenant].asOf[i] = 0
      BY <1>1, <1>2 DEF AnswersCoverTheirRun
    <2>2. CASE arg[d].tenant = t
      <3>1. promised[d] \in Nat /\ found[c].asOf[i] \in Nat
        BY <1>1, FoundTyped DEF IInv
      <3>. QED
        BY <1>1, <1>4, <2>1, <2>2, <3>1 DEF Missing
    <2>3. CASE arg[d].tenant # t
      BY <1>1, <1>3, <2>1, <2>3 DEF IInv, AnswersCoverTheirRun
    <2>. QED
      BY <2>2, <2>3
  <1>. QED
    BY <1>5, <1>6, <1>7, <1>8, <1>9 DEF IInv

\* A run ends; those who get its answer get it of a run that stored its graph.
LEMMA SettleKept ==
    ASSUME IInv, TypeOK', NEW c \in Callers, NEW label \in {"idle", "answered"},
           NEW promise \in {NoRun, Rejected}, Runs(c), Settle(c, label, promise),
           label = "answered" => pc[c] = "record",
           UNCHANGED <<graph, clock, listed>>
    PROVE  IInv'
  <1> DEFINE t == arg[c].tenant
             ended == {c} \cup {d \in Callers : pc[d] = "wait" /\ shared[d] = c}
  <1>0. t \in Tenants /\ promise \notin Callers
    BY ArgTyped DEF IInv, TypeOK
  <1>1. inFlight'[t] = promise /\ \A u \in Tenants \ {t} : inFlight'[u] = inFlight[u]
    BY <1>0 DEF Settle, IInv, TypeOK
  <1>2. \A d \in Callers \ ended : /\ pc'[d] = pc[d] /\ arg'[d] = arg[d]
                                   /\ shared'[d] = shared[d] /\ found'[d] = found[d]
                                   /\ promised'[d] = promised[d]
    BY DEF Settle, Return
  <1>3. \A d \in ended : /\ pc'[d] = label /\ found'[d] = NoReading
                         /\ arg'[d].tenant = arg[d].tenant
                         /\ label = "answered" => promised'[d] = promised[d]
    BY DEF Settle, Return, IInv, TypeOK, CallersOK, Arg
  <1>4. \A d \in ended : /\ d \in Callers /\ arg[d].tenant = t
                         /\ promised[d] = promised[c] /\ Owed(d)
    BY DEF IInv, SingleFlight, Owed
  <1>5. \A d \in Callers \ ended : /\ Runs(d) => arg[d].tenant # t
                                   /\ pc[d] = "wait" => shared[d] \notin ended
    BY DEF IInv, SingleFlight, Runs, RunLabels
  <1>6. \A d \in ended : ~Runs(d)' /\ ~Reads(d)' /\ pc'[d] # "wait" /\ pc'[d] # "record"
    BY <1>3 DEF Runs, RunLabels, Reads
  <1>7. \A d \in Callers : arg[d].tenant \in Tenants
    BY ArgTyped DEF IInv, TypeOK
  <1>8. c \in ended /\ ended \subseteq Callers
    OBVIOUS
  <1>. HIDE DEF t, ended
  <1>9. Rows'
    BY <1>2, <1>6 DEF IInv, Rows, Reads
  <1>10. SingleFlight'
    <2>1. ASSUME NEW d \in Callers, Runs(d)' PROVE inFlight'[arg'[d].tenant] = d
      <3>1. d \notin ended /\ Runs(d)
        BY <1>2, <1>6, <2>1 DEF Runs
      <3>. QED
        BY <1>1, <1>2, <1>5, <1>7, <3>1 DEF IInv, SingleFlight
    <2>2. ASSUME NEW u \in Tenants, inFlight'[u] \in Callers
          PROVE  Runs(inFlight[u])' /\ arg'[inFlight'[u]].tenant = u
      <3>1. u # t /\ inFlight'[u] = inFlight[u]
        BY <1>0, <1>1, <2>2
      <3>2. PICK o \in Callers : o = inFlight[u] /\ Runs(o) /\ arg[o].tenant = u
        BY <2>2, <3>1 DEF IInv, SingleFlight
      <3>3. o \notin ended
        BY <1>4, <3>1, <3>2
      <3>. QED
        BY <1>2, <3>1, <3>2, <3>3 DEF Runs
    <2>3. ASSUME NEW d \in Callers, pc'[d] = "wait"
          PROVE  /\ shared'[d] \in Callers /\ Runs(shared[d])'
                 /\ arg'[shared'[d]].tenant = arg'[d].tenant
                 /\ promised'[shared'[d]] = promised'[d]
      <3>1. d \notin ended /\ pc[d] = "wait"
        BY <1>2, <1>6, <2>3
      <3>2. PICK s \in Callers \ ended : /\ s = shared[d] /\ Runs(s)
                                         /\ arg[s].tenant = arg[d].tenant
                                         /\ promised[s] = promised[d]
        BY <1>5, <3>1 DEF IInv, SingleFlight
      <3>. QED
        BY <1>2, <3>1, <3>2 DEF Runs
    <2>. QED
      BY <2>1, <2>2, <2>3 DEF SingleFlight, Runs
  <1>11. Dates'
    <2>1. ASSUME NEW d \in Callers, Owed(d)' PROVE promised'[d] <= clock'[arg'[d].tenant]
      <3>1. CASE d \notin ended
        BY <1>2, <2>1, <3>1 DEF IInv, Dates, Owed, Runs
      <3>2. CASE d \in ended
        <4>1. label = "answered"
          BY <1>3, <1>6, <2>1, <3>2 DEF Owed
        <4>. QED
          BY <1>3, <1>4, <3>2, <4>1 DEF IInv, Dates
      <3>. QED
        BY <3>1, <3>2
    <2>. QED
      BY <2>1 DEF IInv, Dates
  <1>12. Readings'
    <2>1. SUFFICES ASSUME NEW d \in Callers, NEW i \in Inputs
                   PROVE  LET asOf == found'[d].asOf[i] IN
            /\ ~Reads(d)' => asOf = Unread
            /\ asOf # Unread /\ ~Missing(i, asOf) =>
                  /\ promised'[d] <= asOf
                  /\ asOf <= clock[arg'[d].tenant]
                  /\ graph[arg'[d].tenant].asOf[i] <= asOf
                  /\ \A e \in Callers :
                        pc'[e] = "answered" /\ arg'[e].tenant = arg'[d].tenant
                            => promised'[e] <= asOf
      BY DEF Readings, Reads
    <2>2. CASE d \in ended
      BY <1>3, <2>2 DEF NoReading
    <2>3. CASE d \notin ended /\ ~Reads(d)
      BY <1>2, <2>3 DEF IInv, Readings, Reads
    <2>4. CASE d \notin ended /\ Reads(d)
      <3>1. arg[d].tenant # t
        BY <1>5, <2>4 DEF Reads, Runs, RunLabels
      <3>2. \A e \in Callers : pc'[e] = "answered" /\ arg'[e].tenant = arg[d].tenant =>
                pc[e] = "answered" /\ arg[e].tenant = arg[d].tenant
                /\ promised'[e] = promised[e]
        BY <1>2, <1>3, <1>4, <3>1
      <3>. QED
        BY <1>2, <2>4, <3>2 DEF IInv, Readings, Reads
    <2>. QED
      BY <2>2, <2>3, <2>4
  <1>13. Stored'
    BY <1>2, <1>6 DEF IInv, Stored
  <1>14. AnswersCoverTheirRun'
    <2>1. SUFFICES ASSUME NEW d \in Callers, pc'[d] = "answered", NEW i \in Inputs
                   PROVE  \/ graph[arg'[d].tenant].asOf[i] >= promised'[d]
                          \/ i = "intel" /\ graph[arg'[d].tenant].asOf[i] = 0
      BY DEF AnswersCoverTheirRun
    <2>2. CASE d \notin ended
      BY <1>2, <2>1, <2>2 DEF IInv, AnswersCoverTheirRun
    <2>3. CASE d \in ended
      <3>1. pc[c] = "record" /\ promised'[d] = promised[c] /\ arg'[d].tenant = t
        BY <1>3, <1>4, <2>1, <2>3
      <3>2. found[c].asOf[i] # Unread /\ graph[t].asOf[i] = found[c].asOf[i]
        BY <3>1 DEF IInv, Stored, t
      <3>3. promised[c] <= found[c].asOf[i] \/ Missing(i, found[c].asOf[i])
        BY <3>2 DEF IInv, Readings
      <3>4. promised[c] \in Nat /\ found[c].asOf[i] \in Nat
        BY <3>2, FoundTyped DEF IInv
      <3>. QED
        BY <3>1, <3>2, <3>3, <3>4 DEF Missing
    <2>. QED
      BY <2>2, <2>3
  <1>. QED
    BY <1>9, <1>10, <1>11, <1>12, <1>13, <1>14 DEF IInv

LEMMA RunKept ==
    ASSUME IInv, TypeOK', NEW c \in Callers, Run(c)
    PROVE  IInv'
  <1>1. CASE InsertRun(c)
    <2>1. Goto(c, "load") /\ UNCHANGED <<source, graph, inFlight>>
      BY <1>1 DEF InsertRun
    <2>2. pc'[c] = "load" /\ Runs(c) /\ Runs(c)'
      BY <1>1, <2>1 DEF InsertRun, Goto, Runs, RunLabels, IInv, TypeOK, CallersOK
    <2>3. Onward(c)
      BY <1>1, <2>1, <2>2 DEF InsertRun, Onward, Goto, source, IInv, TypeOK, CallersOK
    <2>. QED
      BY <2>1, <2>3, GotoKept
  <1>2. CASE InsertFails(c)
    <2>1. Runs(c)
      BY <1>2 DEF InsertFails, Runs, RunLabels
    <2>. QED
      BY <1>2, <2>1, SettleKept DEF InsertFails, source, result
  <1>3. ASSUME NEW i \in Inputs, Load(c, i) PROVE IInv'
    BY <1>3, LoadKept
  <1>4. CASE LoadNoIntel(c)
    BY <1>4, LoadNoIntelKept
  <1>5. CASE Persist(c)
    BY <1>5, PersistKept
  <1>6. CASE RunFails(c)
    <2>1. Goto(c, "failed") /\ UNCHANGED <<source, result, inFlight>>
      BY <1>6 DEF RunFails
    <2>2. pc'[c] = "failed" /\ Reads(c) /\ Runs(c) /\ Runs(c)'
      BY <1>6, <2>1 DEF RunFails, Goto, Reads, Runs, RunLabels, IInv, TypeOK, CallersOK
    <2>3. arg[c].tenant \in listed
      BY <2>2 DEF IInv, Rows, Reads
    <2>4. Onward(c)
      BY <2>1, <2>2, <2>3 DEF Onward, Goto, source, result, IInv, TypeOK, CallersOK
    <2>. QED
      BY <2>1, <2>4, GotoKept DEF result
  <1>7. CASE EndRun(c)
    <2>1. Runs(c) /\ pc[c] = "record"
      BY <1>7 DEF EndRun, Runs, RunLabels
    <2>. QED
      BY <1>7, <2>1, SettleKept DEF EndRun, source
  <1>8. CASE EndFailedRun(c)
    <2>1. Runs(c)
      BY <1>8 DEF EndFailedRun, Runs, RunLabels
    <2>. QED
      BY <1>8, <2>1, SettleKept DEF EndFailedRun, source, result
  <1>. QED
    BY <1>1, <1>2, <1>3, <1>4, <1>5, <1>6, <1>7, <1>8 DEF Run

-----------------------------------------------------------------------------
(* All steps.                                                                *)

LEMMA WriteKept ==
    ASSUME IInv, TypeOK', NEW c \in Callers, Write(c)
    PROVE  IInv'
  <1>0. TypeOK
    BY DEF IInv
  <1>1. ASSUME NEW t \in Tenants, NEW report \in Reports, WriteSource(c, t, report)
        PROVE  Apart
    BY <1>0, <1>1, StartApart, ChangeGrows DEF WriteSource, result, Labels, RunLabels
  <1>2. CASE Respond(c) \/ RespondError(c)
    <2>1. Return({c}, "idle") /\ ~Runs(c) /\ UNCHANGED <<source, result, inFlight>>
      BY <1>2 DEF Respond, RespondError, Runs, RunLabels
    <2>. QED
      BY <1>0, <2>1, ReturnApart, ApartKept DEF source, result
  <1>3. ASSUME NEW t \in Tenants, NEW id \in Ids, FindRemediation(c, t, id)
        PROVE  Apart
    BY <1>0, <1>3, StartApart, StayGrows
       DEF FindRemediation, source, result, Labels, RunLabels
  <1>4. ASSUME NEW t \in Tenants, FindAsset(c, t)
        PROVE  Apart
    BY <1>0, <1>4, StartApart, StayGrows DEF FindAsset, source, result, Labels, RunLabels
  <1>5. ASSUME WriteOverride(c) \/ \E resolved \in BOOLEAN : WriteStatus(c, resolved)
        PROVE  Apart
    <2>1. /\ Goto(c, "rebuild") /\ Change(arg[c].tenant) /\ ~Runs(c)
          /\ UNCHANGED <<result, inFlight>>
      BY <1>5 DEF WriteOverride, WriteStatus, Runs, RunLabels
    <2>2. \A t \in Tenants : clock[t] <= clock'[t]
      BY <1>0, <2>1, ArgTyped, ChangeGrows DEF TypeOK
    <2>. QED
      BY <1>0, <2>1, <2>2, GotoApart DEF result, Labels, RunLabels
  <1>. QED
    BY <1>1, <1>2, <1>3, <1>4, <1>5, ApartKept DEF Write

LEMMA FeedsKept ==
    ASSUME IInv, TypeOK', Feeds
    PROVE  IInv'
  <1>0. TypeOK
    BY DEF IInv
  <1>1. ASSUME NEW c \in Callers, NEW t \in Tenants, TickFeeds(c, t) \/ SyncNow(c, t)
        PROVE  Apart
    BY <1>0, <1>1, StartApart, StayGrows
       DEF TickFeeds, SyncNow, source, result, Labels, RunLabels
  <1>2. ASSUME NEW recorded \in BOOLEAN, FeedSwapped(recorded) PROVE Apart
    <2>1. \A t \in Tenants : clock[t] <= clock'[t]
      BY <1>0, <1>2 DEF FeedSwapped, TypeOK, SourceOK
    <2>. QED
      BY <1>0, <1>2, <2>1, NextFeedApart DEF FeedSwapped, result
  <1>3. ASSUME FeedFails PROVE Apart
    BY <1>0, <1>3, NextFeedApart, StayGrows DEF FeedFails, source, result
  <1>4. ASSUME SyncRejected PROVE Apart
    <2>1. Return({c \in Callers : pc[c] = "sync"}, "idle")
          /\ UNCHANGED <<source, result, inFlight>>
      BY <1>4 DEF SyncRejected
    <2>. QED
      BY <1>0, <2>1, ReturnApart DEF Runs, RunLabels, source, result
  <1>5. ASSUME KevAges PROVE Apart
    BY <1>0, <1>5, QuietApart, StayGrows DEF KevAges, source, result
  <1>6. ASSUME NEW c \in Callers, Rescore(c) PROVE Apart
    <2>1. /\ pc[c] = "rescore" /\ Return({c}, "idle")
          /\ UNCHANGED <<source, result, inFlight>>
      BY <1>6 DEF Rescore
    <2>. QED
      BY <1>0, <2>1, ReturnApart DEF Runs, RunLabels, source, result
  <1>. QED
    BY <1>1, <1>2, <1>3, <1>4, <1>5, <1>6, ApartKept DEF Feeds

\* Whoever was owed an answer is gone.
LEMMA RestartKept ==
    ASSUME IInv, TypeOK', Restart
    PROVE  IInv'
  <1>1. \A c \in Callers : pc'[c] = "idle" /\ found'[c] = NoReading
    BY DEF Restart, Return
  <1>2. \A t \in Tenants : inFlight'[t] \notin Callers
    BY DEF Restart
  <1>3. UNCHANGED <<graph, clock, listed>>
    BY DEF Restart, source, result
  <1>4. Rows' /\ SingleFlight' /\ Dates'
    BY <1>1, <1>2, <1>3 DEF IInv, Rows, SingleFlight, Dates, Owed, Runs, RunLabels
  <1>5. Readings' /\ Stored' /\ AnswersCoverTheirRun'
    BY <1>1 DEF Readings, Stored, AnswersCoverTheirRun, NoReading
  <1>. QED
    BY <1>4, <1>5 DEF IInv

LEMMA InitKept == Init => IInv
  <1>. SUFFICES ASSUME Init PROVE IInv
    OBVIOUS
  <1>1. TypeOK
    BY InitTyped
  <1>2. Rows /\ SingleFlight /\ Stored /\ AnswersCoverTheirRun
    BY DEF Init, Rows, SingleFlight, Stored, AnswersCoverTheirRun, Runs, RunLabels
  <1>3. Dates
    BY DEF Init, Dates, Owed, Runs, RunLabels
  <1>4. Readings
    BY DEF Init, Readings, NoReading
  <1>. QED
    BY <1>1, <1>2, <1>3, <1>4 DEF IInv

LEMMA NextKept == IInv /\ [Next]_vars => IInv'
  <1>. SUFFICES ASSUME IInv, [Next]_vars PROVE IInv'
    OBVIOUS
  <1>0. TypeOK /\ TypeOK'
    BY NextTyped DEF IInv
  <1>1. ASSUME NEW c \in Callers, Write(c) \/ Ask(c) \/ Run(c) PROVE IInv'
    BY <1>0, <1>1, WriteKept, AskKept, RunKept
  <1>2. ASSUME NEW t \in Tenants, NEW report \in Reports, WriteSilently(t, report)
        PROVE  IInv'
    BY <1>0, <1>2, QuietApart, ChangeGrows, ApartKept DEF WriteSilently, result
  <1>3. CASE Feeds
    BY <1>0, <1>3, FeedsKept
  <1>4. CASE Restart
    BY <1>0, <1>4, RestartKept
  <1>5. CASE UNCHANGED vars
    BY <1>0, <1>5, QuietApart, StayGrows, ApartKept DEF vars, source, result
  <1>. QED
    BY <1>1, <1>2, <1>3, <1>4, <1>5 DEF Next

\* Every reachable state satisfies the inductive invariant: the runs of a
\* tenant do not overlap, and none reads what is older than it has promised.
THEOREM Invariance == Spec => []IInv
  BY InitKept, NextKept, PTL DEF Spec

-----------------------------------------------------------------------------
(* The theorems.                                                             *)

\* Every reachable state is well typed; in particular a tenant with a
\* successful run has a run row.
THEOREM TypeCorrect == Spec => []TypeOK
  <1>1. IInv => TypeOK
    BY DEF IInv
  <1>. QED
    BY <1>1, Invariance, PTL

\* Whoever is told of success gets a graph that contains all that had changed
\* when the run, its own or a joined one, began.
THEOREM AnswersCovered == Spec => []AnswersCoverTheirRun
  <1>1. IInv => AnswersCoverTheirRun
    BY DEF IInv
  <1>. QED
    BY <1>1, Invariance, PTL

\* Nothing but a run that has read everything stores a graph.
LEMMA GraphSteps ==
    ASSUME [Next]_vars
    PROVE  UNCHANGED graph \/ \E c \in Callers : Persist(c)
  <1>1. ASSUME NEW c \in Callers, Run(c)
        PROVE  UNCHANGED graph \/ Persist(c)
    BY <1>1 DEF Run, InsertRun, InsertFails, Load, LoadNoIntel, RunFails, EndRun,
                EndFailedRun, result
  <1>2. ASSUME NEW c \in Callers, Write(c) \/ Ask(c)
        PROVE  UNCHANGED graph
    BY <1>2 DEF Write, WriteSource, Respond, RespondError, FindRemediation,
                WriteStatus, FindAsset, WriteOverride, Ask, View, RebuildNow,
                FireTimer, CheckPlan, JoinRun, JoinRejected, BeginRun, Leave, result
  <1>3. ASSUME Feeds \/ Restart \/ UNCHANGED vars
               \/ \E u \in Tenants, report \in Reports : WriteSilently(u, report)
        PROVE  UNCHANGED graph
    BY <1>3 DEF Feeds, TickFeeds, SyncNow, FeedSwapped, FeedFails, SyncRejected,
                KevAges, Rescore, Restart, WriteSilently, vars, result
  <1>. QED
    BY <1>1, <1>2, <1>3 DEF Next

\* No graph is replaced by one computed from older data.
THEOREM GraphNeverGoesBack == Spec => NewerGraphStays
  <1>1. ASSUME IInv, [Next]_vars
        PROVE  [\A t \in Tenants, i \in Inputs :
                   \/ graph[t].asOf[i] <= graph'[t].asOf[i]
                   \/ i = "intel" /\ graph'[t].asOf[i] = 0]_vars
    <2>1. ASSUME NEW t \in Tenants, NEW i \in Inputs
          PROVE  \/ graph[t].asOf[i] <= graph'[t].asOf[i]
                 \/ i = "intel" /\ graph'[t].asOf[i] = 0
      <3>1. graph[t].asOf[i] \in Nat
        BY <1>1, GraphTyped DEF IInv
      <3>2. CASE graph'[t] = graph[t]
        BY <3>1, <3>2
      <3>3. ASSUME NEW c \in Callers, Persist(c), arg[c].tenant = t
            PROVE  \/ graph[t].asOf[i] <= graph'[t].asOf[i]
                   \/ i = "intel" /\ graph'[t].asOf[i] = 0
        BY <1>1, <3>3, PersistMoves DEF IInv, Readings, Missing
      <3>4. UNCHANGED graph \/ \E c \in Callers : Persist(c)
        BY <1>1, GraphSteps
      <3>5. ASSUME NEW c \in Callers, Persist(c), arg[c].tenant # t
            PROVE  graph'[t] = graph[t]
        BY <1>1, <3>5, PersistMoves
      <3>. QED
        BY <3>2, <3>3, <3>4, <3>5
    <2>. QED
      BY <2>1
  <1>. QED
    BY <1>1, Invariance, PTL DEF Spec, NewerGraphStays

-----------------------------------------------------------------------------
(***************************************************************************)
(* What the dates of a graph say.  They are history: the code keeps none,   *)
(* and a run reads its tables one after the other.  A graph or a reading    *)
(* that is dated by the present holds what the table holds now.             *)
(***************************************************************************)

GraphTrue(t) ==
    /\ graph[t].asOf["inventory"] = clock[t] => graph[t].ids = IdsOf(reported[t])
    /\ graph[t].asOf["states"] = clock[t]
          => graph[t].resolved = graph[t].ids \cap settled[t]

FoundTrue(c) == LET t == arg[c].tenant IN
    /\ found[c].asOf["inventory"] = clock[t] => found[c].ids = IdsOf(reported[t])
    /\ found[c].asOf["states"] = clock[t] => found[c].settled = settled[t]

DatesTell == (\A t \in Tenants : GraphTrue(t)) /\ (\A c \in Callers : FoundTrue(c))

\* A caller whose run, its own or a joined one, began after the last change has
\* in its answer the remediations of the present report, those resolved that are
\* done at present, and no others.
AnswersAreCurrent ==
    \A c \in Callers : LET t == arg[c].tenant IN
        pc[c] = "answered" /\ promised[c] = clock[t] =>
            /\ graph[t].ids = IdsOf(reported[t])
            /\ graph[t].resolved = IdsOf(reported[t]) \cap settled[t]

\* What a graph is computed from changes with the clock only.
LEMMA SourceSteps ==
    ASSUME TypeOK, [Next]_vars, NEW t \in Tenants
    PROVE  /\ clock[t] <= clock'[t]
           /\ clock'[t] = clock[t] => UNCHANGED <<reported[t], settled[t]>>
  <1>0. clock[t] \in Nat
    BY DEF TypeOK, SourceOK
  <1>1. CASE UNCHANGED source
    BY <1>0, <1>1 DEF source
  <1>2. ASSUME NEW u \in Tenants, Change(u),
               UNCHANGED <<reported[t], settled[t]>> \/ u = t
        PROVE  /\ clock[t] <= clock'[t]
               /\ clock'[t] = clock[t] => UNCHANGED <<reported[t], settled[t]>>
    BY <1>0, <1>2 DEF Change, TypeOK, SourceOK
  <1>3. ASSUME NEW c \in Callers, Write(c)
        PROVE  UNCHANGED source \/ \E u \in Tenants :
                   Change(u) /\ (UNCHANGED <<reported[t], settled[t]>> \/ u = t)
    <2>1. ASSUME NEW u \in Tenants, NEW report \in Reports, WriteSource(c, u, report)
          PROVE  Change(u) /\ (UNCHANGED <<reported[t], settled[t]>> \/ u = t)
      BY <2>1 DEF WriteSource, TypeOK, SourceOK
    <2>2. ASSUME WriteOverride(c) \/ \E resolved \in BOOLEAN : WriteStatus(c, resolved)
          PROVE  /\ Change(arg[c].tenant) /\ arg[c].tenant \in Tenants
                 /\ UNCHANGED <<reported[t], settled[t]>> \/ arg[c].tenant = t
      BY <2>2, ArgTyped DEF WriteOverride, WriteStatus, TypeOK, SourceOK
    <2>3. ASSUME \/ Respond(c) \/ RespondError(c)
                 \/ \E u \in Tenants, id \in Ids : FindRemediation(c, u, id)
                 \/ \E u \in Tenants : FindAsset(c, u)
          PROVE  UNCHANGED source
      BY <2>3 DEF Respond, RespondError, FindRemediation, FindAsset
    <2>. QED
      BY <1>3, <2>1, <2>2, <2>3 DEF Write
  <1>4. ASSUME NEW c \in Callers, Ask(c) \/ Run(c)
        PROVE  UNCHANGED source
    BY <1>4 DEF Ask, View, RebuildNow, FireTimer, CheckPlan, JoinRun, JoinRejected,
                BeginRun, Leave, Run, InsertRun, InsertFails, Load, LoadNoIntel,
                Persist, RunFails, EndRun, EndFailedRun
  <1>5. ASSUME NEW u \in Tenants, NEW report \in Reports, WriteSilently(u, report)
        PROVE  Change(u) /\ (UNCHANGED <<reported[t], settled[t]>> \/ u = t)
    BY <1>5 DEF WriteSilently, TypeOK, SourceOK
  <1>6. ASSUME NEW recorded \in BOOLEAN, FeedSwapped(recorded)
        PROVE  clock'[t] = clock[t] + 1
    BY <1>6 DEF FeedSwapped
  <1>7. ASSUME \/ FeedFails \/ SyncRejected \/ KevAges \/ Restart \/ UNCHANGED vars
               \/ \E c \in Callers, u \in Tenants : TickFeeds(c, u) \/ SyncNow(c, u)
               \/ \E c \in Callers : Rescore(c)
        PROVE  UNCHANGED source
    BY <1>7 DEF FeedFails, SyncRejected, KevAges, Restart, vars, TickFeeds, SyncNow,
                Rescore
  <1>. QED
    BY <1>0, <1>1, <1>2, <1>3, <1>4, <1>5, <1>6, <1>7 DEF Next, Feeds

\* What a run has read stays with it and its tenant, or is forgotten.
FoundStep(c) ==
    \/ found'[c] = NoReading
    \/ found'[c] = found[c] /\ (Reads(c) => arg'[c].tenant = arg[c].tenant)
    \/ LoadNoIntel(c) \/ \E i \in Inputs : Load(c, i)

LEMMA FoundSteps ==
    ASSUME TypeOK, [Next]_vars, NEW c \in Callers
    PROVE  FoundStep(c)
  <1>1. ASSUME NEW d, NEW label, NEW t, NEW id, Start(d, label, t, id) PROVE FoundStep(c)
    BY <1>1 DEF Start, FoundStep, Reads, TypeOK, CallersOK
  <1>2. ASSUME NEW ended, NEW label, Return(ended, label) PROVE FoundStep(c)
    BY <1>2 DEF Return, FoundStep, TypeOK, CallersOK, Arg
  <1>3. ASSUME UNCHANGED <<arg, found>> PROVE FoundStep(c)
    BY <1>3 DEF FoundStep
  <1>4. ASSUME NEW d \in Callers, Write(d) PROVE FoundStep(c)
    BY <1>4, <1>1, <1>2, <1>3 DEF Write, WriteSource, Respond, RespondError,
       FindRemediation, WriteStatus, FindAsset, WriteOverride, Goto
  <1>5. ASSUME NEW d \in Callers, Ask(d) PROVE FoundStep(c)
    BY <1>5, <1>1, <1>2, <1>3 DEF Ask, View, RebuildNow, FireTimer, CheckPlan,
       JoinRun, JoinRejected, BeginRun, Leave, Goto
  <1>6. ASSUME NEW d \in Callers, LoadNoIntel(d) \/ \E i \in Inputs : Load(d, i)
        PROVE  FoundStep(c)
    <2>1. CASE d = c
      BY <1>6, <2>1 DEF FoundStep
    <2>2. CASE d # c
      BY <1>6, <2>2 DEF FoundStep, LoadNoIntel, Load, TypeOK, CallersOK
    <2>. QED
      BY <2>1, <2>2
  <1>7. ASSUME NEW d \in Callers, Run(d) PROVE FoundStep(c)
    BY <1>7, <1>2, <1>3, <1>6 DEF Run, InsertRun, InsertFails, Persist, RunFails,
       EndRun, EndFailedRun, Settle, Goto
  <1>8. ASSUME Feeds PROVE FoundStep(c)
    BY <1>8, <1>1, <1>2, <1>3 DEF Feeds, TickFeeds, SyncNow, FeedSwapped, FeedFails,
       SyncRejected, KevAges, Rescore, NextFeed, calling
  <1>9. ASSUME Restart \/ UNCHANGED vars
               \/ \E t \in Tenants, report \in Reports : WriteSilently(t, report)
        PROVE  FoundStep(c)
    BY <1>9, <1>2, <1>3 DEF Restart, WriteSilently, vars, calling
  <1>. QED
    BY <1>4, <1>5, <1>7, <1>8, <1>9 DEF Next

LEMMA DatesTellKept ==
    ASSUME IInv, DatesTell, [Next]_vars
    PROVE  DatesTell'
  <1>0. TypeOK /\ "inventory" \in Inputs /\ "states" \in Inputs
    BY DEF IInv, Inputs
  <1>1. ASSUME NEW t \in Tenants PROVE GraphTrue(t)'
    <2>1. CASE graph'[t] = graph[t]
      <3>1. \A i \in Inputs : graph'[t].asOf[i] = clock'[t] =>
                graph[t].asOf[i] = clock[t] /\ clock'[t] = clock[t]
        <4>1. \A i \in Inputs : graph[t].asOf[i] \in Nat /\ graph[t].asOf[i] <= clock[t]
          BY <1>0, GraphTyped DEF IInv, Dates
        <4>2. clock[t] \in Nat /\ clock'[t] \in Nat /\ clock[t] <= clock'[t]
          BY <1>0, NextTyped, SourceSteps DEF IInv, TypeOK, SourceOK
        <4>. QED
          BY <2>1, <4>1, <4>2
      <3>. QED
        BY <1>0, <2>1, <3>1, SourceSteps DEF DatesTell, GraphTrue
    <2>2. ASSUME NEW c \in Callers, Persist(c), arg[c].tenant = t PROVE GraphTrue(t)'
      <3>1. /\ graph'[t] = [ids |-> found[c].ids,
                            resolved |-> found[c].ids \cap found[c].settled,
                            asOf |-> found[c].asOf]
            /\ UNCHANGED <<clock, reported, settled>>
        BY <1>0, <2>2 DEF Persist, TypeOK, ResultOK, source
      <3>. QED
        BY <2>2, <3>1 DEF DatesTell, FoundTrue, GraphTrue
    <2>3. ASSUME NEW c \in Callers, Persist(c), arg[c].tenant # t
          PROVE  graph'[t] = graph[t]
      BY <2>3, PersistMoves
    <2>. QED
      BY <2>1, <2>2, <2>3, GraphSteps
  <1>2. ASSUME NEW c \in Callers PROVE FoundTrue(c)'
    <2>. DEFINE t == arg[c].tenant
    <2>0. t \in Tenants /\ arg'[c].tenant \in Tenants
      BY <1>0, NextTyped, ArgTyped DEF IInv, TypeOK, CallersOK, Arg
    <2>1. clock'[arg'[c].tenant] # Unread
      BY <1>0, <2>0, NextTyped DEF IInv, TypeOK, SourceOK
    <2>2. ASSUME \A i \in Inputs : found'[c].asOf[i] = Unread PROVE FoundTrue(c)'
      BY <1>0, <2>1, <2>2 DEF FoundTrue
    <2>3. CASE found'[c] = NoReading
      BY <2>2, <2>3 DEF NoReading
    <2>4. CASE found'[c] = found[c] /\ ~Reads(c)
      BY <2>2, <2>4 DEF IInv, Readings, Reads
    <2>5. CASE found'[c] = found[c] /\ arg'[c].tenant = t
      <3>1. \A i \in {"inventory", "states"} : found'[c].asOf[i] = clock'[t] =>
                found[c].asOf[i] = clock[t] /\ clock'[t] = clock[t]
        <4>1. clock[t] \in Nat /\ clock'[t] \in Nat /\ clock[t] <= clock'[t]
          BY <1>0, <2>0, NextTyped, SourceSteps DEF IInv, TypeOK, SourceOK
        <4>2. \A i \in {"inventory", "states"} : found[c].asOf[i] # Unread =>
                  found[c].asOf[i] <= clock[t] /\ found[c].asOf[i] \in Nat
          BY <1>0, FoundTyped DEF IInv, Readings, Missing
        <4>. QED
          BY <2>1, <2>5, <4>1, <4>2
      <3>. QED
        BY <1>0, <2>0, <2>5, <3>1, SourceSteps DEF DatesTell, FoundTrue
    <2>6. ASSUME NEW i \in Inputs, Load(c, i) PROVE FoundTrue(c)'
      <3>. DEFINE ids == IF i = "inventory" THEN IdsOf(reported[t]) ELSE found[c].ids
                  set == IF i = "states" THEN settled[t] ELSE found[c].settled
      <3>1. found[c] \in Reading /\ UNCHANGED <<clock, reported, settled, arg>>
        BY <1>0, <2>6 DEF Load, TypeOK, CallersOK, source
      <3>2. found' = [found EXCEPT ![c] =
                        [@ EXCEPT !.asOf[i] = clock[t], !.ids = ids, !.settled = set]]
        BY <2>6, <3>1 DEF Load, Reading, IInv, TypeOK, CallersOK
      <3>3. found'[c] = [found[c] EXCEPT !.asOf[i] = clock[t], !.ids = ids,
                                         !.settled = set]
        BY <1>0, <3>2 DEF TypeOK, CallersOK
      <3>4. /\ found'[c].ids = ids /\ found'[c].settled = set
            /\ \A j \in Inputs \ {i} : found'[c].asOf[j] = found[c].asOf[j]
        BY <3>1, <3>3 DEF Reading
      <3>. QED
        BY <1>0, <3>1, <3>4 DEF DatesTell, FoundTrue
    <2>7. CASE LoadNoIntel(c)
      <3>1. /\ UNCHANGED <<clock, reported, settled, arg>>
            /\ found[c] \in Reading
            /\ found' = [found EXCEPT ![c] = [@ EXCEPT !.asOf["intel"] = 0]]
        BY <1>0, <2>7 DEF LoadNoIntel, TypeOK, CallersOK, source
      <3>2. /\ found'[c].ids = found[c].ids /\ found'[c].settled = found[c].settled
            /\ \A j \in {"inventory", "states"} : found'[c].asOf[j] = found[c].asOf[j]
        BY <1>0, <3>1 DEF TypeOK, CallersOK, Reading
      <3>. QED
        BY <1>0, <3>1, <3>2 DEF DatesTell, FoundTrue
    <2>. QED
      BY <1>0, <2>3, <2>4, <2>5, <2>6, <2>7, FoundSteps DEF FoundStep
  <1>. QED
    BY <1>1, <1>2 DEF DatesTell

LEMMA InitTells == Init => DatesTell
  <1>. SUFFICES ASSUME Init PROVE DatesTell
    OBVIOUS
  <1>1. TypeOK /\ "inventory" \in Inputs /\ "states" \in Inputs
    BY InitTyped DEF Inputs
  <1>2. ASSUME NEW t \in Tenants PROVE GraphTrue(t)
    BY <1>1 DEF Init, GraphTrue
  <1>3. ASSUME NEW c \in Callers PROVE FoundTrue(c)
    <2>1. clock[arg[c].tenant] \in Nat
      BY <1>1, ArgTyped DEF TypeOK, SourceOK
    <2>2. \A i \in Inputs : found[c].asOf[i] = Unread
      BY DEF Init, NoReading
    <2>. QED
      BY <1>1, <2>1, <2>2 DEF FoundTrue
  <1>. QED
    BY <1>2, <1>3 DEF DatesTell

\* The dates tell the truth, although a run reads its tables one after the other
\* and anything may change between, during and after its reads.
THEOREM GraphTellsItsDate == Spec => []DatesTell
  <1>1. IInv /\ DatesTell /\ [Next]_vars => DatesTell'
    BY DatesTellKept
  <1>. QED
    BY <1>1, InitTells, Invariance, PTL DEF Spec

\* Together with what answers cover: whoever is told of success after the last
\* change gets exactly the graph of the present tables.
THEOREM AnswersAreExact == Spec => []AnswersAreCurrent
  <1>1. IInv /\ DatesTell => AnswersAreCurrent
    <2>. SUFFICES ASSUME IInv, DatesTell, NEW c \in Callers, pc[c] = "answered",
                         promised[c] = clock[arg[c].tenant]
                  PROVE  LET t == arg[c].tenant IN
                         /\ graph[t].ids = IdsOf(reported[t])
                         /\ graph[t].resolved = IdsOf(reported[t]) \cap settled[t]
      BY DEF AnswersAreCurrent
    <2>. DEFINE t == arg[c].tenant
    <2>1. t \in Tenants /\ "inventory" \in Inputs /\ "states" \in Inputs
      BY ArgTyped DEF IInv, TypeOK, Inputs
    <2>2. \A i \in {"inventory", "states"} : graph[t].asOf[i] >= clock[t]
      BY <2>1 DEF IInv, AnswersCoverTheirRun
    <2>3. \A i \in {"inventory", "states"} : graph[t].asOf[i] = clock[t]
      BY <2>1, <2>2, GraphTyped DEF IInv, Dates
    <2>. QED
      BY <2>1, <2>3 DEF DatesTell, GraphTrue
  <1>. QED
    BY <1>1, Invariance, GraphTellsItsDate, PTL

-----------------------------------------------------------------------------
(***************************************************************************)
(* How far StatusSurvives, which the run graph_statuses refutes, holds.     *)
(***************************************************************************)

\* A finding has the same place in every report that lists it.
FixedPlaces ==
    \A r, s \in Reports : \A k \in DOMAIN r, l \in DOMAIN s : r[k] = s[l] => k = l

\* A new graph keeps what is done resolved, unless something changed between its
\* reading of the states and the moment it is stored.
StatusesStay ==
    [][\A t \in Tenants : \A id \in graph[t].resolved \cap settled[t] :
          (\E other \in graph'[t].ids : other[1] = id[1])
              => \/ \E other \in graph'[t].resolved : other[1] = id[1]
                 \/ graph'[t].asOf["states"] < clock[t]]_vars

\* The place of a finding in its report is all that loses its status: if findings
\* keep their places, whatever else the reports list or leave out, a remediation
\* that is done stays resolved as long as its finding is reported.
THEOREM StatusesStayInPlace ==
    ASSUME FixedPlaces
    PROVE  Spec => StatusesStay
  <1>1. ASSUME IInv, DatesTell, [Next]_vars
        PROVE  [\A t \in Tenants : \A id \in graph[t].resolved \cap settled[t] :
                  (\E other \in graph'[t].ids : other[1] = id[1])
                      => \/ \E other \in graph'[t].resolved : other[1] = id[1]
                         \/ graph'[t].asOf["states"] < clock[t]]_vars
    <2>. SUFFICES ASSUME NEW t \in Tenants, NEW id \in graph[t].resolved,
                         id \in settled[t], NEW other \in graph'[t].ids,
                         other[1] = id[1], ~(graph'[t].asOf["states"] < clock[t])
                  PROVE  \E o \in graph'[t].resolved : o[1] = id[1]
      OBVIOUS
    <2>0. TypeOK /\ TypeOK' /\ "states" \in Inputs
      BY <1>1, NextTyped DEF IInv, Inputs
    <2>1. CASE graph'[t] = graph[t]
      BY <2>1
    <2>2. ASSUME NEW c \in Callers, Persist(c), arg[c].tenant = t
          PROVE  id \in graph'[t].resolved
      <3>1. /\ graph'[t].ids = found[c].ids
            /\ graph'[t].resolved = found[c].ids \cap found[c].settled
            /\ graph'[t].asOf = found[c].asOf
        BY <2>0, <2>2 DEF Persist, TypeOK, ResultOK
      <3>2. found[c].asOf["states"] = clock[t]
        <4>1. found[c].asOf["states"] # Unread
          BY <2>0, <2>2 DEF Persist
        <4>2. /\ found[c].asOf["states"] \in Nat /\ clock[t] \in Nat
              /\ found[c].asOf["states"] <= clock[t]
          BY <1>1, <2>0, <2>2, <4>1, FoundTyped, GraphTyped DEF IInv, Readings, Missing
        <4>. QED
          BY <3>1, <4>2
      <3>3. id \in found[c].settled
        BY <1>1, <2>2, <3>2 DEF DatesTell, FoundTrue
      <3>4. other = id
        <4>1. id \in Ids /\ other \in Ids
          BY <2>0 DEF TypeOK, ResultOK, Graph
        <4>2. PICK r \in Reports : \E k \in DOMAIN r : id = <<r[k], k>>
          BY <4>1 DEF Ids, IdsOf
        <4>3. PICK s \in Reports : \E l \in DOMAIN s : other = <<s[l], l>>
          BY <4>1 DEF Ids, IdsOf
        <4>. QED
          BY <4>2, <4>3, <2>2 DEF FixedPlaces
      <3>. QED
        BY <3>1, <3>3, <3>4
    <2>3. ASSUME NEW c \in Callers, Persist(c), arg[c].tenant # t
          PROVE  graph'[t] = graph[t]
      BY <1>1, <2>3, PersistMoves
    <2>. QED
      BY <1>1, <2>1, <2>2, <2>3, GraphSteps
  <1>. QED
    BY <1>1, Invariance, GraphTellsItsDate, PTL DEF Spec, StatusesStay

-----------------------------------------------------------------------------
(* What a run whose row could not be inserted leaves behind.                 *)

\* The promise of a run that could not begin is not removed, and while it is there
\* the tenant's graph is not recomputed, until the server restarts.
RejectionStays ==
    [][\A t \in Tenants : inFlight[t] = Rejected =>
          Restart \/ UNCHANGED <<inFlight[t], graph[t]>>]_vars

\* One failed INSERT leaves a tenant its graph for good, whatever is reported,
\* requested, timed or synced: no operation of the server removes the promise.
THEOREM RejectedUntilRestart == Spec => RejectionStays
  <1>1. ASSUME IInv, [Next]_vars
        PROVE  [\A t \in Tenants : inFlight[t] = Rejected =>
                  Restart \/ UNCHANGED <<inFlight[t], graph[t]>>]_vars
    <2>. SUFFICES ASSUME NEW t \in Tenants, inFlight[t] = Rejected, ~Restart
                  PROVE  UNCHANGED <<inFlight[t], graph[t]>>
      OBVIOUS
    <2>0. TypeOK
      BY <1>1 DEF IInv
    <2>1. \A c \in Callers : Runs(c) => arg[c].tenant # t
      BY <1>1 DEF IInv, SingleFlight
    <2>2. graph'[t] = graph[t]
      <3>1. ASSUME NEW c \in Callers, Persist(c) PROVE graph'[t] = graph[t]
        <4>1. Runs(c)
          BY <3>1 DEF Persist, Runs, RunLabels
        <4>. QED
          BY <1>1, <2>1, <3>1, <4>1, PersistMoves
      <3>. QED
        BY <1>1, <3>1, GraphSteps
    <2>3. ASSUME NEW c \in Callers, Ask(c) PROVE inFlight'[t] = inFlight[t]
      <3>1. CASE BeginRun(c)
        BY <2>0, <3>1 DEF BeginRun, TypeOK
      <3>2. CASE ~BeginRun(c)
        BY <2>3, <3>2 DEF Ask, View, RebuildNow, FireTimer, CheckPlan, JoinRun,
           JoinRejected, Leave
      <3>. QED
        BY <3>1, <3>2
    <2>4. ASSUME NEW c \in Callers, Run(c) PROVE inFlight'[t] = inFlight[t]
      <3>1. CASE InsertFails(c) \/ EndRun(c) \/ EndFailedRun(c)
        <4>1. Runs(c)
          BY <3>1 DEF InsertFails, EndRun, EndFailedRun, Runs, RunLabels
        <4>2. \E promise : inFlight' = [inFlight EXCEPT ![arg[c].tenant] = promise]
          BY <3>1 DEF InsertFails, EndRun, EndFailedRun, Settle
        <4>. QED
          BY <2>0, <2>1, <4>1, <4>2 DEF TypeOK
      <3>2. CASE ~(InsertFails(c) \/ EndRun(c) \/ EndFailedRun(c))
        BY <2>4, <3>2 DEF Run, InsertRun, Load, LoadNoIntel, Persist, RunFails
      <3>. QED
        BY <3>1, <3>2
    <2>5. ASSUME \/ \E c \in Callers : Write(c)
                 \/ Feeds \/ UNCHANGED vars
                 \/ \E u \in Tenants, report \in Reports : WriteSilently(u, report)
          PROVE  inFlight'[t] = inFlight[t]
      BY <2>5 DEF Write, WriteSource, Respond, RespondError, FindRemediation,
         WriteStatus, FindAsset, WriteOverride, Feeds, TickFeeds, SyncNow, FeedSwapped,
         FeedFails, SyncRejected, KevAges, Rescore, WriteSilently, vars
    <2>. QED
      BY <1>1, <2>2, <2>3, <2>4, <2>5 DEF Next
  <1>. QED
    BY <1>1, Invariance, PTL DEF Spec, RejectionStays
=============================================================================
