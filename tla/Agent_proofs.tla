---------------------------- MODULE Agent_proofs ----------------------------
(* Theorems about Agent, for any scans, handlers, servers, tokens and bounds. *)
EXTENDS Agent, TLAPS

USE AgentAssumption DEF AgentAssumption

-----------------------------------------------------------------------------
(* Type correctness.                                                         *)

\* What an action leaves alone keeps its type.
LEMMA Quiet ==
    ASSUME TypeOK
    PROVE  /\ UNCHANGED memory => MemoryOK'
           /\ UNCHANGED jobs => JobsOK'
           /\ UNCHANGED host => HostOK'
           /\ UNCHANGED history => HistoryOK'
           /\ UNCHANGED faults \/ Fault => faults' \in 0 .. MaxFaults
  <1>1. UNCHANGED memory => MemoryOK'
    BY DEF TypeOK, MemoryOK, memory
  <1>2. UNCHANGED jobs => JobsOK'
    BY DEF TypeOK, JobsOK
  <1>3. UNCHANGED host => HostOK'
    BY DEF TypeOK, HostOK, host
  <1>4. UNCHANGED history => HistoryOK'
    BY DEF TypeOK, HistoryOK, history
  <1>5. UNCHANGED faults \/ Fault => faults' \in 0 .. MaxFaults
    BY DEF TypeOK, Fault
  <1>. QED
    BY <1>1, <1>2, <1>3, <1>4, <1>5

\* What the steps make of currentScanState.
LEMMA ScanEdits ==
    ASSUME NEW r \in ScanState, NEW g \in 0 .. MaxScans, NEW f \in Findings \cup {Nothing}
    PROVE  /\ Fresh(g) \in ScanState
           /\ [Fresh(g) EXCEPT !.running = TRUE] \in ScanState
           /\ [Fresh(g) EXCEPT !.complete = TRUE, !.findings = f] \in ScanState
           /\ [r EXCEPT !.running = FALSE, !.complete = TRUE, !.findings = f] \in ScanState
           /\ [r EXCEPT !.running = FALSE, !.canceled = TRUE, !.findings = f] \in ScanState
           /\ [r EXCEPT !.running = FALSE, !.error = TRUE] \in ScanState
           /\ [r EXCEPT !.canceled = TRUE, !.running = FALSE] \in ScanState
  BY DEF ScanState, Fresh

LEMMA MemoryType ==
    ASSUME TypeOK, work' = work, scan' \in ScanState, cached' \in Findings \cup {Nothing},
           errs' \in SUBSET (0 .. MaxScans)
    PROVE  MemoryOK'
  BY DEF TypeOK, MemoryOK

\* A goroutine goes on.
LEMMA WorkType ==
    ASSUME TypeOK, NEW s \in Scans, NEW row \in Goroutine,
           row.pc = "save" \/ (row.pc = "publish" /\ row.end = "ok")
              => row.found \in Findings,
           work' = [work EXCEPT ![s] = row],
           scan' \in ScanState, cached' \in Findings \cup {Nothing},
           errs' \in SUBSET (0 .. MaxScans)
    PROVE  MemoryOK'
  BY DEF TypeOK, MemoryOK

LEMMA NoWorkType == NoWork \in Goroutine /\ NoWork.pc = "idle"
  BY DEF NoWork, Goroutine

LEMMA FoundType ==
    ASSUME NEW g \in 0 .. MaxScans, NEW v \in BOOLEAN
    PROVE  [by |-> g, vulnerable |-> v] \in Findings
  BY DEF Findings

LEMMA WorkEdits ==
    ASSUME NEW r \in Goroutine, NEW g \in 0 .. MaxScans, NEW f \in Findings
    PROVE  /\ [NoWork EXCEPT !.pc = "walk", !.gen = g] \in Goroutine
           /\ [r EXCEPT !.pc = "stores"] \in Goroutine
           /\ [r EXCEPT !.pc = "save"] \in Goroutine
           /\ [r EXCEPT !.pc = "publish", !.found = f] \in Goroutine
           /\ [r EXCEPT !.pc = "publish", !.end = "canceled", !.found = f] \in Goroutine
           /\ [r EXCEPT !.pc = "publish", !.end = "error"] \in Goroutine
           /\ [r EXCEPT !.canceled = TRUE] \in Goroutine
  BY DEF Goroutine, NoWork

\* A job goes on.
LEMMA BeginType ==
    ASSUME TypeOK, NEW j \in Jobs, NEW job \in Job,
           job.pc \in {"legacyCache", "legacySave", "latestSave", "loadCache", "loadShow"}
              => job.found \in Findings,
           job.pc \in {"send", "truncate", "write"} => job.config \in Config,
           jobs' = [jobs EXCEPT ![j] = job]
    PROVE  JobsOK'
  BY DEF TypeOK, JobsOK

LEMMA NoJobType == NoJob \in Job /\ NoJob.pc = "idle"
  BY DEF NoJob, Job, Labels

LEMMA EndType ==
    ASSUME TypeOK, NEW j \in Jobs, End(j)
    PROVE  JobsOK'
  BY BeginType, NoJobType DEF End

LEMMA GotoType ==
    ASSUME TypeOK, NEW j \in Jobs, NEW label \in Labels, Goto(j, label),
           label \in {"legacyCache", "legacySave", "latestSave", "loadCache", "loadShow"}
              => jobs[j].found \in Findings,
           label \in {"send", "truncate", "write"} => jobs[j].config \in Config
    PROVE  JobsOK'
  BY DEF TypeOK, JobsOK, Goto, Job

LEMMA FoundJob ==
    ASSUME NEW label \in Labels, NEW f \in Findings
    PROVE  /\ [NoJob EXCEPT !.pc = label, !.found = f] \in Job
           /\ [NoJob EXCEPT !.pc = label, !.found = f].pc = label
           /\ [NoJob EXCEPT !.pc = label, !.found = f].found = f
  BY DEF NoJob, Job, Labels

LEMMA ConfigJob ==
    ASSUME NEW b \in BOOLEAN, NEW next \in {"idle", "service"}, NEW c \in Config
    PROVE  /\ [NoJob EXCEPT !.pc = "truncate", !.byUser = b, !.config = c] \in Job
           /\ [NoJob EXCEPT !.pc = "truncate", !.byUser = b, !.config = c].pc = "truncate"
           /\ [NoJob EXCEPT !.pc = "truncate", !.byUser = b, !.config = c].config = c
           /\ [NoJob EXCEPT !.pc = "truncate", !.next = next, !.config = c] \in Job
           /\ [NoJob EXCEPT !.pc = "truncate", !.next = next, !.config = c].pc = "truncate"
           /\ [NoJob EXCEPT !.pc = "truncate", !.next = next, !.config = c].config = c
  BY DEF NoJob, Job, Labels

LEMMA UploadJob ==
    ASSUME NEW srv \in Servers, NEW tok \in Tokens \cup {NoToken},
           NEW next \in {"idle", "check", "service"}
    PROVE  Upload(srv, tok, next) \in Job /\ Upload(srv, tok, next).pc = "readConfig"
  BY DEF Upload, NoJob, Job, Labels

LEMMA CheckJob ==
    ASSUME NEW job \in Job
    PROVE  [job EXCEPT !.pc = "check"] \in Job /\ [job EXCEPT !.pc = "check"].pc = "check"
  BY DEF Job, Labels

LEMMA LoadedType ==
    ASSUME TypeOK
    PROVE  /\ Loaded \in Config
           /\ Loaded.server \in Servers /\ Loaded.token \in Tokens \cup {NoToken}
  BY DEF TypeOK, HostOK, Loaded, Config

LEMMA ConfigEdits ==
    ASSUME NEW c \in Config, NEW srv \in Servers, NEW tok \in Tokens \cup {NoToken},
           NEW on \in BOOLEAN
    PROVE  /\ [c EXCEPT !.server = srv, !.token = tok, !.auto = on] \in Config
           /\ [c EXCEPT !.local = TRUE] \in Config
           /\ Merged(c, srv, tok) \in Config
           /\ PairOf(c) \in Servers \X (Tokens \cup {NoToken})
  BY DEF Config, Merged, PairOf

\* The errors go with the record, or are lost with it.
LEMMA SaveType ==
    ASSUME TypeOK, NEW f \in Findings, SaveScanResult(f)
    PROVE  /\ errs' \in SUBSET (0 .. MaxScans)
           /\ stored' \in Seq(Record \cup {Nothing})
           /\ unreported' \in SUBSET (0 .. MaxScans)
           /\ faults' \in 0 .. MaxFaults
  <1>1. [findings |-> f, level |-> Level(f)] \in Record
    BY DEF Record, Level
  <1>2. stored' \in Seq(Record \cup {Nothing})
    BY <1>1 DEF SaveScanResult, TypeOK, HostOK
  <1>3. unreported' \in SUBSET (0 .. MaxScans)
    BY DEF SaveScanResult, TypeOK, HistoryOK
  <1>4. faults' \in 0 .. MaxFaults
    BY Quiet DEF SaveScanResult
  <1>5. errs' = {}
    BY DEF SaveScanResult
  <1>. QED
    BY <1>2, <1>3, <1>4, <1>5

LEMMA CollectsType ==
    ASSUME TypeOK, NEW g \in 0 .. MaxScans, NEW fails \in BOOLEAN, Collects(g, fails)
    PROVE  errs' \in SUBSET (0 .. MaxScans) /\ unreported' \in SUBSET (0 .. MaxScans)
  BY DEF TypeOK, MemoryOK, HistoryOK, Collects

LEMMA Rows ==
    ASSUME TypeOK
    PROVE  /\ scan \in ScanState /\ scan.generation \in 0 .. MaxScans
           /\ cached \in Findings \cup {Nothing} /\ errs \in SUBSET (0 .. MaxScans)
           /\ \A s \in Scans : work[s] \in Goroutine /\ work[s].gen \in 0 .. MaxScans
           /\ \A j \in Jobs : /\ jobs[j] \in Job
                               /\ jobs[j].server \in Servers
                               /\ jobs[j].token \in Tokens \cup {NoToken}
           /\ \A i \in Numbers : stored[i] \in Record /\ stored[i].findings \in Findings
           /\ \A h \in Handlers : h \in Jobs
           /\ Worker \in Jobs /\ Boot \in Jobs /\ Daemon \in Jobs
  <1>1. \A i \in Numbers : stored[i] \in Record /\ stored[i].findings \in Findings
    BY DEF TypeOK, HostOK, Numbers, Record
  <1>2. \A s \in Scans : work[s] \in Goroutine /\ work[s].gen \in 0 .. MaxScans
    BY DEF TypeOK, MemoryOK, Goroutine
  <1>3. \A j \in Jobs : /\ jobs[j] \in Job
                        /\ jobs[j].server \in Servers
                        /\ jobs[j].token \in Tokens \cup {NoToken}
    BY DEF TypeOK, JobsOK, Job
  <1>4. scan \in ScanState /\ scan.generation \in 0 .. MaxScans
    BY DEF TypeOK, MemoryOK, ScanState
  <1>. QED
    BY <1>1, <1>2, <1>3, <1>4 DEF TypeOK, MemoryOK, Jobs, Gui

LEMMA ScanningType ==
    ASSUME TypeOK, NEW s \in Scans, Scanning(s)
    PROVE  TypeOK'
  <1>1. CASE StartScan(s)
    <2>. DEFINE g == scan.generation + 1
    <2>1. g \in 0 .. MaxScans
      BY <1>1, Rows DEF StartScan
    <2>2. scan' \in ScanState
      BY <1>1, <2>1, Rows, ScanEdits DEF StartScan
    <2>3. [NoWork EXCEPT !.pc = "walk", !.gen = g] \in Goroutine
      BY <2>1 DEF NoWork, Goroutine
    <2>4. MemoryOK'
      BY <1>1, <2>2, <2>3, Rows, WorkType DEF StartScan, NoWork
    <2>5. HistoryOK'
      BY <1>1 DEF StartScan, TypeOK, HistoryOK
    <2>. QED
      BY <1>1, <2>4, <2>5, Quiet DEF StartScan, TypeOK
  <1>2. CASE Walk(s)
    <2>1. /\ scan' \in ScanState /\ cached' \in Findings \cup {Nothing}
          /\ errs' \in SUBSET (0 .. MaxScans)
      BY <1>2, Rows DEF Walk
    <2>2. ASSUME NEW v \in BOOLEAN, work[s].pc = "walk",
                 work' = [work EXCEPT ![s].pc = "publish", ![s].end = "canceled",
                             ![s].found = [by |-> work[s].gen, vulnerable |-> v]]
          PROVE  MemoryOK'
      <3>. DEFINE f == [by |-> work[s].gen, vulnerable |-> v]
                  row == [work[s] EXCEPT !.pc = "publish", !.end = "canceled", !.found = f]
      <3>1. f \in Findings
        BY Rows, FoundType
      <3>2. row \in Goroutine
        BY <3>1, Rows, WorkEdits
      <3>3. row.pc = "publish" /\ row.end = "canceled"
        BY Rows DEF Goroutine
      <3>4. work' = [work EXCEPT ![s] = row]
        BY <2>2 DEF TypeOK, MemoryOK, Goroutine
      <3>. HIDE DEF f, row
      <3>. QED
        BY <2>1, <3>2, <3>4, <3>3, WorkType
    <2>3. ASSUME Step(s, "stores") PROVE MemoryOK'
      <3>. DEFINE row == [work[s] EXCEPT !.pc = "stores"]
      <3>1. row \in Goroutine
        BY Rows DEF Goroutine
      <3>2. row.pc = "stores"
        BY Rows DEF Goroutine
      <3>3. work' = [work EXCEPT ![s] = row]
        BY <2>3 DEF Step, TypeOK, MemoryOK
      <3>. HIDE DEF row
      <3>. QED
        BY <2>1, <3>1, <3>3, <3>2, WorkType
    <2>4. \/ Step(s, "stores")
          \/ \E v \in BOOLEAN :
                /\ work[s].pc = "walk"
                /\ work' = [work EXCEPT ![s].pc = "publish", ![s].end = "canceled",
                               ![s].found = [by |-> work[s].gen, vulnerable |-> v]]
      BY <1>2 DEF Walk
    <2>5. MemoryOK'
      BY <2>2, <2>3, <2>4
    <2>. QED
      BY <1>2, <2>5, Quiet DEF Walk, TypeOK
  <1>3. CASE ReadStores(s)
    <2>1. PICK v \in BOOLEAN, fails \in BOOLEAN :
             /\ Collects(work[s].gen, fails)
             /\ work' = [work EXCEPT ![s].pc = "publish",
                            ![s].found = [by |-> work[s].gen, vulnerable |-> v]]
      BY <1>3 DEF ReadStores
    <2>. DEFINE f == [by |-> work[s].gen, vulnerable |-> v]
                row == [work[s] EXCEPT !.pc = "publish", !.found = f]
    <2>2. f \in Findings
      BY Rows, FoundType
    <2>3. row \in Goroutine
      BY <2>2, Rows, WorkEdits
    <2>4. row.found = f
      BY Rows DEF Goroutine
    <2>5. work' = [work EXCEPT ![s] = row]
      BY <2>1 DEF TypeOK, MemoryOK
    <2>6. errs' \in SUBSET (0 .. MaxScans) /\ unreported' \in SUBSET (0 .. MaxScans)
      BY <2>1, Rows, CollectsType
    <2>. HIDE DEF f, row
    <2>7. MemoryOK'
      BY <1>3, <2>2, <2>3, <2>4, <2>5, <2>6, Rows, WorkType DEF ReadStores
    <2>8. HistoryOK'
      BY <1>3, <2>6 DEF ReadStores, TypeOK, HistoryOK
    <2>. QED
      BY <1>3, <2>7, <2>8, Quiet DEF ReadStores, TypeOK
  <1>4. CASE Publish(s)
    <2>1. ASSUME work' = [work EXCEPT ![s] = NoWork], cached' = cached, scan' \in ScanState
          PROVE  MemoryOK'
      BY <1>4, <2>1, Rows, WorkType, NoWorkType DEF Publish
    <2>2. ASSUME work[s].gen # scan.generation PROVE MemoryOK'
      <3>1. work' = [work EXCEPT ![s] = NoWork] /\ scan' = scan /\ cached' = cached
        BY <1>4, <2>2 DEF Publish
      <3>. QED
        BY <2>1, <3>1, Rows
    <2>3. ASSUME work[s].gen = scan.generation, work[s].end = "ok"
          PROVE  MemoryOK'
      <3>. DEFINE row == [work[s] EXCEPT !.pc = "save"]
      <3>1. work[s].found \in Findings
        BY <1>4, <2>3 DEF Publish, TypeOK, MemoryOK
      <3>2. row \in Goroutine
        BY Rows, WorkEdits, <3>1
      <3>3. row.found = work[s].found
        BY Rows DEF Goroutine
      <3>4. /\ scan' = [scan EXCEPT !.running = FALSE, !.complete = TRUE,
                                    !.findings = work[s].found]
            /\ cached' = work[s].found /\ Step(s, "save") /\ errs' = errs
        BY <1>4, <2>3 DEF Publish
      <3>5. work' = [work EXCEPT ![s] = row]
        BY <3>4 DEF Step, TypeOK, MemoryOK
      <3>6. scan' \in ScanState
        BY <3>1, <3>4, Rows, ScanEdits
      <3>7. cached' \in Findings \cup {Nothing} /\ errs' \in SUBSET (0 .. MaxScans)
        BY <3>1, <3>4, Rows
      <3>. HIDE DEF row
      <3>. QED
        BY <3>1, <3>2, <3>5, <3>6, <3>3, <3>7, WorkType
    <2>4. ASSUME work[s].gen = scan.generation, work[s].end = "canceled"
          PROVE  MemoryOK'
      <3>1. work[s].found \in Findings \cup {Nothing}
        BY Rows DEF Goroutine
      <3>2. scan' = [scan EXCEPT !.running = FALSE, !.canceled = TRUE,
                                 !.findings = work[s].found]
        BY <1>4, <2>4 DEF Publish
      <3>3. scan' \in ScanState
        BY <3>1, <3>2, Rows, ScanEdits
      <3>4. work' = [work EXCEPT ![s] = NoWork] /\ cached' = cached
        BY <1>4, <2>4 DEF Publish
      <3>. QED
        BY <2>1, <3>3, <3>4
    <2>5. ASSUME work[s].gen = scan.generation, work[s].end = "error"
          PROVE  MemoryOK'
      <3>1. scan' = [scan EXCEPT !.running = FALSE, !.error = TRUE]
        BY <1>4, <2>5 DEF Publish
      <3>2. scan' \in ScanState
        BY <3>1, Rows, ScanEdits
      <3>3. work' = [work EXCEPT ![s] = NoWork] /\ cached' = cached
        BY <1>4, <2>5 DEF Publish
      <3>. QED
        BY <2>1, <3>2, <3>3
    <2>6. work[s].end \in {"ok", "canceled", "error"}
      BY Rows DEF Goroutine
    <2>7. MemoryOK'
      BY <2>2, <2>3, <2>4, <2>5, <2>6
    <2>8. loaded' \in BOOLEAN
      BY <1>4, <2>6 DEF Publish, TypeOK, HistoryOK
    <2>9. HistoryOK'
      BY <1>4, <2>8 DEF Publish, TypeOK, HistoryOK
    <2>. QED
      BY <1>4, <2>7, <2>9, Quiet DEF Publish, TypeOK
  <1>5. CASE SaveScan(s)
    <2>1. SaveScanResult(work[s].found) /\ work[s].found \in Findings
      BY <1>5 DEF SaveScan, TypeOK, MemoryOK
    <2>2. /\ errs' \in SUBSET (0 .. MaxScans) /\ stored' \in Seq(Record \cup {Nothing})
          /\ unreported' \in SUBSET (0 .. MaxScans) /\ faults' \in 0 .. MaxFaults
      BY <2>1, SaveType
    <2>3. MemoryOK'
      BY <1>5, <2>2, Rows, WorkType, NoWorkType DEF SaveScan
    <2>4. HostOK' /\ HistoryOK'
      BY <1>5, <2>2 DEF SaveScan, TypeOK, HostOK, HistoryOK
    <2>. QED
      BY <1>5, <2>2, <2>3, <2>4, Quiet DEF SaveScan, TypeOK
  <1>6. CASE ScanErrs(s)
    <2>. DEFINE row == [work[s] EXCEPT !.pc = "publish", !.end = "error"]
    <2>1. row \in Goroutine /\ row.pc = "publish" /\ row.end = "error"
      BY Rows DEF Goroutine
    <2>2. work' = [work EXCEPT ![s] = row]
      BY <1>6 DEF ScanErrs, TypeOK, MemoryOK, Goroutine
    <2>. HIDE DEF row
    <2>3. MemoryOK'
      BY <1>6, <2>1, <2>2, Rows, WorkType DEF ScanErrs
    <2>. QED
      BY <1>6, <2>3, Quiet DEF ScanErrs, TypeOK
  <1>7. CASE Panic(s)
    <2>1. scan' \in ScanState
      BY <1>7, Rows, ScanEdits DEF Panic
    <2>2. MemoryOK'
      BY <1>7, <2>1, Rows, WorkType, NoWorkType DEF Panic
    <2>. QED
      BY <1>7, <2>2, Quiet DEF Panic, TypeOK
  <1>. QED
    BY <1>1, <1>2, <1>3, <1>4, <1>5, <1>6, <1>7 DEF Scanning

LEMMA ResultsType ==
    ASSUME TypeOK, NEW h \in Handlers, Results(h)
    PROVE  TypeOK'
  <1>. h \in Jobs
    BY Rows
  <1>1. CASE LegacyScan(h)
    <2>1. PICK v \in BOOLEAN, fails \in BOOLEAN :
             /\ Collects(0, fails)
             /\ Begin(h, [NoJob EXCEPT !.pc = "legacyCache",
                                       !.found = [by |-> 0, vulnerable |-> v]])
      BY <1>1 DEF LegacyScan
    <2>2. [by |-> 0, vulnerable |-> v] \in Findings
      BY FoundType
    <2>3. "legacyCache" \in Labels
      BY DEF Labels
    <2>4. JobsOK'
      BY <2>1, <2>2, <2>3, FoundJob, BeginType DEF Begin
    <2>5. errs' \in SUBSET (0 .. MaxScans) /\ unreported' \in SUBSET (0 .. MaxScans)
      BY <2>1, CollectsType
    <2>6. MemoryOK'
      BY <1>1, <2>5, Rows, MemoryType DEF LegacyScan
    <2>7. HistoryOK'
      BY <1>1, <2>5 DEF LegacyScan, TypeOK, HistoryOK
    <2>. QED
      BY <1>1, <2>4, <2>6, <2>7, Quiet DEF LegacyScan, TypeOK
  <1>2. CASE LegacyCache(h) \/ LoadCache(h)
    <2>1. jobs[h].found \in Findings
      BY <1>2 DEF LegacyCache, LoadCache, TypeOK, JobsOK
    <2>2. JobsOK'
      BY <1>2, <2>1, GotoType DEF LegacyCache, LoadCache, Labels
    <2>3. MemoryOK'
      BY <1>2, <2>1, Rows, MemoryType DEF LegacyCache, LoadCache
    <2>. QED
      BY <1>2, <2>2, <2>3, Quiet DEF LegacyCache, LoadCache, TypeOK
  <1>3. CASE SaveResult(h)
    <2>1. jobs[h].found \in Findings
      BY <1>3 DEF SaveResult, TypeOK, JobsOK
    <2>2. /\ errs' \in SUBSET (0 .. MaxScans) /\ stored' \in Seq(Record \cup {Nothing})
          /\ unreported' \in SUBSET (0 .. MaxScans) /\ faults' \in 0 .. MaxFaults
      BY <1>3, <2>1, SaveType DEF SaveResult
    <2>3. JobsOK'
      BY <1>3, EndType DEF SaveResult
    <2>4. MemoryOK'
      BY <1>3, <2>2, Rows, MemoryType DEF SaveResult
    <2>5. HostOK' /\ HistoryOK'
      BY <1>3, <2>2 DEF SaveResult, TypeOK, HostOK, HistoryOK
    <2>. QED
      BY <2>2, <2>3, <2>4, <2>5 DEF TypeOK
  <1>4. CASE LatestList(h)
    <2>1. ASSUME NEW i \in Numbers,
                 Begin(h, [NoJob EXCEPT !.pc = "latestGet", !.id = i])
          PROVE  JobsOK'
      <3>1. i \in Nat
        BY DEF Numbers, TypeOK, HostOK
      <3>2. [NoJob EXCEPT !.pc = "latestGet", !.id = i] \in Job
        BY <3>1 DEF NoJob, Job, Labels
      <3>3. [NoJob EXCEPT !.pc = "latestGet", !.id = i].pc = "latestGet"
        BY DEF NoJob
      <3>. QED
        BY <2>1, <3>2, <3>3, BeginType DEF Begin
    <2>2. JobsOK'
      BY <1>4, <2>1, GotoType DEF LatestList, Labels
    <2>. QED
      BY <1>4, <2>2, Quiet DEF LatestList, TypeOK
  <1>5. CASE LatestGet(h)
    <2>1. JobsOK'
      BY <1>5, GotoType, EndType DEF LatestGet, Labels
    <2>. QED
      BY <1>5, <2>1, Quiet DEF LatestGet, TypeOK
  <1>6. CASE LatestCopy(h)
    <2>1. CASE cached = Nothing
      BY <1>6, <2>1, EndType, Quiet DEF LatestCopy, TypeOK
    <2>2. CASE cached # Nothing
      <3>1. cached \in Findings /\ "latestSave" \in Labels
        BY <2>2, Rows DEF Labels
      <3>. DEFINE job == [NoJob EXCEPT !.pc = "latestSave", !.found = cached]
      <3>2. job \in Job /\ job.pc = "latestSave" /\ job.found = cached
        BY <3>1, FoundJob
      <3>3. jobs' = [jobs EXCEPT ![h] = job]
        BY <1>6, <2>2 DEF LatestCopy, Begin
      <3>. HIDE DEF job
      <3>4. JobsOK'
        BY <3>1, <3>2, <3>3, BeginType
      <3>. QED
        BY <1>6, <3>4, Quiet DEF LatestCopy, TypeOK
    <2>. QED
      BY <2>1, <2>2
  <1>7. CASE LoadShow(h)
    <2>1. jobs[h].found \in Findings
      BY <1>7 DEF LoadShow, TypeOK, JobsOK
    <2>2. scan' \in ScanState
      BY <1>7, <2>1, Rows, ScanEdits DEF LoadShow
    <2>3. MemoryOK' /\ JobsOK'
      BY <1>7, <2>2, Rows, MemoryType, EndType DEF LoadShow
    <2>4. HistoryOK'
      BY <1>7 DEF LoadShow, TypeOK, HistoryOK
    <2>. QED
      BY <1>7, <2>3, <2>4, Quiet DEF LoadShow, TypeOK
  <1>8. ASSUME NEW i \in 1 .. Len(stored), LoadGet(h, i)
        PROVE  TypeOK'
    <2>1. stored[i].findings \in Findings /\ "loadCache" \in Labels
      BY <1>8, Rows DEF LoadGet, Labels
    <2>. DEFINE f == stored[i].findings
                job == [NoJob EXCEPT !.pc = "loadCache", !.found = f]
    <2>2. jobs' = [jobs EXCEPT ![h] = job]
      BY <1>8 DEF LoadGet, Begin
    <2>. HIDE DEF f
    <2>3. f \in Findings
      BY <2>1 DEF f
    <2>4. job \in Job /\ job.pc = "loadCache" /\ job.found = f
      BY <2>1, <2>3, FoundJob
    <2>. HIDE DEF job
    <2>5. JobsOK'
      BY <2>2, <2>3, <2>4, BeginType
    <2>. QED
      BY <1>8, <2>5, Quiet DEF LoadGet, TypeOK
  <1>. QED
    BY <1>1, <1>2, <1>3, <1>4, <1>5, <1>6, <1>7, <1>8 DEF Results

LEMMA AskedType ==
    ASSUME TypeOK, NEW h \in Handlers, Asked(h)
    PROVE  TypeOK'
  <1>. h \in Jobs
    BY Rows
  <1>1. ASSUME NEW srv \in Servers \cup {NoServer}, NEW tok \in Tokens \cup {NoToken},
               NEW on \in BOOLEAN, Enroll(h, srv, tok, on)
        PROVE  TypeOK'
    <2>. DEFINE c == [Loaded EXCEPT !.server = IF srv = NoServer THEN @ ELSE srv,
                                    !.token = IF tok = NoToken THEN @ ELSE tok,
                                    !.auto = on]
    <2>1. c \in Config
      <3>. DEFINE newServer == IF srv = NoServer THEN Loaded.server ELSE srv
                  newToken == IF tok = NoToken THEN Loaded.token ELSE tok
      <3>1. newServer \in Servers /\ newToken \in Tokens \cup {NoToken}
        BY LoadedType
      <3>2. c = [Loaded EXCEPT !.server = newServer, !.token = newToken, !.auto = on]
        BY LoadedType DEF Config
      <3>. HIDE DEF c, newServer, newToken
      <3>. QED
        BY <3>1, <3>2, LoadedType, ConfigEdits
    <2>2. /\ Begin(h, [NoJob EXCEPT !.pc = "truncate", !.byUser = TRUE, !.config = c])
          /\ known' = IF c.token = NoToken THEN known ELSE known \cup {PairOf(c)}
      BY <1>1 DEF Enroll
    <2>. HIDE DEF c
    <2>3. JobsOK'
      BY <2>1, <2>2, ConfigJob, BeginType DEF Begin
    <2>4. known' \in SUBSET Pairs
      BY <2>1, <2>2 DEF TypeOK, HistoryOK, Config, PairOf, Pairs
    <2>5. HistoryOK'
      BY <1>1, <2>4 DEF Enroll, TypeOK, HistoryOK
    <2>. QED
      BY <1>1, <2>3, <2>5, Quiet DEF Enroll, TypeOK
  <1>2. ASSUME NEW tok \in SyncTokens, Sync(h, tok)
        PROVE  TypeOK'
    <2>. DEFINE used == IF tok = NoToken THEN Loaded.token ELSE tok
    <2>1. used \in Tokens \cup {NoToken} /\ Loaded.server \in Servers
      BY LoadedType
    <2>2. Begin(h, Upload(Loaded.server, used, "idle"))
      BY <1>2 DEF Sync
    <2>. HIDE DEF used
    <2>3. JobsOK'
      BY <2>1, <2>2, UploadJob, BeginType DEF Begin
    <2>. QED
      BY <1>2, <2>3, Quiet DEF Sync, TypeOK
  <1>. QED
    BY <1>1, <1>2 DEF Asked

LEMMA SavingType ==
    ASSUME TypeOK, NEW j \in Jobs, Saving(j)
    PROVE  TypeOK'
  <1>1. CASE ReadConfig(j)
    <2>1. jobs' = [jobs EXCEPT ![j].pc = "send", ![j].config = Loaded]
      BY <1>1 DEF ReadConfig
    <2>. DEFINE job == [jobs[j] EXCEPT !.pc = "send", !.config = Loaded]
    <2>2. job \in Job /\ job.pc = "send" /\ job.config = Loaded
      <3>1. jobs[j] \in Job /\ Loaded \in Config
        BY LoadedType, Rows
      <3>2. "send" \in Labels
        BY DEF Labels
      <3>3. job \in Job
        BY <3>1, <3>2 DEF Job
      <3>4. job.pc = "send" /\ job.config = Loaded
        BY <3>1 DEF Job
      <3>. QED
        BY <3>3, <3>4
    <2>3. jobs' = [jobs EXCEPT ![j] = job]
      BY <2>1 DEF TypeOK, JobsOK
    <2>. HIDE DEF job
    <2>4. JobsOK'
      BY <2>2, <2>3, LoadedType, BeginType
    <2>. QED
      BY <1>1, <2>4, Quiet DEF ReadConfig, TypeOK
  <1>2. ASSUME Then(j) PROVE JobsOK'
    <2>1. jobs[j].next \in {"idle", "check", "service"}
      BY Rows DEF Job
    <2>. DEFINE on == [NoJob EXCEPT !.pc = jobs[j].next, !.server = jobs[j].server,
                                    !.token = jobs[j].token]
                job == IF jobs[j].next = "idle" THEN NoJob ELSE on
    <2>2. jobs' = [jobs EXCEPT ![j] = job]
      BY <1>2 DEF Then
    <2>3. /\ jobs[j].server \in Servers /\ jobs[j].token \in Tokens \cup {NoToken}
      BY Rows
    <2>4. job \in Job /\ job.pc \in {"idle", "check", "service"}
      <3>1. on \in Job /\ on.pc = jobs[j].next
        BY <2>1, <2>3 DEF NoJob, Job, Labels
      <3>. HIDE DEF on
      <3>. QED
        BY <2>1, <3>1, NoJobType
    <2>. HIDE DEF job
    <2>. QED
      BY <2>2, <2>4, BeginType
  <1>3. CASE Accepted(j)
    <2>. DEFINE c == Merged(jobs[j].config, jobs[j].server, jobs[j].token)
                job == [jobs[j] EXCEPT !.pc = "truncate", !.config = c]
    <2>1. jobs[j].config \in Config
      BY <1>3 DEF Accepted, TypeOK, JobsOK
    <2>2. c \in Config
      BY <2>1, Rows, ConfigEdits
    <2>. HIDE DEF c
    <2>3. job \in Job /\ job.pc = "truncate" /\ job.config = c
      <3>1. jobs[j] \in Job /\ "truncate" \in Labels
        BY Rows DEF Labels
      <3>2. job \in Job
        BY <2>2, <3>1 DEF Job
      <3>3. job.pc = "truncate" /\ job.config = c
        BY <3>1 DEF Job
      <3>. QED
        BY <3>2, <3>3
    <2>4. jobs' = [jobs EXCEPT ![j].pc = "truncate", ![j].config = c]
      BY <1>3 DEF Accepted, c
    <2>5. jobs' = [jobs EXCEPT ![j] = job]
      BY <2>4 DEF TypeOK, JobsOK
    <2>. HIDE DEF job
    <2>6. JobsOK'
      BY <2>2, <2>3, <2>5, BeginType
    <2>7. HistoryOK'
      BY <1>3, Rows DEF Accepted, TypeOK, HistoryOK, Pairs
    <2>. QED
      BY <1>3, <2>6, <2>7, Quiet DEF Accepted, TypeOK
  <1>4. CASE Refused(j)
    BY <1>2, <1>4, Quiet DEF Refused, TypeOK
  <1>5. CASE Truncate(j)
    <2>1. JobsOK'
      BY <1>5, GotoType DEF Truncate, Labels, TypeOK, JobsOK
    <2>2. HostOK'
      BY <1>5 DEF Truncate, TypeOK, HostOK
    <2>. QED
      BY <1>5, <2>1, <2>2, Quiet DEF Truncate, TypeOK
  <1>6. CASE Write(j)
    <2>1. jobs[j].config \in Config
      BY <1>6 DEF Write, TypeOK, JobsOK
    <2>2. HostOK'
      BY <1>6, <2>1 DEF Write, TypeOK, HostOK
    <2>3. HistoryOK'
      BY <1>6 DEF Write, TypeOK, HistoryOK
    <2>. QED
      BY <1>2, <1>6, <2>2, <2>3, Quiet DEF Write, TypeOK
  <1>. QED
    BY <1>1, <1>3, <1>4, <1>5, <1>6 DEF Saving

\* Requests without a local state, and the background worker.
LEMMA WorkerType ==
    ASSUME TypeOK,
           \/ CancelScan \/ Probe
           \/ \E i \in 1 .. Len(stored) : DeleteScan(i)
           \/ WorkerTick \/ WorkerCheck \/ WorkerScan
    PROVE  TypeOK'
  <1>1. CASE CancelScan
    <2>1. scan' \in ScanState
      BY <1>1, Rows, ScanEdits DEF CancelScan
    <2>2. \A s \in Scans : [work[s] EXCEPT !.canceled = TRUE] \in Goroutine
      BY Rows DEF Goroutine
    <2>3. work' \in [Scans -> Goroutine]
      BY <1>1, <2>2, Rows DEF CancelScan
    <2>4. \A s \in Scans : /\ work'[s].pc = work[s].pc /\ work'[s].end = work[s].end
                           /\ work'[s].found = work[s].found
      BY <1>1, Rows DEF CancelScan, Goroutine
    <2>5. MemoryOK'
      BY <1>1, <2>1, <2>3, <2>4 DEF CancelScan, TypeOK, MemoryOK
    <2>. QED
      BY <1>1, <2>5, Quiet DEF CancelScan, TypeOK
  <1>2. CASE Probe
    <2>1. cached' \in Findings
      BY <1>2, FoundType DEF Probe
    <2>2. MemoryOK'
      BY <1>2, <2>1, Rows, MemoryType DEF Probe
    <2>. QED
      BY <1>2, <2>2, Quiet DEF Probe, TypeOK
  <1>3. ASSUME NEW i \in 1 .. Len(stored), DeleteScan(i)
        PROVE  TypeOK'
    <2>1. HostOK'
      BY <1>3 DEF DeleteScan, TypeOK, HostOK
    <2>. QED
      BY <1>3, <2>1, Quiet DEF DeleteScan, TypeOK
  <1>4. CASE WorkerTick
    <2>. DEFINE up(next) == Upload(Loaded.server, Loaded.token, next)
    <2>1. \/ \E next \in {"idle", "check"} : Begin(Worker, up(next))
          \/ Begin(Worker, [up("idle") EXCEPT !.pc = "check"])
      BY <1>4 DEF WorkerTick
    <2>2. \A next \in {"idle", "check"} : up(next) \in Job /\ up(next).pc = "readConfig"
      BY LoadedType, UploadJob
    <2>. HIDE DEF up
    <2>3. JobsOK'
      BY <2>1, <2>2, Rows, CheckJob, BeginType DEF Begin
    <2>. QED
      BY <1>4, <2>3, Quiet DEF WorkerTick, TypeOK
  <1>5. CASE WorkerCheck
    <2>1. JobsOK'
      BY <1>5, Rows, GotoType, EndType DEF WorkerCheck, Labels
    <2>. QED
      BY <1>5, <2>1, Quiet DEF WorkerCheck, TypeOK
  <1>6. CASE WorkerScan
    <2>1. JobsOK'
      BY <1>6, Rows, GotoType, EndType DEF WorkerScan, Labels
    <2>2. errs' \in SUBSET (0 .. MaxScans) /\ unreported' \in SUBSET (0 .. MaxScans)
      BY <1>6, CollectsType DEF WorkerScan
    <2>3. MemoryOK'
      BY <1>6, <2>2, Rows, MemoryType DEF WorkerScan
    <2>4. HistoryOK'
      BY <1>6, <2>2 DEF WorkerScan, TypeOK, HistoryOK
    <2>. QED
      BY <1>6, <2>1, <2>3, <2>4, Quiet DEF WorkerScan, TypeOK
  <1>. QED
    BY <1>1, <1>2, <1>3, <1>4, <1>5, <1>6

\* The daemon, and the GUI's end and start.
LEMMA ProcessType ==
    ASSUME TypeOK,
           \/ DaemonStarts \/ DaemonUploads \/ DaemonStops
           \/ Exit \/ BootRead \/ BootService
    PROVE  TypeOK'
  <1>1. \A d \in [on: BOOLEAN, server: Servers, token: Tokens \cup {NoToken}, flag: Servers] :
           /\ d.server \in Servers /\ d.token \in Tokens \cup {NoToken} /\ d.flag \in Servers
           /\ \A b \in BOOLEAN, srv \in Servers, tok \in Tokens \cup {NoToken} :
                 [d EXCEPT !.on = b, !.server = srv, !.token = tok]
                    \in [on: BOOLEAN, server: Servers, token: Tokens \cup {NoToken},
                         flag: Servers]
           /\ \A srv \in Servers :
                 [d EXCEPT !.flag = srv]
                    \in [on: BOOLEAN, server: Servers, token: Tokens \cup {NoToken},
                         flag: Servers]
    OBVIOUS
  <1>2. /\ daemon \in [on: BOOLEAN, server: Servers, token: Tokens \cup {NoToken},
                       flag: Servers]
        /\ daemon.server \in Servers /\ daemon.token \in Tokens \cup {NoToken}
        /\ daemon.flag \in Servers
    BY <1>1 DEF TypeOK, HostOK
  <1>3. ASSUME daemon' \in [on: BOOLEAN, server: Servers, token: Tokens \cup {NoToken},
                            flag: Servers],
               stored' = stored, file' = file
        PROVE  HostOK'
    BY <1>3 DEF TypeOK, HostOK
  <1>4. CASE DaemonStarts
    <2>1. daemon' = [daemon EXCEPT !.on = TRUE, !.server = daemon.flag,
                                   !.token = Loaded.token]
      BY <1>4 DEF DaemonStarts
    <2>2. daemon.flag \in Servers /\ Loaded.token \in Tokens \cup {NoToken}
      BY <1>2, LoadedType
    <2>3. daemon' \in [on: BOOLEAN, server: Servers, token: Tokens \cup {NoToken},
                       flag: Servers]
      BY <1>1, <1>2, <2>1, <2>2
    <2>4. stored' = stored /\ file' = file
      BY <1>4 DEF DaemonStarts
    <2>5. HostOK'
      BY <1>3, <2>3, <2>4
    <2>. QED
      BY <1>4, <2>5, Quiet DEF DaemonStarts, TypeOK
  <1>5. CASE DaemonUploads
    <2>1. JobsOK'
      <3>. DEFINE job == Upload(daemon.server, daemon.token, "idle")
      <3>1. job \in Job /\ job.pc = "readConfig"
        BY <1>2, UploadJob
      <3>2. jobs' = [jobs EXCEPT ![Daemon] = job]
        BY <1>5 DEF DaemonUploads, Begin
      <3>. HIDE DEF job
      <3>. QED
        BY <3>1, <3>2, Rows, BeginType
    <2>. QED
      BY <1>5, <2>1, Quiet DEF DaemonUploads, TypeOK
  <1>6. CASE DaemonStops
    <2>1. HostOK'
      BY <1>1, <1>2, <1>3, <1>6 DEF DaemonStops
    <2>2. JobsOK'
      BY <1>6, Rows, EndType DEF DaemonStops
    <2>. QED
      BY <1>6, <2>1, <2>2, Quiet DEF DaemonStops, TypeOK
  <1>7. CASE Exit
    <2>1. MemoryOK'
      <3>1. scan' \in ScanState /\ cached' \in Findings \cup {Nothing}
            /\ errs' \in SUBSET (0 .. MaxScans)
        BY <1>7, Rows, ScanEdits DEF Exit
      <3>2. work' = [s \in Scans |-> NoWork]
        BY <1>7 DEF Exit
      <3>. QED
        BY <3>1, <3>2, NoWorkType DEF MemoryOK
    <2>2. JobsOK'
      <3>1. /\ [NoJob EXCEPT !.pc = "boot"] \in Job
            /\ [NoJob EXCEPT !.pc = "boot"].pc = "boot"
        BY DEF NoJob, Job, Labels
      <3>2. jobs' = [j \in Jobs |-> CASE j = Boot -> [NoJob EXCEPT !.pc = "boot"]
                                      [] j = Daemon -> jobs[j]
                                      [] OTHER -> NoJob]
        BY <1>7 DEF Exit
      <3>3. \A j \in Jobs : jobs'[j] \in {[NoJob EXCEPT !.pc = "boot"], jobs[j], NoJob}
        BY <3>2
      <3>. QED
        BY <3>1, <3>2, <3>3, Rows, NoJobType DEF TypeOK, JobsOK
    <2>3. HistoryOK'
      BY <1>7 DEF Exit, TypeOK, HistoryOK
    <2>. QED
      BY <1>7, <2>1, <2>2, <2>3, Quiet DEF Exit, TypeOK
  <1>8. CASE BootRead
    <2>1. JobsOK'
      <3>1. CASE Loaded.local
        BY <1>8, <3>1, Rows, GotoType DEF BootRead, Labels
      <3>2. CASE ~Loaded.local
        <4>. DEFINE c == [Loaded EXCEPT !.local = TRUE]
        <4>1. c \in Config
          BY LoadedType, ConfigEdits
        <4>. DEFINE job == [NoJob EXCEPT !.pc = "truncate", !.next = "service",
                                         !.config = c]
        <4>2. jobs' = [jobs EXCEPT ![Boot] = job]
          BY <1>8, <3>2 DEF BootRead, Begin
        <4>. HIDE DEF c
        <4>3. job \in Job /\ job.pc = "truncate" /\ job.config = c
          BY <4>1, ConfigJob
        <4>4. Boot \in Jobs
          BY Rows
        <4>. HIDE DEF job
        <4>. QED
          BY <4>1, <4>2, <4>3, <4>4, BeginType
      <3>. QED
        BY <3>1, <3>2
    <2>. QED
      BY <1>8, <2>1, Quiet DEF BootRead, TypeOK
  <1>9. CASE BootService
    <2>1. HostOK'
      BY <1>1, <1>2, <1>3, <1>9, LoadedType DEF BootService
    <2>2. JobsOK'
      BY <1>9, Rows, EndType DEF BootService
    <2>. QED
      BY <1>9, <2>1, <2>2, Quiet DEF BootService, TypeOK
  <1>. QED
    BY <1>4, <1>5, <1>6, <1>7, <1>8, <1>9

LEMMA TypeStep == TypeOK /\ [Next]_vars => TypeOK'
  <1>. SUFFICES ASSUME TypeOK, [Next]_vars PROVE TypeOK'
    OBVIOUS
  <1>1. CASE UNCHANGED vars
    BY <1>1, Quiet DEF vars, TypeOK
  <1>2. CASE Next
    BY <1>2, ScanningType, ResultsType, AskedType, SavingType, WorkerType,
       ProcessType
    DEF Next
  <1>. QED
    BY <1>1, <1>2

LEMMA TypeInit == Init => TypeOK
  <1>. SUFFICES ASSUME Init PROVE TypeOK
    OBVIOUS
  <1>1. MemoryOK
    <2>1. scan \in ScanState
      BY DEF Init, ScanState, Fresh
    <2>. QED
      BY <2>1, NoWorkType DEF Init, MemoryOK
  <1>2. JobsOK
    BY NoJobType DEF Init, JobsOK, NoJob, Job, Labels
  <1>3. HostOK
    BY DEF Init, HostOK
  <1>4. HistoryOK
    BY DEF Init, HistoryOK
  <1>5. faults \in 0 .. MaxFaults
    BY DEF Init
  <1>. QED
    BY <1>1, <1>2, <1>3, <1>4, <1>5 DEF TypeOK

\* The agent's state keeps its types: however requests, scans, uploads and exits
\* of the handlers in gui.go interleave, a scan that is saved has findings, and
\* a job of client.go that writes holds a configuration.
THEOREM TypeCorrect == Spec => []TypeOK
  <1>1. TypeOK /\ [Next]_vars => TypeOK'
    BY TypeStep
  <1>. QED
    BY <1>1, TypeInit, PTL DEF Spec

-----------------------------------------------------------------------------
(* Errors of collectors.                                                     *)

LEMMA SaveReports ==
    ASSUME FailureReported, NEW f, SaveScanResult(f)
    PROVE  FailureReported'
  BY DEF FailureReported, SaveScanResult, Level

LEMMA FailureStep == FailureReported /\ [Next]_vars => FailureReported'
  <1>. SUFFICES ASSUME FailureReported, [Next]_vars PROVE FailureReported'
    OBVIOUS
  <1>1. ASSUME UNCHANGED <<errs, unreported>> PROVE FailureReported'
    BY <1>1 DEF FailureReported
  <1>2. ASSUME NEW g, NEW fails, Collects(g, fails) PROVE FailureReported'
    BY <1>2 DEF FailureReported, Collects
  <1>3. ASSUME NEW s \in Scans, Scanning(s) PROVE FailureReported'
    <2>1. CASE ReadStores(s)
      BY <1>2, <2>1 DEF ReadStores
    <2>2. CASE SaveScan(s)
      BY <2>2, SaveReports DEF SaveScan
    <2>3. CASE StartScan(s) \/ Walk(s) \/ Publish(s) \/ ScanErrs(s) \/ Panic(s)
      BY <1>1, <2>3 DEF StartScan, Walk, Publish, ScanErrs, Panic, history
    <2>. QED
      BY <1>3, <2>1, <2>2, <2>3 DEF Scanning
  <1>4. ASSUME NEW h \in Handlers, Results(h) PROVE FailureReported'
    <2>1. CASE LegacyScan(h)
      BY <1>2, <2>1 DEF LegacyScan
    <2>2. CASE SaveResult(h)
      BY <2>2, SaveReports DEF SaveResult
    <2>3. CASE \/ LegacyCache(h) \/ LatestList(h) \/ LatestGet(h) \/ LatestCopy(h)
               \/ LoadCache(h) \/ LoadShow(h) \/ \E i \in 1 .. Len(stored) : LoadGet(h, i)
      BY <1>1, <2>3
      DEF LegacyCache, LatestList, LatestGet, LatestCopy, LoadCache, LoadShow, LoadGet,
          memory, history
    <2>. QED
      BY <1>4, <2>1, <2>2, <2>3 DEF Results
  <1>5. ASSUME NEW h \in Handlers, Asked(h) PROVE FailureReported'
    BY <1>1, <1>5 DEF Asked, Enroll, Sync, memory, history
  <1>6. ASSUME NEW j \in Jobs, Saving(j) PROVE FailureReported'
    BY <1>1, <1>6
    DEF Saving, ReadConfig, Accepted, Refused, Truncate, Write, memory, history
  <1>7. CASE WorkerScan
    BY <1>2, <1>7 DEF WorkerScan
  <1>8. CASE Exit
    BY <1>8 DEF Exit, FailureReported
  <1>9. CASE \/ CancelScan \/ Probe \/ \E i \in 1 .. Len(stored) : DeleteScan(i)
             \/ WorkerTick \/ WorkerCheck \/ DaemonStarts \/ DaemonUploads \/ DaemonStops
             \/ BootRead \/ BootService \/ UNCHANGED vars
    BY <1>1, <1>9
    DEF CancelScan, Probe, DeleteScan, WorkerTick, WorkerCheck, DaemonStarts,
        DaemonUploads, DaemonStops, BootRead, BootService, vars, memory, history
  <1>. QED
    BY <1>3, <1>4, <1>5, <1>6, <1>7, <1>8, <1>9 DEF Next

\* Whichever save takes the errors of scan_store.go's list, and whatever other
\* scans leave in it meanwhile: a collector's failure is in the list until a
\* scan was stored, or could not be stored, as other than secure.
THEOREM FailuresReported == Spec => []FailureReported
  <1>1. Init => FailureReported
    BY DEF Init, FailureReported
  <1>. QED
    BY <1>1, FailureStep, PTL DEF Spec

-----------------------------------------------------------------------------
(* The newest scan.                                                          *)

\* What a goroutine found carries its generation, so that a result published as
\* the current generation's is that of the scan started last.
Newest ==
    /\ \A s \in Scans : work[s].found # Nothing => work[s].found.by = work[s].gen
    /\ NewestScanShown

\* What a goroutine publishes: nothing that is shown, or its own findings, as the
\* current generation, which is then no longer shown as running.
LEMMA PublishEffect ==
    ASSUME TypeOK, NEW s \in Scans, Publish(s)
    PROVE  /\ scan'.generation = scan.generation
           /\ \/ scan'.findings = scan.findings /\ loaded' = loaded
              \/ scan'.findings = work[s].found /\ work[s].gen = scan.generation
           /\ ~scan'.running \/ (scan' = scan /\ work[s].gen # scan.generation)
  <1>1. scan \in ScanState /\ work[s].end \in {"ok", "canceled", "error"}
    BY Rows DEF Goroutine
  <1>2. CASE work[s].gen # scan.generation
    <2>1. UNCHANGED <<scan, loaded>>
      BY <1>2 DEF Publish
    <2>. QED
      BY <1>2, <2>1
  <1>3. CASE work[s].gen = scan.generation /\ work[s].end = "ok"
    <2>1. scan' = [scan EXCEPT !.running = FALSE, !.complete = TRUE,
                               !.findings = work[s].found]
      BY <1>3 DEF Publish
    <2>. QED
      BY <1>1, <1>3, <2>1 DEF ScanState
  <1>4. CASE work[s].gen = scan.generation /\ work[s].end = "canceled"
    <2>1. scan' = [scan EXCEPT !.running = FALSE, !.canceled = TRUE,
                               !.findings = work[s].found]
      BY <1>4 DEF Publish
    <2>. QED
      BY <1>1, <1>4, <2>1 DEF ScanState
  <1>5. CASE work[s].gen = scan.generation /\ work[s].end = "error"
    <2>1. scan' = [scan EXCEPT !.running = FALSE, !.error = TRUE] /\ loaded' = loaded
      BY <1>5 DEF Publish
    <2>. QED
      BY <1>1, <2>1 DEF ScanState
  <1>. QED
    BY <1>1, <1>2, <1>3, <1>4, <1>5

LEMMA NewestStep == TypeOK /\ Newest /\ [Next]_vars => Newest'
  <1>. SUFFICES ASSUME TypeOK, Newest, [Next]_vars PROVE Newest'
    OBVIOUS
  <1>1. ASSUME UNCHANGED <<scan, work, loaded>> PROVE Newest'
    BY <1>1 DEF Newest, NewestScanShown
  <1>2. /\ scan \in ScanState /\ work \in [Scans -> Goroutine]
        /\ \A s \in Scans : work[s] \in Goroutine
    BY DEF TypeOK, MemoryOK
  <1>3. ASSUME NEW s \in Scans, Scanning(s) PROVE Newest'
    <2>1. ASSUME NEW row, work' = [work EXCEPT ![s] = row],
                 row.found # Nothing => row.found.by = row.gen,
                 NewestScanShown'
          PROVE  Newest'
      BY <1>2, <2>1 DEF Newest
    <2>2. ASSUME UNCHANGED <<scan, loaded>> PROVE NewestScanShown'
      BY <2>2 DEF Newest, NewestScanShown
    <2>3. NoWork.found = Nothing
      BY DEF NoWork
    <2>4. CASE StartScan(s)
      <3>. DEFINE row == [NoWork EXCEPT !.pc = "walk", !.gen = scan.generation + 1]
      <3>1. row.found = Nothing /\ work' = [work EXCEPT ![s] = row]
        BY <2>4 DEF StartScan, NoWork
      <3>2. scan'.findings = Nothing
        BY <2>4 DEF StartScan, Fresh
      <3>3. NewestScanShown'
        BY <3>2 DEF NewestScanShown
      <3>. HIDE DEF row
      <3>. QED
        BY <2>1, <3>1, <3>3
    <2>5. CASE Walk(s)
      <3>1. PICK v \in BOOLEAN :
               \/ work' = [work EXCEPT ![s].pc = "publish", ![s].end = "canceled",
                              ![s].found = [by |-> work[s].gen, vulnerable |-> v]]
               \/ work' = [work EXCEPT ![s].pc = "stores"]
        BY <2>5 DEF Walk, Step
      <3>2. /\ work'[s].gen = work[s].gen
            /\ work'[s].found \in {work[s].found, [by |-> work[s].gen, vulnerable |-> v]}
            /\ \A q \in Scans \ {s} : work'[q] = work[q]
        BY <1>2, <3>1 DEF Goroutine
      <3>3. NewestScanShown'
        BY <2>2, <2>5 DEF Walk, history
      <3>. QED
        BY <3>2, <3>3 DEF Newest
    <2>6. CASE ReadStores(s)
      <3>1. PICK v \in BOOLEAN :
               work' = [work EXCEPT ![s].pc = "publish",
                           ![s].found = [by |-> work[s].gen, vulnerable |-> v]]
        BY <2>6 DEF ReadStores
      <3>2. /\ work'[s].gen = work[s].gen
            /\ work'[s].found = [by |-> work[s].gen, vulnerable |-> v]
            /\ \A q \in Scans \ {s} : work'[q] = work[q]
        BY <1>2, <3>1 DEF Goroutine
      <3>3. NewestScanShown'
        BY <2>2, <2>6 DEF ReadStores
      <3>. QED
        BY <3>2, <3>3 DEF Newest
    <2>7. CASE Publish(s)
      <3>1. work' = [work EXCEPT ![s] = NoWork] \/ work' = [work EXCEPT ![s].pc = "save"]
        <4>1. work[s].end \in {"ok", "canceled", "error"}
          BY <1>2 DEF Goroutine
        <4>. QED
          BY <2>7, <4>1 DEF Publish, Step
      <3>2. \A q \in Scans : work'[q].found # Nothing
                                => work'[q].found.by = work'[q].gen
        BY <1>2, <2>3, <3>1 DEF Newest, Goroutine
      <3>3. /\ scan'.generation = scan.generation
            /\ \/ scan'.findings = scan.findings /\ loaded' = loaded
               \/ scan'.findings = work[s].found /\ work[s].gen = scan.generation
        BY <2>7, PublishEffect
      <3>4. work[s].found # Nothing => work[s].found.by = work[s].gen
        BY DEF Newest
      <3>5. NewestScanShown'
        BY <3>3, <3>4 DEF Newest, NewestScanShown
      <3>. QED
        BY <3>2, <3>5 DEF Newest
    <2>8. CASE SaveScan(s)
      BY <2>1, <2>2, <2>3, <2>8 DEF SaveScan
    <2>9. CASE ScanErrs(s)
      <3>1. \A q \in Scans : work'[q].gen = work[q].gen /\ work'[q].found = work[q].found
        BY <1>2, <2>9 DEF ScanErrs, Goroutine
      <3>2. NewestScanShown'
        BY <2>2, <2>9 DEF ScanErrs, history
      <3>. QED
        BY <3>1, <3>2 DEF Newest
    <2>10. CASE Panic(s)
      <3>1. scan'.findings = scan.findings /\ scan'.generation = scan.generation
        BY <1>2, <2>10 DEF Panic, ScanState
      <3>2. NewestScanShown'
        BY <2>10, <3>1 DEF Panic, history, Newest, NewestScanShown
      <3>. QED
        BY <2>1, <2>3, <2>10, <3>2 DEF Panic
    <2>. QED
      BY <1>3, <2>4, <2>5, <2>6, <2>7, <2>8, <2>9, <2>10 DEF Scanning
  <1>4. CASE CancelScan
    <2>1. \A q \in Scans : work'[q].gen = work[q].gen /\ work'[q].found = work[q].found
      BY <1>2, <1>4 DEF CancelScan, Goroutine
    <2>2. scan'.findings = scan.findings /\ scan'.generation = scan.generation
      BY <1>2, <1>4 DEF CancelScan, ScanState
    <2>. QED
      BY <1>4, <2>1, <2>2 DEF CancelScan, history, Newest, NewestScanShown
  <1>5. ASSUME NEW h \in Handlers, Results(h) PROVE Newest'
    <2>1. CASE LoadShow(h)
      BY <2>1 DEF LoadShow, Newest, NewestScanShown
    <2>2. CASE \/ LegacyScan(h) \/ SaveResult(h)
               \/ LegacyCache(h) \/ LatestList(h) \/ LatestGet(h) \/ LatestCopy(h)
               \/ LoadCache(h) \/ \E i \in 1 .. Len(stored) : LoadGet(h, i)
      BY <1>1, <2>2
      DEF LegacyScan, SaveResult, LegacyCache, LatestList, LatestGet, LatestCopy,
          LoadCache, LoadGet, memory, history
    <2>. QED
      BY <1>5, <2>1, <2>2 DEF Results
  <1>6. ASSUME NEW h \in Handlers, Asked(h) PROVE Newest'
    BY <1>1, <1>6 DEF Asked, Enroll, Sync, memory, history
  <1>7. ASSUME NEW j \in Jobs, Saving(j) PROVE Newest'
    BY <1>1, <1>7
    DEF Saving, ReadConfig, Accepted, Refused, Truncate, Write, memory, history
  <1>8. CASE Exit
    <2>1. scan'.findings = Nothing /\ \A s \in Scans : work'[s].found = Nothing
      BY <1>8 DEF Exit, Fresh, NoWork
    <2>. QED
      BY <2>1 DEF Newest, NewestScanShown
  <1>9. CASE \/ Probe \/ \E i \in 1 .. Len(stored) : DeleteScan(i)
             \/ WorkerTick \/ WorkerCheck \/ WorkerScan
             \/ DaemonStarts \/ DaemonUploads \/ DaemonStops
             \/ BootRead \/ BootService \/ UNCHANGED vars
    BY <1>1, <1>9
    DEF Probe, DeleteScan, WorkerTick, WorkerCheck, WorkerScan, DaemonStarts,
        DaemonUploads, DaemonStops, BootRead, BootService, vars, memory, history
  <1>. QED
    BY <1>3, <1>4, <1>5, <1>6, <1>7, <1>8, <1>9 DEF Next

\* The findings that gui.go shows are never those of an earlier scan than the
\* one started last, however many were cancelled or hidden by a load before.
THEOREM NewestIsShown == Spec => []NewestScanShown
  <1>1. Init => Newest
    BY DEF Init, Newest, NewestScanShown, NoWork, Fresh
  <1>2. Newest => NewestScanShown
    BY DEF Newest
  <1>. QED
    BY <1>1, <1>2, NewestStep, TypeStep, TypeInit, PTL DEF Spec

-----------------------------------------------------------------------------
(* The enrolled server and its token.                                        *)

\* What a job is about to write is known too.
Known ==
    /\ EnrolmentKnown
    /\ \A j \in Jobs : jobs[j].pc \in {"truncate", "write"}
                       /\ jobs[j].config.token # NoToken
                          => PairOf(jobs[j].config) \in known

\* A step that gives nobody something new to write.
LEMMA Settled ==
    ASSUME Known, known \subseteq known', file' = file,
           \A k \in Jobs : jobs'[k] = jobs[k] \/ jobs'[k].pc \notin {"truncate", "write"}
    PROVE  Known'
  BY DEF Known, EnrolmentKnown, PairOf

LEMMA LoadedKnown ==
    ASSUME Known
    PROVE  Loaded.token # NoToken => PairOf(Loaded) \in known
  BY DEF Known, EnrolmentKnown, Loaded

\* One job goes on.
LEMMA KnownJob ==
    ASSUME TypeOK, Known, NEW j \in Jobs, NEW job, jobs' = [jobs EXCEPT ![j] = job],
           known \subseteq known', file' \in {file, Unreadable},
           job.pc \in {"truncate", "write"} /\ job.config.token # NoToken
              => PairOf(job.config) \in known'
    PROVE  Known'
  BY DEF TypeOK, JobsOK, Known, EnrolmentKnown, PairOf

LEMMA KnownStep == TypeOK /\ Known /\ [Next]_vars => Known'
  <1>. SUFFICES ASSUME TypeOK, Known, [Next]_vars PROVE Known'
    OBVIOUS
  <1>1. ASSUME UNCHANGED <<jobs, file, known>> PROVE Known'
    BY <1>1, Settled
  <1>2. jobs \in [Jobs -> Job] /\ \A j \in Jobs : jobs[j] \in Job
    BY DEF TypeOK, JobsOK
  <1>3. ASSUME NEW j \in Jobs, NEW label, Goto(j, label), UNCHANGED <<file, known>>,
               label \notin {"truncate", "write"}
        PROVE  Known'
    <2>1. \A k \in Jobs : jobs'[k] = jobs[k] \/ jobs'[k].pc = label
      BY <1>2, <1>3 DEF Goto, Job
    <2>. QED
      BY <1>3, <2>1, Settled
  <1>4. ASSUME NEW j \in Jobs, NEW job, Begin(j, job), UNCHANGED <<file, known>>,
               job.pc \notin {"truncate", "write"}
        PROVE  Known'
    BY <1>4, KnownJob DEF Begin
  <1>5. ASSUME NEW j \in Jobs, End(j), UNCHANGED <<file, known>> PROVE Known'
    BY <1>5, KnownJob DEF End, NoJob
  <1>6. ASSUME NEW h \in Handlers, Results(h) PROVE Known'
    <2>. h \in Jobs
      BY Rows
    <2>1. UNCHANGED <<file, known>>
      BY <1>6 DEF Results, LegacyScan, LegacyCache, SaveResult, LatestList,
         LatestGet,
         LatestCopy, LoadCache, LoadShow, LoadGet, host, history
    <2>2. \A f : /\ [NoJob EXCEPT !.pc = "legacyCache", !.found = f].pc = "legacyCache"
                 /\ [NoJob EXCEPT !.pc = "latestSave", !.found = f].pc = "latestSave"
                 /\ [NoJob EXCEPT !.pc = "loadCache", !.found = f].pc = "loadCache"
                 /\ [NoJob EXCEPT !.pc = "latestGet", !.id = f].pc = "latestGet"
      BY DEF NoJob
    <2>3. CASE LegacyScan(h)
      BY <1>4, <2>1, <2>2, <2>3 DEF LegacyScan
    <2>4. CASE LegacyCache(h) \/ LoadCache(h)
      BY <1>3, <2>1, <2>4 DEF LegacyCache, LoadCache
    <2>5. CASE SaveResult(h) \/ LoadShow(h)
      BY <1>5, <2>1, <2>5 DEF SaveResult, LoadShow
    <2>6. CASE LatestList(h)
      BY <1>3, <1>4, <2>1, <2>2, <2>6 DEF LatestList
    <2>7. CASE LatestGet(h)
      BY <1>3, <1>5, <2>1, <2>7 DEF LatestGet
    <2>8. CASE LatestCopy(h)
      BY <1>4, <1>5, <2>1, <2>2, <2>8 DEF LatestCopy
    <2>9. CASE \E i \in 1 .. Len(stored) : LoadGet(h, i)
      BY <1>4, <2>1, <2>2, <2>9 DEF LoadGet
    <2>. QED
      BY <1>6, <2>3, <2>4, <2>5, <2>6, <2>7, <2>8, <2>9 DEF Results
  <1>7. \A srv, tok, next :
           /\ Upload(srv, tok, next).pc = "readConfig"
           /\ [Upload(srv, tok, next) EXCEPT !.pc = "check"].pc = "check"
    BY DEF Upload, NoJob
  <1>8. ASSUME NEW h \in Handlers, Asked(h) PROVE Known'
    <2>. h \in Jobs
      BY Rows
    <2>1. ASSUME NEW srv \in Servers \cup {NoServer}, NEW tok \in Tokens \cup {NoToken},
                 NEW on \in BOOLEAN, Enroll(h, srv, tok, on)
          PROVE  Known'
      <3>. DEFINE c == [Loaded EXCEPT !.server = IF srv = NoServer THEN @ ELSE srv,
                                      !.token = IF tok = NoToken THEN @ ELSE tok,
                                      !.auto = on]
                  job == [NoJob EXCEPT !.pc = "truncate", !.byUser = TRUE, !.config = c]
      <3>1. /\ Begin(h, job) /\ file' = file
            /\ known' = IF c.token = NoToken THEN known ELSE known \cup {PairOf(c)}
        BY <2>1 DEF Enroll, host
      <3>2. job.config = c
        BY DEF NoJob
      <3>. HIDE DEF c, job
      <3>. QED
        BY <3>1, <3>2, KnownJob DEF Begin
    <2>2. ASSUME NEW tok \in SyncTokens, Sync(h, tok) PROVE Known'
      BY <1>4, <1>7, <2>2 DEF Sync, host, history
    <2>. QED
      BY <1>8, <2>1, <2>2 DEF Asked
  <1>9. ASSUME NEW j \in Jobs, Then(j), file' \in {file, Unreadable} \cup {jobs[j].config},
               file' = jobs[j].config => jobs[j].pc = "write",
               known' = known
        PROVE  Known'
    <2>. DEFINE job == IF jobs[j].next = "idle" THEN NoJob
                       ELSE [NoJob EXCEPT !.pc = jobs[j].next, !.server = jobs[j].server,
                                          !.token = jobs[j].token]
    <2>1. jobs' = [jobs EXCEPT ![j] = job]
      BY <1>9 DEF Then
    <2>2. job.pc \in {"idle", "check", "service"}
      BY <1>2 DEF Job, NoJob
    <2>. HIDE DEF job
    <2>3. \A k \in Jobs : jobs'[k] = jobs[k] \/ jobs'[k].pc \notin {"truncate", "write"}
      BY <1>2, <2>1, <2>2
    <2>. QED
      BY <1>9, <2>3 DEF Known, EnrolmentKnown, PairOf
  <1>10. ASSUME NEW j \in Jobs, Saving(j) PROVE Known'
    <2>1. CASE ReadConfig(j)
      <3>1. \A k \in Jobs : jobs'[k] = jobs[k] \/ jobs'[k].pc = "send"
        BY <1>2, <2>1 DEF ReadConfig, Job
      <3>. QED
        BY <2>1, <3>1, Settled DEF ReadConfig, host, history
    <2>2. CASE Accepted(j)
      <3>. DEFINE c == Merged(jobs[j].config, jobs[j].server, jobs[j].token)
                  job == [jobs[j] EXCEPT !.pc = "truncate", !.config = c]
      <3>1. jobs[j].config \in Config
        BY <2>2 DEF Accepted, TypeOK, JobsOK
      <3>2. PairOf(c) = <<jobs[j].server, jobs[j].token>>
        BY <3>1 DEF Merged, PairOf, Config
      <3>. HIDE DEF c
      <3>3. jobs' = [jobs EXCEPT ![j] = job] /\ job.config = c
        BY <1>2, <2>2 DEF Accepted, Job, c
      <3>4. known' = known \cup {PairOf(c)} /\ file' = file
        BY <2>2, <3>2 DEF Accepted, host
      <3>. HIDE DEF job
      <3>. QED
        BY <3>3, <3>4, KnownJob
    <2>3. CASE Refused(j)
      <3>1. file' = file /\ known' = known /\ jobs[j].pc # "write" /\ Then(j)
        BY <2>3 DEF Refused, host, history
      <3>2. \A k \in Jobs : jobs'[k] = jobs[k] \/ jobs'[k].pc \notin {"truncate", "write"}
        BY <1>2, <3>1 DEF Then, Job, NoJob
      <3>. QED
        BY <3>1, <3>2, Settled
    <2>4. CASE Truncate(j)
      <3>. DEFINE job == [jobs[j] EXCEPT !.pc = "write"]
      <3>1. jobs' = [jobs EXCEPT ![j] = job]
        BY <1>2, <2>4 DEF Truncate, Goto
      <3>2. job.config = jobs[j].config /\ jobs[j].pc = "truncate"
        BY <1>2, <2>4 DEF Truncate, Job
      <3>3. file' = Unreadable /\ known' = known
        BY <2>4 DEF Truncate, history
      <3>4. job.config.token # NoToken => PairOf(job.config) \in known'
        BY <3>2, <3>3 DEF Known
      <3>. HIDE DEF job
      <3>. QED
        BY <3>1, <3>3, <3>4, KnownJob
    <2>5. CASE Write(j)
      BY <1>9, <2>5 DEF Write
    <2>. QED
      BY <1>10, <2>1, <2>2, <2>3, <2>4, <2>5 DEF Saving
  <1>11. CASE WorkerTick
    BY <1>4, <1>7, <1>11, Rows DEF WorkerTick, host, history
  <1>12. CASE WorkerCheck \/ WorkerScan
    BY <1>3, <1>5, <1>12, Rows DEF WorkerCheck, WorkerScan, host, history
  <1>13. CASE DaemonUploads
    BY <1>4, <1>7, <1>13, Rows DEF DaemonUploads, host, history
  <1>14. CASE DaemonStops \/ BootService
    BY <1>5, <1>14, Rows DEF DaemonStops, BootService, history
  <1>15. CASE Exit
    <2>1. jobs' = [j \in Jobs |-> CASE j = Boot -> [NoJob EXCEPT !.pc = "boot"]
                                    [] j = Daemon -> jobs[j]
                                    [] OTHER -> NoJob]
      BY <1>15 DEF Exit
    <2>2. \A k \in Jobs : jobs'[k] = jobs[k] \/ jobs'[k].pc \in {"boot", "idle"}
      BY <2>1 DEF NoJob
    <2>. QED
      BY <1>15, <2>2, Settled DEF Exit, host
  <1>16. CASE BootRead
    <2>1. CASE Loaded.local
      BY <1>3, <1>16, <2>1, Rows DEF BootRead, host, history
    <2>2. CASE ~Loaded.local
      <3>. DEFINE c == [Loaded EXCEPT !.local = TRUE]
                  job == [NoJob EXCEPT !.pc = "truncate", !.next = "service", !.config = c]
      <3>1. Begin(Boot, job) /\ file' = file /\ known' = known
        BY <1>16, <2>2 DEF BootRead, host, history
      <3>2. job.config = c
        BY DEF NoJob
      <3>3. c.token = Loaded.token /\ PairOf(c) = PairOf(Loaded)
        BY LoadedType DEF Config, PairOf
      <3>. HIDE DEF c, job
      <3>. QED
        BY <3>1, <3>2, <3>3, LoadedKnown, KnownJob, Rows DEF Begin
    <2>. QED
      BY <2>1, <2>2
  <1>17. ASSUME NEW s \in Scans, Scanning(s) PROVE Known'
    BY <1>1, <1>17
    DEF Scanning, StartScan, Walk, ReadStores, Publish, SaveScan, ScanErrs, Panic,
        host, history
  <1>18. CASE \/ CancelScan \/ Probe \/ \E i \in 1 .. Len(stored) : DeleteScan(i)
              \/ DaemonStarts \/ UNCHANGED vars
    BY <1>1, <1>18 DEF CancelScan, Probe, DeleteScan, DaemonStarts, vars,
       host, history
  <1>. QED
    BY <1>6, <1>8, <1>10, <1>11, <1>12, <1>13, <1>14, <1>15, <1>16, <1>17,
       <1>18 DEF Next

\* However the writes of client.go's two processes overlap, and whatever they
\* lose: enrollment.json never joins a server with a token of another.
THEOREM EnrolmentIsKnown == Spec => []EnrolmentKnown
  <1>1. Init => Known
    BY DEF Init, Known, EnrolmentKnown, NoJob
  <1>2. Known => EnrolmentKnown
    BY DEF Known
  <1>. QED
    BY <1>1, <1>2, KnownStep, TypeStep, TypeInit, PTL DEF Spec

-----------------------------------------------------------------------------
(***************************************************************************)
(* The running scan.  That it ends is a liveness property, beyond the      *)
(* prover; what it rests on is not: the goroutine that will end it exists. *)
(***************************************************************************)

Carries(s) ==
    work[s].pc \in {"walk", "stores", "publish"} /\ work[s].gen = scan.generation

RunningIsCarried ==
    scan.running =>
        \E s \in Scans : /\ Carries(s) /\ ~work[s].canceled
                         /\ \A q \in Scans : Carries(q) => q = s

\* A generation is one goroutine's.
Carried ==
    /\ \A s \in Scans : work[s].pc # "idle" => work[s].gen =< scan.generation
    /\ \A s, q \in Scans :
          work[s].pc # "idle" /\ work[q].pc # "idle" /\ work[s].gen = work[q].gen => s = q
    /\ scan.running => \E s \in Scans : Carries(s) /\ ~work[s].canceled

\* The goroutines go on or end, and that of the current generation goes on.
LEMMA CarriedOn ==
    ASSUME Carried, scan'.generation = scan.generation,
           \A s \in Scans : /\ work'[s].pc # "idle" => /\ work[s].pc # "idle"
                                                       /\ work'[s].gen = work[s].gen
                            /\ Carries(s) /\ scan'.running /\ ~work[s].canceled
                                  => Carries(s)' /\ ~work'[s].canceled,
           scan'.running => scan.running
    PROVE  Carried'
  <1>1. \A s \in Scans : work'[s].pc # "idle" => work'[s].gen =< scan'.generation
    BY DEF Carried
  <1>2. \A s, q \in Scans :
           work'[s].pc # "idle" /\ work'[q].pc # "idle" /\ work'[s].gen = work'[q].gen
              => s = q
    BY DEF Carried
  <1>3. scan'.running => \E s \in Scans : Carries(s)' /\ ~work'[s].canceled
    BY DEF Carried
  <1>. QED
    BY <1>1, <1>2, <1>3 DEF Carried

LEMMA CarriedStep == TypeOK /\ Carried /\ [Next]_vars => Carried'
  <1>. SUFFICES ASSUME TypeOK, Carried, [Next]_vars PROVE Carried'
    OBVIOUS
  <1>1. ASSUME UNCHANGED <<scan, work>> PROVE Carried'
    BY <1>1 DEF Carried, Carries
  <1>2. /\ scan \in ScanState /\ work \in [Scans -> Goroutine]
        /\ \A s \in Scans : work[s] \in Goroutine /\ work[s].gen \in Int
        /\ scan.generation \in Int
    BY DEF TypeOK, MemoryOK, ScanState, Goroutine
  <1>3. ASSUME NEW s \in Scans, Scanning(s) PROVE Carried'
    <2>1. CASE StartScan(s)
      <3>. DEFINE g == scan.generation + 1
                  row == [NoWork EXCEPT !.pc = "walk", !.gen = g]
      <3>1. work[s].pc = "idle" /\ work' = [work EXCEPT ![s] = row]
        BY <2>1 DEF StartScan
      <3>2. row.pc = "walk" /\ row.gen = g /\ ~row.canceled
        BY DEF NoWork
      <3>3. scan'.generation = g
        BY <2>1 DEF StartScan, Fresh
      <3>4. work'[s] = row /\ \A q \in Scans \ {s} : work'[q] = work[q]
        BY <1>2, <3>1
      <3>. HIDE DEF row
      <3>5. \A q \in Scans \ {s} : work[q].pc # "idle" => work[q].gen < g
        BY <1>2 DEF Carried
      <3>6. Carries(s)' /\ ~work'[s].canceled
        BY <3>2, <3>3, <3>4 DEF Carries
      <3>7. \A q \in Scans : work'[q].pc # "idle" => work'[q].gen =< g
        BY <1>2, <3>2, <3>4, <3>5
      <3>8. ASSUME NEW q \in Scans, NEW r \in Scans, work'[q].pc # "idle",
                   work'[r].pc # "idle", work'[q].gen = work'[r].gen
            PROVE  q = r
        BY <1>2, <3>2, <3>4, <3>5, <3>8 DEF Carried
      <3>. QED
        BY <3>3, <3>6, <3>7, <3>8 DEF Carried
    <2>2. ASSUME work'[s].pc \in {"walk", "stores", "publish"},
                 work'[s].gen = work[s].gen, work'[s].canceled = work[s].canceled,
                 \A q \in Scans \ {s} : work'[q] = work[q],
                 work[s].pc # "idle", UNCHANGED scan
          PROVE  Carried'
      BY <2>2, CarriedOn DEF Carries
    <2>3. CASE Walk(s) \/ ReadStores(s) \/ ScanErrs(s)
      <3>1. PICK v \in BOOLEAN :
               \/ work' = [work EXCEPT ![s].pc = "publish", ![s].end = "canceled",
                              ![s].found = [by |-> work[s].gen, vulnerable |-> v]]
               \/ work' = [work EXCEPT ![s].pc = "publish",
                              ![s].found = [by |-> work[s].gen, vulnerable |-> v]]
               \/ work' = [work EXCEPT ![s].pc = "stores"]
               \/ work' = [work EXCEPT ![s].pc = "publish", ![s].end = "error"]
        BY <2>3 DEF Walk, ReadStores, ScanErrs, Step
      <3>2. UNCHANGED scan /\ work[s].pc # "idle"
        BY <2>3 DEF Walk, ReadStores, ScanErrs
      <3>3. /\ work'[s].pc \in {"walk", "stores", "publish"}
            /\ work'[s].gen = work[s].gen /\ work'[s].canceled = work[s].canceled
            /\ \A q \in Scans \ {s} : work'[q] = work[q]
        BY <1>2, <3>1 DEF Goroutine
      <3>. QED
        BY <2>2, <3>2, <3>3
    <2>4. ASSUME NEW row, work' = [work EXCEPT ![s] = row],
                 row.pc = "idle" \/ (row.pc # "idle" /\ row.gen = work[s].gen),
                 work[s].pc # "idle", scan'.generation = scan.generation,
                 \/ ~scan'.running
                 \/ /\ scan'.running = scan.running
                    /\ work[s].gen # scan.generation \/ work[s].pc = "save"
          PROVE  Carried'
      <3>1. work'[s] = row /\ \A q \in Scans \ {s} : work'[q] = work[q]
        BY <1>2, <2>4
      <3>2. scan.running \in BOOLEAN
        BY <1>2 DEF ScanState
      <3>3. CASE ~scan'.running
        BY <2>4, <3>1, <3>3, CarriedOn DEF Carries
      <3>4. CASE scan'.running
        <4>1. ~Carries(s)
          BY <2>4, <3>4 DEF Carries
        <4>2. \A q \in Scans : Carries(q) => Carries(q)' /\ work'[q] = work[q]
          BY <2>4, <3>1, <4>1 DEF Carries
        <4>. QED
          BY <2>4, <3>1, <3>2, <3>4, <4>2, CarriedOn
      <3>. QED
        BY <3>3, <3>4
    <2>5. NoWork.pc = "idle"
      BY DEF NoWork
    <2>6. CASE Publish(s)
      <3>1. work[s].pc # "idle" /\ work[s].end \in {"ok", "canceled", "error"}
        BY <1>2, <2>6 DEF Publish, Goroutine
      <3>2. work' = [work EXCEPT ![s] = NoWork] \/ work' = [work EXCEPT ![s].pc = "save"]
        BY <2>6, <3>1 DEF Publish, Step
      <3>3. /\ [work[s] EXCEPT !.pc = "save"].pc = "save"
            /\ [work[s] EXCEPT !.pc = "save"].gen = work[s].gen
        BY <1>2 DEF Goroutine
      <3>4. /\ scan'.generation = scan.generation
            /\ ~scan'.running \/ (scan' = scan /\ work[s].gen # scan.generation)
        BY <2>6, PublishEffect
      <3>. QED
        BY <2>4, <2>5, <3>1, <3>2, <3>3, <3>4
    <2>7. CASE SaveScan(s)
      BY <2>4, <2>5, <2>7 DEF SaveScan
    <2>8. CASE Panic(s)
      <3>1. scan'.generation = scan.generation /\ work[s].pc # "idle"
        BY <1>2, <2>8 DEF Panic, ScanState
      <3>2. \/ ~scan'.running
            \/ scan' = scan /\ work[s].gen # scan.generation
        BY <1>2, <2>8 DEF Panic, ScanState
      <3>. QED
        BY <2>4, <2>5, <2>8, <3>1, <3>2 DEF Panic
    <2>. QED
      BY <1>3, <2>1, <2>3, <2>6, <2>7, <2>8 DEF Scanning
  <1>4. CASE CancelScan
    <2>1. \A q \in Scans : work'[q].gen = work[q].gen /\ work'[q].pc = work[q].pc
      BY <1>2, <1>4 DEF CancelScan, Goroutine
    <2>2. ~scan'.running /\ scan'.generation = scan.generation
      BY <1>2, <1>4 DEF CancelScan, ScanState
    <2>. QED
      BY <2>1, <2>2, CarriedOn
  <1>5. ASSUME NEW h \in Handlers, Results(h) PROVE Carried'
    <2>1. CASE LoadShow(h)
      <3>1. ~scan'.running /\ scan'.generation = scan.generation /\ work' = work
        BY <2>1 DEF LoadShow, Fresh
      <3>. QED
        BY <3>1, CarriedOn
    <2>2. CASE \/ LegacyScan(h) \/ SaveResult(h)
               \/ LegacyCache(h) \/ LatestList(h) \/ LatestGet(h) \/ LatestCopy(h)
               \/ LoadCache(h) \/ \E i \in 1 .. Len(stored) : LoadGet(h, i)
      BY <1>1, <2>2
      DEF LegacyScan, SaveResult, LegacyCache, LatestList, LatestGet, LatestCopy,
          LoadCache, LoadGet, memory
    <2>. QED
      BY <1>5, <2>1, <2>2 DEF Results
  <1>6. ASSUME NEW h \in Handlers, Asked(h) PROVE Carried'
    BY <1>1, <1>6 DEF Asked, Enroll, Sync, memory
  <1>7. ASSUME NEW j \in Jobs, Saving(j) PROVE Carried'
    BY <1>1, <1>7
    DEF Saving, ReadConfig, Accepted, Refused, Truncate, Write, memory
  <1>8. CASE Exit
    <2>1. ~scan'.running /\ \A s \in Scans : work'[s].pc = "idle"
      BY <1>8 DEF Exit, Fresh, NoWork
    <2>. QED
      BY <2>1 DEF Carried
  <1>9. CASE \/ Probe \/ \E i \in 1 .. Len(stored) : DeleteScan(i)
             \/ WorkerTick \/ WorkerCheck \/ WorkerScan
             \/ DaemonStarts \/ DaemonUploads \/ DaemonStops
             \/ BootRead \/ BootService \/ UNCHANGED vars
    BY <1>1, <1>9
    DEF Probe, DeleteScan, WorkerTick, WorkerCheck, WorkerScan, DaemonStarts,
        DaemonUploads, DaemonStops, BootRead, BootService, vars, memory
  <1>. QED
    BY <1>3, <1>4, <1>5, <1>6, <1>7, <1>8, <1>9 DEF Next

\* A scan that currentScanState shows as running has a goroutine, and only one,
\* that carries its generation and has not been cancelled: no cancel-then-start,
\* load, panic or exit leaves the flag set with nobody to clear it, which would
\* refuse every further scan.
THEOREM RunningScanIsCarried == Spec => []RunningIsCarried
  <1>1. Init => Carried
    BY DEF Init, Carried, NoWork, Fresh
  <1>2. Carried => RunningIsCarried
    BY DEF Carried, RunningIsCarried, Carries
  <1>. QED
    BY <1>1, <1>2, CarriedStep, TypeStep, TypeInit, PTL DEF Spec
=============================================================================
