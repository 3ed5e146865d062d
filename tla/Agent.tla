-------------------------------- MODULE Agent --------------------------------
(***************************************************************************)
(* The agent on one host: the GUI process (agent/gui.go) with its scans,   *)
(* the results it keeps (scan_store.go), and the enrolment settings in     *)
(* enrollment.json (client.go), which its handlers, its background worker  *)
(* and the daemon process (main.go) all write.                             *)
(*                                                                         *)
(* A scan's result is who found it and whether something vulnerable is in  *)
(* it; a result is not empty.  Generations go on counting when the process *)
(* restarts.  The licence, and what is uploaded, are left out: a refused   *)
(* start or upload changes nothing, FleetCommands models what is uploaded. *)
(***************************************************************************)
EXTENDS Integers, Sequences

CONSTANTS
    Scans,       \* scan goroutines
    Handlers,    \* requests to the GUI in progress
    Worker,      \* the GUI's background worker
    Boot,        \* StartGUI before it serves
    Daemon,      \* the agent run with --daemon
    Servers, DefaultServer,
    Tokens,      \* fleet enrolment tokens
    SyncTokens,  \* those that /api/sync may be given; NoToken when none is
    MaxScans, MaxStored, MaxFaults,  \* bounds
    Nothing, NoServer, NoToken, Unreadable

Gui == Handlers \cup {Worker, Boot}
Jobs == Gui \cup {Daemon}

Findings == [by: 0 .. MaxScans, vulnerable: BOOLEAN]
Record == [findings: Findings, level: {"secure", "unknown", "vulnerable"}]
Config == [server: Servers, token: Tokens \cup {NoToken}, auto: BOOLEAN,
           local: BOOLEAN]

ASSUME AgentAssumption ==
    /\ Worker # Boot /\ Daemon \notin Gui
    /\ {Worker, Boot} \cap Handlers = {}
    /\ DefaultServer \in Servers /\ NoServer \notin Servers
    /\ NoToken \notin Tokens /\ SyncTokens \subseteq Tokens \cup {NoToken}
    /\ MaxScans \in Nat /\ MaxStored \in Nat /\ MaxFaults \in Nat
    /\ Nothing \notin Findings \cup Config \cup Record
    /\ Unreadable \notin Config

VARIABLES
    \* memory of the GUI
    scan,        \* currentScanState
    cached,      \* cachedFindings
    errs,        \* collectorErrors: whose scan they come from
    work,        \* the scan goroutines
    jobs,        \* handlers, worker and daemon
    \* the host
    stored,      \* the stored scans by their number; Nothing: deleted
    file,        \* enrollment.json; Unreadable: none, half-written or mixed
    daemon,      \* the daemon's memory, and the server it is installed with
    \* history
    loaded,      \* what is shown was loaded from the history
    unreported,  \* scans that a collector failed in and no stored scan tells of
    known,       \* <<server, token>> the user has set or a server accepted
    faults

memory == <<scan, cached, errs, work>>
host == <<stored, file, daemon>>
history == <<loaded, unreported, known>>
vars == <<memory, jobs, host, history, faults>>

ScanState == [running: BOOLEAN, canceled: BOOLEAN, complete: BOOLEAN,
              error: BOOLEAN, generation: 0 .. MaxScans,
              findings: Findings \cup {Nothing}]

Goroutine == [pc: {"idle", "walk", "stores", "publish", "save"},
              gen: 0 .. MaxScans,  \* myGen
              canceled: BOOLEAN,   \* scanCtx.Err()
              end: {"ok", "canceled", "error"},
              found: Findings \cup {Nothing}]

Labels == {"idle", "legacyCache", "legacySave", "latestGet", "latestCopy",
           "latestSave", "loadCache", "loadShow",
           "boot", "service", "check", "collect",
           "readConfig", "send", "truncate", "write"}

\* next is where a job goes on after an upload or a save; byUser marks a save of
\* /api/enrollment.
Job == [pc: Labels, next: {"idle", "check", "service"}, byUser: BOOLEAN,
        id: Nat, found: Findings \cup {Nothing}, config: Config \cup {Nothing},
        server: Servers, token: Tokens \cup {NoToken}]

Pairs == Servers \X (Tokens \cup {NoToken})

MemoryOK ==
    /\ scan \in ScanState
    /\ cached \in Findings \cup {Nothing}
    /\ errs \in SUBSET (0 .. MaxScans)
    /\ work \in [Scans -> Goroutine]
    /\ \A s \in Scans :
          work[s].pc = "save" \/ (work[s].pc = "publish" /\ work[s].end = "ok")
             => work[s].found \in Findings

JobsOK ==
    /\ jobs \in [Jobs -> Job]
    /\ \A j \in Jobs :
          /\ jobs[j].pc \in {"legacyCache", "legacySave", "latestSave",
                             "loadCache", "loadShow"} => jobs[j].found \in Findings
          /\ jobs[j].pc \in {"send", "truncate", "write"} => jobs[j].config \in Config

HostOK ==
    /\ stored \in Seq(Record \cup {Nothing})
    /\ file \in Config \cup {Unreadable}
    /\ daemon \in [on: BOOLEAN, server: Servers, token: Tokens \cup {NoToken},
                   flag: Servers]

HistoryOK ==
    /\ loaded \in BOOLEAN
    /\ unreported \in SUBSET (0 .. MaxScans)
    /\ known \in SUBSET Pairs

TypeOK ==
    /\ MemoryOK /\ JobsOK /\ HostOK /\ HistoryOK
    /\ faults \in 0 .. MaxFaults

-----------------------------------------------------------------------------
(* Locks, faults and steps.                                                *)

\* currentScanState is locked from the publication of a result to its save.
ScanFree == \A s \in Scans : work[s].pc # "save"

Up == jobs[Boot].pc \in {"idle", "service"}

Fault == faults < MaxFaults /\ faults' = faults + 1

NoWork == [pc |-> "idle", gen |-> 0, canceled |-> FALSE, end |-> "ok",
           found |-> Nothing]
NoJob == [pc |-> "idle", next |-> "idle", byUser |-> FALSE, id |-> 0,
          found |-> Nothing, config |-> Nothing, server |-> DefaultServer,
          token |-> NoToken]
Fresh(g) == [running |-> FALSE, canceled |-> FALSE, complete |-> FALSE,
             error |-> FALSE, generation |-> g, findings |-> Nothing]

Init ==
    /\ scan = Fresh(0) /\ cached = Nothing /\ errs = {}
    /\ work = [s \in Scans |-> NoWork]
    /\ jobs = [j \in Jobs |-> IF j = Boot THEN [NoJob EXCEPT !.pc = "boot"] ELSE NoJob]
    /\ stored = <<>> /\ file = Unreadable
    /\ daemon = [on |-> FALSE, server |-> DefaultServer, token |-> NoToken,
                 flag |-> DefaultServer]
    /\ loaded = FALSE /\ unreported = {} /\ known = {}
    /\ faults = 0

Step(s, pc) == work' = [work EXCEPT ![s].pc = pc]

Free(h) == Up /\ jobs[h].pc = "idle"

Goto(j, pc) == jobs' = [jobs EXCEPT ![j].pc = pc]
Begin(j, job) == jobs' = [jobs EXCEPT ![j] = job]
End(j) == jobs' = [jobs EXCEPT ![j] = NoJob]

-----------------------------------------------------------------------------
(* Faulty variants of the definitions below, which the run must tell from   *)
(* them; no action of the specification uses one.                          *)

\* A finishing goroutine does not compare its generation.
PublishAnyGeneration(s) ==
    /\ work[s].pc = "publish" /\ ScanFree
    /\ IF work[s].end = "ok"
         THEN /\ scan' = [scan EXCEPT !.running = FALSE, !.complete = TRUE,
                                      !.findings = work[s].found]
              /\ cached' = work[s].found
              /\ loaded' = FALSE
              /\ Step(s, "save")
         ELSE /\ work' = [work EXCEPT ![s] = NoWork]
              /\ scan' = [scan EXCEPT !.running = FALSE]
              /\ UNCHANGED <<cached, loaded>>
    /\ UNCHANGED <<errs, jobs, host, unreported, known, faults>>

\* The recovered goroutine ends without clearing the flag.
PanicStillRunning(s) ==
    /\ Fault
    /\ work[s].pc \in {"walk", "stores"} /\ ScanFree
    /\ work' = [work EXCEPT ![s] = NoWork]
    /\ scan' = [scan EXCEPT !.error = work[s].gen = scan.generation \/ @]
    /\ UNCHANGED <<cached, errs, jobs, host, history>>

\* The errors are taken, and the level is that of the findings alone.
LevelOfFindings(f) == IF f.vulnerable THEN "vulnerable" ELSE "secure"

\* What is cached is stored even when there is nothing.
LatestCopyAlways(h) ==
    /\ jobs[h].pc = "latestCopy"
    /\ Begin(h, [NoJob EXCEPT !.pc = "latestSave", !.found = cached])
    /\ UNCHANGED <<memory, host, history, faults>>

\* Only the server of the upload is written back.
MergedServer(c, srv, tok) == [c EXCEPT !.server = srv]

-----------------------------------------------------------------------------
(* Scans.                                                                  *)

StartScan(s) ==
    /\ Up /\ ScanFree
    /\ ~scan.running
    /\ work[s].pc = "idle" /\ scan.generation < MaxScans
    /\ LET g == scan.generation + 1
       IN  /\ scan' = [Fresh(g) EXCEPT !.running = TRUE]
           /\ work' = [work EXCEPT ![s] = [NoWork EXCEPT !.pc = "walk", !.gen = g]]
    /\ loaded' = FALSE
    /\ UNCHANGED <<cached, errs, jobs, host, unreported, known, faults>>

\* The walk over the files looks for cancellation; what comes after does not.
Walk(s) ==
    /\ work[s].pc = "walk"
    /\ IF work[s].canceled
         THEN \E v \in BOOLEAN :
                 work' = [work EXCEPT ![s].pc = "publish", ![s].end = "canceled",
                             ![s].found = [by |-> work[s].gen, vulnerable |-> v]]
         ELSE Step(s, "stores")
    /\ UNCHANGED <<scan, cached, errs, jobs, host, history, faults>>

\* A collector that cannot read its store leaves an error.
Collects(by, fails) ==
    /\ errs' = IF fails THEN errs \cup {by} ELSE errs
    /\ unreported' = IF fails THEN unreported \cup {by} ELSE unreported

ReadStores(s) ==
    /\ work[s].pc = "stores"
    /\ \E v, fails \in BOOLEAN :
          /\ Collects(work[s].gen, fails)
          /\ work' = [work EXCEPT ![s].pc = "publish",
                         ![s].found = [by |-> work[s].gen, vulnerable |-> v]]
    /\ UNCHANGED <<scan, cached, jobs, host, loaded, known, faults>>

ScanErrs(s) ==
    /\ Fault
    /\ work[s].pc = "walk"
    /\ work' = [work EXCEPT ![s].pc = "publish", ![s].end = "error"]
    /\ UNCHANGED <<scan, cached, errs, jobs, host, history>>

Panic(s) ==
    /\ Fault
    /\ work[s].pc \in {"walk", "stores"} /\ ScanFree
    /\ work' = [work EXCEPT ![s] = NoWork]
    /\ scan' = IF work[s].gen = scan.generation
                 THEN [scan EXCEPT !.running = FALSE, !.error = TRUE]
                 ELSE scan
    /\ UNCHANGED <<cached, errs, jobs, host, history>>

\* A goroutine whose generation is not the current one discards its result.
Publish(s) ==
    /\ work[s].pc = "publish" /\ ScanFree
    /\ IF work[s].gen # scan.generation
         THEN work' = [work EXCEPT ![s] = NoWork] /\ UNCHANGED <<scan, cached, loaded>>
         ELSE CASE work[s].end = "ok" ->
                     /\ scan' = [scan EXCEPT !.running = FALSE, !.complete = TRUE,
                                             !.findings = work[s].found]
                     /\ cached' = work[s].found
                     /\ loaded' = FALSE
                     /\ Step(s, "save")
                [] work[s].end = "canceled" ->
                     /\ scan' = [scan EXCEPT !.running = FALSE, !.canceled = TRUE,
                                             !.findings = work[s].found]
                     /\ loaded' = FALSE
                     /\ work' = [work EXCEPT ![s] = NoWork]
                     /\ UNCHANGED cached
                [] work[s].end = "error" ->
                     /\ scan' = [scan EXCEPT !.running = FALSE, !.error = TRUE]
                     /\ work' = [work EXCEPT ![s] = NoWork]
                     /\ UNCHANGED <<cached, loaded>>
    /\ UNCHANGED <<errs, jobs, host, unreported, known, faults>>

\* An error of any collector since the last save makes a clean result unknown.
Level(f) ==
    CASE f.vulnerable -> "vulnerable"
      [] ~f.vulnerable /\ errs # {} -> "unknown"
      [] OTHER -> "secure"

\* The errors are taken before the record is written, which may fail.  Numbers,
\* which are milliseconds, are not used twice.
SaveScanResult(f) ==
    /\ errs' = {}
    /\ \/ /\ stored' = Append(stored, [findings |-> f, level |-> Level(f)])
          /\ unreported' = IF Level(f) = "secure" THEN unreported
                                                  ELSE unreported \ errs
          /\ UNCHANGED faults
       \/ /\ Fault
          /\ unreported' = unreported \ errs
          /\ UNCHANGED stored

SaveScan(s) ==
    /\ work[s].pc = "save"
    /\ SaveScanResult(work[s].found)
    /\ work' = [work EXCEPT ![s] = NoWork]
    /\ UNCHANGED <<scan, cached, jobs, file, daemon, loaded, known>>

\* cancelFunc is that of the last start.
CancelScan ==
    /\ Up /\ ScanFree
    /\ scan' = [scan EXCEPT !.canceled = TRUE, !.running = FALSE]
    /\ work' = [s \in Scans |-> IF work[s].pc # "idle" /\ work[s].gen = scan.generation
                                  THEN [work[s] EXCEPT !.canceled = TRUE]
                                  ELSE work[s]]
    /\ UNCHANGED <<cached, errs, jobs, host, history, faults>>

-----------------------------------------------------------------------------
(* Requests about results.                                                 *)

\* /api/probe: what the probe found is the last result.
Probe ==
    /\ Up
    /\ \E v \in BOOLEAN : cached' = [by |-> 0, vulnerable |-> v]
    /\ UNCHANGED <<scan, errs, work, jobs, host, history, faults>>

\* /api/scan: a scan within the request, which currentScanState does not show.
LegacyScan(h) ==
    /\ Free(h) /\ Len(stored) < MaxStored
    /\ \E v, fails \in BOOLEAN :
          /\ Collects(0, fails)
          /\ Begin(h, [NoJob EXCEPT !.pc = "legacyCache",
                                    !.found = [by |-> 0, vulnerable |-> v]])
    /\ UNCHANGED <<scan, cached, work, host, loaded, known, faults>>

LegacyCache(h) ==
    /\ jobs[h].pc = "legacyCache"
    /\ cached' = jobs[h].found
    /\ Goto(h, "legacySave")
    /\ UNCHANGED <<scan, errs, work, host, history, faults>>

SaveResult(h) ==
    /\ jobs[h].pc \in {"legacySave", "latestSave"}
    /\ SaveScanResult(jobs[h].found)
    /\ End(h)
    /\ UNCHANGED <<scan, cached, work, file, daemon, loaded, known>>

Numbers == {i \in 1 .. Len(stored) : stored[i] # Nothing}

\* /api/scans/latest: the newest stored scan; when there is none, what is cached
\* is stored.
LatestList(h) ==
    /\ Free(h)
    /\ IF Numbers = {}
         THEN Goto(h, "latestCopy")
         ELSE \E i \in Numbers :
                 /\ \A k \in Numbers : k =< i
                 /\ Begin(h, [NoJob EXCEPT !.pc = "latestGet", !.id = i])
    /\ UNCHANGED <<memory, host, history, faults>>

LatestGet(h) ==
    /\ jobs[h].pc = "latestGet"
    /\ IF jobs[h].id \in Numbers THEN End(h) ELSE Goto(h, "latestCopy")
    /\ UNCHANGED <<memory, host, history, faults>>

LatestCopy(h) ==
    /\ jobs[h].pc = "latestCopy" /\ Len(stored) < MaxStored
    /\ IF cached = Nothing
         THEN End(h)
         ELSE Begin(h, [NoJob EXCEPT !.pc = "latestSave", !.found = cached])
    /\ UNCHANGED <<memory, host, history, faults>>

\* /api/scans/load: the cache first, then what is shown.
LoadGet(h, i) ==
    /\ Free(h)
    /\ i \in Numbers
    /\ Begin(h, [NoJob EXCEPT !.pc = "loadCache", !.found = stored[i].findings])
    /\ UNCHANGED <<memory, host, history, faults>>

LoadCache(h) ==
    /\ jobs[h].pc = "loadCache"
    /\ cached' = jobs[h].found
    /\ Goto(h, "loadShow")
    /\ UNCHANGED <<scan, errs, work, host, history, faults>>

LoadShow(h) ==
    /\ jobs[h].pc = "loadShow" /\ ScanFree
    /\ scan' = [Fresh(scan.generation) EXCEPT !.complete = TRUE,
                                              !.findings = jobs[h].found]
    /\ loaded' = TRUE
    /\ End(h)
    /\ UNCHANGED <<cached, errs, work, host, unreported, known, faults>>

DeleteScan(i) ==
    /\ Up
    /\ i \in Numbers
    /\ stored' = [stored EXCEPT ![i] = Nothing]
    /\ UNCHANGED <<memory, jobs, file, daemon, history, faults>>

-----------------------------------------------------------------------------
(* Enrolment.                                                              *)

\* enrollmentMu, which each process has for itself: no GUI job reads or writes
\* the file while another writes it.
MuFree(j) == j \in Gui => \A k \in Gui : jobs[k].pc # "write"

\* LoadEnrollmentConfig: what is missing or cannot be parsed gets the defaults.
Loaded ==
    IF file = Unreadable
      THEN [server |-> DefaultServer, token |-> NoToken, auto |-> FALSE,
            local |-> FALSE]
      ELSE file

PairOf(c) == <<c.server, c.token>>

\* /api/enrollment: a server or a token that is absent keeps its value, the
\* switch for automatic uploads is always set.
Enroll(h, srv, tok, on) ==
    /\ Free(h) /\ MuFree(h)
    /\ LET c == [Loaded EXCEPT !.server = IF srv = NoServer THEN @ ELSE srv,
                               !.token = IF tok = NoToken THEN @ ELSE tok,
                               !.auto = on]
       IN  /\ Begin(h, [NoJob EXCEPT !.pc = "truncate", !.byUser = TRUE, !.config = c])
           /\ known' = IF c.token = NoToken THEN known ELSE known \cup {PairOf(c)}
    /\ UNCHANGED <<memory, host, loaded, unreported, faults>>

Upload(srv, tok, next) ==
    [NoJob EXCEPT !.pc = "readConfig", !.next = next, !.server = srv, !.token = tok]

\* /api/sync goes to the enrolled server, with the token of the request or else
\* of the file.
Sync(h, tok) ==
    /\ Free(h) /\ MuFree(h)
    /\ LET used == IF tok = NoToken THEN Loaded.token ELSE tok
       IN  /\ used # NoToken
           /\ Begin(h, Upload(Loaded.server, used, "idle"))
    /\ UNCHANGED <<memory, host, history, faults>>

\* A tick of the worker: what a probe found is uploaded first, then a scan is
\* due or asked for, or it is not.
WorkerTick ==
    /\ Free(Worker) /\ MuFree(Worker)
    /\ LET c == Loaded
       IN  /\ c.token # NoToken
           /\ \/ \E next \in {"idle", "check"} :
                    Begin(Worker, Upload(c.server, c.token, next))
              \/ Begin(Worker, [Upload(c.server, c.token, "idle") EXCEPT !.pc = "check"])
    /\ UNCHANGED <<memory, host, history, faults>>

WorkerCheck ==
    /\ jobs[Worker].pc = "check" /\ ScanFree
    /\ IF scan.running THEN End(Worker) ELSE Goto(Worker, "collect")
    /\ UNCHANGED <<memory, host, history, faults>>

\* RunScan leaves its collectors' errors to whoever saves next; nothing is
\* uploaded when it fails or finds nothing.
WorkerScan ==
    /\ jobs[Worker].pc = "collect"
    /\ \E fails \in BOOLEAN : Collects(0, fails)
    /\ End(Worker) \/ Goto(Worker, "readConfig")
    /\ UNCHANGED <<scan, cached, work, host, loaded, known, faults>>

\* The service manager starts the daemon with the server it was installed with;
\* the token is read once.
DaemonStarts ==
    /\ ~daemon.on
    /\ Loaded.token # NoToken
    /\ daemon' = [daemon EXCEPT !.on = TRUE, !.server = daemon.flag,
                                !.token = Loaded.token]
    /\ UNCHANGED <<memory, jobs, stored, file, history, faults>>

DaemonUploads ==
    /\ daemon.on /\ jobs[Daemon].pc = "idle"
    /\ Begin(Daemon, Upload(daemon.server, daemon.token, "idle"))
    /\ UNCHANGED <<memory, host, history, faults>>

DaemonStops ==
    /\ Fault
    /\ daemon.on
    /\ daemon' = [daemon EXCEPT !.on = FALSE, !.server = DefaultServer,
                                !.token = NoToken]
    /\ End(Daemon)
    /\ UNCHANGED <<memory, stored, file, history>>

\* SendFleetTelemetry: the settings are read before the upload and written,
\* with the server and the token of the upload, after it.
ReadConfig(j) ==
    /\ jobs[j].pc = "readConfig" /\ MuFree(j)
    /\ jobs' = [jobs EXCEPT ![j].pc = "send", ![j].config = Loaded]
    /\ UNCHANGED <<memory, host, history, faults>>

Then(j) ==
    jobs' = [jobs EXCEPT ![j] =
               IF jobs[j].next = "idle" THEN NoJob
               ELSE [NoJob EXCEPT !.pc = jobs[j].next, !.server = jobs[j].server,
                                  !.token = jobs[j].token]]

Merged(c, srv, tok) == [c EXCEPT !.server = srv, !.token = tok]

Accepted(j) ==
    /\ jobs[j].pc = "send"
    /\ known' = known \cup {<<jobs[j].server, jobs[j].token>>}
    /\ jobs' = [jobs EXCEPT ![j].pc = "truncate",
                   ![j].config = Merged(@, jobs[j].server, jobs[j].token)]
    /\ UNCHANGED <<memory, host, loaded, unreported, faults>>

Refused(j) ==
    /\ jobs[j].pc = "send"
    /\ Then(j)
    /\ UNCHANGED <<memory, host, history, faults>>

\* os.WriteFile truncates the file, then writes it.
Truncate(j) ==
    /\ jobs[j].pc = "truncate" /\ MuFree(j)
    /\ file' = Unreadable
    /\ Goto(j, "write")
    /\ UNCHANGED <<memory, stored, daemon, history, faults>>

\* Over what the other process has written since, a shorter text leaves a mix.
Write(j) ==
    /\ jobs[j].pc = "write"
    /\ \/ file' = jobs[j].config
       \/ file # Unreadable /\ file' = Unreadable
    /\ Then(j)
    /\ UNCHANGED <<memory, stored, daemon, loaded, unreported, known, faults>>

\* /api/exit, a crash, or a new version that takes over.
Exit ==
    /\ Fault
    /\ Up
    /\ scan' = Fresh(scan.generation) /\ cached' = Nothing /\ errs' = {}
    /\ work' = [s \in Scans |-> NoWork]
    /\ jobs' = [j \in Jobs |-> CASE j = Boot -> [NoJob EXCEPT !.pc = "boot"]
                                 [] j = Daemon -> jobs[j]
                                 [] OTHER -> NoJob]
    /\ loaded' = FALSE /\ unreported' = {}
    /\ UNCHANGED <<host, known>>

\* StartGUI makes the token of the local API when the file has none.
BootRead ==
    /\ jobs[Boot].pc = "boot"
    /\ IF Loaded.local
         THEN Goto(Boot, "service")
         ELSE Begin(Boot, [NoJob EXCEPT !.pc = "truncate", !.next = "service",
                                        !.config = [Loaded EXCEPT !.local = TRUE]])
    /\ UNCHANGED <<memory, host, history, faults>>

\* ensureBackgroundService, once enrolled.
BootService ==
    /\ jobs[Boot].pc = "service" /\ MuFree(Boot)
    /\ daemon' = IF Loaded.token = NoToken THEN daemon
                 ELSE [daemon EXCEPT !.flag = Loaded.server]
    /\ End(Boot)
    /\ UNCHANGED <<memory, stored, file, history, faults>>

-----------------------------------------------------------------------------
Scanning(s) ==
    \/ StartScan(s) \/ Walk(s) \/ ReadStores(s) \/ Publish(s) \/ SaveScan(s)
    \/ ScanErrs(s) \/ Panic(s)

Results(h) ==
    \/ LegacyScan(h) \/ LegacyCache(h) \/ SaveResult(h)
    \/ LatestList(h) \/ LatestGet(h) \/ LatestCopy(h)
    \/ LoadCache(h) \/ LoadShow(h)
    \/ \E i \in 1 .. Len(stored) : LoadGet(h, i)

Asked(h) ==
    \/ \E srv \in Servers \cup {NoServer}, tok \in Tokens \cup {NoToken},
          on \in BOOLEAN : Enroll(h, srv, tok, on)
    \/ \E tok \in SyncTokens : Sync(h, tok)

Saving(j) ==
    \/ ReadConfig(j) \/ Accepted(j) \/ Refused(j) \/ Truncate(j) \/ Write(j)

Next ==
    \/ \E s \in Scans : Scanning(s)
    \/ CancelScan \/ Probe
    \/ \E i \in 1 .. Len(stored) : DeleteScan(i)
    \/ \E h \in Handlers : Results(h) \/ Asked(h)
    \/ WorkerTick \/ WorkerCheck \/ WorkerScan
    \/ DaemonStarts \/ DaemonUploads \/ DaemonStops
    \/ \E j \in Jobs : Saving(j)
    \/ Exit \/ BootRead \/ BootService

\* A goroutine runs on, and gets the lock it waits for.
Fairness ==
    \A s \in Scans : /\ WF_vars(Walk(s)) /\ WF_vars(ReadStores(s))
                     /\ SF_vars(Publish(s)) /\ WF_vars(SaveScan(s))

Spec == Init /\ [][Next]_vars /\ Fairness

-----------------------------------------------------------------------------
(* Properties.                                                             *)

\* Unless the user has loaded a stored scan since, the findings shown are those
\* of the scan started last: an earlier one that was cancelled, or that a load
\* made invisible while it ran, does not come back (gui.go 50, "cancel-then-start
\* race").
NewestScanShown ==
    ~loaded /\ scan.findings # Nothing => scan.findings.by = scan.generation

\* A collector that failed is not forgotten: its error waits for the next save,
\* or has kept a stored scan from being reported as secure (scan_store.go 48).
\* The write of that scan may fail, and the process may end.
FailureReported == unreported \subseteq errs

\* The server and the token in the file belong together: the user has set them
\* so, or that server has accepted an upload with that token, whoever wrote the
\* file and however the writes of two processes overlap.
EnrolmentKnown ==
    file # Unreadable /\ file.token # NoToken => PairOf(file) \in known

\* A scan that is shown as running ends: it completes, fails or is cancelled.
ScanEnds == scan.running ~> ~scan.running
=============================================================================
