------------------------------- MODULE MCAgent -------------------------------
(* One run of Agent in three scenarios, chosen at the start.  Scans: three   *)
(* are started, cancelled and covered by loads.  Saves: two scans, and       *)
(* requests that scan and store results beside them.  Enrolment: only the    *)
(* worker scans; one handler enrols and the other uploads, two jobs are in   *)
(* progress at a time.                                                       *)
EXTENDS Agent, FiniteSets, TLC

CONSTANTS here, there, t1, t2, h1, h2

VARIABLE scenario

MCInit == Init /\ scenario \in {"scans", "saves", "enrolment"}

NotEnrolling ==
    /\ jobs'[h2].pc = "idle"
    /\ jobs'[h1].pc # "readConfig" /\ ~jobs'[h1].byUser

Starts ==
    /\ cached' # [by |-> 0, vulnerable |-> TRUE]
    /\ errs' = {}
    /\ jobs'[h1].pc \in {"idle", "loadCache", "loadShow"}
    /\ \A s \in Scans : work'[s].found # Nothing => ~work'[s].found.vulnerable

\* Only a scan of the GUI finds something vulnerable.
Saves ==
    /\ scan'.generation =< 2 /\ ~scan'.canceled
    /\ jobs'[h1].pc \notin {"loadCache", "loadShow"}
    /\ \A f \in {cached', jobs'[h1].found} : f # Nothing => (f.by = 0 => ~f.vulnerable)

NothingScanned ==
    /\ scan' = scan /\ cached' = cached /\ errs' = {} /\ work' = work
    /\ stored' = stored
    /\ \A h \in Handlers : jobs'[h].found = Nothing /\ jobs'[h].pc # "latestCopy"

\* The user enrols with one server, then with the other.
Enrolments ==
    /\ ~jobs'[h2].byUser
    /\ jobs'[h1].byUser =>
          /\ PairOf(jobs'[h1].config) \in {<<here, t1>>, <<there, t2>>}
          /\ ~jobs'[h1].config.auto
    /\ jobs'[h1].pc \in {"idle", "truncate", "write"}
    /\ Cardinality({j \in Jobs : jobs'[j].pc # "idle"}) =< 2

Within ==
    CASE scenario = "scans" -> NotEnrolling /\ Starts
      [] scenario = "saves" -> NotEnrolling /\ Saves
      [] scenario = "enrolment" -> NothingScanned /\ Enrolments

MCNext == Next /\ Within /\ UNCHANGED scenario
MCSpec == MCInit /\ [][MCNext]_<<vars, scenario>> /\ Fairness
=============================================================================
