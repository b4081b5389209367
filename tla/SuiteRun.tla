------------------------------- MODULE SuiteRun --------------------------------
(***************************************************************************)
(* run_regression_suite.py: runs of the suite, one after the other.  Each  *)
(* first deletes the bundles that passed and the old reports, then runs    *)
(* its profiles in processes of their own, and then writes its report.     *)
(*                                                                         *)
(* The bundles of run_b2bua_sipp_smoke.py lie in the same directory; one   *)
(* may be there when the first run starts.                                 *)
(***************************************************************************)
EXTENDS FiniteSets, DualRealmRun

CONSTANTS
  RunIds,   \* the sequence of --run-id
  Profiles, \* the sequence of selected profiles
  Flags,    \* the flags of each profile
  Others    \* how a run of the other script may have ended: [logged, exit]

VARIABLES
  runs,      \* the ids of the runs that lie ahead, the current one first
  stage,     \* of the run: "idle", "bundles", "reports", "smoke", "profile" or "write"
  pending,   \* the profiles that lie ahead
  table,      \* the rows of the report: profile name -> status
  bundles,   \* the directories: <<id, profile>> -> the statuses in log.platform
  reports,   \* the JSON reports: id -> rows
  outcomes,  \* of the process that wrote the bundle: its code (a ghost)
  lost,      \* bundles that were deleted though they had not passed (a ghost)
  suiteExit  \* of the last run: "none", "0", "1" or "raised"

suiteOnly == <<runs, stage, pending, table, bundles, reports, outcomes, lost, suiteExit>>
suiteVars == <<suiteOnly, dualVars>>

Names == {Profiles[i] : i \in DOMAIN Profiles}
Ids == {RunIds[i] : i \in DOMAIN RunIds}

ASSUME SuiteAssumption == RunIds \in Seq(Ids) /\ Profiles \in Seq(Names)

Id == Head(runs)
Bundle == <<Id, Head(pending)>>
SmokeBundle == <<"manual", "smoke">>
NoMap == [k \in {} |-> "none"]
With(map, key, value) == [k \in DOMAIN map \cup {key} |-> IF k = key THEN value ELSE map[k]]
Without(map, keys) == [k \in DOMAIN map \ keys |-> map[k]]

\* summarize_statuses.
MutantSummary(statuses) ==
  IF "failed" \in statuses THEN "failed" ELSE IF "blocked" \in statuses THEN "blocked" ELSE "passed"
Summary(statuses) ==
  CASE statuses = {} -> "unknown"
    [] "failed" \in statuses -> "failed"
    [] "blocked" \in statuses /\ "failed" \notin statuses -> "blocked"
    [] OTHER -> "passed"

\* b2bua_bundle_status: what the reports say of the bundle, or else its own log.
Reported(b) == {reports[i][b[2]] : i \in {j \in DOMAIN reports : j = b[1] /\ b[2] \in DOMAIN reports[j]}}
BundleStatus(b) ==
  IF Summary(Reported(b)) # "unknown" THEN Summary(Reported(b)) ELSE Summary(bundles[b])

\* cleanup_non_failed_b2bua_log_bundles.
CleanBundles ==
  /\ stage = "bundles" /\ stage' = "reports"
  /\ LET gone == {b \in DOMAIN bundles : BundleStatus(b) \in {"passed", "blocked"}}
     IN /\ bundles' = Without(bundles, gone)
        /\ lost' = lost \cup {b \in gone : outcomes[b] \notin {"0", "2"}}
  /\ UNCHANGED <<runs, pending, table, reports, outcomes, suiteExit>> /\ UNCHANGED dualVars

\* cleanup_old_reports: all but those of this id.
CleanReports ==
  /\ stage = "reports" /\ stage' = "smoke" /\ reports' = Without(reports, DOMAIN reports \ {Id})
  /\ UNCHANGED <<runs, pending, table, bundles, outcomes, lost, suiteExit>> /\ UNCHANGED dualVars

NextRun(exit) == stage' = "idle" /\ runs' = Tail(runs) /\ suiteExit' = exit

\* The SIPp smoke suite, in a process too: a directory that is there already, or
\* a timeout, ends the run.
RunSmokeSuite ==
  /\ stage = "smoke"
  /\ \/ stage' = "profile" /\ UNCHANGED <<runs, suiteExit>>
        /\ table' \in {NoMap} \cup {With(table, "smoke", s) : s \in {"passed", "failed"}}
     \/ NextRun("raised") /\ UNCHANGED table
  /\ UNCHANGED <<pending, bundles, reports, outcomes, lost>> /\ UNCHANGED dualVars

\* A profile is started.  It refuses a bundle that exists; the suite then
\* appends what it said to that bundle.
StartProfile ==
  /\ stage = "profile" /\ pending # << >> /\ ahead = << >> /\ code = "none"
  /\ StartDual(Flags[Head(pending)])
  /\ Bundle \notin DOMAIN bundles
  /\ bundles' = With(bundles, Bundle, {}) /\ outcomes' = With(outcomes, Bundle, "none")
  /\ UNCHANGED <<runs, stage, pending, table, reports, lost, suiteExit, clients, topology>>
Refused ==
  /\ stage = "profile" /\ pending # << >> /\ ahead = << >> /\ code = "none"
  /\ Bundle \in DOMAIN bundles
  /\ table' = With(table, Head(pending), "failed") /\ pending' = Tail(pending)
  /\ UNCHANGED <<runs, stage, bundles, reports, outcomes, lost, suiteExit>> /\ UNCHANGED dualVars

\* The profile runs; its results are in the log of the bundle.
ProfileSteps ==
  /\ DualStep /\ bundles' = IF written' = written THEN bundles ELSE With(bundles, Bundle, written')
  /\ outcomes' = IF code' = code THEN outcomes ELSE With(outcomes, Bundle, code')
  /\ UNCHANGED <<runs, stage, pending, table, reports, lost, suiteExit>>

\* parse_b2bua_stdout: the results that were printed, and the exit code.
RowStatus(statuses, exit) ==
  CASE Summary(statuses) = "unknown" -> IF exit = "0" THEN "passed" ELSE "failed"
    [] Summary(statuses) = "passed" /\ exit # "0" -> "failed"
    [] OTHER -> Summary(statuses)
ProfileEnded ==
  /\ stage = "profile" /\ code \in {"0", "1"}
  /\ table' = With(table, Head(pending), RowStatus(written, code)) /\ pending' = Tail(pending)
  /\ GoneDual /\ UNCHANGED <<runs, stage, bundles, reports, outcomes, lost, suiteExit>>

\* run_command: the profile is killed, and TimeoutExpired ends the suite.
TimeoutExpired ==
  /\ stage = "profile" /\ ahead # << >> /\ GoneDual /\ NextRun("raised")
  /\ outcomes' = With(outcomes, Bundle, "killed")
  /\ UNCHANGED <<pending, table, bundles, reports, lost>>

\* write_reports, and the exit code.
WriteReports ==
  /\ stage = "profile" /\ pending = << >>
  /\ reports' = With(reports, Id, table)
  /\ NextRun(IF \A n \in DOMAIN table : table[n] = "passed" THEN "0" ELSE "1")
  /\ UNCHANGED <<pending, table, bundles, outcomes, lost>> /\ UNCHANGED dualVars

StartRun ==
  /\ stage = "idle" /\ runs # << >>
  /\ stage' = "bundles" /\ table' = NoMap /\ pending' = Profiles /\ suiteExit' = "none"
  /\ UNCHANGED <<runs, bundles, reports, outcomes, lost, dualVars>>

SuiteInit ==
  /\ DualInit /\ runs = RunIds /\ stage = "idle" /\ pending = << >> /\ table = NoMap
  /\ \E o \in Others : /\ bundles = With(NoMap, SmokeBundle, o.logged)
                      /\ outcomes = With(NoMap, SmokeBundle, o.exit)
  /\ reports = NoMap /\ lost = {} /\ suiteExit = "none"

SuiteSteps ==
  \/ CleanBundles \/ CleanReports \/ RunSmokeSuite \/ StartProfile \/ Refused \/ ProfileEnded
  \/ TimeoutExpired \/ WriteReports \/ StartRun
SuiteNext == SuiteSteps \/ ProfileSteps

LastId == RunIds[Len(RunIds) - Len(runs)]

\* A run ends with 0 only if each of its profiles did, with nothing wrong in it,
\* and its report says so.
SuiteTruthful ==
  /\ DualTruthful
  /\ suiteExit = "0" => \A n \in Names : table[n] = "passed" /\ outcomes[<<LastId, n>>] = "0"

\* No run deletes the bundle of a profile of the suite that did not pass.
FailedKept == lost \subseteq {SmokeBundle}

\* Refuted: the bundle of a profile that raised has only results that passed.
SmokeFailureKept == SmokeBundle \notin lost

\* Refuted: a profile that does not end takes the rows of the others with it.
RowsReported == stage = "idle" /\ suiteExit # "none" => suiteExit # "raised"

\* Whatever a profile does, its timeout passes.
SuiteFairness == WF_suiteVars(SuiteSteps)

SuiteSpec == SuiteInit /\ [][SuiteNext]_suiteVars /\ SuiteFairness
SuiteEnded == stage = "idle" /\ runs = << >>
SuiteEnds == <>SuiteEnded
=============================================================================
