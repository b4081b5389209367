------------------------------ MODULE ClusterRun ------------------------------
(***************************************************************************)
(* run_k8s_regression.py: the profiles of one run, one after the other, on *)
(* a Helm release, and what they leave behind in the cluster.              *)
(*                                                                         *)
(* A profile is a plan, the stages that its function goes through.  Each   *)
(* kubectl or helm command of a stage can fail or time out; an exception   *)
(* replaces the rest of the plan by the finally blocks around it.          *)
(***************************************************************************)
EXTENDS Naturals, FiniteSets, Sequences

CONSTANTS
  Selections,   \* the sequences of profiles that may be selected
  KeepPods,     \* --keep-pods
  NoRestore,    \* --no-restore-helm-values
  MaxInterrupts \* bound: keyboard interrupts

\* The function of a profile, the SIPp pods beside the two of every call, and
\* what its call comes with.
Profile == [kind : {"core", "nlu", "agent", "signalling", "catalog"}, third : SUBSET {"target"},
            mock : BOOLEAN, srtp : BOOLEAN, rtcp : BOOLEAN, probe : BOOLEAN,
            fault : {"none", "precall", "midcall", "postcall"}]

ASSUME ClusterAssumption ==
  /\ {KeepPods, NoRestore} \subseteq BOOLEAN /\ MaxInterrupts \in Nat
  /\ Selections \subseteq Seq(Profile)

VARIABLES
  todo,        \* the profiles that are not finished, the current one first
  plan,        \* the stages of the run that lie ahead, up to the next profile
  codes,       \* returncodes: the kinds of result that steps of the profile had
  status,      \* of the profile: "running", "passed" or "failed"
  rows,        \* one per finished profile: [passed, trouble]
  trouble,     \* something went wrong in the profile (a ghost)
  attempt,     \* of delete_run_pods
  pods,        \* SIPp pods of this run in the cluster
  procs,       \* local processes: "none", "running", "zero", "bad" or "stopped"
  original,    \* original_values was captured
  values,      \* of the Helm release: "original" or "profile"
  fresh,       \* the pods of the release run its values
  drained,     \* some pod of the release refuses calls
  report,      \* the HTML report was written
  exit,        \* of main(): "none", "0" or "1"; "error" once the restore failed
  interrupts

profileVars == <<codes, status, trouble, attempt>>
releaseVars == <<original, values, fresh, drained>>
clusterVars == <<todo, plan, rows, profileVars, pods, procs, releaseVars, report, exit, interrupts>>

Listeners == {"uas", "target"}
Processes == Listeners \cup {"capture", "srtp", "rtcp", "uac", "mock"}
InPods == Processes \ {"mock"}
Idle == [n \in Processes |-> "none"]

Current == Head(todo)
Stage(s) == plan # << >> /\ Head(plan) = s
If(condition, stages) == IF condition THEN stages ELSE << >>

\* profile_b2bua_catalog, from the agents to the finally block.
Call(p) ==
  CASE p.fault = "midcall" -> <<"uac", "fault", "uacwait">>
    [] p.fault # "midcall" /\ p.rtcp -> <<"uac", "rtcp", "uacwait", "rtcpwait">>
    [] OTHER -> <<"call">>
Catalog(p) ==
  <<"image", "agents">> \o If(p.mock, <<"mock">>) \o <<"upgrade", "rollout">>
  \o If(p.fault = "precall", <<"drain">>) \o <<"captures", "listeners", "register">>
  \o If(p.srtp, <<"srtp">>) \o Call(p) \o If(p.fault = "precall", <<"reject">>)
  \o If(p.srtp, <<"srtpwait">>) \o <<"listenerwait">> \o If(p.probe, <<"probe">>)
  \o If(p.fault = "postcall", <<"fault">>) \o <<"release">>

\* run_profile: the function of the profile, then its finally block.
Ending == <<"teardown", "evidence">>
Execution(p) ==
  CASE p.kind = "core" -> <<"unittest">>
    [] p.kind = "nlu" -> <<"upgrade", "rollout", "call">>
    [] p.kind = "agent" -> <<"image", "agents", "call">>
    [] p.kind = "signalling" ->
         <<"image", "agents", "listeners", "register", "call", "listenerwait">>
    [] p.kind = "catalog" -> Catalog(p)
Plan(p) == <<"prepare">> \o Execution(p) \o <<"return">> \o Ending

PodsOf(p) ==
  CASE p.kind = "agent" -> {"core"}
    [] p.kind = "signalling" -> {"core", "peer"}
    [] p.kind = "catalog" -> {"core", "peer"} \cup p.third
    [] OTHER -> {}
ListenersOf(p) == IF p.third = {} THEN {"uas"} ELSE Listeners

\* What the finally block of the catalog stops: the call itself, when it runs
\* beside a fault or the RTCP senders, is in none of its lists.
Tracked == InPods \ {"uac"}
StopAll(names) ==
  [n \in Processes |-> IF n \in names /\ procs[n] = "running" THEN "stopped" ELSE procs[n]]

\* status_from_codes.
Verdict(results) == IF results = {"zero"} THEN "passed" ELSE "failed"

Advance == plan' = Tail(plan) /\ UNCHANGED <<codes, status, trouble>>
Result(code) ==
  /\ plan' = Tail(plan) /\ codes' = codes \cup {code}
  /\ trouble' = (trouble \/ code = "bad") /\ UNCHANGED status
\* The try block of the catalog begins with the captures.
Ahead(s) == \E i \in DOMAIN Tail(plan) : Tail(plan)[i] = s
InTry == Ahead("release") /\ ~Ahead("captures")
Raise ==
  /\ plan' = If(InTry, <<"release">>) \o Ending
  /\ codes' = {} /\ status' = "failed" /\ trouble' = TRUE

\* run_command(check=True): what fails or times out raises.
Command(s) == Stage(s) /\ (Advance \/ Raise)
\* run_sipp_step and the probes: what fails or times out is a code.
Step(s) == Stage(s) /\ \E code \in {"zero", "bad"} : Result(code)
NothingElse == UNCHANGED <<todo, rows, attempt, report, exit, interrupts>>

\* prepare_common and the image, which is built once.
Prepare ==
  /\ Command("prepare") \/ Command("image")
  /\ NothingElse /\ UNCHANGED <<pods, procs, releaseVars>>

\* create_agent for each pod, and its service: one that does not become ready
\* is there all the same.
CreateAgents ==
  /\ Stage("agents")
  /\ \E made \in SUBSET PodsOf(Current) :
       /\ pods' = pods \cup made
       /\ (made = PodsOf(Current) /\ Advance) \/ Raise
  /\ NothingElse /\ UNCHANGED <<procs, releaseVars>>

\* start_mock_rasa: a server that does not get ready is left to stop_mock_rasa.
StartMockRasa ==
  /\ Stage("mock") /\ procs' = [procs EXCEPT !["mock"] = "running"]
  /\ Advance \/ Raise
  /\ NothingElse /\ UNCHANGED <<pods, releaseVars>>

\* apply_profile_config: helm_upgrade_values, which tries again after an
\* immutable StatefulSet was orphaned.  A command that times out may have
\* replaced the values.
Upgrade ==
  /\ Stage("upgrade")
  /\ \/ values' = "profile" /\ fresh' = FALSE /\ (Advance \/ Raise)
     \/ Raise /\ UNCHANGED <<values, fresh>>
  /\ NothingElse /\ UNCHANGED <<pods, procs, original, drained>>

\* rollout_restart and rollout_status of each workload.
Rollout ==
  /\ Stage("rollout")
  /\ \/ Advance /\ fresh' = TRUE /\ drained' = FALSE
     \/ Raise /\ UNCHANGED <<fresh, drained>>
  /\ NothingElse /\ UNCHANGED <<pods, procs, original, values>>

\* run_ha_action: "drain-all", one pod after the other; or a pod of the release
\* is deleted and must come back as a new one.
Drain ==
  /\ Stage("drain") /\ drained' \in BOOLEAN
  /\ (drained' /\ Advance) \/ Raise
  /\ NothingElse /\ UNCHANGED <<pods, procs, original, values, fresh>>
Fault == Command("fault") /\ NothingElse /\ UNCHANGED <<pods, procs, releaseVars>>

\* start_packet_captures: if one exits early all are stopped.
StartCaptures ==
  /\ Stage("captures")
  /\ \/ Advance /\ procs' = [procs EXCEPT !["capture"] = "running"]
     \/ Raise /\ UNCHANGED procs
  /\ NothingElse /\ UNCHANGED <<pods, releaseVars>>

\* start_sipp_process and wait_for_sipp_listener: whoever does not listen in
\* time is left running, and nothing is started after it.
StartListeners ==
  /\ Stage("listeners")
  /\ \E started \in SUBSET ListenersOf(Current) \ {{}} :
       /\ "uas" \in started
       /\ procs' = [n \in Processes |-> IF n \in started THEN "running" ELSE procs[n]]
       /\ (started = ListenersOf(Current) /\ Advance) \/ Raise
  /\ NothingElse /\ UNCHANGED <<pods, releaseVars>>

\* start_srtp_sender cleans up after itself when the marker does not come;
\* start_rtcp_processes raises when the SIPp traces name no target.
StartSender(n) ==
  /\ Stage(n) /\ n \in {"srtp", "rtcp"}
  /\ \/ Advance /\ procs' = [procs EXCEPT ![n] = "running"]
     \/ Raise /\ UNCHANGED procs
  /\ NothingElse /\ UNCHANGED <<pods, releaseVars>>

StartCall ==
  /\ Stage("uac") /\ Advance /\ procs' = [procs EXCEPT !["uac"] = "running"]
  /\ NothingElse /\ UNCHANGED <<pods, releaseVars>>

\* Registrations, and a call that runs alone; of a profile for the bot or the
\* unit tests, the whole execution.
RunStep ==
  /\ Step("register") \/ Step("call") \/ Step("reject")
  /\ NothingElse /\ UNCHANGED <<pods, procs, releaseVars>>
RunUnitTests ==
  /\ Step("unittest") /\ NothingElse /\ UNCHANGED <<pods, procs, releaseVars>>

\* run_layer2_socket_probe, which may have to rotate the secret of the release.
Probe ==
  /\ Step("probe") \/ Command("probe")
  /\ NothingElse /\ UNCHANGED <<pods, procs, releaseVars>>

\* process.wait(timeout): its code, or terminate() and 124.
CodeOf(names) ==
  IF \A n \in names : procs[n] = "zero" THEN "zero" ELSE "bad"
Wait(s, names) ==
  /\ Stage(s) /\ Result(CodeOf(names)) /\ procs' = StopAll(names)
  /\ NothingElse /\ UNCHANGED <<pods, releaseVars>>
WaitForProcesses ==
  \/ Wait("uacwait", {"uac"}) \/ Wait("rtcpwait", {"rtcp"}) \/ Wait("srtpwait", {"srtp"})
  \/ Wait("listenerwait", ListenersOf(Current))

\* The finally block: what runs is stopped, and the captures are fetched and
\* merged; a capture that cannot be used is a code, unless there was an exception.
Release ==
  /\ Stage("release") /\ procs' = StopAll(Tracked)
  /\ \E usable \in BOOLEAN :
       IF status = "failed" THEN Advance
       ELSE IF usable THEN Result("zero") ELSE Result("bad")
  /\ NothingElse /\ UNCHANGED <<pods, releaseVars>>

Return ==
  /\ Stage("return") /\ plan' = Tail(plan) /\ status' = Verdict(codes)
  /\ NothingElse /\ UNCHANGED <<codes, trouble, rows, pods, procs, releaseVars>>

\* delete_run_pods, three times: a deletion that was accepted counts when the
\* pods are seen to be gone.  A kubectl exec ends with its pod.
MutantRemoved(accepted, gone) == accepted
Removed(accepted, gone) == accepted /\ gone
Teardown ==
  /\ Stage("teardown")
  /\ IF KeepPods
     THEN procs' = StopAll({"mock"}) /\ Advance /\ UNCHANGED <<pods, attempt>>
     ELSE \E accepted \in BOOLEAN, left \in SUBSET pods :
            /\ accepted \/ left = pods
            /\ pods' = left
            /\ procs' = StopAll({"mock"} \cup IF left = {} THEN InPods ELSE {})
            /\ \/ Removed(accepted, left = {}) /\ attempt' = 0 /\ Advance
               \/ /\ ~Removed(accepted, left = {}) /\ attempt < 2 /\ attempt' = attempt + 1
                  /\ UNCHANGED <<plan, codes, status, trouble>>
               \/ /\ ~Removed(accepted, left = {}) /\ attempt = 2 /\ attempt' = 0
                  /\ plan' = Tail(plan) /\ status' = "failed" /\ trouble' = TRUE
                  /\ codes' = codes \cup {"bad"}
  /\ UNCHANGED <<todo, rows, report, exit, interrupts, releaseVars>>

\* The next profile, or restore_original_values after the last one.
NextProfile(rest) ==
  /\ todo' = rest /\ plan' = (IF rest = << >> THEN <<"restore", "report">> ELSE Plan(Head(rest)))
  /\ codes' = {} /\ status' = "running" /\ trouble' = FALSE

\* collect_k8s_evidence and validate_k8s_profile_evidence.
EvidenceVerdict(complete) == IF complete THEN status ELSE "failed"
Evidence ==
  /\ Stage("evidence")
  /\ \E complete \in BOOLEAN :
       rows' = Append(rows, [passed |-> EvidenceVerdict(complete) = "passed",
                             trouble |-> trouble \/ ~complete])
  /\ NextProfile(Tail(todo))
  /\ UNCHANGED <<attempt, pods, procs, releaseVars, report, exit, interrupts>>

\* What run_profile does not catch (an interrupt, a file that cannot be
\* written or read among the evidence) ends the profiles, without a report.
\* An interrupt is not modelled while a finally block runs.
Abort ==
  /\ todo' = << >> /\ plan' = <<"restore">> /\ codes' = {} /\ status' = "failed" /\ trouble' = TRUE
EvidenceRaises ==
  /\ Stage("evidence") /\ Abort
  /\ UNCHANGED <<rows, attempt, pods, procs, releaseVars, report, exit, interrupts>>
Interrupt ==
  /\ interrupts < MaxInterrupts /\ interrupts' = interrupts + 1 /\ todo # << >>
  /\ plan # << >> /\ Head(plan) \notin {"capture", "release", "teardown", "evidence"}
  /\ plan' = If(InTry, <<"release">>) \o <<"teardown", "unwind">>
  /\ codes' = {} /\ status' = "failed" /\ trouble' = TRUE
  /\ UNCHANGED <<todo, rows, attempt, pods, procs, releaseVars, report, exit>>
Unwind ==
  /\ Stage("unwind") /\ Abort
  /\ UNCHANGED <<rows, attempt, pods, procs, releaseVars, report, exit, interrupts>>

\* capture_original_values, before the first profile.
Capture ==
  /\ Stage("capture")
  /\ \/ original' = TRUE /\ NextProfile(todo)
     \/ Abort /\ UNCHANGED original
  /\ UNCHANGED <<rows, attempt, pods, procs, values, fresh, drained, report, exit, interrupts>>

\* restore_original_values: an error is returned, not raised, and the report is
\* still written.  The pods are replaced because the configuration differs.
Ended(code) == IF Len(plan) = 1 THEN plan' = << >> /\ exit' = "1" ELSE plan' = Tail(plan) /\ exit' = code
Restore ==
  /\ Stage("restore")
  /\ IF NoRestore \/ ~original THEN Ended("none") /\ UNCHANGED <<values, fresh, drained>>
     ELSE \/ /\ values' = "original" /\ fresh' = TRUE /\ drained' = FALSE /\ Ended("none")
          \/ /\ values' \in {"original", values} /\ fresh' = FALSE
             /\ Ended("error") /\ UNCHANGED drained
  /\ UNCHANGED <<todo, rows, profileVars, pods, procs, original, report, interrupts>>

\* write_reports and the exit code.
Report ==
  /\ Stage("report") /\ plan' = << >> /\ report' = TRUE
  /\ exit' = IF exit = "error" \/ \E i \in DOMAIN rows : ~rows[i].passed THEN "1" ELSE "0"
  /\ UNCHANGED <<todo, rows, profileVars, pods, procs, releaseVars, interrupts>>

\* A process comes to an end by itself; the tests and SIPp succeed or fail.
ProcessEnds(n) ==
  /\ procs[n] = "running" /\ n \in {"uas", "target", "uac", "srtp", "rtcp"}
  /\ \E code \in {"zero", "bad"} : procs' = [procs EXCEPT ![n] = code]
  /\ UNCHANGED <<todo, plan, rows, profileVars, pods, releaseVars, report, exit, interrupts>>

ClusterInit ==
  /\ todo \in Selections /\ plan = <<"capture">> /\ rows = << >>
  /\ codes = {} /\ status = "running" /\ trouble = FALSE /\ attempt = 0
  /\ pods = {} /\ procs = Idle /\ original = FALSE /\ values = "original" /\ fresh = TRUE
  /\ drained = FALSE /\ report = FALSE /\ exit = "none" /\ interrupts = 0

Runner ==
  \/ Prepare \/ CreateAgents \/ StartMockRasa \/ Upgrade \/ Rollout \/ Drain \/ Fault
  \/ StartCaptures \/ StartListeners \/ (\E n \in Processes : StartSender(n)) \/ StartCall
  \/ RunStep \/ RunUnitTests \/ Probe \/ WaitForProcesses \/ Release \/ Return \/ Teardown
  \/ Evidence \/ EvidenceRaises \/ Unwind \/ Capture \/ Restore \/ Report
ClusterNext == Runner \/ Interrupt \/ \E n \in Processes : ProcessEnds(n)

NoneRuns == \A n \in Processes : procs[n] # "running"

\* A profile passes only if nothing went wrong in it, in its teardown or in its
\* evidence, and the run succeeds only if all of them do and the cluster is as
\* it was: no pod and no process is left, and the release runs its old values.
ClusterTruthful ==
  /\ \A i \in DOMAIN rows : rows[i].passed => ~rows[i].trouble
  /\ exit = "0" =>
       /\ \A i \in DOMAIN rows : rows[i].passed
       /\ ~KeepPods => pods = {} /\ NoneRuns
       /\ ~NoRestore => values = "original" /\ fresh /\ ~drained

\* The run comes to an end whatever hangs.
ClusterEnded == exit \in {"0", "1"}
ClusterEnds == <>ClusterEnded

\* Refuted: "the profile is failed to prevent cross-profile resource
\* contamination" (run_k8s_regression.py:3782), but the next one starts.
CleanStart == Stage("prepare") => pods = {}

\* Refuted: a call beside a failing fault is in none of the lists that are
\* stopped, and b2bua-signalling has no finally block.
NothingOutlivesProfile == Stage("prepare") => NoneRuns

\* Refuted: the smoke profiles run on the values of the profile before.
SmokeOnOriginal ==
  Stage("call") /\ Current.kind \in {"agent", "signalling"} => values = "original" /\ ~drained

\* Refuted: an interrupt or an error among the evidence loses the finished rows.
ReportWritten == exit \in {"0", "1"} => report

\* Every wait of the runner has a timeout; the unit tests are assumed to end.
ClusterFairness == WF_clusterVars(Runner)

ClusterSpec == ClusterInit /\ [][ClusterNext]_clusterVars /\ ClusterFairness
=============================================================================
