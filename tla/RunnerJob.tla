------------------------------- MODULE RunnerJob ------------------------------
(***************************************************************************)
(* run_k8s_regression_job.py: the launcher of a Kubernetes Job in whose pod *)
(* the regression runs, and what becomes of the Job, of the Helm release    *)
(* and of the collected evidence.                                          *)
(*                                                                         *)
(* Every kubectl, helm or docker command can fail, or run into its timeout, *)
(* which run_command does not catch.  The launcher ends where it raises.    *)
(***************************************************************************)
EXTENDS Naturals, FiniteSets, Sequences

CONSTANTS
  Aks,       \* --aks-profiles: wait for balancers, archive the evidence
  KeepJob,   \* --keep-job
  NameReused \* --job-name names a Job that an earlier launcher left

ASSUME JobAssumption == {Aks, KeepJob, NameReused} \subseteq BOOLEAN

VARIABLES
  step,      \* the steps of run_job that lie ahead
  runner,    \* the regression-runner container of the old and the new pod
  listed,    \* the pods that kubectl shows under job-name
  seen,      \* pod_name
  verdict,   \* job_status: "none", "passed", "failed" or "timeout"
  copied,    \* what was collected of pod_name: "none", "partial" or "all"
  archive,   \* latest-aks-regression.tgz: "previous", or "this" run's evidence
  release,   \* the values of the Helm release: "original" or "profile"
  killed,    \* a runner that the launcher ended at its work (a ghost)
  outcome    \* of the launcher: "none", "0", "1" or "raised"

jobVars == <<step, runner, listed, seen, verdict, copied, archive, release, killed, outcome>>

Pods == {"old", "new"}
NoPod == "none"
At(s) == step # << >> /\ Head(step) = s
Next1 == step' = Tail(step) /\ UNCHANGED outcome
RaiseJob == step' = << >> /\ outcome' = "raised"

\* run_job, from the images to the exit code.
Steps ==
  <<"images", "release">> \o (IF Aks THEN <<"balancers">> ELSE << >>)
  \o <<"access", "deleteold", "apply">>
  \o <<"wait", "logs", "collect", "archive", "deletejob", "exit">>

\* build_images, and the service account, the role and its binding.
Commands ==
  /\ At("images") \/ At("access") \/ At("balancers")
  /\ Next1 \/ RaiseJob
  /\ UNCHANGED <<runner, listed, seen, verdict, copied, archive, release, killed>>

\* prepare_playsbc_image_values: the new image becomes part of what the runner
\* takes for the original values.
PrepareRelease ==
  /\ At("release") /\ (Next1 \/ RaiseJob)
  /\ UNCHANGED <<runner, listed, seen, verdict, copied, archive, release, killed>>

\* kubectl delete job: its pods are told to end, and vanish later; the runner
\* has no handler for SIGTERM.
Killing(p) ==
  /\ runner' = [runner EXCEPT ![p] = IF @ \in {"waiting", "running"} THEN "killed" ELSE @]
  /\ killed' = killed \cup (IF runner[p] = "running" THEN {p} ELSE {})
DeleteOldJob ==
  /\ At("deleteold")
  /\ \/ Next1 /\ Killing("old")
     \/ RaiseJob /\ UNCHANGED <<runner, killed>>
  /\ UNCHANGED <<listed, seen, verdict, copied, archive, release>>
ApplyJob ==
  /\ At("apply")
  /\ \/ Next1 /\ runner' = [runner EXCEPT !["new"] = "waiting"] /\ listed' = listed \cup {"new"}
     \/ RaiseJob /\ UNCHANGED <<runner, listed>>
  /\ UNCHANGED <<seen, verdict, copied, archive, release, killed>>

\* wait_for_runner: each poll takes the first pod of the list, until its runner
\* has ended or the deadline has passed.
Finished(state) == state \in {"ok", "bad", "killed"}
VerdictOf(state) == CASE state = "ok" -> "passed" [] state \in {"bad", "killed"} -> "failed"
                      [] OTHER -> "none"
Poll ==
  /\ At("wait") /\ \E p \in listed :
       /\ seen' = p /\ verdict' = VerdictOf(runner[p])
       /\ step' = IF Finished(runner[p]) THEN Tail(step) ELSE step
  /\ UNCHANGED <<runner, listed, copied, archive, release, killed, outcome>>
PollFails ==
  /\ At("wait") /\ RaiseJob
  /\ UNCHANGED <<runner, listed, seen, verdict, copied, archive, release, killed>>
MutantDeadline ==
  /\ At("wait") /\ seen = NoPod /\ Next1 /\ verdict' = "timeout"
  /\ UNCHANGED <<runner, listed, seen, copied, archive, release, killed>>
Deadline ==
  /\ At("wait") /\ Next1 /\ verdict' = "timeout"
  /\ UNCHANGED <<runner, listed, seen, copied, archive, release, killed>>

\* job_pod_name when no poll found one, and the log of the runner.
FetchLogs ==
  /\ At("logs")
  /\ \/ Next1 /\ seen' \in (IF seen # NoPod \/ listed = {} THEN {seen} ELSE listed)
     \/ RaiseJob /\ UNCHANGED seen
  /\ UNCHANGED <<runner, listed, verdict, copied, archive, release, killed>>

\* collect_job_outputs: a copy that fails is noted in a file.
Collect ==
  /\ At("collect")
  /\ \/ /\ Next1
        /\ copied' \in IF seen \notin listed THEN {"none"}
                       ELSE IF Finished(runner[seen]) THEN {"none", "partial", "all"}
                       ELSE {"none", "partial"}
     \/ RaiseJob /\ UNCHANGED copied
  /\ UNCHANGED <<runner, listed, seen, verdict, archive, release, killed>>

\* create_aks_evidence_archive: the archive is replaced when all its members
\* were counted; in any case the Job is deleted afterwards.
Archive ==
  /\ At("archive")
  /\ \/ step' = Tail(step) /\ archive' = IF Aks THEN "this" ELSE archive
     \/ Aks /\ step' = <<"deletejob">> /\ UNCHANGED archive
  /\ UNCHANGED <<runner, listed, seen, verdict, copied, release, killed, outcome>>
DeleteJob ==
  /\ At("deletejob")
  /\ \/ ~KeepJob /\ Killing("new")
     \/ UNCHANGED <<runner, killed>>
  /\ IF Len(step) = 1 THEN RaiseJob ELSE Next1 \/ RaiseJob
  /\ UNCHANGED <<listed, seen, verdict, copied, archive, release>>
Exit ==
  /\ At("exit") /\ step' = << >> /\ outcome' = IF verdict = "passed" THEN "0" ELSE "1"
  /\ UNCHANGED <<runner, listed, seen, verdict, copied, archive, release, killed>>

\* The pod: its runner starts, changes the release for its profiles, and ends
\* with the values restored, or with a code that says that they are not.
PodSteps(p) ==
  /\ \/ runner[p] = "waiting" /\ runner' = [runner EXCEPT ![p] = "running"] /\ UNCHANGED release
     \/ runner[p] = "running" /\ release' = "profile" /\ UNCHANGED runner
     \/ /\ runner[p] = "running"
        /\ \/ runner' = [runner EXCEPT ![p] = "ok"] /\ release' = "original"
           \/ runner' = [runner EXCEPT ![p] = "bad"] /\ release' \in {"original", "profile"}
  /\ UNCHANGED <<step, listed, seen, verdict, copied, archive, killed, outcome>>
\* A pod of a deleted Job vanishes.
Vanish(p) ==
  /\ p \in listed /\ listed' = listed \ {p} /\ Finished(runner[p])
  /\ p = "old" => ~\E i \in DOMAIN step : step[i] = "deleteold"
  /\ p = "new" => outcome # "none"
  /\ UNCHANGED <<step, runner, seen, verdict, copied, archive, release, killed, outcome>>

JobInit ==
  /\ step = Steps /\ seen = NoPod /\ verdict = "none" /\ copied = "none"
  /\ archive = "previous" /\ release = "original" /\ killed = {} /\ outcome = "none"
  /\ runner \in [Pods -> {"none", "running", "ok", "bad"}] /\ runner["new"] = "none"
  /\ NameReused <=> runner["old"] # "none"
  /\ listed = IF NameReused THEN {"old"} ELSE {}

Timely ==
  \/ Commands \/ PrepareRelease \/ DeleteOldJob \/ ApplyJob \/ FetchLogs \/ Collect \/ Archive
  \/ DeleteJob \/ Exit
Launcher == Timely \/ Poll \/ PollFails \/ Deadline
JobNext == Launcher \/ \E p \in Pods : PodSteps(p) \/ Vanish(p)

\* The commands have timeouts and the deadline of the wait passes.
JobFairness == WF_jobVars(Timely) /\ WF_jobVars(Deadline)

JobSpec == JobInit /\ [][JobNext]_jobVars /\ JobFairness

\* The launcher succeeds only if the runner that it started did, so that the
\* release is as before; and a runner is killed at its work only by a launcher
\* that has waited for it in vain, which then fails.
JobTruthful ==
  /\ outcome = "0" => runner["new"] = "ok" /\ release = "original" /\ (Aks => archive = "this")
  /\ killed # {} => verdict = "timeout" /\ outcome \in {"none", "1", "raised"}

JobEnded == outcome # "none"
JobEnds == <>JobEnded

\* Refuted: after a timeout, the runner is killed before it restores the release.
ReleaseRestored == outcome # "none" /\ runner["new"] # "running" => release = "original"

\* Refuted: a command that fails or times out leaves the Job.
JobDeleted == outcome # "none" /\ ~KeepJob => runner["new"] # "running"

\* Refuted: a copy that fails is only noted, and the archive replaced all the same.
ArchiveWhole == outcome = "0" /\ Aks => copied = "all"
=============================================================================
