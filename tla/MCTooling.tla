------------------------------- MODULE MCTooling -------------------------------
(***************************************************************************)
(* The runners of the regression in one run: the profiles on a Helm        *)
(* release, the Job that carries them into a cluster, and the suites on    *)
(* this machine.  They share no state, so a behaviour moves one of them.   *)
(***************************************************************************)
EXTENDS ClusterRun, RunnerJob, SuiteRun, SmokeRun, TLC

VARIABLE focus

MCProfile(kind, third, mock, srtp, rtcp, fault) ==
  [kind |-> kind, third |-> third, mock |-> mock, srtp |-> srtp, rtcp |-> rtcp,
   probe |-> rtcp, fault |-> fault]
MCPlain(kind) == MCProfile(kind, {}, FALSE, FALSE, FALSE, "none")
\* Every kind of profile; each fault of the HA profiles; a profile after one
\* that may have failed.
MCSelections ==
  {<<MCProfile("catalog", {"target"}, TRUE, TRUE, FALSE, "precall")>>,
   <<MCProfile("catalog", {}, FALSE, FALSE, FALSE, "midcall"), MCPlain("signalling")>>,
   <<MCProfile("catalog", {}, FALSE, FALSE, TRUE, "postcall"), MCPlain("agent")>>,
   <<MCPlain("core"), MCPlain("nlu")>>}

MCKind(call) ==
  [callee |-> call, uas |-> call, caller |-> FALSE, call |-> call, srtp |-> call, rtcp |-> call]
\* A call with media, and a registration of the caller alone.
MCProfiles == <<"call", "register">>
MCFlags == ("call" :> MCKind(TRUE)) @@ ("register" :> [MCKind(FALSE) EXCEPT !.caller = TRUE])
\* What SmokeRun leaves: BundleTellsFailure is refuted.
MCOthers == {[logged |-> {"passed"}, exit |-> "1"]}
\* Each run has an id of its own, or the first is repeated with its own.
MCRunIds == <<"r1", "r2">>
MCRepeated == <<"r1", "r1", "r2">>

MCInit ==
  /\ ClusterInit /\ JobInit /\ SuiteInit /\ SmokeInit
  /\ focus \in {"cluster", "job", "smoke", "suite"}
  /\ focus # "cluster" => todo = CHOOSE s \in MCSelections : TRUE
  /\ focus # "smoke" => \A f \in DOMAIN setup : setup[f]

MCNext ==
  \/ focus = "cluster" /\ ClusterNext /\ UNCHANGED <<jobVars, suiteVars, smokeVars, focus>>
  \/ focus = "job" /\ JobNext /\ UNCHANGED <<clusterVars, suiteVars, smokeVars, focus>>
  \/ focus = "smoke" /\ SmokeNext /\ UNCHANGED <<clusterVars, jobVars, suiteVars, focus>>
  \/ focus = "suite" /\ SuiteNext /\ UNCHANGED <<clusterVars, jobVars, smokeVars, focus>>

\* The fairness of each runner.
MCSpec ==
  /\ MCInit /\ [][MCNext]_<<clusterVars, jobVars, suiteVars, smokeVars, focus>>
  /\ WF_clusterVars(focus = "cluster" /\ Runner)
  /\ WF_jobVars(focus = "job" /\ Timely) /\ WF_jobVars(focus = "job" /\ Deadline)
  /\ WF_smokeVars(focus = "smoke" /\ SmokeSteps)
  /\ WF_smokeVars(focus = "smoke" /\ ChildEnds("caller"))
  /\ WF_suiteVars(focus = "suite" /\ SuiteSteps)

\* A runner says that a profile or a run passed only if nothing went wrong in
\* it, in its teardown and in its evidence, and then leaves nothing behind.
RunsTruthful == ClusterTruthful /\ JobTruthful /\ SmokeTruthful /\ SuiteTruthful

\* Every runner comes to an end, whatever the calls and the containers do.
RunsEnd ==
  <>(CASE focus = "cluster" -> ClusterEnded [] focus = "job" -> JobEnded
       [] focus = "smoke" -> SmokeEnded [] focus = "suite" -> SuiteEnded)
=============================================================================
