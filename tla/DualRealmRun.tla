----------------------------- MODULE DualRealmRun -----------------------------
(***************************************************************************)
(* run_dual_realm_profile.py: one profile on a Docker topology of two      *)
(* realms, from the preparation of its scenarios to the evidence, and what *)
(* it reports, leaves running and writes into its bundle.                  *)
(*                                                                         *)
(* The docker commands have no timeout; the suite that starts this process *)
(* kills it when its own timeout passes, and no finally block runs then.   *)
(***************************************************************************)
EXTENDS Naturals, Sequences

VARIABLES
  profile,    \* the flags of the profile that runs
  ahead,      \* the steps of main() that lie ahead
  results,    \* the statuses of the results so far
  failure,    \* an exception was kept
  clients,    \* "docker compose exec" processes, by name
  topology,   \* the containers: "down" or "up"
  configured, \* PLAYSBC_TOPOLOGY_CONFIG is set
  written,    \* the statuses that log.platform of the bundle has
  faults,     \* something went wrong (a ghost)
  code        \* of the process: "none", "0" or "1"

mainVars == <<ahead, results, failure, faults>>
dualVars == <<profile, mainVars, clients, topology, configured, written, code>>

Clients == {"uac", "uas", "srtp", "rtcp"}
NoClients == [c \in Clients |-> "none"]
Ran(s) == ahead # << >> /\ Head(ahead) = s
When(flag, steps) == IF flag THEN steps ELSE << >>

\* The finally block, the validation of the evidence, and append_results.
Closing == <<"teardown", "merge", "validate", "cleanup", "results">>
Main(p) ==
  <<"scenarios", "configure", "down", "up">>
  \o When(p.callee, <<"register">>) \o When(p.uas, <<"uas">>)
  \o When(p.caller, <<"register">>) \o When(p.call /\ p.srtp, <<"srtp">>)
  \o When(p.call, <<"uac">>) \o When(p.call /\ p.rtcp, <<"rtcp">>)
  \o When(p.call, <<"uacwait">>) \o When(p.call /\ p.srtp, <<"srtpwait">>)
  \o When(p.call /\ p.rtcp, <<"rtcpwait">>) \o When(p.uas, <<"uaswait">>) \o Closing

Done == ahead' = Tail(ahead) /\ UNCHANGED <<results, failure, faults>>
Note(status) ==
  /\ ahead' = Tail(ahead) /\ results' = results \cup {status}
  /\ faults' = (faults \/ status = "failed") /\ UNCHANGED failure
\* except BaseException: the result of the runner itself fails.
Caught ==
  /\ ahead' = Closing /\ failure' = TRUE /\ faults' = TRUE
  /\ results' = results \cup {"failed"}
Docker == UNCHANGED <<topology, configured>>
Same == UNCHANGED <<profile, written, code>>

\* prepare_tls_assets, prepare_scenarios.
Scenarios == Ran("scenarios") /\ (Done \/ Caught) /\ Same /\ Docker /\ UNCHANGED clients

\* render_helm_config, and "docker compose config".
Configure ==
  /\ Ran("configure")
  /\ \/ Done /\ configured' = TRUE
     \/ Caught /\ configured' \in BOOLEAN
  /\ Same /\ UNCHANGED <<clients, topology>>

\* "docker compose down" of what an earlier profile left; its code is ignored.
Down ==
  /\ Ran("down") /\ Done /\ topology' \in {"down", topology}
  /\ Same /\ UNCHANGED <<clients, configured>>

\* The images, "docker compose up", and the readiness of each service.
Up ==
  /\ Ran("up")
  /\ \/ Done /\ topology' = "up"
     \/ Caught /\ topology' \in {"up", topology}
  /\ Same /\ UNCHANGED <<clients, configured>>

\* run_step: a registration that fails does not stop the profile.
RegisterUser ==
  /\ Ran("register") /\ \E status \in {"passed", "failed"} : Note(status)
  /\ Same /\ Docker /\ UNCHANGED clients

\* start_process; start_srtp_sender stops a sender that is not ready in time.
StartClient(c) ==
  /\ Ran(c)
  /\ \/ Done /\ clients' = [clients EXCEPT ![c] = "running"]
     \/ Caught /\ UNCHANGED clients
  /\ Same /\ Docker

\* process.wait(timeout): only the SRTP sender is stopped when it passes; the
\* other waits raise, and the finally block stops the process.
StatusOf(c) == IF clients[c] = "zero" THEN "passed" ELSE "failed"
WaitEnded(s, c) ==
  /\ Ran(s) /\ clients[c] \in {"zero", "bad"} /\ Note(StatusOf(c))
  /\ clients' = [clients EXCEPT ![c] = "none"] /\ Same /\ Docker
WaitExpires(s, c) ==
  /\ Ran(s) /\ clients[c] = "running"
  /\ IF c = "srtp" THEN Note("failed") /\ clients' = [clients EXCEPT ![c] = "none"]
     ELSE Caught /\ UNCHANGED clients
  /\ Same /\ Docker
WaitFor(s, c) == WaitEnded(s, c) \/ WaitExpires(s, c)
WaitForClients ==
  WaitFor("uacwait", "uac") \/ WaitFor("srtpwait", "srtp") \/ WaitFor("rtcpwait", "rtcp")
  \/ WaitFor("uaswait", "uas")

\* The finally block: what its variables still name is stopped, and the
\* topology removed, whatever "docker compose down" answers.
TeardownDual ==
  /\ Ran("teardown")
  /\ \/ Done /\ clients' = NoClients /\ topology' \in IF configured THEN {"down", topology} ELSE {topology}
     \/ /\ ahead' = Tail(ahead) /\ failure' = TRUE /\ faults' = TRUE
        /\ results' = results \cup {"failed"} /\ UNCHANGED <<clients, topology>>
  /\ Same /\ UNCHANGED configured

\* merge_capture_files: adds no result when there was an exception before.
Merge ==
  /\ Ran("merge")
  /\ \/ Done
     \/ /\ ahead' = Tail(ahead) /\ failure' = TRUE /\ faults' = TRUE
        /\ results' = results \cup IF failure THEN {} ELSE {"failed"}
  /\ Same /\ Docker /\ UNCHANGED clients

\* The validations add what they found: most of them a result only when they
\* fail.  An exception among them is kept, and its result fails.
Validate ==
  /\ Ran("validate") /\ ahead' = Tail(ahead)
  /\ \E found \in SUBSET {"passed", "failed"} :
       /\ results' = results \cup found /\ faults' = (faults \/ "failed" \in found)
       /\ failure' = failure \/ (failure' = TRUE /\ "failed" \in found)
  /\ Same /\ Docker /\ UNCHANGED clients

\* cleanup_work_dir, with a timeout.
CleanWork ==
  /\ Ran("cleanup") /\ (Done \/ Note("failed"))
  /\ Same /\ Docker /\ UNCHANGED clients

\* append_results, and the exit code.
ExitCode(failed, statuses) == IF failed \/ "failed" \in statuses THEN "1" ELSE "0"
AppendResults ==
  /\ Ran("results") /\ Done /\ written' = results /\ code' = ExitCode(failure, results)
  /\ Docker /\ UNCHANGED <<profile, clients>>

\* A process in a container comes to its end.
ClientEnds(c) ==
  /\ clients[c] = "running"
  /\ \E end \in {"zero", "bad"} : clients' = [clients EXCEPT ![c] = end]
  /\ Docker /\ UNCHANGED <<profile, mainVars, written, code>>

\* A new process, with a bundle of its own.
StartDual(p) ==
  /\ profile' = p /\ ahead' = Main(p) /\ results' = {} /\ failure' = FALSE
  /\ faults' = FALSE /\ configured' = FALSE /\ written' = {} /\ code' = "none"
\* It has ended, or was killed, which leaves the topology as it is and its
\* clients to the containers.
GoneDual ==
  /\ ahead' = << >> /\ results' = {} /\ failure' = FALSE /\ faults' = FALSE
  /\ configured' = FALSE /\ written' = {} /\ code' = "none" /\ clients' = NoClients
  /\ UNCHANGED <<profile, topology>>

DualInit ==
  /\ profile = [callee |-> FALSE, uas |-> FALSE, caller |-> FALSE, call |-> FALSE,
                srtp |-> FALSE, rtcp |-> FALSE]
  /\ ahead = << >> /\ results = {} /\ failure = FALSE /\ faults = FALSE /\ clients = NoClients
  /\ topology = "down" /\ configured = FALSE /\ written = {} /\ code = "none"

DualStep ==
  \/ Scenarios \/ Configure \/ Down \/ Up \/ RegisterUser \/ (\E c \in Clients : StartClient(c))
  \/ WaitForClients \/ TeardownDual \/ Merge \/ Validate \/ CleanWork \/ AppendResults
  \/ \E c \in Clients : ClientEnds(c)

\* A profile that ends with 0 had nothing go wrong, in its teardown and its
\* evidence included, its bundle has no failed result, and no process of it is
\* left.
DualTruthful ==
  code = "0" => ~faults /\ "failed" \notin written /\ clients = NoClients

\* Refuted: the code of "docker compose down" is not looked at.
TopologyRemoved == code \in {"0", "1"} => topology = "down"
=============================================================================
