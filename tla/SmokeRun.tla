------------------------------- MODULE SmokeRun -------------------------------
(***************************************************************************)
(* run_b2bua_sipp_smoke.py: one profile on the loopback interface, and the *)
(* bundle of logs that it leaves among those of the suite.                 *)
(*                                                                         *)
(* Unlike the profile on two realms it catches no exception: the finally   *)
(* block writes the results that there are, and the process ends with a    *)
(* traceback.                                                              *)
(***************************************************************************)
EXTENDS Naturals, Sequences

VARIABLES
  setup,    \* the flags of the profile
  script,   \* the steps of main() that lie ahead
  children, \* its processes, by name
  checks,   \* the statuses of the results so far
  raised,   \* an exception is on its way out
  mishap,   \* something went wrong (a ghost)
  logged,   \* the statuses that log.platform of the bundle has
  smokeExit \* "none", "0", "1" or "2"

smokeVars == <<setup, script, children, checks, raised, mishap, logged, smokeExit>>

Children == {"captures", "server", "callee", "sender", "reports", "caller"}
NoChildren == [c \in Children |-> "none"]
Turns(s) == script # << >> /\ Head(script) = s
Also(flag, steps) == IF flag THEN steps ELSE << >>

Script(p) ==
  <<"preflight", "prepare">> \o Also(p.captures, <<"captures">>) \o <<"server">>
  \o Also(p.callee, <<"register", "callee">>) \o Also(p.caller, <<"register">>)
  \o Also(p.call /\ p.sender, <<"sender">>) \o Also(p.call, <<"caller">>)
  \o Also(p.call /\ p.reports, <<"reports">>) \o Also(p.call, <<"callerwait">>)
  \o Also(p.call /\ p.sender, <<"senderwait">>) \o Also(p.call /\ p.reports, <<"reportswait">>)
  \o Also(p.callee, <<"calleewait">>) \o <<"finally">>

Go == script' = Tail(script) /\ UNCHANGED <<checks, raised, mishap>>
Verdicts(status) ==
  /\ script' = Tail(script) /\ checks' = checks \cup {status}
  /\ mishap' = (mishap \/ status = "failed") /\ UNCHANGED raised
\* Before the try block there is nothing to clean up or to write.
Thrown(rest) == script' = rest /\ raised' = TRUE /\ mishap' = TRUE /\ UNCHANGED checks
Quits(exit) == logged' = logged /\ smokeExit' = exit

\* check_rtpengine_preflight, check_sudo_ready_for_sipp_pcap.
Preflight ==
  /\ Turns("preflight")
  /\ \/ Go /\ UNCHANGED <<logged, smokeExit>>
     \/ /\ script' = << >> /\ mishap' = TRUE /\ UNCHANGED raised
        /\ checks' = {"blocked"} /\ logged' = {"blocked"} /\ smokeExit' = "2"
  /\ UNCHANGED <<setup, children>>

\* The scenarios, the binaries and the commands.
PrepareScenarios ==
  /\ Turns("prepare")
  /\ \/ Go /\ UNCHANGED <<logged, smokeExit>>
     \/ Thrown(<< >>) /\ Quits("1")
  /\ UNCHANGED <<setup, children>>

\* start_process: the server or a capture that ends at once, a sender that is
\* not ready in time and ports that no trace names raise.
Start(c) ==
  /\ Turns(c)
  /\ \/ Go /\ children' = [children EXCEPT ![c] = "running"]
     \/ /\ c \in {"captures", "server", "sender", "reports"} /\ Thrown(<<"finally">>)
        /\ children' = [children EXCEPT ![c] = IF c = "sender" THEN "running" ELSE "none"]
  /\ UNCHANGED <<setup, logged, smokeExit>>

\* run_sipp_registration, or register_user, whose socket times out.
Registration ==
  /\ Turns("register")
  /\ (\E status \in {"passed", "failed"} : Verdicts(status)) \/ Thrown(<<"finally">>)
  /\ UNCHANGED <<setup, children, logged, smokeExit>>

\* uac_process.wait() has no timeout; SIPp has one.
WaitStep(c) ==
  CASE c = "caller" -> "callerwait" [] c = "sender" -> "senderwait"
    [] c = "reports" -> "reportswait" [] c = "callee" -> "calleewait" [] OTHER -> "none"
ResultOf(c) == IF children[c] = "zero" THEN "passed" ELSE "failed"
Waits(c) ==
  /\ Turns(WaitStep(c)) /\ children[c] \in {"zero", "bad"} /\ Verdicts(ResultOf(c))
  /\ children' = [children EXCEPT ![c] = "none"] /\ UNCHANGED <<setup, logged, smokeExit>>
Expires(c) ==
  /\ Turns(WaitStep(c)) /\ children[c] = "running" /\ c # "caller"
  /\ IF c = "callee" THEN Thrown(<<"finally">>) /\ UNCHANGED children
     ELSE Verdicts("failed") /\ children' = [children EXCEPT ![c] = "none"]
  /\ UNCHANGED <<setup, logged, smokeExit>>

\* The finally block stops all but the caller, validates what was recorded and
\* appends the results; a file that is missing or cannot be read raises first.
StopChildren == children' = [c \in Children |-> IF c = "caller" THEN children[c] ELSE "none"]
FinallyRaises ==
  /\ Turns("finally") /\ StopChildren /\ Thrown(<< >>) /\ Quits("1") /\ UNCHANGED setup
Finally ==
  /\ Turns("finally") /\ StopChildren
  /\ \E found \in {{}, {"failed"}} :
       /\ checks' = checks \cup found /\ mishap' = (mishap \/ found # {})
       /\ smokeExit' = IF raised \/ "failed" \in checks' THEN "1" ELSE "0"
  /\ logged' = checks' /\ script' = << >> /\ UNCHANGED <<setup, raised>>

ChildEnds(c) ==
  /\ children[c] = "running" /\ c \in {"callee", "sender", "reports", "caller"}
  /\ \E end \in {"zero", "bad"} : children' = [children EXCEPT ![c] = end]
  /\ UNCHANGED <<setup, script, checks, raised, mishap, logged, smokeExit>>

SmokeInit ==
  /\ setup \in [{"captures", "callee", "caller", "call", "sender", "reports"} -> BOOLEAN]
  /\ script = Script(setup)
  /\ children = NoChildren /\ checks = {} /\ raised = FALSE /\ mishap = FALSE
  /\ logged = {} /\ smokeExit = "none"

SmokeSteps ==
  \/ Preflight \/ PrepareScenarios \/ Registration \/ Finally \/ FinallyRaises
  \/ \E c \in Children : Start(c) \/ Waits(c) \/ Expires(c)
SmokeNext == SmokeSteps \/ \E c \in Children : ChildEnds(c)

\* SIPp ends by itself: every command has "-timeout".
SmokeFairness == WF_smokeVars(SmokeSteps) /\ WF_smokeVars(ChildEnds("caller"))

SmokeSpec == SmokeInit /\ [][SmokeNext]_smokeVars /\ SmokeFairness

\* The profile ends with 0 only if nothing went wrong, and then nothing that it
\* started is left.
SmokeTruthful ==
  smokeExit = "0" => ~mishap /\ logged \subseteq {"passed"} /\ children = NoChildren

SmokeEnded == smokeExit # "none"
SmokeEnds == <>SmokeEnded

\* Refuted: the results before an exception may all have passed.
BundleTellsFailure == smokeExit = "1" => "failed" \in logged
\* Refuted: a caller that waits for reports that cannot start is left running.
CallerStopped == smokeExit # "none" => children["caller"] # "running"
=============================================================================
