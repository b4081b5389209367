-------------------------- MODULE MCCallAdmission --------------------------
(***************************************************************************)
(* The way of an INVITE, in one run: the name it is for, under the rules   *)
(* of forwarding, the capacity its call takes, the hosts its requests go   *)
(* to, and the timer of the session it opens.  A behaviour moves one of    *)
(* the four.                                                               *)
(***************************************************************************)
EXTENDS CallAdmission, CallForwarding, DialogRoute, SessionTimer, TLC

CONSTANTS t1, t2, n1, n2

VARIABLE focus

\* Two INVITEs of one source, and of a trusted source an OPTIONS with
\* Resource-Priority, which passes the gate when an INVITE does not.
Ordinary(n) == [id |-> n, source |-> "a", realm |-> "r", user |-> "u",
                method |-> "INVITE", priority |-> FALSE]
Trusted(n, m) == [id |-> n, source |-> "b", realm |-> "r", user |-> "v",
                  method |-> m, priority |-> TRUE]
MCRequests == {Ordinary(1), Ordinary(2), Trusted(3, "OPTIONS")}
MCTrunks == {t1, t2}
MCMembers == <<t1, t2>>
MCRank == (t1 :> 1) @@ (t2 :> 2)
MCOneEach == [t \in MCTrunks |-> 1]
MCProbed == {t1}
MCNoRate == [d \in {"source", "realm", "subscriber", "method", "registration",
                    "invite"} |-> 0]
MCRates == [MCNoRate EXCEPT !["invite"] = 1]

\* Three names of which one is diverted when it is busy or silent; what can be
\* dialled is what is registered, or one number is written in two ways.
MCNames == 1 .. 3
MCDiverted == {1}
MCSeveralDiverted == {1, 2}
MCNormal == [n \in MCNames |-> n]
MCTwoWays == [n \in MCNames |-> IF n = 3 THEN 1 ELSE n]
MCNodes == {n1, n2}

\* Phones and proxies: loose and strict routers in either order, one route that
\* ends in a loose one, and a phone behind a private address.
Uri(host, lr, tcp) == [host |-> host, lr |-> lr, tcp |-> tcp]
MCContacts == {Uri("phone", FALSE, FALSE), Uri("private", FALSE, FALSE)}
MCTargets == {Uri("registered", FALSE, FALSE), Uri("private", FALSE, TRUE)}
MCRecords == {<< >>, <<Uri("p1", TRUE, FALSE), Uri("p2", FALSE, TRUE)>>,
              <<Uri("p1", FALSE, FALSE), Uri("p2", TRUE, TRUE)>>,
              <<Uri("p2", TRUE, TRUE), Uri("p1", TRUE, FALSE)>>}
MCPaths == {<< >>, <<Uri("p1", FALSE, FALSE)>>}
MCProxies == UNION {Range(r) : r \in MCRecords \cup MCPaths}

\* Two views of the capacity: INVITEs whose handlers overlap while no probe is
\* due, and probes beside one INVITE at a time.
Overlapping == UNCHANGED probe
Probing == Cardinality({c \in Calls : calls'[c].stage \in Awaiting}) <= 1

MCInit ==
  /\ focus \in {"capacity", "probes", "forwarding", "session", "routes"}
  /\ Init /\ SessionInit /\ RouteInit
  /\ IF focus = "forwarding" THEN ForwardInit ELSE ForwardRest

MCNext ==
  \/ focus = "capacity" /\ Next /\ Overlapping /\ UNCHANGED <<forwardVars, sessionVars, hopVars, focus>>
  \/ focus = "probes" /\ Next /\ Probing /\ UNCHANGED <<forwardVars, sessionVars, hopVars, focus>>
  \/ focus = "forwarding" /\ ForwardNext /\ UNCHANGED <<vars, sessionVars, hopVars, focus>>
  \/ focus = "session" /\ SessionNext /\ UNCHANGED <<vars, forwardVars, hopVars, focus>>
  \/ focus = "routes" /\ RouteNext /\ UNCHANGED <<vars, forwardVars, sessionVars, focus>>

\* The probe loops and the timers run, and time passes.
MCSpec ==
  /\ MCInit /\ [][MCNext]_<<vars, forwardVars, sessionVars, hopVars, focus>>
  /\ \A t \in Trunks :
       /\ WF_vars(focus = "probes" /\ ProbeSent(t))
       /\ WF_vars(focus = "probes" /\ \E ok \in BOOLEAN : ProbeEnded(t, ok))
  /\ WF_sessionVars(focus = "session" /\ SessionTick)
  /\ \A n \in Nodes : WF_sessionVars(focus = "session" /\ TaskRuns(n))

\* An INVITE is refused by the forwarding rules exactly when they lead it in a
\* circle or too far, and never offered to a name they lead away from.
ForwardingSafe == ForwardTypeOK /\ RejectedRightly /\ ForwardedNotOffered

\* A session is not hung up by a timer before its interval is over, whichever
\* timers of earlier calls still sleep, and its dialog can be taken over as its
\* owner left it.
TimerSafe == NotHungUpEarly /\ [](SessionTypeOK /\ RowCurrent)

\* A trunk that answers its probes again carries calls again, and a session that
\* nobody refreshes is hung up unless its node dies.
Recovers == (focus # "capacity" => ProbedTrunkRecovers) /\ SessionEnds

\* No slot of the node or of a trunk outlives its call, and what the overload
\* gate counts in flight are the running tasks it admitted, whichever await a
\* call ends in and whoever cleans up, and calls are spread over the trunks of a
\* round-robin group.
SlotsSafe == NeverOvercounted /\ InflightExact /\ RoundRobinSpread
=============================================================================
