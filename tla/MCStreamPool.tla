---------------------------- MODULE MCStreamPool ----------------------------
(***************************************************************************)
(* The transport in three parts that share no state: the pool of streams   *)
(* with its senders and DNS, the bytes of one stream, and the process with *)
(* its certificate.  A behaviour moves one of them.                        *)
(***************************************************************************)
EXTENDS StreamPool, Framing, Node

CONSTANTS s1, s2, k1, k2, h1, h2, a1, a2

VARIABLE focus

\* Two records of different priority, two of one priority of which one has no
\* weight, and no record; a1 is the address of a host and a destination.
Srv(h, p, w) == [host |-> h, priority |-> p, weight |-> w]
MCZones == {{Srv(h1, 1, 1), Srv(h2, 2, 2)}, {Srv(h1, 1, 0), Srv(h2, 1, 1)}, {}}
MCAddressesOf == [h \in {h1, h2, NoHost} |-> IF h = h2 THEN <<a2>> ELSE <<a1>>]
MCSenders == {s1, s2}
MCConnections == {k1, k2}
MCDestination == [s \in MCSenders |-> IF s = s2 THEN a1 ELSE Domain]
MCSameDestination == [s \in MCSenders |-> Domain]

\* The pool holds exactly the connections that are not closed and no key leads
\* out of it, in whichever order connections are made, refused and lost while
\* tasks wait: no slot leaks and nothing is sent into a closed stream.  And
\* whatever lookups overlap, with DNS changing between them, addresses are
\* tried in SRV order, and none that DNS gave more than cache_ttl ago.
SendsSafe == PoolExact /\ KeysInPool /\ CacheAge /\ SrvOrder

\* Messages with bodies that look like other messages' ends, keepalives,
\* headers that are too long and lengths that are wrong, in a row.
MCDeclared == [len0 |-> 0, len2 |-> 2]
MCMessages ==
  {<<"text", "crlf", "len2", "crlf", "crlf", "crlf", "crlf">>,
   <<"status", "crlf", "odd", "crlf", "crlf">>, <<"status", "crlf", "crlf">>,
   <<"crlf", "crlf">>, <<"crlf">>,
   <<"text", "crlf", "bad", "crlf", "crlf">>, <<"odd", "crlf", "crlf">>,
   <<"text", "crlf", "odd", "crlf", "crlf">>,
   <<"text", "text", "text", "text", "text", "crlf", "crlf">>,
   <<"text", "crlf", "len0", "crlf", "len2", "crlf", "crlf">>}
MCStreams == {a \o b : a, b \in MCMessages}

focusVars == <<poolVars, framingVars, nodeVars, focus>>

FocusInit ==
  \/ focus = "pool" /\ PoolInit /\ FramingRest /\ NodeInit
  \/ focus = "framing" /\ PoolRest /\ FramingInit /\ NodeInit
  \/ focus = "node" /\ PoolRest /\ FramingRest /\ NodeInit

FocusNext ==
  \/ focus = "pool" /\ PoolNext /\ UNCHANGED <<framingVars, nodeVars, focus>>
  \/ focus = "framing" /\ FramingNext /\ UNCHANGED <<poolVars, nodeVars, focus>>
  \/ focus = "node" /\ NodeNext /\ UNCHANGED <<poolVars, framingVars, focus>>

FocusSpec ==
  /\ FocusInit /\ [][FocusNext]_focusVars
  /\ \A s \in Senders : WF_poolVars(focus = "pool" /\ SendTask(s))
  /\ WF_nodeVars(focus = "node" /\ Load) /\ WF_nodeVars(focus = "node" /\ Reload)
  /\ SF_nodeVars(focus = "node" /\ Listen /\ phase' = "listening")
  /\ WF_nodeVars(focus = "node" /\ RotateKey)

\* The listener serves the certificate that was issued last in the end, and on
\* the way never one that is older than what the reload task has seen.
ListenerRotated == focus = "node" => RotationSeen
CertificateServed == [](ReloadCurrent /\ ListenerRotated)

\* The same for the connections that the node opens, which keep their first
\* certificate: docs/PROTOCOL_CORE_LAYER2.md:23-24 makes no difference.
ConnectorRotated == focus = "node" => OutboundRotated
=============================================================================
