------------------------------- MODULE MCMedia -------------------------------
(***************************************************************************)
(* What calls hold on a node: their admission slots, their sessions with   *)
(* the ports and bridges, and the relay of one stream.  The three share no *)
(* state, so a behaviour moves one of them.                                *)
(***************************************************************************)
EXTENDS MCB2BUACall, MediaSessions, RtpRelay

CONSTANTS m1, m2, m3, m4

VARIABLE focus

MCCallers == {m1, m2, m3, m4}

MCInit ==
  /\ focus \in {"calls", "sessions", "relay"}
  /\ Init /\ MediaInit /\ RelayInit
  /\ focus # "relay" => source.first = 0

CallStep == Next /\ UNCHANGED <<mediaVars, relayVars, focus>>
MediaStep == MediaNext /\ UNCHANGED <<vars, relayVars, focus>>
RelayStep == RelayNext /\ UNCHANGED <<vars, mediaVars, focus>>

MCNext ==
  \/ focus = "calls" /\ CallStep
  \/ focus = "sessions" /\ MediaStep
  \/ focus = "relay" /\ RelayStep

MCSpec == MCInit /\ [][MCNext]_<<vars, mediaVars, relayVars, focus>>

\* The types of the sessions and of the relay; in them that the jitter buffer
\* counts each packet as new or as a duplicate.
MediaTypesOK == MediaTypeOK /\ RelayTypeOK

\* What the relay reports and sends is true of the stream it received, though
\* packets are lost, repeated and reordered and numbers wrap: its loss count is
\* right but for late packets, a press is recorded once and leaves under one
\* timestamp.
RelaySafe == LossBounds /\ DigitOnce /\ OneStamp
=============================================================================
