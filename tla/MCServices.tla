------------------------------ MODULE MCServices ------------------------------
(***************************************************************************)
(* The services around a call in one run: the control of RTPengine, the    *)
(* session descriptions the parties get, the transfer of an answered call, *)
(* a call to the AI gateway and the reliable provisional responses of an   *)
(* INVITE.                                                                 *)
(* They share no state, so a behaviour moves one of them.                  *)
(***************************************************************************)
EXTENDS RtpengineControl, MediaNegotiation, Transfer, AiVoice, ReliableProvisional

VARIABLE focus

allVars == <<controlVars, negotiationVars, transferVars, aiVars, relVars>>

\* Every configuration in which plain RTP comes with the clamp to G.711, as it
\* does in each of the repository's value files.
MCSettings ==
  {s \in [backend : {"internal", "rtpengine"}, default : {PCMU, PCMA}, g711 : BOOLEAN,
          plain : BOOLEAN, explicit : BOOLEAN] : s.plain => s.g711}
\* No description; G.711 alone, with telephone-event, or with a codec the server
\* does not know; and that one alone.
MCOffers == {<< >>, <<0>>, <<8>>, <<0, 8>>, <<8, 101>>, <<96, 0, 101>>, <<96, 101>>, <<96>>}

MCInit ==
  /\ focus \in {"rtpengine", "negotiation", "transfer", "ai", "prack"}
  /\ ControlInit /\ TransferInit /\ AiInit /\ RelInit
  /\ IF focus = "negotiation" THEN NegotiationInit ELSE NegotiationRest

ControlStep ==
  ControlNext /\ UNCHANGED <<negotiationVars, transferVars, aiVars, relVars, focus>>
NegotiationStep ==
  NegotiationNext /\ UNCHANGED <<controlVars, transferVars, aiVars, relVars, focus>>
TransferStep ==
  TransferNext /\ UNCHANGED <<negotiationVars, controlVars, aiVars, relVars, focus>>
AiStep ==
  AiNext /\ UNCHANGED <<negotiationVars, controlVars, transferVars, relVars, focus>>
RelStep ==
  RelNext /\ UNCHANGED <<negotiationVars, controlVars, transferVars, aiVars, focus>>

MCNext ==
  \/ focus = "rtpengine" /\ ControlStep
  \/ focus = "negotiation" /\ NegotiationStep
  \/ focus = "transfer" /\ TransferStep
  \/ focus = "ai" /\ AiStep
  \/ focus = "prack" /\ RelStep

\* Each part's own fairness; the actions it names are disabled at rest.
MCSpec ==
  /\ MCInit /\ [][MCNext]_<<allVars, focus>>
  /\ ControlFairness /\ TransferFairness /\ AiFairness

\* An answered call has its media in RTPengine whatever commands were lost,
\* retried or carried out late, and when none was, a call that is over has no
\* session there although the hangup may come during the ANSWER.
ControlSafe == ControlTypeOK /\ AnsweredHasMedia /\ SessionReleased

\* That, and whatever the server or RTPengine rewrites: A is answered with
\* codecs it offered, neither party sends a codec that nothing turns into one
\* the other takes, a hold is mirrored and taken back, and RTPengine stays in
\* between.
MediaSafe ==
  ControlSafe /\ NegotiationTypeOK /\ AnswerFitsOffer /\ CodecsMeet /\ HoldMirrored /\ MediaAnchored

\* A PRACK goes to the fork whose response A acknowledged, and one that rings
\* alone gets each of them.
PracksSafe == RelTypeOK /\ PrackTrue /\ AloneAcknowledged

\* An answer that arrives when an AI call has ended is neither spoken nor
\* obeyed, what is spoken as the bot's answer is its whole stream, and a call
\* whose dialog is over has given back its slot.
AiSafe == AiTypeOK /\ NoStaleAnswer /\ WholeAnswers /\ SlotFollowsDialog

=============================================================================
