--------------------------- MODULE MediaNegotiation ---------------------------
(***************************************************************************)
(* What the two parties of a call are told about its audio: the session    *)
(* descriptions that the B2BUA takes in, rewrites and sends, with the      *)
(* internal media server or with RTPengine, for the INVITE and for the     *)
(* re-INVITEs and UPDATEs that follow.                                     *)
(*                                                                         *)
(* A description is its audio line: payload types, which of them an rtpmap *)
(* describes, the profile, whether ICE, DTLS and other attributes of WebRTC *)
(* are left, whether a=rtcp is there, whose address it gives, and its      *)
(* direction.  RTPengine and the phones are the environment.               *)
(***************************************************************************)
EXTENDS Integers, Sequences, FiniteSets, SequencesExt

CONSTANTS
  Settings,     \* the configurations: backend, default, g711, plain, explicit
  Offers,       \* what a phone may offer: sequences of payload types
  Event,        \* the payload type the phones use for telephone-event
  NoEvent,
  Renegotiates, \* a refresh may offer other payload types than the INVITE
  MaxRefreshes  \* bound: re-INVITEs and UPDATEs

PCMU == 0
PCMA == 8
Supported == {PCMU, PCMA}
Static(pt) == pt < 96

ASSUME NegotiationAssumption ==
  /\ \A s \in Settings :
       /\ s.backend \in {"internal", "rtpengine"} /\ s.default \in Supported
       /\ s.g711 \in BOOLEAN /\ s.plain \in BOOLEAN /\ s.explicit \in BOOLEAN
  /\ Offers \subseteq Seq(Nat) /\ Event \in Nat /\ NoEvent \notin Nat
  /\ Renegotiates \in BOOLEAN /\ MaxRefreshes \in Nat

VARIABLES
  setting,  \* the configuration of the server
  stage,    \* what the call waits for
  offer,    \* A's last offer
  offerToB,      \* the offer B got for it
  answerOfB,    \* B's answer
  answerToA,      \* inbound_answer_sdp: the answer A got
  policy,   \* the codec policy RTPengine was given for the offer
  relay,    \* preferred_payload of the inbound and the outbound RtpSession
  first,    \* A's first offer, as far as its payload types go
  refreshes

negotiationVars == <<setting, stage, offer, offerToB, answerOfB, answerToA, policy, relay, first, refreshes>>

(***************************************************************************)
(* Descriptions                                                            *)
(***************************************************************************)
\* No description at all.
None == [codecs |-> << >>, maps |-> {}, proto |-> "RTP/AVP", webrtc |-> FALSE, rtcp |-> FALSE,
         addr |-> "nobody", dir |-> "sendrecv"]
Audio(s) == s.codecs # << >>

Parsed(s) == IF Audio(s) THEN s.codecs ELSE <<PCMU, PCMA>>
EventOf(s) == IF Event \in s.maps THEN Event ELSE NoEvent

\* The payload types of a list that are in a set, in the list's order.
Only(codecs, set) ==
  LET upTo[n \in 0 .. Len(codecs)] ==
        IF n = 0 THEN << >>
        ELSE IF codecs[n] \in set THEN Append(upTo[n - 1], codecs[n]) ELSE upTo[n - 1]
  IN upTo[Len(codecs)]
SupportedIn(codecs) == Only(codecs, Supported)

MutantChoose(remote, default) == default
Choose(remote, default) ==
  IF Contains(remote, default) THEN default
  ELSE IF SupportedIn(remote) # << >> THEN Head(SupportedIn(remote)) ELSE PCMU

OutboundOffer(remote, inbound, outbound) ==
  IF outbound # inbound THEN <<outbound>> ELSE remote

\* g711_sdp_payloads: the default first.
Preferred(remote, default) ==
  Only(<<default>> \o Only(<<PCMU, PCMA>>, Supported \ {default}), ToSet(remote))
G711(remote, default, event) ==
  (IF Preferred(remote, default) = << >> THEN <<Choose(remote, default)>>
   ELSE Preferred(remote, default))
    \o Only(<<event>>, ToSet(remote))

\* The audio line keeps what is allowed, or all of it if nothing is; the
\* attributes keep what is allowed.
KeptCodecs(s, allowed) ==
  LET kept == Only(s.codecs, ToSet(allowed))
  IN IF kept = << >> THEN s.codecs ELSE kept
Filtered(s, allowed) ==
  [s EXCEPT !.codecs = KeptCodecs(s, allowed), !.maps = @ \cap ToSet(allowed)]
Normalised(s, allowed) ==
  [Filtered(s, allowed) EXCEPT !.proto = "RTP/AVP", !.webrtc = FALSE]

WithRtcp(s) == IF Audio(s) THEN [s EXCEPT !.rtcp = TRUE] ELSE s
Directed(s, dir) == [s EXCEPT !.dir = dir]

\* make_sdp.
Made(pt, event, payloads) ==
  LET codecs == <<pt>> \o Only(payloads, Supported \ {pt})
                  \o (IF event = NoEvent THEN << >> ELSE <<event>>)
  IN [None EXCEPT !.codecs = codecs, !.maps = ToSet(codecs), !.rtcp = TRUE, !.addr = "sbc"]

NoPolicy == [mask |-> {}, transcode |-> << >>]
Policy(remote, target) ==
  IF SupportedIn(remote) = << >> \/ Contains(remote, target) THEN NoPolicy
  ELSE [mask |-> ToSet(SupportedIn(remote)), transcode |-> <<target>>]

Plain(s, allowed) == IF setting.plain THEN Normalised(s, allowed) ELSE s
Explicit(s) == IF setting.explicit THEN WithRtcp(s) ELSE s

(***************************************************************************)
(* RTPengine and the phones                                                *)
(***************************************************************************)
Described(codecs) == [None EXCEPT !.codecs = codecs, !.maps = ToSet(codecs)]
Phone(codecs, who, webrtc, dir) ==
  [Described(codecs) EXCEPT !.addr = who, !.webrtc = webrtc, !.dir = dir,
                            !.proto = IF webrtc THEN "UDP/TLS/RTP/SAVPF" ELSE "RTP/AVP"]

Masked(s, p) == Only(s.codecs, ToSet(s.codecs) \ p.mask)

\* What B is offered: the masked codecs hidden, the transcoded ones added.
EngineOffer(s, p) ==
  [s EXCEPT !.codecs = Masked(s, p) \o p.transcode,
            !.maps = (@ \ p.mask) \cup ToSet(p.transcode), !.addr = "engine", !.rtcp = TRUE]

\* What A is answered: what B accepted of A's codecs, or A's own if B takes a
\* transcoded one.
EngineAnswer(s, p, offered) ==
  LET taken == Only(offered.codecs, ToSet(s.codecs))
      codecs == IF \E pt \in ToSet(p.transcode) : Contains(s.codecs, pt)
                THEN Only(offered.codecs, p.mask \cup ToSet(taken))
                ELSE taken
  IN [s EXCEPT !.codecs = codecs, !.maps = ToSet(codecs), !.addr = "engine", !.rtcp = TRUE]

Reply(dir) ==
  IF dir = "sendrecv" THEN "sendrecv" ELSE IF dir = "sendonly" THEN "recvonly" ELSE dir

\* B takes some of what it is offered, in that order.
Answers(s) ==
  {Phone(Only(s.codecs, taken), "B", s.webrtc, Reply(s.dir)) :
     taken \in SUBSET ToSet(s.codecs) \ {{}}}

(***************************************************************************)
(* The INVITE                                                              *)
(***************************************************************************)
\* A calls, with a description or without.
Call ==
  /\ stage = "idle"
  /\ \E codecs \in Offers, webrtc \in BOOLEAN :
       offer' = IF codecs = << >> THEN None ELSE Phone(codecs, "A", webrtc, "sendrecv")
  /\ first' = offer'.codecs /\ stage' = "offered"
  /\ UNCHANGED <<setting, offerToB, answerOfB, answerToA, policy, relay, refreshes>>

\* handle_b2bua_invite up to send_outbound_invite.
InternalOffer ==
  /\ stage = "offered" /\ refreshes = 0 /\ setting.backend = "internal"
  /\ LET remote == Parsed(offer)
         inbound == Choose(remote, PCMU)
         outbound == setting.default
     IN /\ relay' = [inbound |-> inbound, outbound |-> outbound]
        /\ offerToB' = Made(outbound, EventOf(offer), OutboundOffer(remote, inbound, outbound))
  /\ stage' = "ringing"
  /\ UNCHANGED <<setting, offer, answerOfB, answerToA, policy, first, refreshes>>

\* The answer of the internal server: one codec of its own choice.
InternalAnswer ==
  /\ stage = "answered" /\ refreshes = 0 /\ setting.backend = "internal"
  /\ relay' = [relay EXCEPT !.outbound = Choose(Parsed(answerOfB), @)]
  /\ answerToA' = Made(relay.inbound, EventOf(offer), << >>)
  /\ stage' = "up"
  /\ UNCHANGED <<setting, offer, offerToB, answerOfB, policy, first, refreshes>>

\* What is offered to RTPengine: the payload types of A's offer, clamped, and
\* the description with them.
Clamped ==
  IF setting.g711
  THEN Filtered(offer, G711(Parsed(offer), setting.default, EventOf(offer)))
  ELSE offer
ToEngine == IF Parsed(Clamped) # Parsed(offer) THEN Clamped ELSE offer

\* handle_b2bua_invite_rtpengine up to the INVITE to B.
OfferOfEngine ==
  /\ stage = "offered" /\ refreshes = 0 /\ setting.backend = "rtpengine" /\ Audio(offer)
  /\ LET remote == Parsed(ToEngine)
         asked == Explicit(Plain(ToEngine, remote))
     IN /\ policy' = Policy(remote, setting.default)
        /\ offerToB' = Explicit(Plain(EngineOffer(asked, policy'), remote))
  /\ stage' = "ringing"
  /\ UNCHANGED <<setting, offer, answerOfB, answerToA, relay, first, refreshes>>

\* RTPengine refuses an empty description: 488.
OfferRefused ==
  /\ stage = "offered" /\ setting.backend = "rtpengine" /\ ~Audio(offer)
  /\ stage' = "over"
  /\ UNCHANGED <<setting, offer, offerToB, answerOfB, answerToA, policy, relay, first, refreshes>>

\* B's answer, through RTPengine, to A.
AnswerOfEngine(s) == Plain(EngineAnswer(s, policy, ToEngine), Parsed(ToEngine))

BodyOfB == Explicit(Plain(answerOfB, G711(Parsed(answerOfB), setting.default, EventOf(answerOfB))))

EngineAnswers ==
  /\ stage = "answered" /\ refreshes = 0 /\ setting.backend = "rtpengine"
  /\ answerToA' = Explicit(AnswerOfEngine(BodyOfB))
  /\ stage' = "up"
  /\ UNCHANGED <<setting, offer, offerToB, answerOfB, policy, relay, first, refreshes>>

\* The environment: B answers, or it has no codec in common and refuses.
BTakes ==
  /\ stage = "ringing" /\ answerOfB' \in Answers(offerToB) /\ stage' = "answered"
  /\ UNCHANGED <<setting, offer, offerToB, answerToA, policy, relay, first, refreshes>>

BDeclines ==
  /\ stage = "ringing"
  /\ stage' = (IF refreshes = 0 THEN "over" ELSE "up")
  /\ UNCHANGED <<setting, offer, offerToB, answerOfB, answerToA, policy, relay, first, refreshes>>

(***************************************************************************)
(* A re-INVITE or UPDATE                                                   *)
(***************************************************************************)
\* One without audio is a 488 before anything else and is left out.
Refresh ==
  /\ stage = "up" /\ refreshes < MaxRefreshes /\ Audio(offer)
  /\ \E codecs \in Offers \ {<< >>}, dir \in {"sendrecv", "sendonly", "inactive"} :
       /\ ~Renegotiates => codecs = first
       /\ offer' = Phone(codecs, "A", offer.webrtc, dir)
  /\ stage' = "offered" /\ refreshes' = refreshes + 1
  /\ UNCHANGED <<setting, offerToB, answerOfB, answerToA, policy, relay, first>>

\* With the internal server A's description goes to B as it is.
RefreshRelayed ==
  /\ stage = "offered" /\ refreshes > 0 /\ setting.backend = "internal"
  /\ offerToB' = offer /\ stage' = "ringing"
  /\ UNCHANGED <<setting, offer, answerOfB, answerToA, policy, relay, first, refreshes>>

RefreshOfEngine ==
  /\ stage = "offered" /\ refreshes > 0 /\ setting.backend = "rtpengine"
  /\ policy' = Policy(Parsed(offer), setting.default)
  /\ offerToB' = EngineOffer(Plain(offer, Parsed(offer)), policy')
  /\ stage' = "ringing"
  /\ UNCHANGED <<setting, offer, answerOfB, answerToA, relay, first, refreshes>>

\* A gets its last answer with the direction of B's.
AnsweredAgain(s) == Directed(s, answerOfB.dir)

RefreshAnswered ==
  /\ stage = "answered" /\ refreshes > 0 /\ setting.backend = "internal"
  /\ answerToA' = AnsweredAgain(answerToA) /\ stage' = "up"
  /\ UNCHANGED <<setting, offer, offerToB, answerOfB, policy, relay, first, refreshes>>

\* An UPDATE's answer is normalised once more, a re-INVITE's is not.
EngineAnswersRefresh ==
  /\ stage = "answered" /\ refreshes > 0 /\ setting.backend = "rtpengine"
  /\ LET body == Plain(answerOfB, Parsed(answerOfB))
     IN answerToA' \in {EngineAnswer(body, policy, offer),
                  Plain(EngineAnswer(body, policy, offer), Parsed(offer))}
  /\ stage' = "up"
  /\ UNCHANGED <<setting, offer, offerToB, answerOfB, policy, relay, first, refreshes>>

NegotiationRest ==
  /\ setting = (CHOOSE s \in Settings : TRUE) /\ stage = "idle" /\ refreshes = 0 /\ first = << >>
  /\ offer = None /\ offerToB = None /\ answerOfB = None /\ answerToA = None
  /\ policy = NoPolicy /\ relay = [inbound |-> PCMU, outbound |-> PCMU]

NegotiationInit ==
  /\ setting \in Settings /\ stage = "idle" /\ refreshes = 0 /\ first = << >>
  /\ offer = None /\ offerToB = None /\ answerOfB = None /\ answerToA = None
  /\ policy = NoPolicy /\ relay = [inbound |-> PCMU, outbound |-> PCMU]

NegotiationNext ==
  \/ Call \/ InternalOffer \/ InternalAnswer \/ OfferOfEngine \/ OfferRefused \/ EngineAnswers
  \/ BTakes \/ BDeclines
  \/ Refresh \/ RefreshRelayed \/ RefreshOfEngine \/ RefreshAnswered \/ EngineAnswersRefresh

NegotiationSpec == NegotiationInit /\ [][NegotiationNext]_negotiationVars

(***************************************************************************)
(* Properties                                                              *)
(***************************************************************************)

NegotiationTypeOK ==
  /\ setting \in Settings
  /\ stage \in {"idle", "offered", "ringing", "answered", "up", "over"}
  /\ relay.inbound \in Supported /\ relay.outbound \in Supported
  /\ policy.mask \subseteq Supported /\ refreshes \in 0 .. MaxRefreshes

Voice(s) == ToSet(s.codecs) \ {Event}

\* A phone that offered a codec the server knows is answered with codecs it
\* offered, whichever way the description took.
AnswerFitsOffer ==
  stage = "up" /\ Audio(offer) /\ SupportedIn(offer.codecs) # << >>
    => ToSet(answerToA.codecs) \subseteq ToSet(offer.codecs)

\* Once the two parties talk, each codec B may send is one A takes, or one that
\* the server or RTPengine turns into one A takes.
CodecsMeet ==
  stage = "up" /\ refreshes = 0 /\ Voice(answerOfB) # {} /\ SupportedIn(first) # << >> =>
    IF setting.backend = "internal"
    THEN Contains(answerToA.codecs, relay.inbound) /\ Contains(answerOfB.codecs, relay.outbound)
    ELSE Voice(answerOfB) \subseteq Voice(answerToA) \cup ToSet(policy.transcode)

\* B hears of its peer's hold, and A of B's answer to it; a later refresh brings
\* the audio back in both directions.
HoldMirrored ==
  stage = "up" /\ Audio(answerToA) => answerToA.dir = answerOfB.dir

\* With RTPengine no party is ever given the other's address, nor attributes of
\* WebRTC when RTP is to be plain.
MediaAnchored ==
  setting.backend = "rtpengine" =>
    /\ offerToB.addr # "A" /\ answerToA.addr # "B"
    /\ setting.plain => ~offerToB.webrtc /\ ~answerToA.webrtc /\ {offerToB.proto, answerToA.proto} = {"RTP/AVP"}

(***************************************************************************)
(* Properties of the documents that the code does not meet                 *)
(***************************************************************************)

\* docs/EVOLUTION_PLAN.md:22, "G.711 transcoding": B is offered a voice codec
\* whenever A offered one.  normalize_plain_rtp_sdp takes the transcoded codec
\* out again, which A did not offer.
VoiceOffered ==
  stage = "ringing" /\ SupportedIn(offer.codecs) # << >> => Voice(offerToB) # {}

\* mini_call_server.py normalize_plain_rtp_sdp: "for legacy SIP phone RTP/AVP
\* interop": a payload type that needs an rtpmap keeps it on the way to
\* RTPengine.  Of an answer without G.711 it takes the rtpmap only.
StillDescribed ==
  stage = "answered" /\ refreshes = 0 =>
    \A pt \in ToSet(BodyOfB.codecs) : pt \in BodyOfB.maps \/ Static(pt)

\* docs/BUSINESS_CALLING_SERVICES.md:14: hold and resume "updates the existing
\* internal or RTPengine media": B is not told to send to A itself.
AnchoredByServer == offerToB.addr # "A"

\* rtpengine_g711_only: B is offered G.711 only, in a re-INVITE too.
ClampedAlways ==
  setting.g711 /\ setting.backend = "rtpengine" /\ SupportedIn(offer.codecs) # << >>
    /\ stage = "ringing" => Voice(offerToB) \subseteq Supported
=============================================================================
