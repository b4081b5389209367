------------------------------- MODULE RtpRelay -------------------------------
(***************************************************************************)
(* One direction of a relayed call: RtpProtocol.datagram_received and      *)
(* _relay_packet with their DTMF events, the sender reports of             *)
(* RtcpProtocol, and the RtpJitterBuffer that measures the stream.  The    *)
(* network loses, repeats and reorders packets; sequence numbers start     *)
(* anywhere and wrap.                                                      *)
(***************************************************************************)
EXTENDS Integers, FiniteSets

CONSTANTS
  SeqMod,      \* RTP_SEQUENCE_MODULO
  TsMod,       \* 2^32
  Lead,        \* ticks of an event's timestamp ahead of the audio
  MaxLate,     \* max_late_sequence_window
  Digits,      \* DTMF events
  MaxPackets,  \* bound: packets of the source
  MaxPresses,  \* bound: keys pressed
  MaxFlight    \* bound: packets in the network

ASSUME RelayAssumption ==
  /\ SeqMod \in Nat \ {0} /\ TsMod \in Nat \ {0} /\ Lead \in Nat /\ MaxLate \in Nat
  /\ MaxPackets \in Nat /\ MaxPackets < SeqMod \div 2 /\ MaxPresses \in Nat /\ MaxFlight \in Nat
  /\ Digits # {}

VARIABLES
  source,   \* the phone: packets and key presses so far, and its last key
  net,      \* packets under way
  jitter,   \* RtpJitterBuffer
  dtmf,     \* dtmf_events_completed, dtmf_events, dtmf_relay_timestamps
  out,      \* sequence and timestamp of the peer session
  stamps    \* history: the timestamps each press left with

relayVars == <<source, net, jitter, dtmf, out, stamps>>

None == -1
HalfRange == SeqMod \div 2

Packet == [nr : 0..MaxPackets, press : 0..MaxPresses, digit : Digits, end : BOOLEAN,
           duration : 0..2]
IsEvent(p) == p.press > 0
SeqOf(p) == (source.first + p.nr) % SeqMod

(***************************************************************************)
(* The phone and the network.                                              *)
(***************************************************************************)

\* The next packet, of the key that is held or released now if press > 0.
Emits(to, press, end) ==
  /\ source.sent < MaxPackets /\ Cardinality(net) < MaxFlight
  /\ source' = [to EXCEPT !.sent = @ + 1]
  /\ net' = net \cup {[nr |-> source.sent, press |-> press, digit |-> to.digit,
                       end |-> end, duration |-> IF end THEN to.duration ELSE 0]}
  /\ UNCHANGED <<jitter, dtmf, out, stamps>>

Talk == source.key # "down" /\ Emits([source EXCEPT !.key = "none"], 0, FALSE)

Press(d) ==
  /\ source.presses < MaxPresses /\ source.key # "down"
  /\ Emits([source EXCEPT !.presses = @ + 1, !.key = "down", !.digit = d,
                          !.pressed[d] = @ + 1],
           source.presses + 1, FALSE)

\* The end of an event is sent more than once, with the same duration.
Release ==
  \/ /\ source.key = "down"
     /\ \E n \in 1..2 :
          Emits([source EXCEPT !.key = "up", !.duration = n], source.presses, TRUE)
  \/ source.key = "up" /\ Emits(source, source.presses, TRUE)

Lose(p) == net' = net \ {p} /\ UNCHANGED <<source, jitter, dtmf, out, stamps>>

(***************************************************************************)
(* RtpJitterBuffer._observe_sequence.                                      *)
(***************************************************************************)
Delta(seq) == (seq - jitter.expected) % SeqMod

MutantAhead(delta, seq) ==
  [jitter EXCEPT !.expected = (seq + 1) % SeqMod, !.loss = @ + delta,
                 !.gaps = IF delta > 0 THEN @ + 1 ELSE @, !.counted = @ + delta]
Ahead(delta, seq) ==
  [jitter EXCEPT !.expected = (seq + 1) % SeqMod, !.loss = @ + delta,
                 !.gaps = IF delta > 0 THEN @ + 1 ELSE @, !.counted = @ + delta + 1]

MutantNoted(seq) == [jitter EXCEPT !.packets = @ + 1]
Noted(seq) == [jitter EXCEPT !.packets = @ + 1, !.seen = @ \cup {seq}]

Behind(seq) == Delta(seq) >= HalfRange

Observed(seq) ==
  IF seq \in jitter.seen
  THEN [jitter EXCEPT !.packets = @ + 1, !.duplicates = @ + 1]
  ELSE IF jitter.expected = None
  THEN [Noted(seq) EXCEPT !.expected = (seq + 1) % SeqMod, !.counted = 1]
  ELSE IF Behind(seq)
  THEN [Noted(seq) EXCEPT !.disordered = @ + 1,
                    !.late = IF (jitter.expected - seq) % SeqMod <= MaxLate
                             THEN @ + 1 ELSE @]
  ELSE [Ahead(Delta(seq), seq) EXCEPT !.packets = Noted(seq).packets,
                                     !.seen = Noted(seq).seen]

(***************************************************************************)
(* handle_dtmf_payload and _relay_packet.                                  *)
(***************************************************************************)
MutantCompleted(p) == FALSE
Completed(p) == <<p.digit, p.duration>> \in dtmf.completed

Recorded(p) ==
  IF p.end /\ ~Completed(p)
  THEN [dtmf EXCEPT !.completed = @ \cup {<<p.digit, p.duration>>},
                    !.recorded[p.digit] = @ + 1]
  ELSE dtmf

\* The timestamp of the first packet relayed for this digit of this source.
MutantStamp(d) == (out.timestamp + Lead) % TsMod
Stamp(d) == IF dtmf.stamp[d] # None THEN dtmf.stamp[d]
            ELSE (out.timestamp + Lead) % TsMod

\* An event has its four bytes: a shorter payload, which is stamped as audio
\* is, is left out.
RelayEvent(p) ==
  LET stamp == Stamp(p.digit) IN
  /\ dtmf' = [Recorded(p) EXCEPT !.stamp[p.digit] = stamp]
  /\ out' = [sequence |-> (out.sequence + 1) % SeqMod,
             timestamp |-> IF p.end THEN (stamp + p.duration) % TsMod ELSE stamp]
  /\ stamps' = stamps \cup {[press |-> p.press, stamp |-> stamp]}

RelayAudio ==
  /\ out' = [sequence |-> (out.sequence + 1) % SeqMod,
             timestamp |-> (out.timestamp + 1) % TsMod]
  /\ UNCHANGED <<dtmf, stamps>>

\* The peer is not known yet: the packet is measured, its digit is recorded,
\* and it goes nowhere.
NotRelayed(p) ==
  /\ dtmf' = IF IsEvent(p) THEN Recorded(p) ELSE dtmf
  /\ UNCHANGED <<out, stamps>>

\* kept: the network delivers a further copy later.
Receive(p, kept) ==
  /\ p \in net
  /\ net' = IF kept THEN net ELSE net \ {p}
  /\ jitter' = Observed(SeqOf(p))
  /\ \/ IF IsEvent(p) THEN RelayEvent(p) ELSE RelayAudio
     \/ out.sequence = 0 /\ NotRelayed(p)
  /\ jitter.packets < MaxPackets
  /\ UNCHANGED source

RelayInit ==
  /\ source \in [first : {0, SeqMod - 2}, sent : {0}, presses : {0}, key : {"none"},
                 digit : {CHOOSE d \in Digits : TRUE}, duration : {0},
                 pressed : {[d \in Digits |-> 0]}]
  /\ net = {}
  /\ jitter = [expected |-> None, seen |-> {}, packets |-> 0, counted |-> 0, loss |-> 0,
               gaps |-> 0, disordered |-> 0, late |-> 0, duplicates |-> 0]
  /\ dtmf = [completed |-> {}, recorded |-> [d \in Digits |-> 0],
             stamp |-> [d \in Digits |-> None]]
  /\ out = [sequence |-> 0, timestamp |-> TsMod - 1]
  /\ stamps = {}

RelayNext ==
  \/ Talk \/ (\E d \in Digits : Press(d)) \/ Release
  \/ \E p \in net : Lose(p) \/ \E kept \in BOOLEAN : Receive(p, kept)

RelaySpec == RelayInit /\ [][RelayNext]_relayVars

(***************************************************************************)
(* Properties                                                              *)
(***************************************************************************)

RelayTypeOK ==
  /\ net \subseteq Packet
  /\ jitter.expected \in {None} \cup 0..SeqMod - 1
  /\ jitter.seen \subseteq 0..SeqMod - 1
  /\ jitter.packets = jitter.duplicates + Cardinality(jitter.seen)
  /\ jitter.late <= jitter.disordered
  /\ out \in [sequence : 0..SeqMod - 1, timestamp : 0..TsMod - 1]

\* The numbers of the stream that were skipped and never came.
Missing == {k \in 1..jitter.counted :
              (jitter.expected + SeqMod - k) % SeqMod \notin jitter.seen}

\* The loss that CALL SUMMARY and the MOS report is the truth but for packets
\* that came late: whatever was lost is counted, and nothing else but those.
\* Holds while numbers wrap, for a stream shorter than one cycle of them.
LossBounds ==
  /\ Cardinality(Missing) <= jitter.loss
  /\ jitter.loss <= Cardinality(Missing) + jitter.disordered
  /\ jitter.gaps <= jitter.loss

\* A digit is recorded once for a press, although its end is sent several
\* times and the network repeats packets.
DigitOnce == \A d \in Digits : dtmf.recorded[d] <= source.pressed[d]

\* All packets of one press leave with one timestamp, whatever audio and which
\* of its copies come in between: the receiver hears one event.
OneStamp == \A a, b \in stamps : a.press = b.press => a.stamp = b.stamp

\* Two presses are two events.  The timestamp of a digit is kept for the whole
\* call, so the second press of a key repeats that of the first.
DistinctStamps == \A a, b \in stamps : a.stamp = b.stamp => a.press = b.press
=============================================================================
