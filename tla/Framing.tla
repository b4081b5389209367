-------------------------------- MODULE Framing --------------------------------
(***************************************************************************)
(* The messages of a SIP stream: SipTcpConnectionProtocol cuts what arrives *)
(* in pieces of any size into messages, and receive_sip_data sorts them.   *)
(*                                                                         *)
(* A stream is a sequence of units of one byte each: a line end, the text  *)
(* of a line, a Content-Length line, a line that the parser refuses.       *)
(***************************************************************************)
EXTENDS Integers, Sequences, SequencesExt

CONSTANTS
  Streams,    \* what peers may send
  Declared,   \* the value of each kind of Content-Length line
  MaxHeader,  \* max_header_bytes
  MaxMessage  \* max_message_bytes

CRLF == "crlf"     \* a line end; two of them end the header
Garbled == "bad"   \* a Content-Length that is no number
Odd == "odd"       \* a line that is no header line
Status == "status" \* a status line

ASSUME FramingAssumption ==
  /\ \A s \in Streams : s \in Seq(Range(s))
  /\ MaxHeader \in Nat /\ MaxMessage \in Nat
  /\ \A u \in DOMAIN Declared : Declared[u] \in Nat

VARIABLES
  ahead,     \* what the peer has still to send
  received,  \* what arrived
  buffer,    \* the buffer of the connection
  popped,    \* the messages found by this call of data_received
  scanning,  \* data_received is at work
  link,      \* "open", or how the connection ended
  cause,     \* the buffer that was refused
  handled    \* what became of each message, in order

framingVars == <<ahead, received, buffer, popped, scanning, link, cause, handled>>

(***************************************************************************)
(* One message                                                             *)
(***************************************************************************)
Ends(b) == {i \in 1 .. Len(b) - 1 : b[i] = CRLF /\ b[i + 1] = CRLF}
Terminated(b) == Ends(b) # {}
HeaderLen(b) == (CHOOSE i \in Ends(b) : \A j \in Ends(b) : i <= j) - 1
Header(b) == SubSeq(b, 1, HeaderLen(b))
\* Where the header has a Content-Length line: once at most, and with a number.
LengthLines(b) == {i \in 1 .. HeaderLen(b) : b[i] \in DOMAIN Declared \cup {Garbled}}
Plausible(b) == \A i, j \in LengthLines(b) : i = j /\ b[i] # Garbled
ContentLength(b) ==
  IF LengthLines(b) = {} THEN 0 ELSE Declared[b[CHOOSE i \in LengthLines(b) : TRUE]]
MessageLen(b) == HeaderLen(b) + 2 + ContentLength(b)

\* What _pop_complete_messages refuses at the start of a buffer.
Smaller(x, y) == IF x < y THEN x ELSE y
Broken(b) ==
  IF ~Terminated(b) THEN Len(b) > Smaller(MaxHeader, MaxMessage)
  ELSE \/ HeaderLen(b) + 2 > MaxHeader
       \/ ~Plausible(b)
       \/ Plausible(b) /\ MessageLen(b) > MaxMessage

MutantReady(b) == Terminated(b) /\ ~Broken(b)
Ready(b) == Terminated(b) /\ ~Broken(b) /\ Len(b) >= MessageLen(b)

\* receive_sip_data: what happens to a message.
Keepalive(m) == \A i \in 1 .. Len(m) : m[i] = CRLF
Rejected(m) == Head(m) = CRLF \/ Contains(Header(m), Odd)
Outcomes(m) ==
  IF Keepalive(m) THEN {"ignored"}
  ELSE IF Rejected(m)
       THEN IF Head(m) \in {CRLF, Status} THEN {"dropped"}
            ELSE IF Head(m) = Odd THEN {"dropped", "answered"} ELSE {"answered"}
       ELSE IF Head(m) = Status THEN {"response"} ELSE {"request"}

(***************************************************************************)
(* The connection                                                          *)
(***************************************************************************)
Arrive ==
  /\ link = "open" /\ ~scanning
  /\ \E n \in 1 .. Len(ahead) :
       LET piece == SubSeq(ahead, 1, n)
       IN /\ ahead' = SubSeq(ahead, n + 1, Len(ahead))
          /\ received' = received \o piece /\ buffer' = buffer \o piece
  /\ scanning' = TRUE
  /\ UNCHANGED <<popped, link, cause, handled>>

Pop ==
  /\ scanning /\ Ready(buffer)
  /\ popped' = Append(popped, SubSeq(buffer, 1, Smaller(MessageLen(buffer), Len(buffer))))
  /\ buffer' = SubSeq(buffer, MessageLen(buffer) + 1, Len(buffer))
  /\ UNCHANGED <<ahead, received, scanning, link, cause, handled>>

\* A SipParseError leaves _pop_complete_messages with the messages it found.
Refuse ==
  /\ scanning /\ Broken(buffer)
  /\ cause' = buffer /\ buffer' = << >> /\ popped' = << >>
  /\ scanning' = FALSE /\ link' = "refused"
  /\ UNCHANGED <<ahead, received, handled>>

\* The messages go to receive_sip_data one after the other.
Hand ==
  /\ scanning /\ ~Ready(buffer) /\ ~Broken(buffer) /\ popped # << >>
  /\ \E o \in Outcomes(Head(popped)) :
       handled' = Append(handled, [message |-> Head(popped), outcome |-> o])
  /\ popped' = Tail(popped)
  /\ UNCHANGED <<ahead, received, buffer, scanning, link, cause>>

Done ==
  /\ scanning /\ ~Ready(buffer) /\ ~Broken(buffer) /\ popped = << >>
  /\ scanning' = FALSE
  /\ UNCHANGED <<ahead, received, buffer, popped, link, cause, handled>>

\* The peer half-closes, the connection is lost or idle for too long.
Closed ==
  /\ link = "open" /\ ~scanning
  /\ link' = "closed" /\ buffer' = << >>
  /\ UNCHANGED <<ahead, received, popped, scanning, cause, handled>>

FramingInit ==
  /\ ahead \in Streams
  /\ received = << >> /\ buffer = << >> /\ popped = << >> /\ cause = << >> /\ handled = << >>
  /\ scanning = FALSE /\ link = "open"

FramingRest ==
  /\ ahead = << >>
  /\ received = << >> /\ buffer = << >> /\ popped = << >> /\ cause = << >> /\ handled = << >>
  /\ scanning = FALSE /\ link = "open"

FramingNext == Arrive \/ Pop \/ Refuse \/ Hand \/ Done \/ Closed

FramingSpec == FramingInit /\ [][FramingNext]_framingVars

(***************************************************************************)
(* Properties                                                              *)
(***************************************************************************)
Messages == [i \in DOMAIN handled |-> handled[i].message]

\* However the stream is cut, no byte of it is lost, repeated or moved while
\* the connection is open.
NothingLost ==
  link = "open" => FlattenSeq(Messages) \o FlattenSeq(popped) \o buffer = received

\* What is handed over is a message, neither less nor more, and its body is as
\* long as its header says.
WholeMessages == \A i \in DOMAIN handled : Ready(Messages[i]) /\ MessageLen(Messages[i]) = Len(Messages[i])

\* No message waits in the buffer for bytes that belong to the next one, and
\* the buffer never holds more than one message may have.
NothingWaits ==
  link = "open" /\ ~scanning => ~Ready(buffer) /\ ~Broken(buffer) /\ Len(buffer) <= MaxMessage

\* A stream that is refused before all of it is there deserved it: no bytes
\* that follow make a message of what was refused.
RefusalFinal == link = "refused" => Broken(cause \o ahead)

FramingSafe == NothingLost /\ WholeMessages /\ NothingWaits /\ RefusalFinal

\* docs/PROTOCOL_CORE_LAYER2.md:10-11: "TCP/TLS framing accepts partial and
\* pipelined messages": a message that was complete is handed over, whatever
\* follows it.  One that arrives together with a broken one is lost.
PipelinedHandled == link = "refused" => FlattenSeq(Messages) \o cause = received
=============================================================================
