--------------------------- MODULE Services_proofs ---------------------------
(***************************************************************************)
(* Proofs about the services around a call: the AI gateway, the reliable   *)
(* provisional responses of an INVITE, the transfer of an answered call,   *)
(* the control of RTPengine and the session descriptions.  Each part gives *)
(* its inductive invariant, one lemma per action that can disturb it, and  *)
(* the safety theorem that follows.                                        *)
(*                                                                         *)
(* Four of the theorems have a hypothesis on constants: no RFC 4028        *)
(* session timer, no overtaking of messages, no transfer while another is  *)
(* under way, no refresh that offers other codecs and no plain RTP without *)
(* the clamp to G.711.  With the opposite value the program loses the      *)
(* property, as TLC shows; the hypothesis is where it holds.               *)
(***************************************************************************)
EXTENDS MCServices, WellFoundedInduction, SequenceTheorems, TLAPS

(***************************************************************************)
(* A call to the AI gateway.                                               *)
(***************************************************************************)
AiCalls == [registered : BOOLEAN, finalized : BOOLEAN, slot : BOOLEAN,
            media : BOOLEAN, raised : BOOLEAN]
Turns == [step : {"none", "stt", "collect", "settle", "speak", "done"},
          event : BOOLEAN, waiterDone : BOOLEAN,
          result : {"none", "cancelled", "ok", "error", "timeout"}]
Collectors == [status : {"none", "running", "ok", "error", "cancelled"},
               got : 0 .. MaxChunks, final : BOOLEAN]
Outs == [source : {"none", "answer", "fallback", "no input"}, left : 0 .. MaxChunks + 1,
         actions : BOOLEAN, interrupted : BOOLEAN]
Unspoken == {"stt", "collect", "settle"}

AiTypes ==
  /\ aiCall \in AiCalls /\ turn \in Turns /\ collector \in Collectors /\ out \in Outs
  /\ dialog \in {"INIT", "RINGING", "ANSWERED", "TERMINATED"}

\* Nothing is spoken before the wait is over; a call that ended before then has
\* set the event that Settled looks at; a stream that counts as an answer was
\* complete when its collector ended, and the collector does not run again.
AiInv ==
  /\ AiTypes
  /\ aiCall.slot = aiCall.registered
  /\ aiCall.registered => dialog \in {"RINGING", "ANSWERED", "TERMINATED"}
  /\ ~SessionTimer => SlotFollowsDialog
  /\ turn.step \in Unspoken \cup {"none"} => out.source = "none" /\ ~out.actions
  /\ turn.step \in {"none", "stt"} => collector = [status |-> "none", got |-> 0, final |-> FALSE]
  /\ turn.step = "collect" => collector.status \in {"running", "ok", "error"}
  /\ turn.step = "settle" /\ turn.result = "ok" => collector.status = "ok"
  /\ collector.status = "ok" => Complete
  /\ out.source = "answer" => collector.status = "ok" /\ turn.step \in {"speak", "done"}
  /\ out.actions => out.source = "answer"
  /\ endedAt \in Unspoken => turn.event /\ out.source # "answer"

LEMMA AiInitial == AiInit => AiInv
<1> SUFFICES ASSUME AiInit PROVE AiInv
  OBVIOUS
<1> USE AiAssumption
<1>1. AiTypes
  BY DEF AiInit, AiTypes, AiCalls, Turns, Collectors, Outs
<1> QED
  BY <1>1 DEF AiInit, AiInv, SlotFollowsDialog, Unspoken, Complete

LEMMA Spoken ==
  ASSUME NEW o \in Outs, NEW source \in {"none", "answer", "fallback", "no input"},
         NEW n \in 0 .. MaxChunks + 1
  PROVE  /\ [o EXCEPT !.source = source, !.left = n] \in Outs
         /\ [o EXCEPT !.source = source, !.left = n].actions = o.actions
BY DEF Outs

LEMMA Interruption ==
  ASSUME NEW o \in Outs
  PROVE  /\ [o EXCEPT !.interrupted = TRUE] \in Outs
         /\ [o EXCEPT !.interrupted = TRUE].actions = o.actions
         /\ [o EXCEPT !.interrupted = TRUE].source = o.source
BY DEF Outs

\* One more chunk, or one less to synthesize.
LEMMA Counted ==
  ASSUME AiAssumption
  PROVE  /\ 1 \in 0 .. MaxChunks + 1
         /\ \A n \in 0 .. MaxChunks : /\ n \in 0 .. MaxChunks + 1
                                      /\ n < MaxChunks => n + 1 \in 0 .. MaxChunks
         /\ \A n \in 0 .. MaxChunks + 1 : n > 0 => n - 1 \in 0 .. MaxChunks + 1
BY DEF AiAssumption

LEMMA OutSteps ==
  ASSUME AiTypes, AiAssumption
  PROVE  /\ collector.got \in 0 .. MaxChunks + 1
         /\ SttEnds \/ Settled => out' \in Outs
         /\ Synthesized => /\ out' \in Outs
                           /\ out'.source = out.source /\ out'.actions = out.actions
<1>1. collector.got \in 0 .. MaxChunks /\ collector.got \in 0 .. MaxChunks + 1
  <2>1. collector.got \in 0 .. MaxChunks
    BY DEF AiTypes, Collectors
  <2> QED
    BY <2>1, Counted
<1>2. SttEnds \/ Settled => out' \in Outs
  <2>1. out \in Outs
    BY DEF AiTypes
  <2>2. ASSUME NEW source \in {"none", "answer", "fallback", "no input"},
               NEW n \in 0 .. MaxChunks + 1, Speak(source, n)
        PROVE  out' \in Outs
    BY <2>1, <2>2, Spoken DEF Speak
  <2>3. Interrupted => out' \in Outs
    BY <2>1, Interruption DEF Interrupted
  <2>4. SttEnds => out' \in Outs
    BY <2>1, <2>2, <2>3, Counted DEF SttEnds
  <2>5. Settled => out' \in Outs
    BY <1>1, <2>1, <2>2, <2>3, Counted DEF Settled
  <2> QED
    BY <2>4, <2>5
<1>3. ASSUME Synthesized
      PROVE  /\ out' \in Outs /\ out'.source = out.source /\ out'.actions = out.actions
  <2>1. out.left \in 0 .. MaxChunks + 1
    BY DEF AiTypes, Outs
  <2>2. out.left - 1 \in 0 .. MaxChunks + 1
    BY <1>3, <2>1, Counted DEF Synthesized
  <2>3. out \in Outs /\ out' = [out EXCEPT !.left = out.left - 1]
    BY <1>3 DEF Synthesized, AiTypes
  <2> QED
    BY <2>2, <2>3 DEF Outs
<1> QED
  BY <1>1, <1>2, <1>3

LEMMA Awoken ==
  ASSUME AiTypes, Wake
  PROVE  /\ turn' \in Turns /\ turn'.step = "settle" /\ turn'.event = turn.event
         /\ turn'.result = "ok" => collector.status = "ok"
<1> DEFINE result == CASE turn.waiterDone -> "cancelled"
                       [] ~turn.waiterDone /\ collector.status # "running" -> collector.status
                       [] OTHER -> "timeout"
<1>1. collector.status \in {"none", "running", "ok", "error", "cancelled"}
  BY DEF AiTypes, Collectors
<1>2. turn.waiterDone \in BOOLEAN
  BY DEF AiTypes, Turns
<1>3. /\ result \in {"none", "cancelled", "ok", "error", "timeout"}
      /\ result = "ok" => collector.status = "ok"
  BY <1>1, <1>2
<1>4. turn \in Turns /\ turn' = [turn EXCEPT !.step = "settle", !.result = result]
  BY DEF AiTypes, Wake
<1> HIDE DEF result
<1> QED
  BY <1>3, <1>4 DEF Turns

LEMMA Chunks ==
  ASSUME AiTypes, AiAssumption, NEW expected \in BOOLEAN, NEW final \in BOOLEAN,
         ReceiveChunk(expected, final)
  PROVE  collector' \in Collectors
<1>1. collector.got \in 0 .. MaxChunks /\ collector \in Collectors
  BY DEF AiTypes, Collectors
<1>2. collector.got + 1 \in 0 .. MaxChunks
  BY <1>1, Counted DEF ReceiveChunk
<1>3. CASE Ordered(expected)
  <2>1. collector' = [collector EXCEPT !.got = collector.got + 1, !.final = final]
    BY <1>3 DEF ReceiveChunk
  <2> QED
    BY <1>1, <1>2, <2>1 DEF Collectors
<1>4. CASE ~Ordered(expected)
  BY <1>1, <1>4 DEF ReceiveChunk, Collectors
<1> QED
  BY <1>3, <1>4

LEMMA AiStepTypes ==
  ASSUME AiTypes, AiNext PROVE AiTypes'
<1> USE AiAssumption DEF AiTypes
<1>1. CASE Invite
  BY <1>1 DEF Invite, AiCalls
<1>2. CASE Answer
  BY <1>2 DEF Answer, AiCalls
<1>3. CASE SetupFails
  <2>1. aiCall' \in AiCalls
    BY <1>3 DEF SetupFails, FinalizeAi, Finalized, AiCalls
  <2>2. turn' \in Turns
    BY <1>3 DEF SetupFails, FinalizeAi, Finalized, Turns
  <2> QED
    BY <1>3, <2>1, <2>2 DEF SetupFails, FinalizeAi, Finalized
<1>4. CASE SetupRaises
  BY <1>4 DEF SetupRaises, AiCalls
<1>5. CASE Ack
  BY <1>5 DEF Ack, Turns
<1>6. CASE ReceiveBye
  <2>1. aiCall' \in AiCalls
    BY <1>6 DEF ReceiveBye, Bye, FinalizeAi, Finalized, AiCalls
  <2>2. turn' \in Turns
    BY <1>6 DEF ReceiveBye, Bye, FinalizeAi, Finalized, Turns
  <2> QED
    BY <1>6, <2>1, <2>2 DEF ReceiveBye, Bye, FinalizeAi, Finalized
<1>7. CASE SessionExpires
  BY <1>7 DEF SessionExpires, AiCalls
<1>8. CASE SttEnds
  <2>1. turn' \in Turns
    BY <1>8 DEF SttEnds, Speak, Interrupted, Done, Turns
  <2>2. collector' \in Collectors
    BY <1>8 DEF SttEnds, Speak, Interrupted, Done, Collectors
  <2>3. out' \in Outs
    BY <1>8, OutSteps
  <2> QED
    BY <1>8, <2>1, <2>2, <2>3 DEF SttEnds, Speak, Interrupted, Done
<1>9. CASE Wake
  <2>1. turn' \in Turns
    BY <1>9, Awoken
  <2>2. collector' \in Collectors
    BY <1>9 DEF Wake, Collectors
  <2> QED
    BY <1>9, <2>1, <2>2 DEF Wake
<1>10. CASE Settled
  <2>1. turn' \in Turns
    BY <1>10 DEF Settled, Speak, Interrupted, Done, Turns
  <2>2. collector' \in Collectors
    BY <1>10 DEF Settled, Speak, Interrupted, Done, Collectors
  <2>3. out' \in Outs
    BY <1>10, OutSteps
  <2> QED
    BY <1>10, <2>1, <2>2, <2>3 DEF Settled, Speak, Interrupted, Done
<1>11. CASE Synthesized
  BY <1>11, OutSteps DEF Synthesized
<1>12. CASE TurnEnds
  <2>1. turn' \in Turns
    BY <1>12 DEF TurnEnds, Done, Turns
  <2>2. out' \in Outs
    BY <1>12 DEF TurnEnds, Done, Outs
  <2> QED
    BY <1>12, <2>1, <2>2 DEF TurnEnds, Done
<1>13. CASE WaiterWakes
  BY <1>13 DEF WaiterWakes, Turns
<1>14. CASE StreamEnds
  BY <1>14 DEF StreamEnds, Collectors
<1>15. ASSUME NEW expected \in BOOLEAN, NEW final \in BOOLEAN, ReceiveChunk(expected, final)
       PROVE  AiTypes'
  BY <1>15, Chunks DEF ReceiveChunk
<1> QED
  BY <1>1, <1>2, <1>3, <1>4, <1>5, <1>6, <1>7, <1>8, <1>9, <1>10, <1>11, <1>12, <1>13,
     <1>14, <1>15 DEF AiNext, Turn

LEMMA AiStepKeeps ==
  ASSUME AiInv, AiNext PROVE AiInv'
<1>0. AiTypes /\ AiTypes'
  BY AiStepTypes DEF AiInv
<1> USE <1>0 DEF AiInv, SlotFollowsDialog, Unspoken, Complete, AiTypes
<1>1. CASE Invite
  BY <1>1 DEF Invite, AiCalls
<1>2. CASE Answer
  BY <1>2 DEF Answer, Setting, AiCalls
<1>3. CASE SetupFails
  BY <1>3 DEF SetupFails, FinalizeAi, Finalized, Setting, AiCalls, Turns
<1>4. CASE SetupRaises
  BY <1>4 DEF SetupRaises, Setting, AiCalls
<1>5. CASE Ack
  BY <1>5 DEF Ack, Turns
<1>6. CASE ReceiveBye
  BY <1>6 DEF ReceiveBye, Bye, FinalizeAi, Finalized, AiCalls, Turns
<1>7. CASE SessionExpires
  BY <1>7 DEF SessionExpires, AiCalls
<1>8. CASE SttEnds
  <2>1. CASE Speak("no input", 1) /\ UNCHANGED collector
    BY <1>8, <2>1 DEF SttEnds, Speak, Turns, Outs
  <2>2. CASE Interrupted /\ UNCHANGED collector
    BY <1>8, <2>2 DEF SttEnds, Interrupted, Done, Turns, Outs
  <2>3. CASE /\ turn' = [turn EXCEPT !.step = "collect"]
             /\ collector' = [collector EXCEPT !.status = "running"]
             /\ UNCHANGED out
    BY <1>8, <2>3 DEF SttEnds, Turns, Collectors
  <2> QED
    BY <1>8, <2>1, <2>2, <2>3 DEF SttEnds
<1>9. CASE Wake
  BY <1>9, Awoken DEF Wake, Collectors
<1>10. CASE Settled
  <2>1. CASE StillWanted /\ Speak("answer", collector.got)
    BY <1>10, <2>1 DEF Settled, Speak, StillWanted, Turns, Outs
  <2>2. CASE Speak("fallback", 1)
    BY <1>10, <2>2 DEF Settled, Speak, Turns, Outs
  <2>3. CASE Interrupted
    BY <1>10, <2>3 DEF Settled, Interrupted, Done, Turns, Outs
  <2> QED
    BY <1>10, <2>1, <2>2, <2>3 DEF Settled
<1>11. CASE Synthesized
  BY <1>11, OutSteps DEF Synthesized
<1>12. CASE TurnEnds
  BY <1>12 DEF TurnEnds, Done, Turns, Outs
<1>13. CASE WaiterWakes
  BY <1>13 DEF WaiterWakes, Turns
<1>14. CASE StreamEnds
  BY <1>14 DEF StreamEnds, Collecting, Collectors
<1>15. ASSUME NEW expected \in BOOLEAN, NEW final \in BOOLEAN, ReceiveChunk(expected, final)
       PROVE  AiInv'
  BY <1>15 DEF ReceiveChunk, Ordered, Collecting, Collectors
<1> QED
  BY <1>1, <1>2, <1>3, <1>4, <1>5, <1>6, <1>7, <1>8, <1>9, <1>10, <1>11, <1>12, <1>13,
     <1>14, <1>15 DEF AiNext, Turn

LEMMA AiInvariant == AiSpec => []AiInv
<1>1. AiInit => AiInv
  BY AiInitial
<1>2. AiInv /\ [AiNext]_aiVars => AiInv'
  <2> SUFFICES ASSUME AiInv, [AiNext]_aiVars PROVE AiInv'
    OBVIOUS
  <2>1. CASE AiNext
    BY <2>1, AiStepKeeps
  <2>2. CASE UNCHANGED aiVars
    BY <2>2 DEF aiVars, AiInv, AiTypes, SlotFollowsDialog, Complete
  <2> QED
    BY <2>1, <2>2
<1> QED
  BY <1>1, <1>2, PTL DEF AiSpec

\* Without a session timer, an answer that arrives when an AI call has ended
\* is neither spoken nor obeyed, what is spoken is the whole stream, and a call
\* whose dialog is over has given back its slot.
THEOREM AiAlwaysSafe == ~SessionTimer => (AiSpec => []AiSafe)
<1>1. ~SessionTimer /\ AiInv => AiSafe
  <2> SUFFICES ASSUME ~SessionTimer, AiInv PROVE AiSafe
    OBVIOUS
  <2>1. AiTypeOK
    BY DEF AiInv, AiTypeOK, AiTypes, Turns, Collectors, Outs
  <2>2. NoStaleAnswer
    BY DEF AiInv, NoStaleAnswer, Unspoken
  <2>3. WholeAnswers
    BY DEF AiInv, WholeAnswers, Complete, AiTypes, Collectors
  <2> QED
    BY <2>1, <2>2, <2>3 DEF AiInv, AiSafe
<1> SUFFICES ASSUME ~SessionTimer PROVE AiSpec => []AiSafe
  OBVIOUS
<1>2. AiInv => AiSafe
  BY <1>1
<1> QED
  BY <1>2, AiInvariant, PTL

(***************************************************************************)
(* Reliable provisional responses.                                         *)
(***************************************************************************)
ForkStates == [waiting : Nat, acked : 0 .. MaxRSeq]
Legs == [rseq : Nat, fork : Forks, pending : Nat]
Responses == [kind : {"183", "180", "prack"}, fork : Forks, rseq : Nat]
Pracks == [fork : Forks, rseq : Nat]

RelTypes ==
  /\ fork \in [Forks -> ForkStates] /\ leg \in Legs
  /\ toB \subseteq Pracks /\ fromB \subseteq Responses
  /\ seen \subseteq RSeqs /\ pracks \subseteq seen /\ refused \subseteq seen

\* What every number names, however messages overtake each other.
Numbered ==
  /\ \A f \in Forks : fork[f].waiting # 0 =>
       fork[f].waiting = Base(f) + fork[f].acked + 1 /\ fork[f].acked < MaxRSeq
  /\ \A m \in fromB : /\ m.kind = "183" => m.rseq \in Of(m.fork)
                      /\ m.kind = "prack" => m.rseq \in seen
  /\ leg.rseq # 0 => leg.rseq \in seen /\ leg.rseq \in Of(leg.fork)
  /\ leg.pending # 0 => leg.rseq # 0 /\ leg.pending \in seen
  /\ \A m \in toB : m.rseq \in Of(m.fork) /\ m.rseq \in seen
                    /\ m.rseq \notin pracks /\ m.rseq \notin refused
  /\ \A r \in pracks : r \notin refused

\* A fork has one response under way, its current one.
InOrder ==
  /\ \A m, o \in fromB : m.fork = o.fork => m = o
  /\ \A m \in fromB : m.kind = "183" => m.rseq = fork[m.fork].waiting

\* The four stages of a response of the fork that rings alone: not shown to A;
\* A's PRACK on its way to the SBC; on its way to the fork; answered.
NoAnswer == \A m \in fromB : m.kind # "prack"
NotShown == leg.rseq = 0 /\ leg.pending = 0 /\ pracks = {} /\ toB = {} /\ NoAnswer
Shows(f) == /\ leg.rseq = fork[f].waiting /\ leg.rseq # 0 /\ leg.pending = 0
            /\ pracks = {leg.rseq} /\ toB = {} /\ NoAnswer
Acknowledges(f) ==
  /\ leg.rseq = fork[f].waiting /\ leg.rseq # 0 /\ leg.pending = leg.rseq
  /\ pracks = {} /\ toB = {[fork |-> f, rseq |-> leg.rseq]} /\ NoAnswer
IsAnswered(f) ==
  /\ fork[f].waiting = 0 /\ leg.pending # 0 /\ leg.rseq # 0 /\ pracks = {} /\ toB = {}
  /\ \E m \in fromB : m.kind = "prack" /\ m.fork = f
  /\ \A m \in fromB : m.kind = "prack" => m.fork = f

Staged(f) ==
  /\ refused = {}
  /\ \A r \in seen : \/ r <= Base(f) + fork[f].acked
                     \/ r = fork[f].waiting /\ leg.rseq = r
  /\ NotShown \/ Shows(f) \/ Acknowledges(f) \/ IsAnswered(f)

Rings(f) == seen \subseteq Of(f) => Staged(f)

RelInv == RelTypes /\ Numbered
AloneInv == RelInv /\ InOrder /\ \A f \in Forks : Rings(f)

\* The numbers of a fork.
LEMMA Numbers ==
  ASSUME RelAssumption
  PROVE  /\ \A f \in Forks : Base(f) \in Nat /\ Of(f) \subseteq RSeqs /\ 0 \notin Of(f)
         /\ \A f, g \in Forks : f # g => Of(f) \cap Of(g) = {}
         /\ RSeqs \subseteq Nat /\ 0 \notin RSeqs
<1>1. NForks \in Nat \ {0} /\ MaxRSeq \in Nat \ {0}
  BY DEF RelAssumption
<1>2. \A a, b \in Nat : a <= b => a * MaxRSeq <= b * MaxRSeq
  BY <1>1
<1>3. \A f \in Forks : f - 1 \in Nat /\ Base(f) \in Nat /\ Base(f) + MaxRSeq = f * MaxRSeq
                       /\ f \in Nat /\ f <= NForks
  BY <1>1 DEF Base, Forks
<1>4. ASSUME NEW f \in Forks, NEW g \in Forks, f < g
      PROVE  Base(f) + MaxRSeq <= Base(g)
  <2>1. f <= g - 1 /\ f \in Nat /\ g - 1 \in Nat
    BY <1>3, <1>4 DEF Forks
  <2>2. f * MaxRSeq <= (g - 1) * MaxRSeq
    BY <1>2, <2>1
  <2> QED
    BY <2>2, <1>3 DEF Base
<1>5. \A f \in Forks : Of(f) \subseteq RSeqs /\ 0 \notin Of(f)
  <2> TAKE f \in Forks
  <2>1. f * MaxRSeq <= NForks * MaxRSeq
    BY <1>1, <1>2, <1>3
  <2> QED
    BY <1>1, <1>3, <2>1 DEF Of, RSeqs
<1>6. ASSUME NEW f \in Forks, NEW g \in Forks, f # g
      PROVE  Of(f) \cap Of(g) = {}
  <2>1. f < g \/ g < f
    BY <1>3, <1>6
  <2> QED
    BY <1>1, <1>3, <1>4, <2>1 DEF Of
<1> QED
  BY <1>1, <1>3, <1>5, <1>6 DEF RSeqs

LEMMA RelInitial ==
  ASSUME RelAssumption, RelInit PROVE AloneInv
<1>1. 1 \in Forks /\ 0 \in 0 .. MaxRSeq
  BY DEF RelAssumption, Forks
<1>2. RelTypes
  BY <1>1 DEF RelInit, RelTypes, ForkStates, Legs
<1>3. Numbered /\ InOrder
  BY DEF RelInit, Numbered, InOrder
<1>4. \A f \in Forks : Rings(f)
  BY DEF RelInit, Rings, Staged, NotShown, NoAnswer
<1> QED
  BY <1>2, <1>3, <1>4 DEF AloneInv, RelInv

-----------------------------------------------------------------------------
(* What the steps change of one fork.                                      *)

LEMMA Sends ==
  ASSUME RelAssumption, RelInv, NEW f \in Forks, SendReliable(f)
  PROVE  LET rseq == Base(f) + fork[f].acked + 1 IN
         /\ rseq \in Of(f) /\ rseq \in Nat
         /\ fork' \in [Forks -> ForkStates]
         /\ fork'[f].waiting = rseq /\ fork'[f].acked = fork[f].acked
         /\ \A g \in Forks : g # f => fork'[g] = fork[g]
         /\ fromB' = fromB \cup {Reliable(f, rseq)}
<1> DEFINE rseq == Base(f) + fork[f].acked + 1
<1>1. fork[f].acked \in Nat /\ fork[f].acked < MaxRSeq /\ fork[f] \in ForkStates
      /\ fork \in [Forks -> ForkStates]
  BY DEF RelInv, RelTypes, ForkStates, SendReliable
<1>2. rseq \in Of(f) /\ rseq \in Nat
  <2>1. Base(f) \in Nat /\ MaxRSeq \in Nat
    BY Numbers DEF RelAssumption
  <2> QED
    BY <1>1, <2>1 DEF Of
<1>3. fork' = [fork EXCEPT ![f].waiting = rseq] /\ fromB' = fromB \cup {Reliable(f, fork'[f].waiting)}
  BY DEF SendReliable
<1> HIDE DEF rseq
<1>4. /\ fork' \in [Forks -> ForkStates]
      /\ fork'[f].waiting = rseq /\ fork'[f].acked = fork[f].acked
      /\ \A g \in Forks : g # f => fork'[g] = fork[g]
  BY <1>1, <1>2, <1>3 DEF ForkStates
<1> QED
  BY <1>2, <1>3, <1>4 DEF rseq

LEMMA PrackAtB ==
  ASSUME RelAssumption, RelInv, NEW m \in toB, ReceivePrackAtB(m)
  PROVE  /\ m.fork \in Forks /\ m.rseq \in Nat /\ m.rseq # 0
         /\ fork' \in [Forks -> ForkStates]
         /\ \A g \in Forks : g # m.fork => fork'[g] = fork[g]
         /\ IF fork[m.fork].waiting = m.rseq
            THEN fork'[m.fork].waiting = 0 /\ fork'[m.fork].acked = fork[m.fork].acked + 1
            ELSE fork'[m.fork] = fork[m.fork]
<1>1. m \in Pracks /\ m.fork \in Forks /\ m.rseq \in Nat
  BY DEF RelInv, RelTypes, Pracks
<1>2. m.rseq # 0
  BY <1>1, Numbers DEF RelInv, Numbered
<1>3. fork \in [Forks -> ForkStates] /\ fork[m.fork] \in ForkStates
      /\ fork[m.fork].acked \in 0 .. MaxRSeq
  BY <1>1 DEF RelInv, RelTypes, ForkStates
<1>4. fork' = [fork EXCEPT ![m.fork] =
        IF @.waiting = m.rseq THEN [waiting |-> 0, acked |-> @.acked + 1] ELSE @]
  BY DEF ReceivePrackAtB
<1>5. CASE fork[m.fork].waiting = m.rseq
  <2>1. fork[m.fork].acked + 1 \in 0 .. MaxRSeq
    BY <1>1, <1>2, <1>3, <1>5 DEF RelInv, Numbered, RelAssumption
  <2>2. [waiting |-> 0, acked |-> fork[m.fork].acked + 1] \in ForkStates
    BY <2>1 DEF ForkStates
  <2>3. fork' = [fork EXCEPT ![m.fork] = [waiting |-> 0, acked |-> fork[m.fork].acked + 1]]
    BY <1>4, <1>5
  <2> QED
    BY <1>1, <1>2, <1>3, <1>5, <2>2, <2>3
<1>6. CASE fork[m.fork].waiting # m.rseq
  BY <1>1, <1>2, <1>3, <1>4, <1>6
<1> QED
  BY <1>5, <1>6
LEMMA Relays ==
  ASSUME RelAssumption, RelInv, NEW m \in fromB, RelayProvisional(m)
  PROVE  /\ m \in Responses /\ m.fork \in Forks /\ leg' \in Legs
         /\ leg'.pending = leg.pending
         /\ m.kind = "183" => /\ Shown(m) = m.rseq /\ m.rseq \in Of(m.fork) /\ m.rseq \in RSeqs
                              /\ leg'.rseq = m.rseq /\ leg'.fork = m.fork
         /\ m.kind = "180" => Shown(m) = leg.rseq /\ leg' = leg
         /\ Shown(m) \in RSeqs \cup {0}
<1>1. m \in Responses /\ m.fork \in Forks /\ m.rseq \in Nat /\ leg \in Legs
  BY DEF RelInv, RelTypes, Responses
<1>2. m.kind = "183" => m.rseq \in Of(m.fork) /\ m.rseq \in RSeqs
  BY <1>1, Numbers DEF RelInv, Numbered
<1>3. leg.rseq \in RSeqs \cup {0}
  BY DEF RelInv, RelTypes, Numbered
<1>4. m.kind = "183" =>
        leg' \in Legs /\ leg'.pending = leg.pending /\ leg'.rseq = m.rseq /\ leg'.fork = m.fork
  BY <1>1 DEF RelayProvisional, Legs
<1> QED
  BY <1>1, <1>2, <1>3, <1>4 DEF RelayProvisional, Shown

LEMMA PrackArrives ==
  ASSUME RelAssumption, RelInv, NEW r \in pracks, ReceivePrack(r)
  PROVE  /\ r \in RSeqs /\ r \in seen /\ pracks' = pracks \ {r}
         /\ leg' \in Legs /\ leg'.rseq = leg.rseq /\ leg'.fork = leg.fork
         /\ IF Matching(r) /\ leg.pending = 0
            THEN /\ leg.rseq = r /\ r # 0 /\ r \in Of(leg.fork) /\ leg.fork \in Forks
                 /\ leg'.pending = r
                 /\ toB' = toB \cup {[fork |-> leg.fork, rseq |-> r]} /\ refused' = refused
            ELSE leg' = leg /\ toB' = toB /\ refused' = refused \cup {r}
<1>1. r \in RSeqs /\ r \in seen /\ r \in Nat /\ leg \in Legs /\ leg.fork \in Forks
  BY Numbers DEF RelInv, RelTypes, Legs
<1>2. CASE Matching(r) /\ leg.pending = 0
  <2>1. leg.rseq = r /\ r # 0 /\ r \in Of(leg.fork)
    BY <1>2 DEF Matching, RelInv, Numbered
  <2>2. leg' = [leg EXCEPT !.pending = r]
    BY <1>2 DEF ReceivePrack
  <2>3. leg' \in Legs /\ leg'.rseq = leg.rseq /\ leg'.fork = leg.fork /\ leg'.pending = r
    BY <1>1, <2>2 DEF Legs
  <2> QED
    BY <1>1, <1>2, <2>1, <2>3 DEF ReceivePrack
<1>3. CASE ~(Matching(r) /\ leg.pending = 0)
  BY <1>1, <1>3 DEF ReceivePrack
<1> QED
  BY <1>2, <1>3

LEMMA PrackEnds ==
  ASSUME RelInv, NEW m \in fromB, ReceivePrackOk(m)
  PROVE  /\ leg' \in Legs
         /\ leg.pending = 0 => leg' = leg
         /\ leg.pending # 0 => leg'.rseq = 0 /\ leg'.pending = 0
BY DEF ReceivePrackOk, Forgotten, RelInv, RelTypes, Legs

-----------------------------------------------------------------------------
(* What each number names.                                                 *)

LEMMA RelStepTypes ==
  ASSUME RelAssumption, RelInv, RelNext PROVE RelTypes'
<1> USE DEF RelTypes
<1>0. RelTypes
  BY DEF RelInv
<1>1. ASSUME NEW m \in fromB, RelayProvisional(m) PROVE RelTypes'
  BY <1>0, <1>1, Relays DEF RelayProvisional
<1>2. ASSUME NEW m \in fromB, ReceivePrackOk(m) PROVE RelTypes'
  BY <1>0, <1>2, PrackEnds DEF ReceivePrackOk
<1>3. ASSUME NEW m \in toB, ReceivePrackAtB(m) PROVE RelTypes'
  <2>1. PrackOk(m.fork, m.rseq) \in Responses
    BY <1>3, PrackAtB DEF PrackOk, Responses
  <2> QED
    BY <1>0, <1>3, <2>1, PrackAtB DEF ReceivePrackAtB
<1>4. ASSUME NEW r \in pracks, ReceivePrack(r) PROVE RelTypes'
  <2>1. leg.fork \in Forks => [fork |-> leg.fork, rseq |-> r] \in Pracks
    BY <1>0, Numbers DEF Pracks
  <2> QED
    BY <1>0, <1>4, <2>1, PrackArrives DEF ReceivePrack
<1>5. ASSUME NEW f \in Forks, SendReliable(f) PROVE RelTypes'
  <2>1. Reliable(f, Base(f) + fork[f].acked + 1) \in Responses
    BY <1>5, Sends DEF Reliable, Responses
  <2> QED
    BY <1>0, <1>5, <2>1, Sends DEF SendReliable
<1>6. ASSUME NEW f \in Forks, Repeat(f) PROVE RelTypes'
  <2>1. Reliable(f, fork[f].waiting) \in Responses
    BY DEF Reliable, Responses, RelInv, ForkStates
  <2> QED
    BY <1>0, <1>6, <2>1 DEF Repeat
<1>7. ASSUME NEW f \in Forks, Ring(f) PROVE RelTypes'
  <2>1. Ringing(f) \in Responses
    BY DEF Ringing, Responses
  <2> QED
    BY <1>0, <1>7, <2>1 DEF Ring
<1> QED
  BY <1>1, <1>2, <1>3, <1>4, <1>5, <1>6, <1>7 DEF RelNext, Deliver

\* A fork waits for an acknowledgement of one of its own numbers.
LEMMA WaitingOwn ==
  ASSUME RelAssumption, RelInv, NEW f \in Forks, fork[f].waiting # 0
  PROVE  fork[f].waiting \in Of(f) /\ fork[f].waiting \in RSeqs
<1>1. fork[f].acked \in Nat /\ Base(f) \in Nat /\ MaxRSeq \in Nat
  BY Numbers DEF RelInv, RelTypes, ForkStates, RelAssumption
<1>2. fork[f].waiting = Base(f) + fork[f].acked + 1 /\ fork[f].acked < MaxRSeq
  BY DEF RelInv, Numbered
<1>3. fork[f].waiting \in Of(f)
  BY <1>1, <1>2 DEF Of
<1> QED
  BY <1>3, Numbers

LEMMA RelStepNumbers ==
  ASSUME RelAssumption, RelInv, RelNext PROVE Numbered'
<1> USE DEF Numbered
<1>0. RelTypes /\ Numbered
  BY DEF RelInv
<1>1. ASSUME NEW m \in fromB, RelayProvisional(m) PROVE Numbered'
  <2>1. seen \subseteq seen' /\ \A r \in pracks' : r \in pracks \/ r \notin seen
    BY <1>1 DEF RelayProvisional
  <2>2. toB' = toB /\ refused' = refused /\ refused \subseteq seen /\ fork' = fork
        /\ fromB' \subseteq fromB
    BY <1>0, <1>1 DEF RelayProvisional, RelTypes
  <2>3. leg'.rseq # 0 => leg'.rseq \in seen' /\ leg'.rseq \in Of(leg'.fork)
    <3>1. CASE m.kind = "183"
      <4>1. Shown(m) = m.rseq /\ m.rseq \in Of(m.fork) /\ leg'.rseq = m.rseq /\ leg'.fork = m.fork
        BY <1>1, <3>1, Relays
      <4>2. seen' = seen \cup ({Shown(m)} \ {0})
        BY <1>1 DEF RelayProvisional
      <4> QED
        BY <4>1, <4>2
    <3>2. CASE m.kind = "180"
      BY <1>0, <1>1, <2>1, <3>2, Relays
    <3> QED
      BY <1>1, <3>1, <3>2 DEF RelayProvisional
  <2>4. leg'.pending # 0 => leg'.rseq # 0 /\ leg'.pending \in seen'
    BY <1>0, <1>1, <2>1, Relays, Numbers DEF RelayProvisional
  <2> QED
    BY <1>0, <2>1, <2>2, <2>3, <2>4
<1>2. ASSUME NEW m \in fromB, ReceivePrackOk(m) PROVE Numbered'
  BY <1>0, <1>2, PrackEnds DEF ReceivePrackOk
<1>3. ASSUME NEW m \in toB, ReceivePrackAtB(m) PROVE Numbered'
  <2>1. /\ toB' \subseteq toB /\ fromB' = fromB \cup {PrackOk(m.fork, m.rseq)}
        /\ UNCHANGED <<leg, seen, pracks, refused>> /\ m.rseq \in seen
    BY <1>0, <1>3 DEF ReceivePrackAtB
  <2>2. \A f \in Forks : fork'[f].waiting # 0 => fork'[f] = fork[f]
    BY <1>3, PrackAtB
  <2>3. \A f \in Forks : fork'[f].waiting # 0 =>
          fork'[f].waiting = Base(f) + fork'[f].acked + 1 /\ fork'[f].acked < MaxRSeq
    BY <1>0, <2>2
  <2>4. \A o \in fromB' : /\ o.kind = "183" => o.rseq \in Of(o.fork)
                          /\ o.kind = "prack" => o.rseq \in seen
    BY <1>0, <2>1 DEF PrackOk
  <2> QED
    BY <1>0, <2>1, <2>3, <2>4
<1>4. ASSUME NEW r \in pracks, ReceivePrack(r) PROVE Numbered'
  <2>1. UNCHANGED <<fork, seen, fromB>>
    BY <1>4 DEF ReceivePrack
  <2>2. CASE Matching(r) /\ leg.pending = 0
    BY <1>0, <1>4, <2>1, <2>2, PrackArrives
  <2>3. CASE ~(Matching(r) /\ leg.pending = 0)
    BY <1>0, <1>4, <2>1, <2>3, PrackArrives
  <2> QED
    BY <2>2, <2>3
<1>5. ASSUME NEW f \in Forks, SendReliable(f) PROVE Numbered'
  <2>1. UNCHANGED <<leg, seen, pracks, toB, refused>> /\ fork[f].acked < MaxRSeq
    BY <1>5 DEF SendReliable
  <2> DEFINE rseq == Base(f) + fork[f].acked + 1
  <2>2. /\ rseq \in Of(f) /\ fork'[f].waiting = rseq /\ fork'[f].acked = fork[f].acked
        /\ \A g \in Forks : g # f => fork'[g] = fork[g]
        /\ fromB' = fromB \cup {Reliable(f, rseq)}
    BY <1>5, Sends
  <2>3. \A g \in Forks : fork'[g].waiting # 0 =>
          fork'[g].waiting = Base(g) + fork'[g].acked + 1 /\ fork'[g].acked < MaxRSeq
    BY <1>0, <2>1, <2>2
  <2> HIDE DEF rseq
  <2>4. \A o \in fromB' : /\ o.kind = "183" => o.rseq \in Of(o.fork)
                          /\ o.kind = "prack" => o.rseq \in seen
    BY <1>0, <2>2 DEF Reliable
  <2> QED
    BY <1>0, <2>1, <2>3, <2>4
<1>6. ASSUME NEW f \in Forks, Repeat(f) PROVE Numbered'
  <2>1. fork[f].waiting \in Of(f)
    BY <1>6, WaitingOwn DEF Repeat
  <2> QED
    BY <1>0, <1>6, <2>1 DEF Repeat, Reliable
<1>7. ASSUME NEW f \in Forks, Ring(f) PROVE Numbered'
  BY <1>0, <1>7 DEF Ring, Ringing
<1> QED
  BY <1>1, <1>2, <1>3, <1>4, <1>5, <1>6, <1>7 DEF RelNext, Deliver

\* A PRACK goes to the fork whose response A acknowledged, whatever overtakes
\* what.
THEOREM PracksAreTrue == RelSpec => [](RelTypeOK /\ PrackTrue)
<1> USE RelAssumption
<1>1. RelInit => RelInv
  BY RelInitial DEF AloneInv
<1>2. RelInv /\ [RelNext]_relVars => RelInv'
  <2> SUFFICES ASSUME RelInv, [RelNext]_relVars PROVE RelInv'
    OBVIOUS
  <2>1. CASE RelNext
    BY <2>1, RelStepTypes, RelStepNumbers DEF RelInv
  <2>2. CASE UNCHANGED relVars
    BY <2>2 DEF relVars, RelInv, RelTypes, Numbered
  <2> QED
    BY <2>1, <2>2
<1>3. RelInv => RelTypeOK /\ PrackTrue
  <2> SUFFICES ASSUME RelInv PROVE RelTypeOK /\ PrackTrue
    OBVIOUS
  <2>1. RelTypes /\ Numbered
    BY DEF RelInv
  <2>2. RelTypeOK
    BY <2>1, Numbers DEF RelTypeOK, RelTypes, Numbered, Legs
  <2>3. PrackTrue
    BY <2>1 DEF PrackTrue, Numbered
  <2> QED
    BY <2>2, <2>3
<1> QED
  BY <1>1, <1>2, <1>3, PTL DEF RelSpec

-----------------------------------------------------------------------------
(* One fork rings alone, and nothing overtakes.                            *)

\* A fork that may send has nothing under way.
LEMMA InOrderStep ==
  ASSUME RelAssumption, ~Overtaking, RelInv, InOrder, RelNext PROVE InOrder'
<1> USE DEF InOrder
<1>1. ASSUME NEW m \in fromB, RelayProvisional(m) PROVE InOrder'
  BY <1>1 DEF RelayProvisional
<1>2. ASSUME NEW m \in fromB, ReceivePrackOk(m) PROVE InOrder'
  BY <1>2 DEF ReceivePrackOk
<1>3. ASSUME NEW m \in toB, ReceivePrackAtB(m) PROVE InOrder'
  <2>1. \A o \in fromB : o.fork # m.fork
    BY <1>3 DEF ReceivePrackAtB, MaySend
  <2>2. fromB' = fromB \cup {PrackOk(m.fork, m.rseq)}
    BY <1>3 DEF ReceivePrackAtB
  <2>3. \A o \in fromB : o.fork \in Forks /\ fork'[o.fork] = fork[o.fork]
    BY <1>3, <2>1, PrackAtB DEF RelInv, RelTypes, Responses
  <2> QED
    BY <2>1, <2>2, <2>3 DEF PrackOk
<1>4. ASSUME NEW r \in pracks, ReceivePrack(r) PROVE InOrder'
  BY <1>4 DEF ReceivePrack
<1>5. ASSUME NEW f \in Forks, SendReliable(f) PROVE InOrder'
  <2>1. \A o \in fromB : o.fork # f
    BY <1>5 DEF SendReliable, MaySend
  <2>2. /\ fromB' = fromB \cup {Reliable(f, fork'[f].waiting)}
        /\ \A g \in Forks : g # f => fork'[g] = fork[g]
    BY <1>5, Sends DEF SendReliable
  <2>3. \A o \in fromB : o.fork \in Forks /\ fork'[o.fork] = fork[o.fork]
    BY <2>1, <2>2 DEF RelInv, RelTypes, Responses
  <2> QED
    BY <2>1, <2>2, <2>3 DEF Reliable
<1>6. ASSUME NEW f \in Forks, Repeat(f) PROVE InOrder'
  <2>1. \A o \in fromB : o.fork # f
    BY <1>6 DEF Repeat, MaySend
  <2> QED
    BY <1>6, <2>1 DEF Repeat, Reliable
<1>7. ASSUME NEW f \in Forks, Ring(f) PROVE InOrder'
  <2>1. \A o \in fromB : o.fork # f
    BY <1>7 DEF Ring, MaySend
  <2> QED
    BY <1>7, <2>1 DEF Ring, Ringing
<1> QED
  BY <1>1, <1>2, <1>3, <1>4, <1>5, <1>6, <1>7 DEF RelNext, Deliver

\* The steps of a response, one lemma each, while A has seen numbers of f only.
LEMMA AloneSends ==
  ASSUME RelAssumption, ~Overtaking, AloneInv, NEW f \in Forks, Staged(f),
         NEW g \in Forks, SendReliable(g)
  PROVE  Staged(f)'
<1>1. UNCHANGED <<leg, seen, pracks, toB, refused>> /\ fork[g].waiting = 0
      /\ \A m \in fromB : m.fork # g
  BY DEF SendReliable, MaySend
<1> DEFINE rseq == Base(g) + fork[g].acked + 1
<1>2. /\ fork'[g].acked = fork[g].acked
      /\ \A h \in Forks : h # g => fork'[h] = fork[h]
      /\ fromB' = fromB \cup {Reliable(g, rseq)}
  BY Sends DEF AloneInv
<1> HIDE DEF rseq
<1>3. /\ NoAnswer => NoAnswer'
      /\ \A m \in fromB' : m.kind = "prack" => m \in fromB
      /\ fromB \subseteq fromB'
  BY <1>2 DEF NoAnswer, Reliable
<1>4. CASE g # f
  BY <1>1, <1>2, <1>3, <1>4 DEF Staged, NotShown, Shows, Acknowledges, IsAnswered
<1>5. CASE g = f
  <2>1. NotShown
    BY <1>1, <1>5 DEF Staged, Shows, Acknowledges, IsAnswered
  <2>2. leg.rseq = 0 /\ \A r \in seen : r \in Nat /\ r # 0
    BY <2>1, Numbers DEF NotShown, AloneInv, RelInv, RelTypes
  <2>3. \A r \in seen : r <= Base(f) + fork[f].acked
    BY <2>2 DEF Staged
  <2> QED
    BY <1>1, <1>2, <1>3, <1>5, <2>1, <2>3 DEF Staged, NotShown
<1> QED
  BY <1>4, <1>5

LEMMA AlonePrackAtB ==
  ASSUME RelAssumption, ~Overtaking, AloneInv, NEW f \in Forks, seen \subseteq Of(f), Staged(f),
         NEW m \in toB, ReceivePrackAtB(m)
  PROVE  Staged(f)'
<1>1. /\ UNCHANGED <<leg, seen, pracks, refused>> /\ toB' = toB \ {m}
      /\ fromB' = fromB \cup {PrackOk(m.fork, m.rseq)}
  BY DEF ReceivePrackAtB
<1>2. Acknowledges(f)
  BY DEF Staged, NotShown, Shows, IsAnswered
<1>3. m.fork = f /\ m.rseq = leg.rseq /\ fork[f].waiting = m.rseq /\ toB' = {}
  BY <1>1, <1>2 DEF Acknowledges
<1>4. fork'[f].waiting = 0 /\ fork'[f].acked = fork[f].acked + 1 /\ m.rseq # 0
  BY <1>3, PrackAtB DEF AloneInv
<1>5. fork[f].waiting = Base(f) + fork[f].acked + 1
  BY <1>3, <1>4 DEF AloneInv, RelInv, Numbered
<1>6. /\ Base(f) \in Nat /\ fork[f].acked \in Nat
      /\ \A r \in seen : r \in Nat /\ r # 0
  BY Numbers DEF AloneInv, RelInv, RelTypes, ForkStates
<1>7. \A r \in seen : r <= Base(f) + fork'[f].acked
  BY <1>4, <1>5, <1>6 DEF Staged
<1>8. IsAnswered(f)'
  <2>1. PrackOk(f, m.rseq).kind = "prack" /\ PrackOk(f, m.rseq).fork = f
    BY DEF PrackOk
  <2>2. PrackOk(f, m.rseq) \in fromB'
    BY <1>1, <1>3
  <2>3. \A o \in fromB' : o.kind = "prack" => o.fork = f
    BY <1>1, <1>2, <1>3, <2>1 DEF Acknowledges, NoAnswer
  <2> QED
    BY <1>1, <1>2, <1>3, <1>4, <2>1, <2>2, <2>3 DEF IsAnswered, Acknowledges
<1> QED
  BY <1>1, <1>7, <1>8 DEF Staged

LEMMA AloneRelays ==
  ASSUME RelAssumption, ~Overtaking, AloneInv, NEW f \in Forks, seen' \subseteq Of(f), Staged(f),
         NEW m \in fromB, RelayProvisional(m)
  PROVE  Staged(f)'
<1>1. /\ UNCHANGED <<fork, toB, refused>> /\ fromB' = fromB \ {m} /\ m.kind \in {"183", "180"}
      /\ seen' = seen \cup ({Shown(m)} \ {0})
      /\ pracks' = pracks \cup ({Shown(m)} \ (seen \cup {0}))
  BY DEF RelayProvisional
<1>2. NoAnswer => NoAnswer'
  BY <1>1 DEF NoAnswer
<1>3. \A o \in fromB : o.kind = "prack" => o \in fromB'
  BY <1>1
<1>4. /\ leg'.pending = leg.pending
      /\ m.kind = "183" => /\ Shown(m) = m.rseq /\ m.rseq \in Of(m.fork) /\ m.fork \in Forks
                           /\ leg'.rseq = m.rseq
      /\ m.kind = "180" => Shown(m) = leg.rseq /\ leg' = leg
  BY Relays DEF AloneInv
<1>5. CASE m.kind = "180"
  <2>1. leg.rseq # 0 => leg.rseq \in seen
    BY DEF AloneInv, RelInv, Numbered
  <2>2. seen' = seen /\ pracks' = pracks /\ leg' = leg
    BY <1>1, <1>4, <1>5, <2>1
  <2> QED
    BY <1>1, <1>2, <1>3, <2>2 DEF Staged, NotShown, Shows, Acknowledges, IsAnswered
<1>6. CASE m.kind = "183"
  <2>1. m.rseq # 0 /\ m.rseq \in seen' /\ m.fork = f
    BY <1>1, <1>4, <1>6, Numbers
  <2>2. m.rseq = fork[f].waiting
    BY <1>6, <2>1 DEF AloneInv, InOrder
  <2>3. /\ fork[f].waiting = Base(f) + fork[f].acked + 1
        /\ Base(f) \in Nat /\ fork[f].acked \in Nat
    BY <2>1, <2>2, Numbers DEF AloneInv, RelInv, Numbered, RelTypes, ForkStates
  <2>4. \A r \in seen' : \/ r <= Base(f) + fork[f].acked
                         \/ r = fork[f].waiting /\ leg'.rseq = r
    BY <1>1, <1>4, <1>6, <2>2 DEF Staged
  <2>5. NotShown => Shows(f)'
    <3> SUFFICES ASSUME NotShown PROVE Shows(f)'
      OBVIOUS
    <3>1. m.rseq \notin seen
      BY <2>1, <2>2, <2>3 DEF NotShown, Staged
    <3>2. pracks' = {m.rseq}
      BY <1>1, <1>4, <1>6, <2>1, <3>1 DEF NotShown
    <3> QED
      BY <1>1, <1>2, <1>4, <1>6, <2>1, <2>2, <3>2 DEF NotShown, Shows
  <2>6. Shows(f) => Shows(f)'
    <3> SUFFICES ASSUME Shows(f) PROVE Shows(f)'
      OBVIOUS
    <3>1. m.rseq \in seen
      BY <2>2 DEF Shows, AloneInv, RelInv, RelTypes
    <3> QED
      BY <1>1, <1>2, <1>4, <1>6, <2>2, <3>1 DEF Shows
  <2>7. Acknowledges(f) => Acknowledges(f)'
    <3> SUFFICES ASSUME Acknowledges(f) PROVE Acknowledges(f)'
      OBVIOUS
    <3>1. m.rseq \in seen
      BY <2>2 DEF Acknowledges, AloneInv, RelInv, Numbered
    <3> QED
      BY <1>1, <1>2, <1>4, <1>6, <2>2, <3>1 DEF Acknowledges
  <2>8. ~IsAnswered(f)
    BY <2>1, <2>2 DEF IsAnswered
  <2> QED
    BY <1>1, <2>4, <2>5, <2>6, <2>7, <2>8 DEF Staged
<1> QED
  BY <1>1, <1>5, <1>6

LEMMA AlonePrack ==
  ASSUME RelAssumption, AloneInv, NEW f \in Forks, seen \subseteq Of(f), Staged(f),
         NEW r \in pracks, ReceivePrack(r)
  PROVE  Staged(f)'
<1>1. UNCHANGED <<fork, seen, fromB>>
  BY DEF ReceivePrack
<1>2. Shows(f) /\ r = leg.rseq
  BY DEF Staged, NotShown, Shows, Acknowledges, IsAnswered
<1>3. Matching(r) /\ leg.pending = 0
  BY <1>2 DEF Shows, Matching
<1>4. /\ pracks' = pracks \ {r} /\ leg'.rseq = r /\ leg'.pending = r /\ r # 0
      /\ r \in Of(leg.fork) /\ leg.fork \in Forks
      /\ toB' = toB \cup {[fork |-> leg.fork, rseq |-> r]} /\ refused' = refused
  BY <1>3, PrackArrives DEF AloneInv
<1>5. leg.fork = f
  <2>1. r \in Of(f)
    BY DEF AloneInv, RelInv, RelTypes
  <2> QED
    BY <1>4, <2>1, Numbers
<1>6. Acknowledges(f)'
  BY <1>1, <1>2, <1>4, <1>5 DEF Acknowledges, Shows, NoAnswer
<1> QED
  BY <1>1, <1>2, <1>4, <1>6 DEF Staged

LEMMA AlonePrackOk ==
  ASSUME RelAssumption, AloneInv, NEW f \in Forks, Staged(f), NEW m \in fromB, ReceivePrackOk(m)
  PROVE  Staged(f)'
<1>1. UNCHANGED <<fork, seen, pracks, toB, refused>> /\ fromB' = fromB \ {m} /\ m.kind = "prack"
  BY DEF ReceivePrackOk
<1>2. IsAnswered(f)
  BY <1>1 DEF Staged, NotShown, Shows, Acknowledges, NoAnswer
<1>3. leg'.rseq = 0 /\ leg'.pending = 0
  BY <1>2, PrackEnds DEF IsAnswered, AloneInv
<1>4. NoAnswer'
  BY <1>1, <1>2 DEF NoAnswer, IsAnswered, AloneInv, InOrder
<1>5. NotShown'
  BY <1>1, <1>2, <1>3, <1>4 DEF NotShown, IsAnswered
<1>6. \A r \in seen : r # 0
  BY Numbers DEF AloneInv, RelInv, RelTypes
<1>7. \A r \in seen' : r <= Base(f) + fork'[f].acked
  BY <1>1, <1>2, <1>6 DEF Staged, IsAnswered
<1> QED
  BY <1>1, <1>5, <1>7 DEF Staged

LEMMA AloneRepeats ==
  ASSUME AloneInv, NEW f \in Forks, Staged(f), NEW g \in Forks, Repeat(g) \/ Ring(g)
  PROVE  Staged(f)'
<1>1. UNCHANGED <<fork, leg, seen, pracks, toB, refused>>
  BY DEF Repeat, Ring
<1>2. /\ NoAnswer => NoAnswer'
      /\ \A m \in fromB' : m.kind = "prack" => m \in fromB
      /\ fromB \subseteq fromB'
  BY DEF NoAnswer, Repeat, Ring, Reliable, Ringing
<1> QED
  BY <1>1, <1>2 DEF Staged, NotShown, Shows, Acknowledges, IsAnswered

LEMMA RingsStep ==
  ASSUME RelAssumption, ~Overtaking, AloneInv, RelNext, NEW f \in Forks
  PROVE  Rings(f)'
<1> SUFFICES ASSUME seen' \subseteq Of(f)
             PROVE  Staged(f)'
  BY DEF Rings, Of, Base
<1>1. seen \subseteq seen'
  BY DEF RelNext, Deliver, RelayProvisional, ReceivePrackOk, ReceivePrackAtB, ReceivePrack,
         SendReliable, Repeat, Ring
<1>2. seen \subseteq Of(f) /\ Staged(f)
  BY <1>1 DEF AloneInv, Rings
<1>3. ASSUME NEW m \in fromB, RelayProvisional(m) PROVE Staged(f)'
  BY <1>2, <1>3, AloneRelays
<1>4. ASSUME NEW m \in fromB, ReceivePrackOk(m) PROVE Staged(f)'
  BY <1>2, <1>4, AlonePrackOk
<1>5. ASSUME NEW m \in toB, ReceivePrackAtB(m) PROVE Staged(f)'
  BY <1>2, <1>5, AlonePrackAtB
<1>6. ASSUME NEW r \in pracks, ReceivePrack(r) PROVE Staged(f)'
  BY <1>2, <1>6, AlonePrack
<1>7. ASSUME NEW g \in Forks, SendReliable(g) PROVE Staged(f)'
  BY <1>2, <1>7, AloneSends
<1>8. ASSUME NEW g \in Forks, Repeat(g) \/ Ring(g) PROVE Staged(f)'
  BY <1>2, <1>8, AloneRepeats
<1> QED
  BY <1>3, <1>4, <1>5, <1>6, <1>7, <1>8 DEF RelNext, Deliver

\* When no response overtakes another, a fork that rings alone also gets the
\* PRACK of each of its responses.
THEOREM PracksAlwaysSafe == ~Overtaking => (RelSpec => []PracksSafe)
<1> USE RelAssumption
<1> SUFFICES ASSUME ~Overtaking PROVE RelSpec => []PracksSafe
  OBVIOUS
<1>1. RelInit => AloneInv
  BY RelInitial
<1>2. AloneInv /\ [RelNext]_relVars => AloneInv'
  <2> SUFFICES ASSUME AloneInv, [RelNext]_relVars PROVE AloneInv'
    OBVIOUS
  <2>1. CASE RelNext
    <3>1. RelInv'
      BY <2>1, RelStepTypes, RelStepNumbers DEF AloneInv, RelInv
    <3>2. InOrder'
      BY <2>1, InOrderStep DEF AloneInv
    <3>3. \A f \in Forks : Rings(f)'
      BY <2>1, RingsStep
    <3> QED
      BY <3>1, <3>2, <3>3 DEF AloneInv, Forks
  <2>2. CASE UNCHANGED relVars
    BY <2>2 DEF relVars, AloneInv, RelInv, RelTypes, Numbered, InOrder, Rings, Staged, NotShown,
                Shows, Acknowledges, IsAnswered, NoAnswer
  <2> QED
    BY <2>1, <2>2
<1>3. AloneInv => AloneAcknowledged
  BY DEF AloneInv, AloneAcknowledged, Rings, Staged
<1>4. RelSpec => []AloneAcknowledged
  BY <1>1, <1>2, <1>3, PTL DEF RelSpec
<1>5. RelTypeOK /\ PrackTrue /\ AloneAcknowledged => PracksSafe
  BY DEF PracksSafe
<1> QED
  BY <1>4, <1>5, PracksAreTrue, PTL

(***************************************************************************)
(* Transfers.                                                              *)
(***************************************************************************)
ReferRecords == [from : Parties, kind : {"blind", "attended"},
                 state : {"idle", "sent", "accepted", "refused"}]
Texts == {"blind", "attended", "", "accepted", "rejected", "success", "failure", "progress"}
Messages == [kind : {"refer", "relayed", "response", "notify"}, n : Refers, what : Texts]
Transfers == [refer : 0 .. MaxRefers, origin : Parties,
              state : {"none", "accepted", "progress", "completed", "recovered"}]
ResultRecords == [n : Refers, what : Results]

TransferTypes ==
  /\ refers \in [Refers -> ReferRecords]
  /\ peer \in [Refers -> Results \cup {"none", "trying", "ended"}]
  /\ wire \subseteq Messages /\ transfer \in Transfers
  /\ told \in [Parties -> Seq(ResultRecords)]

IsRejection(m) == m.kind = "response" /\ m.what = "rejected"

\* The message of a REFER, and what its sender, its receiver and the results
\* know of it.
Delivered(m) ==
  /\ m.kind = "refer" => refers[m.n].state = "sent" /\ m.what = refers[m.n].kind
  /\ m.kind # "refer" => refers[m.n].state = "accepted"
  /\ m.kind = "relayed" => m.what = "" /\ peer[m.n] = "none"
  /\ m.kind \in {"response", "notify"} => peer[m.n] # "none"
  /\ m.kind = "relayed" \/ IsRejection(m) => ~Told(m.n)
  /\ IsRejection(m) => peer[m.n] = "ended" /\ \A o \in wire : o.n = m.n => o = m

\* An earlier REFER is out of the way of one of party p.
OutOfTheWay(k, p) ==
  refers[k].state = "refused" \/ (Told(k) /\ (refers[k].from = p => Quiet(k)))

InTurn ==
  \A n, k \in Refers : k < n /\ refers[n].state # "idle" =>
    refers[k].state # "idle" /\ OutOfTheWay(k, refers[n].from)

\* The call keeps the transfer that was accepted last, unless it was restored.
Current ==
  /\ transfer # NoTransfer =>
       /\ transfer.refer \in Refers
       /\ refers[transfer.refer].state = "accepted"
       /\ transfer.origin = refers[transfer.refer].from
       /\ \A k \in Refers : k > transfer.refer => refers[k].state # "accepted"
       /\ Open(transfer) => ~Told(transfer.refer)

TransferInv ==
  /\ TransferTypes
  /\ \A m \in wire : Delivered(m)
  /\ \A n \in Refers : peer[n] # "none" \/ Told(n) => refers[n].state = "accepted"
  /\ InTurn /\ Current /\ ResultToReferrer

LEMMA TransferInitial ==
  ASSUME TransferAssumption, TransferInit PROVE TransferInv
<1> USE TransferAssumption
<1>1. /\ Parties = {"A", "B"} /\ Results = {"success", "failure"}
      /\ \A n \in Refers : ~Told(n)
      /\ \A p \in Parties : told[p] = << >> /\ DOMAIN told[p] = {}
  BY DEF Parties, Results, TransferInit, Told
<1>2. 0 \in 0 .. MaxRefers
  BY DEF TransferAssumption
<1>3. TransferTypes
  BY <1>1, <1>2 DEF TransferInit, TransferTypes, ReferRecords, Transfers, NoTransfer
<1>4. /\ \A n \in Refers : refers[n].state = "idle" /\ peer[n] = "none"
      /\ wire = {} /\ transfer = NoTransfer
  BY DEF TransferInit
<1> QED
  BY <1>1, <1>3, <1>4 DEF TransferInv, InTurn, Current, ResultToReferrer

-----------------------------------------------------------------------------
(* What a result changes.                                                  *)

LEMMA Telling ==
  ASSUME TransferTypes, NEW n \in Refers, NEW what \in Results \cup {"progress"}, Tell(n, what)
  PROVE  /\ told' \in [Parties -> Seq(ResultRecords)]
         /\ what = "progress" => told' = told
         /\ what # "progress" => \A k : Told(k)' <=> Told(k) \/ k = n
         /\ \A p \in Parties : \A i \in DOMAIN told'[p] :
              \/ i \in DOMAIN told[p] /\ told'[p][i] = told[p][i]
              \/ /\ what # "progress" /\ p = transfer.origin /\ told'[p][i].n = n
                 /\ i = Len(told[p]) + 1 /\ DOMAIN told[p] = 1 .. Len(told[p])
<1>1. CASE what = "progress"
  BY <1>1 DEF Tell, TransferTypes
<1>2. CASE what # "progress"
  <2> DEFINE result == [n |-> n, what |-> what]
             o == transfer.origin
  <2>1. o \in Parties /\ told[o] \in Seq(ResultRecords) /\ result \in ResultRecords
    BY <1>2 DEF TransferTypes, Transfers, ResultRecords
  <2>2. result.n = n
    OBVIOUS
  <2>3. told' = [told EXCEPT ![o] = Append(told[o], result)]
    BY <1>2 DEF Tell
  <2> HIDE DEF result, o
  <2>4. \A p \in Parties : told[p] \in Seq(ResultRecords)
    BY DEF TransferTypes
  <2>5. /\ told' \in [Parties -> Seq(ResultRecords)]
        /\ told'[o] = Append(told[o], result)
        /\ \A p \in Parties : p # o => told'[p] = told[p]
    BY <2>1, <2>3 DEF TransferTypes
  <2>6. /\ DOMAIN told[o] = 1 .. Len(told[o]) /\ Len(told[o]) \in Nat
        /\ DOMAIN told'[o] = 1 .. Len(told[o]) + 1
        /\ \A i \in DOMAIN told[o] : i \in DOMAIN told'[o] /\ told'[o][i] = told[o][i]
        /\ Len(told[o]) + 1 \in DOMAIN told'[o]
        /\ told'[o][Len(told[o]) + 1] = result
    BY <2>1, <2>5
  <2>7. ASSUME NEW p \in Parties, NEW i \in DOMAIN told'[p]
        PROVE  \/ i \in DOMAIN told[p] /\ told'[p][i] = told[p][i]
               \/ /\ p = o /\ told'[p][i].n = n
                  /\ i = Len(told[p]) + 1 /\ DOMAIN told[p] = 1 .. Len(told[p])
    <3>1. CASE p = o
      <4>1. i \in DOMAIN told[o] \/ i = Len(told[o]) + 1
        BY <2>6, <2>7, <3>1
      <4> QED
        BY <2>2, <2>6, <3>1, <4>1
    <3>2. CASE p # o
      BY <2>5, <2>7, <3>2
    <3> QED
      BY <3>1, <3>2
  <2>8. ASSUME NEW k PROVE Told(k)' <=> Told(k) \/ k = n
    <3>1. Told(k) => Told(k)'
      BY <2>1, <2>5, <2>6 DEF Told
    <3>2. Told(n)'
      BY <2>1, <2>2, <2>6 DEF Told
    <3>3. Told(k)' => Told(k) \/ k = n
      BY <2>7 DEF Told
    <3> QED
      BY <3>1, <3>2, <3>3
  <2> QED
    BY <1>2, <2>5, <2>7, <2>8 DEF o
<1> QED
  BY <1>1, <1>2

\* The first result of a REFER, told to the party it came from.
LEMMA FirstResult ==
  ASSUME TransferTypes, ResultToReferrer, NEW n \in Refers, NEW what \in Results, Tell(n, what),
         ~Told(n), transfer.origin = refers[n].from,
         \A k \in Refers : refers'[k].from = refers[k].from
  PROVE  ResultToReferrer'
<1> SUFFICES ASSUME NEW p \in Parties, NEW i \in DOMAIN told'[p]
             PROVE  /\ refers'[told'[p][i].n].from = p
                    /\ \A j \in DOMAIN told'[p] : told'[p][i].n = told'[p][j].n => i = j
  BY DEF ResultToReferrer
<1>1. what \in Results \cup {"progress"} /\ what # "progress"
  BY DEF Results
<1>2. \A j \in DOMAIN told'[p] :
        \/ j \in DOMAIN told[p] /\ told'[p][j] = told[p][j]
        \/ p = transfer.origin /\ told'[p][j].n = n /\ j = Len(told[p]) + 1
  BY <1>1, Telling
<1>3. \A j \in DOMAIN told[p] : told[p][j].n # n /\ told[p][j].n \in Refers
  <2>1. told[p] \in Seq(ResultRecords)
    BY DEF TransferTypes
  <2>2. \A j \in DOMAIN told[p] : told[p][j] \in ResultRecords
    BY <2>1
  <2> QED
    BY <2>2 DEF Told, ResultRecords
<1>4. refers'[told'[p][i].n].from = p
  BY <1>2, <1>3 DEF ResultToReferrer
<1>5. ASSUME NEW j \in DOMAIN told'[p], told'[p][i].n = told'[p][j].n
      PROVE  i = j
  BY <1>2, <1>3, <1>5 DEF ResultToReferrer
<1> QED
  BY <1>4, <1>5

LEMMA Notifying ==
  ASSUME NEW t \in Transfers, NEW what \in Results \cup {"progress"}
  PROVE  /\ Notified(t, what) \in Transfers
         /\ Notified(t, what).refer = t.refer /\ Notified(t, what).origin = t.origin
         /\ what = "progress" <=> Open(Notified(t, what))
BY DEF Notified, Transfers, Open, Results
-----------------------------------------------------------------------------
(* The steps.                                                              *)

\* What a step that touches no REFER, message, party or result leaves.
LEMMA TransferUntouched ==
  ASSUME TransferInv, UNCHANGED <<refers, peer, wire, told>>,
         transfer' = transfer \/ transfer' = NoTransfer
  PROVE  TransferInv'
<1>1. TransferTypes'
  <2>1. NoTransfer \in Transfers \/ transfer' = transfer
    <3>1. transfer \in Transfers
      BY DEF TransferInv, TransferTypes
    <3>2. 0 .. MaxRefers = {} \/ 0 \in 0 .. MaxRefers
      BY TransferAssumption DEF TransferAssumption
    <3> QED
      BY <3>1, <3>2 DEF NoTransfer, Transfers, Parties
  <2> QED
    BY <2>1 DEF TransferInv, TransferTypes
<1>2. \A k : Told(k)' <=> Told(k)
  BY DEF Told
<1>3. \A m \in wire : Delivered(m)'
  BY <1>2 DEF TransferInv, Delivered
<1>4. \A k \in Refers : Quiet(k)' <=> Quiet(k)
  BY DEF Quiet
<1>5. InTurn'
  BY <1>2, <1>4 DEF TransferInv, InTurn, OutOfTheWay
<1>6. Current'
  BY <1>2 DEF TransferInv, Current, Open
<1>7. ResultToReferrer'
  BY DEF TransferInv, ResultToReferrer
<1> QED
  BY <1>1, <1>2, <1>3, <1>5, <1>6, <1>7 DEF TransferInv

LEMMA SendReferKeeps ==
  ASSUME TransferAssumption, ~Overlap, TransferInv, NEW n \in Refers, NEW p \in Parties,
         NEW kind \in {"blind", "attended"}, SendRefer(n, p, kind)
  PROVE  TransferInv'
<1> DEFINE record == [from |-> p, kind |-> kind, state |-> "sent"]
<1>1. /\ refers' = [refers EXCEPT ![n] = record] /\ wire' = wire \cup {ToSbc("refer", n, kind)}
      /\ UNCHANGED <<peer, transfer, told>>
      /\ refers[n].state = "idle" /\ \A k \in 1 .. n - 1 : refers[k].state # "idle"
      /\ Polite(n, p)
  BY DEF SendRefer
<1>2. /\ record \in ReferRecords /\ record.from = p /\ record.state = "sent" /\ record.kind = kind
      /\ ToSbc("refer", n, kind) \in Messages
  BY DEF ReferRecords, ToSbc, Messages, Texts
<1> HIDE DEF record
<1>3. TransferTypes'
  BY <1>1, <1>2 DEF TransferInv, TransferTypes
<1>4. refers'[n] = record /\ \A k \in Refers : k # n => refers'[k] = refers[k]
  BY <1>1 DEF TransferInv, TransferTypes
<1>5. \A k : Told(k)' <=> Told(k)
  BY <1>1 DEF Told
<1>6. ~Told(n) /\ peer[n] = "none" /\ \A m \in wire : m.n \in Refers /\ m.n # n
  BY <1>1 DEF TransferInv, Delivered, TransferTypes, Messages
<1>7. \A m \in wire' : Delivered(m)'
  <2> TAKE m \in wire'
  <2>1. CASE m \in wire
    <3>1. \A o \in wire' : o.n = m.n => o \in wire
      BY <1>1, <1>6, <2>1 DEF ToSbc
    <3>2. refers'[m.n] = refers[m.n] /\ Delivered(m)
      BY <1>4, <1>6, <2>1 DEF TransferInv
    <3> QED
      BY <1>1, <1>5, <3>1, <3>2 DEF Delivered
  <2>2. CASE m = ToSbc("refer", n, kind)
    BY <1>2, <1>4, <2>2 DEF Delivered, ToSbc, IsRejection
  <2> QED
    BY <1>1, <2>1, <2>2
<1>8. \A k \in Refers : peer'[k] # "none" \/ Told(k)' => refers'[k].state = "accepted"
  BY <1>1, <1>4, <1>5, <1>6 DEF TransferInv
<1>9. \A k \in Refers : k # n => (Quiet(k)' <=> Quiet(k))
  BY <1>1 DEF Quiet, ToSbc
<1>10. InTurn'
  <2> SUFFICES ASSUME NEW l \in Refers, NEW k \in Refers, k < l, refers'[l].state # "idle"
               PROVE  refers'[k].state # "idle" /\ OutOfTheWay(k, refers[l].from)'
    BY DEF InTurn
  <2>1. k # n
    <3>1. k \in Int /\ l \in Int
      BY TransferAssumption DEF Refers, TransferAssumption
    <3> QED
      BY <1>1, <1>4, <3>1 DEF TransferInv, InTurn
  <2>2. CASE l # n
    BY <1>4, <1>5, <1>9, <2>1, <2>2 DEF TransferInv, InTurn, OutOfTheWay
  <2>3. CASE l = n
    <3>1. k \in 1 .. n - 1
      BY <2>3, TransferAssumption DEF Refers, TransferAssumption
    <3>2. /\ refers[k].state # "idle"
          /\ \/ refers[k].state = "refused"
             \/ Told(k) /\ (refers[k].from = p => Quiet(k))
      BY <1>1, <3>1 DEF Polite
    <3> QED
      BY <1>2, <1>4, <1>5, <1>9, <2>1, <2>3, <3>2 DEF OutOfTheWay
  <2> QED
    BY <2>2, <2>3
<1>11. Current'
  BY <1>1, <1>2, <1>4, <1>5 DEF TransferInv, Current, Open
<1>12. ResultToReferrer'
  <2>1. \A q \in Parties : \A i \in DOMAIN told[q] : told[q][i].n \in Refers /\ Told(told[q][i].n)
    <3> TAKE q \in Parties
    <3>1. told[q] \in Seq(ResultRecords)
      BY DEF TransferInv, TransferTypes
    <3>2. \A i \in DOMAIN told[q] : told[q][i] \in ResultRecords
      BY <3>1
    <3> QED
      BY <3>2 DEF Told, ResultRecords
  <2> QED
    BY <1>1, <1>4, <1>6, <2>1 DEF TransferInv, ResultToReferrer
<1> QED
  BY <1>3, <1>7, <1>8, <1>10, <1>11, <1>12 DEF TransferInv
\* A step of the party that was referred by n.
LEMMA PeerKeeps ==
  ASSUME TransferInv, NEW n \in Refers, NEW standing \in Results \cup {"none", "trying", "ended"},
         UNCHANGED <<refers, transfer, told>>, peer' = [peer EXCEPT ![n] = standing],
         refers[n].state = "accepted", ~Quiet(n), wire' \subseteq Messages,
         \A m \in wire' : Delivered(m)' /\ (m \in wire \/ m.n = n)
  PROVE  TransferInv'
<1>1. TransferTypes'
  BY DEF TransferInv, TransferTypes
<1>2. \A k : Told(k)' <=> Told(k)
  BY DEF Told
<1>3. \A k \in Refers : k # n => peer'[k] = peer[k] /\ (Quiet(k) => Quiet(k)')
  BY DEF TransferInv, TransferTypes, Quiet
<1>4. InTurn'
  BY <1>2, <1>3 DEF TransferInv, InTurn, OutOfTheWay
<1>5. Current' /\ ResultToReferrer'
  BY <1>2 DEF TransferInv, Current, Open, ResultToReferrer
<1>6. \A k \in Refers : peer'[k] # "none" \/ Told(k)' => refers'[k].state = "accepted"
  BY <1>2, <1>3 DEF TransferInv
<1> QED
  BY <1>1, <1>4, <1>5, <1>6 DEF TransferInv

LEMMA PeerAnswersKeeps ==
  ASSUME TransferInv, NEW n \in Refers, PeerAnswers(n) PROVE TransferInv'
<1> DEFINE relayed == ToSbc("relayed", n, "")
<1>1. PICK ok \in BOOLEAN :
        /\ peer' = [peer EXCEPT ![n] = IF ok THEN "trying" ELSE "ended"]
        /\ wire' = (wire \ {relayed}) \cup
                     {ToSbc("response", n, IF ok THEN "accepted" ELSE "rejected")}
  BY DEF PeerAnswers
<1> DEFINE answer == ToSbc("response", n, IF ok THEN "accepted" ELSE "rejected")
           standing == IF ok THEN "trying" ELSE "ended"
<1>2. /\ answer \in Messages /\ answer.kind = "response" /\ answer.n = n
      /\ relayed.kind = "relayed" /\ relayed.n = n /\ relayed.what = ""
      /\ standing \in Results \cup {"none", "trying", "ended"} /\ standing # "none"
      /\ IsRejection(answer) => standing = "ended"
  BY DEF ToSbc, Messages, Texts, IsRejection, Results
<1>3. relayed \in wire /\ wire' = (wire \ {relayed}) \cup {answer}
      /\ peer' = [peer EXCEPT ![n] = standing] /\ UNCHANGED <<refers, transfer, told>>
  BY <1>1 DEF PeerAnswers
<1> HIDE DEF answer, relayed, standing
<1>4. refers[n].state = "accepted" /\ peer[n] = "none" /\ ~Told(n) /\ ~Quiet(n)
  BY <1>2, <1>3 DEF TransferInv, Delivered, Quiet
<1>5. \A m \in wire : m \in Messages /\ m.n \in Refers /\ Delivered(m)
  BY DEF TransferInv, TransferTypes, Messages
<1>6. \A m \in wire : m.n = n => m = relayed
  <2> SUFFICES ASSUME NEW m \in wire, m.n = n PROVE m = relayed
    OBVIOUS
  <2>1. m \in Messages /\ m.kind = "relayed" /\ m.what = ""
    BY <1>4, <1>5 DEF Delivered, Messages
  <2> QED
    BY <1>2, <2>1 DEF Messages, relayed, ToSbc
<1>7. \A k : Told(k)' <=> Told(k)
  BY <1>3 DEF Told
<1>8. peer'[n] = standing /\ \A k \in Refers : k # n => peer'[k] = peer[k]
  BY <1>3 DEF TransferInv, TransferTypes
<1>9. \A m \in wire' : Delivered(m)' /\ (m \in wire \/ m.n = n) /\ m \in Messages
  <2> TAKE m \in wire'
  <2>1. CASE m = answer
    <3>1. \A o \in wire' : o.n = n => o = answer
      BY <1>3, <1>6
    <3> QED
      BY <1>2, <1>3, <1>4, <1>7, <1>8, <2>1, <3>1 DEF Delivered
  <2>2. CASE m # answer
    <3>1. m \in wire /\ m.n # n /\ m.n \in Refers
      BY <1>3, <1>5, <1>6, <2>2
    <3>2. \A o \in wire' : o.n = m.n => o \in wire
      BY <1>2, <1>3, <3>1
    <3> QED
      BY <1>3, <1>5, <1>7, <1>8, <3>1, <3>2 DEF Delivered
  <2> QED
    BY <2>1, <2>2
<1> QED
  BY <1>2, <1>3, <1>4, <1>9, PeerKeeps

LEMMA PeerNotifiesKeeps ==
  ASSUME TransferInv, NEW n \in Refers, PeerNotifies(n) PROVE TransferInv'
<1>1. PICK what \in IF peer[n] = "trying" THEN Results \cup {"progress"} ELSE {peer[n]} :
        /\ wire' = wire \cup {ToSbc("notify", n, what)}
        /\ peer' = [peer EXCEPT ![n] = IF what = "progress" THEN @
                                       ELSE IF @ = "trying" THEN what ELSE "ended"]
  BY DEF PeerNotifies
<1> DEFINE notify == ToSbc("notify", n, what)
           standing == IF what = "progress" THEN peer[n]
                       ELSE IF peer[n] = "trying" THEN what ELSE "ended"
<1>2. peer[n] \in {"trying", "success", "failure"} /\ what \in {"success", "failure", "progress"}
      /\ UNCHANGED <<refers, transfer, told>>
  BY DEF PeerNotifies, Results
<1>3. /\ notify \in Messages /\ notify.kind = "notify" /\ notify.n = n
      /\ standing \in Results \cup {"none", "trying", "ended"} /\ standing # "none"
      /\ ~IsRejection(notify)
  BY <1>2 DEF ToSbc, Messages, Texts, IsRejection, Results
<1>4. wire' = wire \cup {notify} /\ peer' = [peer EXCEPT ![n] = standing]
  BY <1>1
<1> HIDE DEF notify, standing
<1>5. refers[n].state = "accepted" /\ ~Quiet(n)
  BY <1>2 DEF TransferInv, Quiet
<1>6. \A m \in wire : m \in Messages /\ m.n \in Refers /\ Delivered(m)
  BY DEF TransferInv, TransferTypes, Messages
<1>7. \A k : Told(k)' <=> Told(k)
  BY <1>2 DEF Told
<1>8. peer'[n] = standing /\ \A k \in Refers : k # n => peer'[k] = peer[k]
  BY <1>4 DEF TransferInv, TransferTypes
<1>9. \A m \in wire' : Delivered(m)' /\ (m \in wire \/ m.n = n) /\ m \in Messages
  <2> TAKE m \in wire'
  <2>1. CASE m = notify
    BY <1>2, <1>3, <1>5, <1>8, <2>1 DEF Delivered
  <2>2. CASE m # notify
    <3>1. m \in wire /\ m \in Messages /\ m.n \in Refers /\ Delivered(m)
      BY <1>4, <1>6, <2>2
    <3>2. IsRejection(m) => m.n # n
      BY <1>2, <3>1 DEF Delivered
    <3>3. \A o \in wire' : o.n = m.n /\ m.n # n => o \in wire
      BY <1>3, <1>4
    <3>4. m.kind = "relayed" => m.n # n
      BY <1>2, <3>1 DEF Delivered
    <3>5. m.kind \in {"response", "notify"} => peer'[m.n] # "none"
      BY <1>3, <1>8, <3>1 DEF Delivered
    <3>6. IsRejection(m) => peer'[m.n] = "ended" /\ \A o \in wire' : o.n = m.n => o = m
      BY <1>8, <3>1, <3>2, <3>3 DEF Delivered
    <3>7. m.kind = "relayed" => m.what = "" /\ peer'[m.n] = "none"
      BY <1>8, <3>1, <3>4 DEF Delivered
    <3> QED
      BY <1>2, <1>7, <3>1, <3>5, <3>6, <3>7 DEF Delivered
  <2> QED
    BY <2>1, <2>2
<1> QED
  BY <1>2, <1>3, <1>4, <1>5, <1>9, PeerKeeps
LEMMA ReceiveReferKeeps ==
  ASSUME TransferAssumption, TransferInv, NEW n \in Refers, ReceiveRefer(n) PROVE TransferInv'
<1> DEFINE refer == ToSbc("refer", n, refers[n].kind)
           relayed == ToSbc("relayed", n, "")
           state == IF Acceptable(n) THEN "accepted" ELSE "refused"
           accepted == [refer |-> n, origin |-> refers[n].from, state |-> "accepted"]
<1>1. /\ refer \in wire /\ refers' = [refers EXCEPT ![n].state = state]
      /\ UNCHANGED <<peer, told>>
      /\ IF Acceptable(n) THEN transfer' = accepted /\ wire' = (wire \ {refer}) \cup {relayed}
         ELSE transfer' = transfer /\ wire' = wire \ {refer}
      /\ state \in {"accepted", "refused"} /\ (state = "accepted" <=> Acceptable(n))
  BY DEF ReceiveRefer
<1>2. refers[n] \in ReferRecords /\ refers[n].from \in Parties
  BY DEF TransferInv, TransferTypes, ReferRecords
<1>3. /\ refer.kind = "refer" /\ refer.n = n
      /\ relayed \in Messages /\ relayed.kind = "relayed" /\ relayed.n = n /\ relayed.what = ""
      /\ ~IsRejection(relayed)
      /\ accepted \in Transfers /\ accepted.refer = n /\ accepted.origin = refers[n].from
      /\ Open(accepted) /\ accepted # NoTransfer
  <2>1. n \in 0 .. MaxRefers /\ n # 0
    BY TransferAssumption DEF Refers, TransferAssumption
  <2> QED
    BY <1>2, <2>1 DEF ToSbc, Messages, Texts, IsRejection, Transfers, Open, NoTransfer
<1> HIDE DEF state, accepted, refer, relayed
<1>4. /\ refers' \in [Refers -> ReferRecords] /\ refers'[n].state = state
      /\ \A k \in Refers : k # n => refers'[k] = refers[k]
      /\ \A k \in Refers : refers'[k].from = refers[k].from
  <2>1. refers \in [Refers -> ReferRecords]
    BY DEF TransferInv, TransferTypes
  <2>2. \A r \in ReferRecords : /\ [r EXCEPT !.state = state] \in ReferRecords
                                /\ [r EXCEPT !.state = state].state = state
                                /\ [r EXCEPT !.state = state].from = r.from
    BY <1>1 DEF ReferRecords
  <2>3. refers' = [refers EXCEPT ![n] = [refers[n] EXCEPT !.state = state]]
    BY <1>1
  <2> QED
    BY <1>2, <2>1, <2>2, <2>3
<1>5. TransferTypes'
  <2>1. transfer' \in Transfers /\ wire' \subseteq wire \cup {relayed}
    BY <1>1, <1>3 DEF TransferInv, TransferTypes
  <2> QED
    BY <1>1, <1>3, <1>4, <2>1 DEF TransferInv, TransferTypes
<1>6. refers[n].state = "sent" /\ ~Told(n) /\ peer[n] = "none"
  BY <1>1, <1>3 DEF TransferInv, Delivered
<1>7. \A k : Told(k)' <=> Told(k)
  BY <1>1 DEF Told
<1>8. \A m \in wire : m \in Messages /\ m.n \in Refers /\ Delivered(m)
  BY DEF TransferInv, TransferTypes, Messages
<1>9. \A m \in wire : m.n = n => m = refer
  <2> SUFFICES ASSUME NEW m \in wire, m.n = n PROVE m = refer
    OBVIOUS
  <2>1. m \in Messages /\ m.kind = "refer" /\ m.what = refers[n].kind
    BY <1>6, <1>8 DEF Delivered
  <2> QED
    BY <2>1 DEF Messages, refer, ToSbc
<1>10. \A m \in wire' : Delivered(m)'
  <2> TAKE m \in wire'
  <2>1. CASE m = relayed /\ Acceptable(n)
    BY <1>1, <1>3, <1>4, <1>6, <1>7, <2>1 DEF Delivered
  <2>2. CASE ~(m = relayed /\ Acceptable(n))
    <3>1. m \in wire /\ m.n # n /\ m.n \in Refers
      BY <1>1, <1>8, <1>9, <2>2
    <3>2. \A o \in wire' : o.n = m.n => o \in wire
      BY <1>1, <1>3, <3>1
    <3> QED
      BY <1>1, <1>4, <1>7, <1>8, <3>1, <3>2 DEF Delivered
  <2> QED
    BY <2>1, <2>2
<1>11. \A k \in Refers : peer'[k] # "none" \/ Told(k)' => refers'[k].state = "accepted"
  BY <1>1, <1>4, <1>6, <1>7 DEF TransferInv
<1>12. \A k \in Refers : k # n /\ Quiet(k) => Quiet(k)'
  BY <1>1, <1>3 DEF Quiet
<1>13. \A k \in Refers : k > n => refers[k].state = "idle"
  BY <1>6 DEF TransferInv, InTurn, OutOfTheWay
<1>14. InTurn'
  <2> SUFFICES ASSUME NEW l \in Refers, NEW k \in Refers, k < l, refers'[l].state # "idle"
               PROVE  (refers[k].state # "idle" /\ OutOfTheWay(k, refers[l].from))'
    BY DEF InTurn
  <2>1. k # n
    <3>1. k \in Int /\ l \in Int
      BY TransferAssumption DEF Refers, TransferAssumption
    <3> QED
      BY <1>4, <1>13, <3>1
  <2>2. refers[l].state # "idle"
    BY <1>4, <1>6
  <2>3. refers[k].state # "idle" /\ OutOfTheWay(k, refers[l].from)
    BY <2>2 DEF TransferInv, InTurn
  <2> QED
    BY <1>4, <1>7, <1>12, <2>1, <2>3 DEF OutOfTheWay
<1>15. Current'
  <2>1. CASE Acceptable(n)
    <3>1. \A k \in Refers : k > n => refers'[k].state # "accepted"
      <4>1. \A k \in Refers : k \in Int
        BY TransferAssumption DEF Refers, TransferAssumption
      <4> QED
        BY <1>4, <1>13, <4>1
    <3> QED
      BY <1>1, <1>3, <1>4, <1>6, <1>7, <2>1, <3>1 DEF Current
  <2>2. CASE ~Acceptable(n)
    BY <1>1, <1>4, <1>6, <1>7, <2>2 DEF TransferInv, Current, Open
  <2> QED
    BY <2>1, <2>2
<1>16. ResultToReferrer'
  <2>1. \A q \in Parties : \A i \in DOMAIN told[q] : told[q][i].n \in Refers
    <3> TAKE q \in Parties
    <3>1. told[q] \in Seq(ResultRecords)
      BY DEF TransferInv, TransferTypes
    <3>2. \A i \in DOMAIN told[q] : told[q][i] \in ResultRecords
      BY <3>1
    <3> QED
      BY <3>2 DEF ResultRecords
  <2> QED
    BY <1>1, <1>4, <2>1 DEF TransferInv, ResultToReferrer
<1> QED
  BY <1>5, <1>10, <1>11, <1>14, <1>15, <1>16 DEF TransferInv

\* A result of n, told when the call's transfer is that of n and open, or n was
\* refused by the other party.
LEMMA ResultKeeps ==
  ASSUME TransferInv, NEW n \in Refers, NEW m \in wire, m.n = n, wire' = wire \ {m},
         NEW what \in Results \cup {"progress"}, UNCHANGED <<refers, peer>>,
         transfer # NoTransfer, transfer.refer = n, ~Told(n), Tell(n, what),
         IF what = "progress" THEN Open(transfer) ELSE ~Open(transfer'),
         \/ transfer' = transfer
         \/ transfer' = Notified(transfer, what),
         m.kind = "notify" \/ IsRejection(m)
  PROVE  TransferInv'
<1>1. /\ transfer \in Transfers /\ transfer.origin = refers[n].from
      /\ refers[n].state = "accepted" /\ peer[n] # "none"
      /\ \A k \in Refers : k > n => refers[k].state # "accepted"
  BY DEF TransferInv, TransferTypes, Current, Delivered, IsRejection
<1>2. /\ transfer' \in Transfers /\ transfer'.refer = n /\ transfer'.origin = transfer.origin
  BY <1>1, Notifying
<1>3. /\ told' \in [Parties -> Seq(ResultRecords)]
      /\ what = "progress" => told' = told
      /\ what # "progress" => \A k : Told(k)' <=> Told(k) \/ k = n
  BY Telling DEF TransferInv
<1>4. TransferTypes'
  BY <1>2, <1>3 DEF TransferInv, TransferTypes
<1>5. \A k : k # n \/ what = "progress" => (Told(k)' <=> Told(k))
  BY <1>3 DEF Told
<1>6. \A k : Told(k) => Told(k)'
  BY <1>3, <1>5
<1>7. \A o \in wire' : Delivered(o)'
  <2> TAKE o \in wire'
  <2>1. o \in wire /\ Delivered(o) /\ o # m /\ Delivered(m)
    BY DEF TransferInv
  <2>2. o.n = n => o.kind # "relayed" /\ ~IsRejection(o)
    <3> SUFFICES ASSUME o.n = n PROVE o.kind # "relayed" /\ ~IsRejection(o)
      OBVIOUS
    <3>1. o.kind # "relayed"
      BY <1>1, <2>1 DEF Delivered
    <3>2. ~IsRejection(o)
      BY <2>1 DEF Delivered
    <3> QED
      BY <3>1, <3>2
  <2> QED
    BY <1>5, <2>1, <2>2 DEF Delivered
<1>8. \A k \in Refers : peer'[k] # "none" \/ Told(k)' => refers'[k].state = "accepted"
  BY <1>1, <1>3, <1>5 DEF TransferInv
<1>9. \A k \in Refers : Quiet(k) => Quiet(k)'
  BY DEF Quiet
<1>10. InTurn'
  BY <1>6, <1>9 DEF TransferInv, InTurn, OutOfTheWay
<1>11. Current'
  BY <1>1, <1>2, <1>5 DEF Current
<1>12. ResultToReferrer'
  <2>1. CASE what = "progress"
    BY <1>3, <2>1 DEF TransferInv, ResultToReferrer
  <2>2. CASE what # "progress"
    BY <1>1, <2>2, FirstResult DEF TransferInv
  <2> QED
    BY <2>1, <2>2
<1> QED
  BY <1>4, <1>7, <1>8, <1>10, <1>11, <1>12 DEF TransferInv

\* A message that is taken without effect.
LEMMA DroppedKeeps ==
  ASSUME TransferInv, wire' \subseteq wire, UNCHANGED <<refers, peer, transfer, told>>
  PROVE  TransferInv'
<1>1. TransferTypes'
  BY DEF TransferInv, TransferTypes
<1>2. \A k : Told(k)' <=> Told(k)
  BY DEF Told
<1>3. \A m \in wire' : Delivered(m)'
  BY <1>2 DEF TransferInv, Delivered
<1>4. \A k \in Refers : Quiet(k) => Quiet(k)'
  BY DEF Quiet
<1>5. InTurn' /\ Current'
  BY <1>2, <1>4 DEF TransferInv, InTurn, OutOfTheWay, Current, Open
<1>6. ResultToReferrer'
  BY DEF TransferInv, ResultToReferrer
<1> QED
  BY <1>1, <1>2, <1>3, <1>5, <1>6 DEF TransferInv

\* The transfer of a REFER that was accepted and is still open.
LEMMA OfCurrent ==
  ASSUME TransferAssumption, TransferInv, NEW n \in Refers, refers[n].state = "accepted",
         transfer # NoTransfer, ~Quiet(n), ~Told(n) \/ transfer.origin = refers[n].from
  PROVE  transfer.refer = n
<1>1. /\ transfer.refer \in Refers /\ refers[transfer.refer].state = "accepted"
      /\ transfer.origin = refers[transfer.refer].from
      /\ \A k \in Refers : k > transfer.refer => refers[k].state # "accepted"
  BY DEF TransferInv, Current
<1>2. \A k \in Refers : k \in Int
  BY TransferAssumption DEF Refers, TransferAssumption
<1>3. ~(n < transfer.refer)
  BY <1>1 DEF TransferInv, InTurn, OutOfTheWay
<1> QED
  BY <1>1, <1>2, <1>3

LEMMA ReceiveResponseKeeps ==
  ASSUME TransferAssumption, TransferInv, NEW n \in Refers, ReceiveResponse(n)
  PROVE  TransferInv'
<1>1. PICK what \in {"accepted", "rejected"} :
        ToSbc("response", n, what) \in wire /\ wire' = wire \ {ToSbc("response", n, what)}
  BY DEF ReceiveResponse
<1>2. UNCHANGED <<refers, peer>>
  BY DEF ReceiveResponse
<1>3. CASE Rejected(n) /\ inCall /\ transfer # NoTransfer
  <2> DEFINE m == ToSbc("response", n, "rejected")
  <2>1. m \in wire /\ m.n = n /\ IsRejection(m) /\ m.kind # "refer"
    BY <1>3 DEF Rejected, ToSbc, IsRejection
  <2> HIDE DEF m
  <2>2. /\ refers[n].state = "accepted" /\ ~Told(n) /\ \A o \in wire : o.n = n => o = m
    BY <2>1 DEF TransferInv, Delivered
  <2>3. wire' = wire \ {m}
    BY <1>1, <2>2 DEF ToSbc
  <2>4. /\ transfer' = IF Open(transfer) THEN Notified(transfer, "failure") ELSE transfer
        /\ Tell(n, "failure")
    BY <1>3 DEF ReceiveResponse
  <2>5. "failure" \in Results \cup {"progress"} /\ transfer \in Transfers
    BY DEF Results, TransferInv, TransferTypes
  <2>6. ~Open(transfer')
    BY <2>4, <2>5, Notifying
  <2>7. ~Quiet(n)
    BY <2>1 DEF Quiet
  <2>8. transfer.refer = n
    BY <1>3, <2>2, <2>7, OfCurrent
  <2> QED
    BY <1>2, <1>3, <2>1, <2>2, <2>3, <2>4, <2>5, <2>6, <2>8, ResultKeeps
<1>4. CASE ~(Rejected(n) /\ inCall /\ transfer # NoTransfer)
  <2>1. UNCHANGED <<transfer, told>>
    BY <1>4 DEF ReceiveResponse
  <2> QED
    BY <1>1, <1>2, <2>1, DroppedKeeps
<1> QED
  BY <1>3, <1>4

LEMMA ReceiveNotifyKeeps ==
  ASSUME TransferAssumption, TransferInv, NEW n \in Refers, NEW what \in Results \cup {"progress"},
         ReceiveNotify(n, what)
  PROVE  TransferInv'
<1> DEFINE m == ToSbc("notify", n, what)
<1>1. /\ m \in wire /\ m.n = n /\ m.kind = "notify" /\ wire' = wire \ {m}
      /\ UNCHANGED <<refers, peer>>
  BY DEF ReceiveNotify, ToSbc
<1>2. CASE Expected(n)
  <2>1. /\ transfer # NoTransfer /\ transfer.origin = refers[n].from /\ Open(transfer)
        /\ transfer' = Notified(transfer, what) /\ Tell(n, what)
    BY <1>2 DEF ReceiveNotify, Expected
  <2> HIDE DEF m
  <2>2. refers[n].state = "accepted" /\ ~Quiet(n)
    BY <1>1 DEF TransferInv, Delivered, Quiet
  <2>3. transfer.refer = n
    BY <2>1, <2>2, OfCurrent
  <2>4. ~Told(n)
    BY <2>1, <2>3 DEF TransferInv, Current
  <2>5. what # "progress" => ~Open(transfer')
    BY <2>1, Notifying DEF TransferInv, TransferTypes
  <2> QED
    BY <1>1, <2>1, <2>3, <2>4, <2>5, ResultKeeps
<1>3. CASE ~Expected(n)
  <2>1. UNCHANGED <<transfer, told>>
    BY <1>3 DEF ReceiveNotify
  <2> QED
    BY <1>1, <2>1, DroppedKeeps
<1> QED
  BY <1>2, <1>3

LEMMA TransferNextKeeps ==
  ASSUME TransferAssumption, ~Overlap, TransferInv, TransferNext PROVE TransferInv'
<1>1. ASSUME NEW n \in Refers, NEW p \in Parties, NEW kind \in {"blind", "attended"},
             SendRefer(n, p, kind)
      PROVE  TransferInv'
  BY <1>1, SendReferKeeps
<1>2. CASE PeerStep
  BY <1>2, PeerAnswersKeeps, PeerNotifiesKeeps DEF PeerStep
<1>3. CASE ConsultMoves \/ HangUp \/ Failover
  BY <1>3, TransferUntouched DEF ConsultMoves, HangUp, Failover
<1>4. CASE Sbc
  BY <1>4, ReceiveReferKeeps, ReceiveResponseKeeps, ReceiveNotifyKeeps DEF Sbc
<1> QED
  BY <1>1, <1>2, <1>3, <1>4 DEF TransferNext

\* While parties wait for the end of one transfer before the next, a result
\* goes to the party whose REFER it answers and each REFER gets one, in
\* whatever order responses and NOTIFYs arrive and wherever the call is
\* restored.
THEOREM ResultsReachReferrer == ~Overlap => (TransferSpec => []ResultToReferrer)
<1> USE TransferAssumption
<1> SUFFICES ASSUME ~Overlap PROVE TransferSpec => []ResultToReferrer
  OBVIOUS
<1>1. TransferInit => TransferInv
  BY TransferInitial
<1>2. TransferInv /\ [TransferNext]_transferVars => TransferInv'
  <2> SUFFICES ASSUME TransferInv, [TransferNext]_transferVars PROVE TransferInv'
    OBVIOUS
  <2>1. CASE TransferNext
    BY <2>1, TransferNextKeeps
  <2>2. CASE UNCHANGED transferVars
    BY <2>2, DroppedKeeps DEF transferVars
  <2> QED
    BY <2>1, <2>2
<1>3. TransferInv => ResultToReferrer
  BY DEF TransferInv
<1> QED
  BY <1>1, <1>2, <1>3, PTL DEF TransferSpec

(***************************************************************************)
(* The control of RTPengine.                                               *)
(***************************************************************************)
Cookies == [command : {"offer", "answer", "query", "delete"}, attempt : Nat]
EngineReplies == [cookie : Cookies, ok : BOOLEAN]

ControlTypes ==
  /\ ControlTypeOK
  /\ invite.step \in {"none", "offer", "ringing", "answer", "done"}
  /\ delete.step \in {"none", "query", "delete", "done"}
  /\ sent \subseteq Cookies /\ replies \subseteq EngineReplies /\ disturbed \in BOOLEAN

\* A call exists from RTPengine's answer to the OFFER on, and nothing is deleted
\* before it is finalized.
CallOrder ==
  /\ b2bua.registered \/ b2bua.finalizer \/ b2bua.finalized => invite.step \notin {"none", "offer"}
  /\ invite.step \in {"ringing", "answer"} => b2bua.registered \/ b2bua.finalized
  /\ b2bua.finalized <=> delete.step # "none"
  /\ \A c \in sent : c.command = "delete" => b2bua.finalized
  /\ \A r \in replies : r.cookie.command = "delete" => b2bua.finalized

\* What an answer of RTPengine says of its session lasts until the call is
\* finalized.
AnswerHolds ==
  /\ AnsweredHasMedia
  /\ \A r \in replies : r.cookie.command = "answer" /\ r.ok => engine = "answered" \/ b2bua.finalized

\* When nothing was lost or given up: an OFFER under way is the first, RTPengine
\* has not seen it and the task waits for it, so that no session appears after
\* an OFFER was refused or a DELETE carried out.
Undisturbed ==
  /\ \A c \in sent : c.command = "offer" =>
       /\ c.attempt = 1 /\ invite.step = "offer" /\ engine = "none"
       /\ \A r \in replies : r.cookie.command # "offer"
  /\ \A r \in replies : r.cookie.command = "offer" => invite.step # "none" /\ (r.ok \/ engine = "none")
  /\ \A r \in replies : r.cookie.command = "delete" => engine = "none"
  /\ invite.step = "none" => engine = "none"
  /\ delete.step = "done" => engine = "none"
  /\ invite.step = "done" /\ ~b2bua.registered /\ ~b2bua.finalized => engine = "none"

ControlInv == ControlTypes /\ CallOrder /\ AnswerHolds /\ (~disturbed => Undisturbed)

Calls == [registered : BOOLEAN, finalized : BOOLEAN, finalizer : BOOLEAN,
          told : {"nothing", "refused", "answered"}]

LEMMA ControlInitial == ControlInit => ControlInv
<1> SUFFICES ASSUME ControlInit PROVE ControlInv
  OBVIOUS
<1>1. invite.step = "none" /\ invite.attempt = 0 /\ delete.step = "none" /\ delete.attempt = 0
  BY DEF ControlInit, NoTask
<1>2. b2bua.registered = FALSE /\ b2bua.finalized = FALSE /\ b2bua.finalizer = FALSE /\ b2bua.told = "nothing"
  BY DEF ControlInit
<1>3. invite \in Task /\ delete \in Task
  BY DEF ControlInit, NoTask, Task
<1>4. b2bua \in Calls
  BY DEF ControlInit, Calls
<1>5. ControlTypeOK
  BY <1>1, <1>3, <1>4, ControlAssumption DEF ControlInit, ControlTypeOK, Calls
<1>6. ControlTypes
  BY <1>1, <1>5 DEF ControlInit, ControlTypes
<1> QED
  BY <1>1, <1>2, <1>6 DEF ControlInit, ControlInv, CallOrder, AnswerHolds, AnsweredHasMedia, Undisturbed

\* What the next attempt of a command is, and what a step's first.
LEMMA Cookied ==
  /\ \A step \in {"none", "offer", "ringing", "answer", "query", "delete", "done"} :
       First(step) \in Task /\ First(step).step = step /\ First(step).attempt = 1
  /\ \A task \in Task :
       /\ NextAttempt(task) \in Task
       /\ NextAttempt(task).step = task.step /\ NextAttempt(task).attempt = task.attempt + 1
       /\ task.step \in {"offer", "answer", "query", "delete"} => Cookie(task) \in Cookies
       /\ Cookie(task).command = task.step
BY DEF First, NextAttempt, Task, Cookie, Cookies

\* What a call is after a change, field by field.
Is(l, registered, finalized, finalizer, what) ==
  /\ l \in Calls /\ l.registered = registered /\ l.finalized = finalized
  /\ l.finalizer = finalizer /\ l.told = what

LEMMA CallIs ==
  ASSUME ControlTypeOK
  PROVE  /\ Is(b2bua, b2bua.registered, b2bua.finalized, b2bua.finalizer, b2bua.told)
         /\ \A what \in {"nothing", "refused", "answered"} :
              /\ Is(TellA(what), b2bua.registered, b2bua.finalized, b2bua.finalizer, what)
              /\ Is(Ended(TellA(what)), FALSE, TRUE, b2bua.finalizer, what)
         /\ Is(Ended([b2bua EXCEPT !.finalizer = FALSE]), FALSE, TRUE, FALSE, b2bua.told)
         /\ Is([b2bua EXCEPT !.registered = TRUE], TRUE, b2bua.finalized, b2bua.finalizer, b2bua.told)
         /\ Is([b2bua EXCEPT !.finalizer = TRUE], b2bua.registered, b2bua.finalized, TRUE, b2bua.told)
<1>1. b2bua \in Calls BY DEF ControlTypeOK, Calls
<1>2. ASSUME NEW l \in Calls, NEW what \in {"nothing", "refused", "answered"}
      PROVE  /\ [l EXCEPT !.told = what] \in Calls /\ Ended(l) \in Calls
             /\ [l EXCEPT !.finalizer = FALSE] \in Calls
             /\ [l EXCEPT !.registered = TRUE] \in Calls /\ [l EXCEPT !.finalizer = TRUE] \in Calls
  BY DEF Calls, Ended
<1>3. ASSUME NEW what \in {"nothing", "refused", "answered"}
      PROVE  Is(TellA(what), b2bua.registered, b2bua.finalized, b2bua.finalizer, what)
  BY <1>1, <1>2 DEF Is, Calls, TellA
<1>4. ASSUME NEW what \in {"nothing", "refused", "answered"}
      PROVE  Is(Ended(TellA(what)), FALSE, TRUE, b2bua.finalizer, what)
  <2>1. TellA(what) \in Calls BY <1>3 DEF Is
  <2>2. Ended(TellA(what)) \in Calls BY <1>2, <2>1
  <2> QED BY <2>1, <2>2, <1>3 DEF Is, Calls, Ended
<1>5. Is(Ended([b2bua EXCEPT !.finalizer = FALSE]), FALSE, TRUE, FALSE, b2bua.told)
  <2>1. [b2bua EXCEPT !.finalizer = FALSE] \in Calls BY <1>1, <1>2
  <2>2. Ended([b2bua EXCEPT !.finalizer = FALSE]) \in Calls BY <1>2, <2>1
  <2> QED BY <1>1, <2>1, <2>2 DEF Is, Calls, Ended
<1>6. Is([b2bua EXCEPT !.registered = TRUE], TRUE, b2bua.finalized, b2bua.finalizer, b2bua.told)
  <2>1. [b2bua EXCEPT !.registered = TRUE] \in Calls BY <1>1, <1>2
  <2> QED BY <1>1, <2>1 DEF Is, Calls
<1>7. Is([b2bua EXCEPT !.finalizer = TRUE], b2bua.registered, b2bua.finalized, TRUE, b2bua.told)
  <2>1. [b2bua EXCEPT !.finalizer = TRUE] \in Calls BY <1>1, <1>2
  <2> QED BY <1>1, <2>1 DEF Is, Calls
<1>8. Is(b2bua, b2bua.registered, b2bua.finalized, b2bua.finalizer, b2bua.told)
  BY <1>1 DEF Is
<1> QED BY <1>3, <1>4, <1>5, <1>6, <1>7, <1>8

\* The end of a call, whoever brings it about: a first one starts the deletion.
LEMMA Finalizes ==
  ASSUME ControlTypes, NEW l, Is(Ended(l), FALSE, TRUE, Ended(l).finalizer, Ended(l).told), Finalize(l)
  PROVE  /\ b2bua' = Ended(l)
         /\ b2bua.finalized => delete' = delete /\ sent' = sent
         /\ ~b2bua.finalized => /\ delete' = First("query") /\ delete'.step = "query"
                                /\ sent' = sent \cup {Cookie(First("query"))}
         /\ delete' \in Task /\ delete'.attempt <= QueryAttempts
         /\ sent' \subseteq Cookies
<1>1. First("query") \in Task /\ First("query").step = "query" /\ First("query").attempt = 1
  BY Cookied
<1>2. Cookie(First("query")) \in Cookies
  BY <1>1, Cookied
<1>3. 1 <= QueryAttempts
  BY ControlAssumption
<1>4. delete \in Task /\ delete.attempt <= QueryAttempts /\ sent \subseteq Cookies
  BY DEF ControlTypes, ControlTypeOK
<1>5. b2bua.finalized \in BOOLEAN
  BY CallIs DEF ControlTypes, Is, Calls
<1>6. CASE b2bua.finalized
  BY <1>4, <1>6 DEF Finalize
<1>7. CASE ~b2bua.finalized
  BY <1>1, <1>2, <1>3, <1>4, <1>7 DEF Finalize, Issue
<1> QED BY <1>5, <1>6, <1>7

LEMMA ControlStepTypes ==
  ASSUME ControlTypes, [ControlNext]_controlVars
  PROVE  ControlTypes'
<1> USE ControlAssumption
<1>0. ControlTypeOK
  BY DEF ControlTypes
<1>1. /\ invite \in Task /\ invite.attempt <= Attempts /\ invite.attempt \in Nat
      /\ delete \in Task /\ delete.attempt <= QueryAttempts /\ delete.attempt \in Nat
      /\ invite.step \in {"none", "offer", "ringing", "answer", "done"}
      /\ delete.step \in {"none", "query", "delete", "done"}
      /\ engine \in {"none", "offered", "answered"} /\ b2bua \in Calls
      /\ sent \subseteq Cookies /\ replies \subseteq EngineReplies /\ disturbed \in BOOLEAN
  BY DEF ControlTypes, ControlTypeOK, Task, Calls
<1> DEFINE Good(i, d, e, l, s, r, h) ==
      /\ i \in Task /\ i.attempt <= Attempts /\ i.step \in {"none", "offer", "ringing", "answer", "done"}
      /\ d \in Task /\ d.attempt <= QueryAttempts /\ d.step \in {"none", "query", "delete", "done"}
      /\ e \in {"none", "offered", "answered"} /\ l \in Calls
      /\ s \subseteq Cookies /\ r \subseteq EngineReplies /\ h \in BOOLEAN
<1>2. SUFFICES Good(invite', delete', engine', b2bua', sent', replies', disturbed')
  BY DEF ControlTypes, ControlTypeOK, Calls
<1>3. \A step \in {"offer", "ringing", "answer", "done"} :
        First(step) \in Task /\ First(step).attempt <= Attempts /\ First(step).step = step
  BY Cookied
<1>4. \A step \in {"query", "delete", "done"} :
        First(step) \in Task /\ First(step).attempt <= QueryAttempts /\ First(step).step = step
  BY Cookied
<1>5. \A step \in {"offer", "answer", "query", "delete"} : Cookie(First(step)) \in Cookies
  BY Cookied
<1>6. \A what \in {"nothing", "refused", "answered"} :
        TellA(what) \in Calls /\ Is(Ended(TellA(what)), FALSE, TRUE, b2bua.finalizer, what)
        /\ Ended(TellA(what)) \in Calls
  BY <1>0, CallIs DEF Is
<1>7. \A task \in Task : {r \in replies : r.cookie # Cookie(task)} \subseteq EngineReplies
  BY <1>1
<1>8. NoEngine => Good(invite', delete', engine', b2bua', sent', replies', disturbed')
  BY <1>1, <1>3, <1>6 DEF NoEngine
<1>9. Begin => Good(invite', delete', engine', b2bua', sent', replies', disturbed')
  BY <1>1, <1>3, <1>5 DEF Begin, Issue
<1>10. Retry => Good(invite', delete', engine', b2bua', sent', replies', disturbed')
  <2> SUFFICES ASSUME Retry PROVE Good(invite', delete', engine', b2bua', sent', replies', disturbed')
    OBVIOUS
  <2>0. ~LastAttempt
    BY Zenon DEF Retry, Failing
  <2>1. invite.step \in {"offer", "answer"} /\ invite.attempt + 1 <= Attempts
    BY <1>1, <2>0 DEF Retry, LastAttempt
  <2>2. /\ NextAttempt(invite) \in Task /\ NextAttempt(invite).step = invite.step
        /\ NextAttempt(invite).attempt <= Attempts /\ Cookie(NextAttempt(invite)) \in Cookies
    BY <1>1, <2>1, Cookied
  <2> QED BY <1>1, <2>1, <2>2 DEF Retry, Issue
<1>11. OfferFails => Good(invite', delete', engine', b2bua', sent', replies', disturbed')
  BY <1>1, <1>3, <1>6, <1>7 DEF OfferFails, GotReply, GivenUp
<1>12. Offered => Good(invite', delete', engine', b2bua', sent', replies', disturbed')
  <2>1. [b2bua EXCEPT !.registered = TRUE] \in Calls
    BY <1>0, CallIs DEF Is
  <2> QED BY <1>1, <1>3, <1>7, <2>1 DEF Offered, GotReply
<1>13. BRefuses => Good(invite', delete', engine', b2bua', sent', replies', disturbed')
  <2> SUFFICES ASSUME BRefuses PROVE Good(invite', delete', engine', b2bua', sent', replies', disturbed')
    OBVIOUS
  <2>1. Is(Ended(TellA("refused")), FALSE, TRUE, b2bua.finalizer, "refused")
    BY <1>6
  <2>2. Finalize(TellA("refused"))
    BY DEF BRefuses
  <2>3. /\ b2bua' = Ended(TellA("refused"))
        /\ delete' \in Task /\ delete'.attempt <= QueryAttempts /\ sent' \subseteq Cookies
        /\ delete' = delete \/ delete'.step = "query"
    BY <1>1, <2>1, <2>2, Finalizes DEF Is, Calls
  <2> QED BY <1>1, <1>3, <1>6, <2>3 DEF BRefuses
<1>14. BAnswers => Good(invite', delete', engine', b2bua', sent', replies', disturbed')
  BY <1>1, <1>3, <1>5 DEF BAnswers, Issue
<1>15. AnswerFails => Good(invite', delete', engine', b2bua', sent', replies', disturbed')
  <2> SUFFICES ASSUME AnswerFails PROVE Good(invite', delete', engine', b2bua', sent', replies', disturbed')
    OBVIOUS
  <2>1. Is(Ended(TellA("refused")), FALSE, TRUE, b2bua.finalizer, "refused")
    BY <1>6
  <2>2. Finalize(TellA("refused"))
    BY DEF AnswerFails
  <2>3. /\ b2bua' = Ended(TellA("refused"))
        /\ delete' \in Task /\ delete'.attempt <= QueryAttempts /\ sent' \subseteq Cookies
        /\ delete' = delete \/ delete'.step = "query"
    BY <1>1, <2>1, <2>2, Finalizes DEF Is, Calls
  <2> QED BY <1>1, <1>3, <1>6, <1>7, <2>3 DEF AnswerFails, GotReply, GivenUp
<1>16. AnswerSucceeds => Good(invite', delete', engine', b2bua', sent', replies', disturbed')
  BY <1>1, <1>3, <1>6, <1>7 DEF AnswerSucceeds, GotReply
<1>17. HangsUp => Good(invite', delete', engine', b2bua', sent', replies', disturbed')
  <2>1. [b2bua EXCEPT !.finalizer = TRUE] \in Calls
    BY <1>0, CallIs DEF Is
  <2> QED BY <1>1, <2>1 DEF HangsUp
<1>18. FinalizeLater => Good(invite', delete', engine', b2bua', sent', replies', disturbed')
  <2> SUFFICES ASSUME FinalizeLater PROVE Good(invite', delete', engine', b2bua', sent', replies', disturbed')
    OBVIOUS
  <2> DEFINE l == [b2bua EXCEPT !.finalizer = FALSE]
  <2>1. Is(Ended(l), FALSE, TRUE, FALSE, b2bua.told)
    BY <1>0, CallIs
  <2>2. Finalize(l)
    BY DEF FinalizeLater
  <2> HIDE DEF l
  <2>3. /\ b2bua' = Ended(l)
        /\ delete' \in Task /\ delete'.attempt <= QueryAttempts /\ sent' \subseteq Cookies
        /\ delete' = delete \/ delete'.step = "query"
    BY <1>1, <2>1, <2>2, Finalizes DEF Is, Calls
  <2> QED BY <1>1, <2>1, <2>3 DEF FinalizeLater, Is
<1>19. QueryAgain => Good(invite', delete', engine', b2bua', sent', replies', disturbed')
  <2> SUFFICES ASSUME QueryAgain PROVE Good(invite', delete', engine', b2bua', sent', replies', disturbed')
    OBVIOUS
  <2>1. delete.step = "query" /\ delete.attempt + 1 <= QueryAttempts
    BY <1>1 DEF QueryAgain
  <2>2. /\ NextAttempt(delete) \in Task /\ NextAttempt(delete).step = "query"
        /\ NextAttempt(delete).attempt <= QueryAttempts /\ Cookie(NextAttempt(delete)) \in Cookies
    BY <1>1, <2>1, Cookied
  <2> QED BY <1>1, <1>7, <2>2 DEF QueryAgain, Issue, GotReply
<1>20. Queried => Good(invite', delete', engine', b2bua', sent', replies', disturbed')
  BY <1>1, <1>4, <1>5, <1>7 DEF Queried, Issue, GotReply
<1>21. Deleted => Good(invite', delete', engine', b2bua', sent', replies', disturbed')
  BY <1>1, <1>4, <1>7 DEF Deleted, GotReply
<1>22. ASSUME NEW c \in sent, Execute(c)
       PROVE  Good(invite', delete', engine', b2bua', sent', replies', disturbed')
  <2>1. c \in Cookies /\ sent' \subseteq Cookies
    BY <1>1, <1>22 DEF Execute
  <2>2. Executed(c) \in {"none", "offered", "answered"}
    BY <1>1, <2>1 DEF Executed, Cookies
  <2>3. \A ok \in BOOLEAN : [cookie |-> c, ok |-> ok] \in EngineReplies
    BY <2>1 DEF EngineReplies
  <2> QED BY <1>1, <1>22, <2>1, <2>2, <2>3 DEF Execute
<1>23. ASSUME NEW c \in sent, LoseCommand(c)
       PROVE  Good(invite', delete', engine', b2bua', sent', replies', disturbed')
  BY <1>1, <1>23 DEF LoseCommand
<1>24. ASSUME NEW r \in replies, LoseReply(r)
       PROVE  Good(invite', delete', engine', b2bua', sent', replies', disturbed')
  BY <1>1, <1>24 DEF LoseReply
<1>25. UNCHANGED controlVars => Good(invite', delete', engine', b2bua', sent', replies', disturbed')
  BY <1>1 DEF controlVars
<1> QED
  BY <1>8, <1>9, <1>10, <1>11, <1>12, <1>13, <1>14, <1>15, <1>16, <1>17, <1>18, <1>19, <1>20, <1>21,
     <1>22, <1>23, <1>24, <1>25 DEF ControlNext, InviteTask, DeleteTask

\* What a finalizer changes, as far as the order of a call's events goes.
LEMMA FinalizesFirst ==
  ASSUME ControlTypes, CallOrder, NEW l,
         \/ l = TellA("refused")
         \/ l = [b2bua EXCEPT !.finalizer = FALSE],
         Finalize(l)
  PROVE  /\ b2bua'.registered = FALSE /\ b2bua'.finalized = TRUE
         /\ l = TellA("refused") => b2bua'.told = "refused" 
         /\ l # TellA("refused") => b2bua'.told = b2bua.told
         /\ delete'.step # "none"
         /\ delete'.step = "done" => delete.step = "done"
         /\ \A c \in sent' : c \in sent \/ c.command = "query"
<1>1. ControlTypeOK
  BY DEF ControlTypes
<1>2. /\ Is(Ended(TellA("refused")), FALSE, TRUE, b2bua.finalizer, "refused")
      /\ Is(Ended([b2bua EXCEPT !.finalizer = FALSE]), FALSE, TRUE, FALSE, b2bua.told)
  BY <1>1, CallIs
<1>3. Is(Ended(l), FALSE, TRUE, Ended(l).finalizer, Ended(l).told)
  BY <1>2 DEF Is
<1>4. Cookie(First("query")).command = "query"
  BY Cookied
<1>5. b2bua.finalized \in BOOLEAN
  BY <1>1, CallIs DEF Is, Calls
<1> HIDE DEF Is
<1>6. /\ b2bua' = Ended(l)
      /\ b2bua.finalized => delete' = delete /\ sent' = sent
      /\ ~b2bua.finalized => delete'.step = "query" /\ sent' = sent \cup {Cookie(First("query"))}
  BY <1>3, Finalizes
<1>7. b2bua'.registered = FALSE /\ b2bua'.finalized = TRUE
  BY <1>3, <1>6 DEF Is
<1>8. /\ l = TellA("refused") => b2bua'.told = "refused"
      /\ l # TellA("refused") => b2bua'.told = b2bua.told
  BY <1>2, <1>6 DEF Is
<1> QED BY <1>4, <1>5, <1>6, <1>7, <1>8 DEF CallOrder

LEMMA ControlStepOrder ==
  ASSUME ControlTypes, CallOrder, [ControlNext]_controlVars
  PROVE  CallOrder'
<1> USE DEF CallOrder
<1>0. ControlTypeOK
  BY DEF ControlTypes
<1>1. /\ invite \in Task /\ delete \in Task
      /\ invite.step \in {"none", "offer", "ringing", "answer", "done"}
      /\ delete.step \in {"none", "query", "delete", "done"}
      /\ b2bua.registered \in BOOLEAN /\ b2bua.finalized \in BOOLEAN /\ b2bua.finalizer \in BOOLEAN
  BY <1>0, CallIs DEF ControlTypes, ControlTypeOK, Is, Calls
<1>2. \A step \in {"offer", "ringing", "answer", "query", "delete", "done"} :
        First(step).step = step /\ Cookie(First(step)).command = step
  BY Cookied
<1>3. \A task \in {invite, delete} :
        NextAttempt(task).step = task.step /\ Cookie(NextAttempt(task)).command = task.step
  BY <1>1, Cookied
<1>4. \A what \in {"nothing", "refused", "answered"} :
        Is(TellA(what), b2bua.registered, b2bua.finalized, b2bua.finalizer, what)
  BY <1>0, CallIs
<1>5. NoEngine => CallOrder'
  BY <1>1, <1>2, <1>4 DEF NoEngine, Is
<1>6. Begin => CallOrder'
  BY <1>1, <1>2 DEF Begin, Issue
<1>7. Retry => CallOrder'
  BY <1>1, <1>3 DEF Retry, Issue
<1>8. OfferFails => CallOrder'
  BY <1>1, <1>2, <1>4 DEF OfferFails, GotReply, Is
<1>9. Offered => CallOrder'
  <2>1. Is([b2bua EXCEPT !.registered = TRUE], TRUE, b2bua.finalized, b2bua.finalizer, b2bua.told)
    BY <1>0, CallIs
  <2> QED BY <1>1, <1>2, <2>1 DEF Offered, GotReply, Is
<1>10. BRefuses => CallOrder'
  BY <1>1, <1>2, FinalizesFirst DEF BRefuses
<1>11. BAnswers => CallOrder'
  BY <1>1, <1>2 DEF BAnswers, Issue
<1>12. AnswerFails => CallOrder'
  BY <1>1, <1>2, FinalizesFirst DEF AnswerFails, GotReply
<1>13. AnswerSucceeds => CallOrder'
  BY <1>1, <1>2, <1>4 DEF AnswerSucceeds, Answered, GotReply, Is
<1>14. HangsUp => CallOrder'
  <2>1. Is([b2bua EXCEPT !.finalizer = TRUE], b2bua.registered, b2bua.finalized, TRUE, b2bua.told)
    BY <1>0, CallIs
  <2> QED BY <1>1, <2>1 DEF HangsUp, Is
<1>15. FinalizeLater => CallOrder'
  BY <1>1, FinalizesFirst DEF FinalizeLater
<1>16. QueryAgain => CallOrder'
  BY <1>1, <1>3 DEF QueryAgain, Issue, GotReply
<1>17. Queried => CallOrder'
  BY <1>1, <1>2 DEF Queried, Issue, GotReply
<1>18. Deleted => CallOrder'
  BY <1>1, <1>2 DEF Deleted, GotReply
<1>19. ASSUME NEW c \in sent, Execute(c) PROVE CallOrder'
  <2>1. \A r \in replies' : r \in replies \/ r.cookie.command = c.command
    BY <1>19 DEF Execute
  <2> QED BY <1>1, <1>19, <2>1 DEF Execute
<1>20. ASSUME NEW c \in sent, LoseCommand(c) PROVE CallOrder'
  BY <1>1, <1>20 DEF LoseCommand
<1>21. ASSUME NEW r \in replies, LoseReply(r) PROVE CallOrder'
  BY <1>1, <1>21 DEF LoseReply
<1>22. UNCHANGED controlVars => CallOrder'
  BY <1>1 DEF controlVars
<1> QED
  BY <1>5, <1>6, <1>7, <1>8, <1>9, <1>10, <1>11, <1>12, <1>13, <1>14, <1>15, <1>16, <1>17, <1>18,
     <1>19, <1>20, <1>21, <1>22 DEF ControlNext, InviteTask, DeleteTask

LEMMA ControlStepHolds ==
  ASSUME ControlTypes, CallOrder, AnswerHolds, [ControlNext]_controlVars
  PROVE  AnswerHolds'
<1> USE DEF AnswerHolds, AnsweredHasMedia
<1>0. ControlTypeOK
  BY DEF ControlTypes
<1>1. /\ invite \in Task /\ engine \in {"none", "offered", "answered"}
      /\ b2bua.finalized \in BOOLEAN
  BY <1>0, CallIs DEF ControlTypes, ControlTypeOK, Is, Calls
<1>2. \A what \in {"nothing", "refused", "answered"} :
        Is(TellA(what), b2bua.registered, b2bua.finalized, b2bua.finalizer, what)
  BY <1>0, CallIs
<1>3. NoEngine => AnswerHolds'
  BY <1>1, <1>2 DEF NoEngine, Is
<1>4. Begin \/ Retry \/ BAnswers => AnswerHolds'
  BY DEF Begin, Retry, BAnswers
<1>5. OfferFails => AnswerHolds'
  BY <1>1, <1>2 DEF OfferFails, GotReply, Is
<1>6. Offered => AnswerHolds'
  <2>1. Is([b2bua EXCEPT !.registered = TRUE], TRUE, b2bua.finalized, b2bua.finalizer, b2bua.told)
    BY <1>0, CallIs
  <2> QED BY <1>1, <2>1 DEF Offered, GotReply, Is
<1>7. BRefuses => AnswerHolds'
  BY <1>1, FinalizesFirst DEF BRefuses
<1>8. AnswerFails => AnswerHolds'
  BY <1>1, FinalizesFirst DEF AnswerFails, GotReply
<1>9. AnswerSucceeds => AnswerHolds'
  <2> SUFFICES ASSUME AnswerSucceeds PROVE AnswerHolds'
    OBVIOUS
  <2>1. [cookie |-> Cookie(invite), ok |-> TRUE] \in replies /\ Cookie(invite).command = "answer"
    BY <1>1, Cookied DEF AnswerSucceeds, Answered, Replied
  <2>2. engine = "answered" \/ b2bua.finalized
    BY <2>1
  <2> QED BY <1>1, <1>2, <2>2 DEF AnswerSucceeds, GotReply, Is
<1>10. HangsUp => AnswerHolds'
  <2>1. Is([b2bua EXCEPT !.finalizer = TRUE], b2bua.registered, b2bua.finalized, TRUE, b2bua.told)
    BY <1>0, CallIs
  <2> QED BY <1>1, <2>1 DEF HangsUp, Is
<1>11. FinalizeLater => AnswerHolds'
  BY <1>1, FinalizesFirst DEF FinalizeLater
<1>12. QueryAgain \/ Queried \/ Deleted => AnswerHolds'
  BY <1>1 DEF QueryAgain, Queried, Deleted, GotReply
<1>13. ASSUME NEW c \in sent, Execute(c) PROVE AnswerHolds'
  <2>1. c \in Cookies /\ (c.command = "delete" => b2bua.finalized)
    BY DEF ControlTypes, CallOrder
  <2>2. engine = "answered" /\ ~b2bua.finalized => engine' = "answered"
    BY <1>1, <1>13, <2>1 DEF Execute, Executed, Cookies
  <2>3. ASSUME NEW r \in replies', r \notin replies, r.ok
        PROVE  r.cookie = c /\ (c.command = "offer" \/ engine # "none")
    <3> DEFINE sees == c.command = "offer" \/ engine # "none"
    <3>1. r = [cookie |-> c, ok |-> sees] \/ r = [cookie |-> c, ok |-> FALSE]
      BY <1>13, <2>3, Zenon DEF Execute
    <3>2. sees \in BOOLEAN
      OBVIOUS
    <3> HIDE DEF sees
    <3>3. r.cookie = c /\ (r.ok = sees \/ r.ok = FALSE)
      BY <3>1
    <3>4. r.cookie = c /\ sees
      BY <2>3, <3>2, <3>3
    <3> QED BY <3>4 DEF sees
  <2>4. c.command = "answer" /\ engine # "none" => engine' = "answered"
    BY <1>1, <1>13, <2>1 DEF Execute, Executed, Cookies
  <2>5. ASSUME NEW r \in replies', r.cookie.command = "answer", r.ok PROVE engine' = "answered" \/ b2bua'.finalized
    <3>1. CASE r \in replies
      BY <1>13, <2>2, <2>5, <3>1 DEF Execute
    <3>2. CASE r \notin replies
      BY <2>3, <2>4, <2>5, <3>2
    <3> QED BY <3>1, <3>2
  <2> QED BY <1>13, <2>2, <2>5 DEF Execute
<1>14. ASSUME NEW c \in sent, LoseCommand(c) PROVE AnswerHolds'
  BY <1>14 DEF LoseCommand
<1>15. ASSUME NEW r \in replies, LoseReply(r) PROVE AnswerHolds'
  BY <1>15 DEF LoseReply
<1>16. UNCHANGED controlVars => AnswerHolds'
  BY DEF controlVars
<1> QED
  BY <1>3, <1>4, <1>5, <1>6, <1>7, <1>8, <1>9, <1>10, <1>11, <1>12, <1>13, <1>14, <1>15, <1>16
     DEF ControlNext, InviteTask, DeleteTask

\* What RTPengine does when no OFFER comes twice.
LEMMA ExecuteUndisturbed ==
  ASSUME ControlTypes, CallOrder, Undisturbed, NEW c \in sent, Execute(c), ~disturbed'
  PROVE  Undisturbed'
<1> USE DEF Undisturbed
<1>1. /\ c \in Cookies /\ engine \in {"none", "offered", "answered"}
      /\ c.command = "offer" => invite.step = "offer" /\ engine = "none"
      /\ c.command = "delete" => b2bua.finalized
  BY DEF ControlTypes, ControlTypeOK, CallOrder
<1>2. UNCHANGED <<invite, delete, b2bua>> /\ sent' = sent \ {c}
  BY DEF Execute
<1>3. engine' # engine /\ engine' # "none" => c.command = "offer" \/ engine # "none"
  BY <1>1 DEF Execute, Executed, Cookies
<1>4. c.command # "offer" /\ engine = "none" => engine' = "none"
  BY <1>1 DEF Execute, Executed, Cookies
<1>5. c.command = "delete" => engine' = "none"
  BY <1>1 DEF Execute, Executed, Cookies
<1>6. ASSUME NEW r \in replies', r \notin replies
      PROVE  r.cookie = c /\ (c.command = "offer" => r.ok \/ engine' = engine)
  <2>1. CASE r = [cookie |-> c, ok |-> c.command = "offer" \/ engine # "none"]
    <3> DEFINE sees == c.command = "offer" \/ engine # "none"
    <3>1. c.command = "offer" => sees
      OBVIOUS
    <3> HIDE DEF sees
    <3>2. r.cookie = c /\ r.ok = sees
      BY <2>1 DEF sees
    <3> QED BY <3>1, <3>2
  <2>2. CASE r # [cookie |-> c, ok |-> c.command = "offer" \/ engine # "none"]
    <3>1. r = [cookie |-> c, ok |-> FALSE] /\ (c.command # "offer" \/ engine' = engine)
      BY <1>6, <2>2, Zenon DEF Execute
    <3> QED BY <3>1
  <2> QED BY <2>1, <2>2
<1>7. CASE c.command = "offer"
  <2>1. \A r \in replies : r.cookie.command # "offer" /\ r.cookie.command # "delete"
    BY <1>1, <1>7 DEF CallOrder
  <2>2. \A d \in sent' : d.command # "offer"
    <3> SUFFICES ASSUME NEW d \in sent', d.command = "offer" PROVE FALSE
      OBVIOUS
    <3>1. d \in Cookies /\ d.attempt = 1 /\ d.command = c.command /\ c.attempt = 1 /\ d # c
      BY <1>2, <1>7 DEF ControlTypes
    <3> QED BY <1>1, <3>1 DEF Cookies
  <2>3. \A r \in replies' : r.cookie.command = "offer" => r.ok \/ engine' = "none"
    BY <1>1, <1>6, <1>7, <2>1
  <2>4. \A r \in replies' : r.cookie.command # "delete"
    BY <1>6, <1>7, <2>1
  <2>5. invite.step = "offer" /\ delete.step = "none"
    BY <1>1, <1>7 DEF CallOrder, ControlTypes
  <2> QED BY <1>2, <2>2, <2>3, <2>4, <2>5
<1>8. CASE c.command # "offer"
  <2>1. \A d \in sent' : d.command = "offer" =>
          invite.step = "offer" /\ engine' = "none" /\ \A r \in replies' : r.cookie.command # "offer"
    BY <1>2, <1>4, <1>6, <1>8
  <2>2. \A r \in replies' : r.cookie.command = "offer" => invite.step # "none" /\ (r.ok \/ engine' = "none")
    BY <1>4, <1>6, <1>8
  <2>3. \A r \in replies' : r.cookie.command = "delete" => engine' = "none"
    BY <1>4, <1>5, <1>6, <1>8
  <2> QED BY <1>2, <1>4, <1>8, <2>1, <2>2, <2>3
<1> QED BY <1>7, <1>8

LEMMA ControlStepUndisturbed ==
  ASSUME ControlTypes, CallOrder, ~disturbed => Undisturbed, [ControlNext]_controlVars
  PROVE  ~disturbed' => Undisturbed'
<1> SUFFICES ASSUME ~disturbed' PROVE Undisturbed'
  OBVIOUS
<1>0. ControlTypeOK
  BY DEF ControlTypes
<1>1. /\ invite \in Task /\ delete \in Task
      /\ invite.step \in {"none", "offer", "ringing", "answer", "done"}
      /\ delete.step \in {"none", "query", "delete", "done"}
      /\ b2bua.registered \in BOOLEAN /\ b2bua.finalized \in BOOLEAN /\ b2bua.finalizer \in BOOLEAN
      /\ disturbed \in BOOLEAN
  BY <1>0, CallIs DEF ControlTypes, ControlTypeOK, Is, Calls
<1>2. \A step \in {"offer", "ringing", "answer", "query", "delete", "done"} :
        /\ First(step).step = step
        /\ Cookie(First(step)).command = step /\ Cookie(First(step)).attempt = 1
  BY DEF First, Cookie
<1>3. \A task \in {invite, delete} :
        NextAttempt(task).step = task.step /\ Cookie(NextAttempt(task)).command = task.step
  BY <1>1, Cookied
<1>4. \A what \in {"nothing", "refused", "answered"} :
        Is(TellA(what), b2bua.registered, b2bua.finalized, b2bua.finalizer, what)
  BY <1>0, CallIs
<1>5. ASSUME NEW task \in {invite, delete}, NEW ok \in BOOLEAN, Replied(task, ok)
      PROVE  \E r \in replies : r.cookie.command = task.step /\ r.ok = ok
  <2>1. [cookie |-> Cookie(task), ok |-> ok] \in replies /\ Cookie(task).command = task.step
    BY <1>1, <1>5, Cookied DEF Replied
  <2> QED BY <2>1
<1> USE DEF Undisturbed
<1>6. NoEngine => Undisturbed'
  BY <1>1, <1>2, <1>4 DEF NoEngine, Is
<1>7. Begin => Undisturbed'
  <2> SUFFICES ASSUME Begin PROVE Undisturbed'
    OBVIOUS
  <2>1. ~disturbed /\ invite.step = "none" /\ engine = "none"
    BY DEF Begin
  <2>2. \A r \in replies : r.cookie.command # "offer"
    BY <2>1
  <2> QED BY <1>1, <1>2, <2>1, <2>2 DEF Begin, Issue
<1>8. Retry => Undisturbed'
  BY DEF Retry
<1>9. OfferFails => Undisturbed'
  <2> SUFFICES ASSUME OfferFails PROVE Undisturbed'
    OBVIOUS
  <2>1. ~disturbed /\ Replied(invite, FALSE) /\ invite.step = "offer"
    BY DEF OfferFails, GivenUp
  <2>2. engine = "none" /\ \A c \in sent : c.command # "offer"
    BY <1>5, <2>1
  <2> QED BY <1>1, <1>2, <1>4, <2>1, <2>2 DEF OfferFails, GotReply, Is
<1>10. Offered => Undisturbed'
  <2> SUFFICES ASSUME Offered PROVE Undisturbed'
    OBVIOUS
  <2>1. ~disturbed /\ Replied(invite, TRUE) /\ invite.step = "offer"
    BY DEF Offered
  <2>2. \A c \in sent : c.command # "offer"
    BY <1>5, <2>1
  <2>3. Is([b2bua EXCEPT !.registered = TRUE], TRUE, b2bua.finalized, b2bua.finalizer, b2bua.told)
    BY <1>0, CallIs
  <2> QED BY <1>1, <1>2, <2>1, <2>2, <2>3 DEF Offered, GotReply, Is
<1>11. BRefuses => Undisturbed'
  <2> SUFFICES ASSUME BRefuses PROVE Undisturbed'
    OBVIOUS
  <2>1. /\ b2bua'.finalized = TRUE /\ (delete'.step = "done" => delete.step = "done")
        /\ \A c \in sent' : c \in sent \/ c.command = "query"
    BY FinalizesFirst DEF BRefuses
  <2> QED BY <1>1, <1>2, <2>1 DEF BRefuses
<1>12. BAnswers => Undisturbed'
  BY <1>1, <1>2 DEF BAnswers, Issue
<1>13. AnswerFails => Undisturbed'
  BY <1>1, <1>2, FinalizesFirst DEF AnswerFails, GotReply, GivenUp
<1>14. AnswerSucceeds => Undisturbed'
  BY <1>1, <1>2, <1>4 DEF AnswerSucceeds, Answered, GotReply, Is, CallOrder
<1>15. HangsUp => Undisturbed'
  <2>1. Is([b2bua EXCEPT !.finalizer = TRUE], b2bua.registered, b2bua.finalized, TRUE, b2bua.told)
    BY <1>0, CallIs
  <2> QED BY <1>1, <2>1 DEF HangsUp, Is
<1>16. FinalizeLater => Undisturbed'
  <2> SUFFICES ASSUME FinalizeLater PROVE Undisturbed'
    OBVIOUS
  <2>1. /\ b2bua'.finalized = TRUE /\ (delete'.step = "done" => delete.step = "done")
        /\ \A c \in sent' : c \in sent \/ c.command = "query"
    BY FinalizesFirst DEF FinalizeLater
  <2> QED BY <1>1, <2>1 DEF FinalizeLater
<1>17. QueryAgain => Undisturbed'
  BY <1>1, <1>3 DEF QueryAgain, Issue, GotReply
<1>18. Queried => Undisturbed'
  BY <1>1, <1>2 DEF Queried, Issue, GotReply
<1>19. Deleted => Undisturbed'
  <2> SUFFICES ASSUME Deleted PROVE Undisturbed'
    OBVIOUS
  <2>1. ~disturbed /\ delete.step = "delete" /\ \E ok \in BOOLEAN : Replied(delete, ok)
    BY DEF Deleted
  <2>2. engine = "none"
    BY <1>5, <2>1
  <2> QED BY <1>1, <1>2, <2>1, <2>2 DEF Deleted, GotReply
<1>20. ASSUME NEW c \in sent, Execute(c) PROVE Undisturbed'
  <2>1. ~disturbed BY <1>20 DEF Execute
  <2>2. Undisturbed BY <2>1
  <2> HIDE DEF Undisturbed
  <2> QED BY <1>20, <2>2, ExecuteUndisturbed
<1>21. ASSUME NEW c \in sent, LoseCommand(c) PROVE Undisturbed'
  BY <1>21 DEF LoseCommand
<1>22. ASSUME NEW r \in replies, LoseReply(r) PROVE Undisturbed'
  BY <1>22 DEF LoseReply
<1>23. UNCHANGED controlVars => Undisturbed'
  BY DEF controlVars
<1> QED
  BY <1>6, <1>7, <1>8, <1>9, <1>10, <1>11, <1>12, <1>13, <1>14, <1>15, <1>16, <1>17, <1>18, <1>19,
     <1>20, <1>21, <1>22, <1>23 DEF ControlNext, InviteTask, DeleteTask

LEMMA ControlInvariant == ControlSpec => []ControlInv
<1>1. ControlInv /\ [ControlNext]_controlVars => ControlInv'
  BY ControlStepTypes, ControlStepOrder, ControlStepHolds, ControlStepUndisturbed DEF ControlInv
<1> QED
  BY <1>1, ControlInitial, PTL DEF ControlSpec

\* Whatever commands are lost, retried or carried out late, a call that A was
\* told is answered has its media in RTPengine until it is finalized; and when
\* none was and the reply to each OFFER had its SDP, RTPengine keeps no session
\* of a call that is over.
THEOREM ControlAlwaysSafe == ControlSpec => []ControlSafe
<1>1. ControlInv => ControlSafe
  <2> SUFFICES ASSUME ControlInv PROVE ControlSafe
    OBVIOUS
  <2>1. b2bua.registered \in BOOLEAN /\ b2bua.finalized \in BOOLEAN
    BY CallIs DEF ControlInv, ControlTypes, Is, Calls
  <2>2. SessionReleased
    BY <2>1 DEF ControlInv, CallOrder, Undisturbed, SessionReleased, AtRest
  <2> QED BY <2>2 DEF ControlInv, ControlTypes, AnswerHolds, ControlSafe
<1> QED
  BY <1>1, ControlInvariant, PTL

(***************************************************************************)
(* The session descriptions of a call.                                     *)
(***************************************************************************)
Descriptions ==
  [codecs : Seq(Nat), maps : SUBSET Nat, proto : {"RTP/AVP", "UDP/TLS/RTP/SAVPF"},
   webrtc : BOOLEAN, rtcp : BOOLEAN, addr : {"nobody", "A", "B", "sbc", "engine"},
   dir : {"sendrecv", "sendonly", "recvonly", "inactive"}]
Policies == [mask : SUBSET Supported, transcode : Seq(Supported)]
Payloads == [inbound : Supported, outbound : Supported]

NegotiationTypes ==
  /\ NegotiationTypeOK
  /\ offer \in Descriptions /\ offerToB \in Descriptions
  /\ answerOfB \in Descriptions /\ answerToA \in Descriptions
  /\ policy \in Policies /\ relay \in Payloads /\ first \in Seq(Nat)

\* What A asked for.  A refresh asks for the payload types of the INVITE.
Asked ==
  /\ offer.codecs = first /\ offer.maps \subseteq ToSet(offer.codecs)
  /\ refreshes = 0 => offer.dir = "sendrecv"
  /\ stage = "idle" => refreshes = 0

Known(s) == ToSet(s) \cap Supported # {}
Codecs(s) == ToSet(s.codecs)

\* What B was offered for the INVITE: what the server takes itself, or what
\* RTPengine was given and what it adds.
Proposed ==
  stage \in {"ringing", "answered"} /\ refreshes = 0 =>
    IF setting.backend = "internal"
    THEN /\ offerToB.dir = "sendrecv" /\ Codecs(offerToB) \subseteq Supported \cup {Event}
         /\ relay.inbound = Choose(Parsed(offer), PCMU)
    ELSE Codecs(offerToB) \subseteq ToSet(policy.transcode) \cup Codecs(ToEngine)

Taken ==
  stage = "answered" =>
    /\ Codecs(answerOfB) \subseteq Codecs(offerToB) /\ answerOfB.maps = Codecs(answerOfB)
    /\ answerOfB.dir = Reply(offerToB.dir)

\* What A was answered, to the INVITE or to the last refresh that B took.
AnsweredBefore ==
  /\ stage = "up" \/ refreshes > 0 => (Known(first) => Codecs(answerToA) \subseteq ToSet(first))
  /\ stage = "up" \/ (refreshes > 0 /\ stage \in {"offered", "ringing"}) =>
       (Audio(answerToA) => answerToA.dir = answerOfB.dir)

NegotiationInv ==
  NegotiationTypes /\ Asked /\ Proposed /\ Taken /\ AnsweredBefore /\ CodecsMeet /\ MediaAnchored

\* A set of natural numbers has a least one.
LEMMA LeastNumber ==
  ASSUME NEW T \in SUBSET Nat, T # {}
  PROVE  \E n \in T : \A m \in T : n <= m
<1>1. PICK n \in T : \A m \in T : ~ (<<m, n>> \in OpToRel(<, Nat))
  BY NatLessThanWellFounded, WFMin, Zenon
<1>2. \A m \in T : ~(m < n)
  <2>1. SUFFICES ASSUME NEW m \in T, m < n PROVE FALSE OBVIOUS
  <2>2. <<m, n>> \in OpToRel(<, Nat) BY <2>1, Zenon DEF OpToRel
  <2> QED BY <1>1, <2>2
<1> QED BY <1>2

LEMMA Elements ==
  ASSUME NEW V
  PROVE  /\ \A s \in Seq(V) : ToSet(s) \subseteq V /\ (s = << >> <=> ToSet(s) = {})
         /\ \A s \in Seq(V) : \A e : Contains(s, e) <=> e \in ToSet(s)
         /\ \A s \in Seq(V) : s # << >> => Head(s) \in ToSet(s)
         /\ \A e \in V : <<e>> \in Seq(V) /\ ToSet(<<e>>) = {e}
         /\ << >> \in Seq(V) /\ ToSet(<< >>) = {}
<1>1. ASSUME NEW s \in Seq(V)
      PROVE  ToSet(s) \subseteq V /\ (s = << >> <=> ToSet(s) = {})
  <2>1. /\ Len(s) \in Nat /\ DOMAIN s = 1 .. Len(s) /\ (\A i \in 1 .. Len(s) : s[i] \in V)
        /\ (s = << >> <=> Len(s) = 0)
    BY ElementOfSeq, EmptySeq, LenProperties
  <2>2. ToSet(s) \subseteq V
    BY <2>1 DEF ToSet
  <2>3. CASE Len(s) = 0
    BY <2>1, <2>3 DEF ToSet
  <2>4. CASE Len(s) # 0
    <3>1. 1 \in DOMAIN s
      BY <2>1, <2>4
    <3> QED BY <2>1, <2>2, <2>4, <3>1 DEF ToSet
  <2> QED BY <2>3, <2>4, <2>2
<1>2. ASSUME NEW s \in Seq(V), NEW e PROVE Contains(s, e) <=> e \in ToSet(s)
  BY LenProperties DEF Contains, ToSet
<1>3. ASSUME NEW s \in Seq(V), s # << >> PROVE Head(s) \in ToSet(s)
  <2>1. Len(s) \in Nat /\ DOMAIN s = 1 .. Len(s) /\ Len(s) # 0 /\ Head(s) = s[1]
    BY <1>3, EmptySeq, LenProperties
  <2>2. 1 \in DOMAIN s
    BY <2>1
  <2> QED BY <2>1, <2>2 DEF ToSet
<1>4. ASSUME NEW e \in V PROVE <<e>> \in Seq(V) /\ ToSet(<<e>>) = {e}
  BY DEF ToSet
<1>5. << >> \in Seq(V) /\ ToSet(<< >>) = {}
  BY EmptySeq DEF ToSet
<1> QED BY <1>1, <1>2, <1>3, <1>4, <1>5

LEMMA Joined ==
  ASSUME NEW V, NEW s \in Seq(V), NEW t \in Seq(V)
  PROVE  s \o t \in Seq(V) /\ ToSet(s \o t) = ToSet(s) \cup ToSet(t)
<1>1. /\ s \o t \in Seq(V) /\ Len(s) \in Nat /\ Len(t) \in Nat /\ Len(s \o t) = Len(s) + Len(t)
      /\ DOMAIN s = 1 .. Len(s) /\ DOMAIN t = 1 .. Len(t) /\ DOMAIN (s \o t) = 1 .. Len(s) + Len(t)
      /\ \A i \in 1 .. Len(s) + Len(t) : (s \o t)[i] = IF i <= Len(s) THEN s[i] ELSE t[i - Len(s)]
  BY ConcatProperties, LenProperties
<1>2. ToSet(s \o t) \subseteq ToSet(s) \cup ToSet(t)
  <2>1. SUFFICES ASSUME NEW i \in 1 .. Len(s) + Len(t)
                 PROVE  (s \o t)[i] \in ToSet(s) \cup ToSet(t)
    BY <1>1 DEF ToSet
  <2>2. CASE i <= Len(s)
    BY <1>1, <2>2 DEF ToSet
  <2>3. CASE ~(i <= Len(s))
    <3>1. i - Len(s) \in 1 .. Len(t)
      BY <1>1, <2>3
    <3> QED BY <1>1, <2>3, <3>1 DEF ToSet
  <2> QED BY <2>2, <2>3
<1>3. ToSet(s) \subseteq ToSet(s \o t)
  <2>1. \A i \in 1 .. Len(s) : i \in 1 .. Len(s) + Len(t) /\ (s \o t)[i] = s[i]
    BY <1>1
  <2> QED BY <1>1, <2>1 DEF ToSet
<1>4. ToSet(t) \subseteq ToSet(s \o t)
  <2>1. \A i \in 1 .. Len(t) : i + Len(s) \in 1 .. Len(s) + Len(t) /\ (s \o t)[i + Len(s)] = t[i]
    <3>1. TAKE i \in 1 .. Len(t)
    <3>2. i + Len(s) \in 1 .. Len(s) + Len(t) /\ ~(i + Len(s) <= Len(s)) /\ (i + Len(s)) - Len(s) = i
      BY <1>1
    <3> QED BY <1>1, <3>2
  <2> QED BY <1>1, <2>1 DEF ToSet
<1> QED BY <1>1, <1>2, <1>3, <1>4

LEMMA Appended ==
  ASSUME NEW V, NEW s \in Seq(V), NEW e \in V
  PROVE  Append(s, e) \in Seq(V) /\ ToSet(Append(s, e)) = ToSet(s) \cup {e}
<1> DEFINE t == <<e>>
<1>1. t \in Seq(V) /\ ToSet(t) = {e}
  BY Elements
<1>2. Append(s, e) = s \o t
  BY AppendIsConcat, Zenon
<1> HIDE DEF t
<1>3. s \o t \in Seq(V) /\ ToSet(s \o t) = ToSet(s) \cup {e}
  BY <1>1, Joined
<1> QED BY <1>2, <1>3, Zenon

\* What Only leaves of a list, though its function is defined by recursion: the
\* function exists for each part of the list, and the part it is wrong for first
\* is none.
LEMMA OnlyIs ==
  ASSUME NEW V, NEW s \in Seq(V), NEW S
  PROVE  Only(s, S) \in Seq(V) /\ ToSet(Only(s, S)) = ToSet(s) \cap S
<1>0. Len(s) \in Nat /\ DOMAIN s = 1 .. Len(s) /\ \A i \in 1 .. Len(s) : s[i] \in V
  BY ElementOfSeq, LenProperties
<1> DEFINE Grown(t, i) == IF s[i] \in S THEN Append(t, s[i]) ELSE t
           Builds(f, n) == f = [i \in 0 .. n |-> IF i = 0 THEN << >> ELSE Grown(f[i - 1], i)]
<1> HIDE DEF Grown
<1>1. \A n \in 0 .. Len(s) : \E f : Builds(f, n)
  <2> DEFINE T == {n \in 0 .. Len(s) : ~\E f : Builds(f, n)}
  <2>1. SUFFICES ASSUME T # {} PROVE FALSE
    OBVIOUS
  <2>2. PICK n \in T : \A m \in T : n <= m
    <3>1. T \in SUBSET Nat BY <1>0
    <3> HIDE DEF T
    <3> QED BY <3>1, <2>1, LeastNumber
  <2>3. n \in 0 .. Len(s) /\ ~\E f : Builds(f, n)
    OBVIOUS
  <2>4. CASE n = 0
    <3> DEFINE g == [i \in 0 .. 0 |-> << >>]
    <3>1. g = [i \in 0 .. 0 |-> IF i = 0 THEN << >> ELSE Grown(g[i - 1], i)]
      OBVIOUS
    <3> QED BY <2>3, <2>4, <3>1
  <2>5. CASE n # 0
    <3>1. n - 1 \in 0 .. Len(s) /\ ~(n <= n - 1) /\ n \in Nat /\ n > 0
      BY <1>0, <2>3, <2>5
    <3>2. PICK f : Builds(f, n - 1)
      BY <2>2, <3>1
    <3> DEFINE g == [i \in 0 .. n |-> IF i = n THEN Grown(f[n - 1], n) ELSE f[i]]
    <3>3. f[0] = << >> /\ \A i \in 1 .. n - 1 : f[i] = Grown(f[i - 1], i)
      BY <3>1, <3>2
    <3>4. \A i \in 0 .. n : g[i] = IF i = 0 THEN << >> ELSE Grown(g[i - 1], i)
      <4>1. TAKE i \in 0 .. n
      <4>2. CASE i = 0
        BY <3>1, <3>3, <4>2
      <4>3. CASE i # 0
        <5>1. i - 1 \in 0 .. n /\ i - 1 # n /\ g[i - 1] = f[i - 1]
          BY <3>1, <4>3
        <5>2. i # n => i \in 1 .. n - 1
          BY <3>1, <4>3
        <5> QED BY <3>3, <4>3, <5>1, <5>2
      <4> QED BY <4>2, <4>3
    <3>5. g = [i \in 0 .. n |-> g[i]]
      OBVIOUS
    <3> HIDE DEF g
    <3>6. Builds(g, n)
      BY <3>4, <3>5
    <3> QED BY <2>3, <3>6
  <2> QED BY <2>4, <2>5
<1> DEFINE up == CHOOSE f : Builds(f, Len(s))
<1>2. Builds(up, Len(s))
  <2> HIDE DEF Builds
  <2> QED BY <1>0, <1>1
<1>3. Only(s, S) = up[Len(s)]
  BY Zenon DEF Only, Grown
<1> HIDE DEF up
<1>4. up[0] = << >> /\ \A i \in 1 .. Len(s) : up[i] = Grown(up[i - 1], i)
  BY <1>0, <1>2
<1> DEFINE part(i) == {s[j] : j \in 1 .. i}
           Right(i) == up[i] \in Seq(V) /\ ToSet(up[i]) = part(i) \cap S
<1>5. \A n \in 0 .. Len(s) : Right(n)
  <2> DEFINE T == {n \in 0 .. Len(s) : ~Right(n)}
  <2>1. SUFFICES ASSUME T # {} PROVE FALSE
    OBVIOUS
  <2>2. PICK n \in T : \A m \in T : n <= m
    <3>1. T \in SUBSET Nat BY <1>0
    <3> HIDE DEF T
    <3> QED BY <3>1, <2>1, LeastNumber
  <2>3. Right(0)
    <3>1. part(0) = {}
      OBVIOUS
    <3> HIDE DEF part
    <3> QED BY <1>4, <3>1, Elements
  <2>4. n \in 1 .. Len(s) /\ n - 1 \in 0 .. Len(s) /\ ~(n <= n - 1)
    BY <1>0, <2>2, <2>3
  <2>5. Right(n - 1)
    BY <2>2, <2>4
  <2>6. part(n) = part(n - 1) \cup {s[n]}
    <3>1. 1 .. n = (1 .. n - 1) \cup {n}
      BY <2>4
    <3> QED BY <3>1
  <2>7. up[n] = Grown(up[n - 1], n) /\ s[n] \in V
    BY <1>0, <1>4, <2>4
  <2> HIDE DEF part
  <2>8. Right(n)
    <3>1. CASE s[n] \in S
      <4>1. up[n] = Append(up[n - 1], s[n])
        BY <2>7, <3>1 DEF Grown
      <4>2. up[n] \in Seq(V) /\ ToSet(up[n]) = ToSet(up[n - 1]) \cup {s[n]}
        BY <2>5, <2>7, <4>1, Appended
      <4> QED BY <2>5, <2>6, <3>1, <4>2
    <3>2. CASE s[n] \notin S
      BY <2>5, <2>6, <2>7, <3>2 DEF Grown
    <3> QED BY <3>1, <3>2
  <2> QED BY <2>2, <2>8
<1>6. part(Len(s)) = ToSet(s)
  BY <1>0 DEF ToSet
<1> HIDE DEF part
<1> QED BY <1>0, <1>3, <1>5, <1>6

LEMMA SupportedInIs ==
  ASSUME NEW V, NEW s \in Seq(V)
  PROVE  /\ SupportedIn(s) \in Seq(V) /\ ToSet(SupportedIn(s)) = ToSet(s) \cap Supported
         /\ SupportedIn(s) # << >> <=> Known(s)
<1>1. SupportedIn(s) \in Seq(V) /\ ToSet(SupportedIn(s)) = ToSet(s) \cap Supported
  BY OnlyIs DEF SupportedIn
<1> QED BY <1>1, Elements DEF Known

\* The payload type the server takes is one it knows, and one that the other
\* side listed if it listed any it knows.
LEMMA ChooseIs ==
  ASSUME NEW s \in Seq(Nat), NEW default \in Supported
  PROVE  /\ Choose(s, default) \in Supported
         /\ Known(s) => Choose(s, default) \in ToSet(s)
<1>1. /\ SupportedIn(s) \in Seq(Nat) /\ ToSet(SupportedIn(s)) = ToSet(s) \cap Supported
      /\ SupportedIn(s) # << >> <=> Known(s)
  BY SupportedInIs
<1>2. SupportedIn(s) # << >> => Head(SupportedIn(s)) \in ToSet(s) \cap Supported
  BY <1>1, Elements
<1>3. Contains(s, default) <=> default \in ToSet(s)
  BY Elements
<1>4. PCMU \in Supported
  BY DEF Supported
<1> QED BY <1>1, <1>2, <1>3, <1>4 DEF Choose

LEMMA ParsedIs ==
  ASSUME NEW s \in Descriptions
  PROVE  /\ Parsed(s) \in Seq(Nat) /\ s.codecs \in Seq(Nat)
         /\ Codecs(s) \subseteq ToSet(Parsed(s))
         /\ Codecs(s) # {} => Parsed(s) = s.codecs
         /\ Audio(s) <=> Codecs(s) # {}
<1>1. s.codecs \in Seq(Nat)
  BY DEF Descriptions
<1>2. Audio(s) <=> Codecs(s) # {}
  BY <1>1, Elements DEF Audio, Codecs
<1>3. <<PCMU, PCMA>> \in Seq(Nat)
  BY DEF PCMU, PCMA
<1> QED BY <1>1, <1>2, <1>3 DEF Parsed, Audio, Codecs

\* The clamp lets through the payload types that are G.711, and telephone-event
\* where the list has it.
LEMMA G711Is ==
  ASSUME NEW s \in Seq(Nat), NEW default \in Supported, NEW event \in {Event, NoEvent}
  PROVE  /\ G711(s, default, event) \in Seq(Nat \cup {NoEvent})
         /\ ToSet(G711(s, default, event)) \subseteq Supported \cup {Event}
         /\ ToSet(s) \cap (Supported \cup {event}) \subseteq ToSet(G711(s, default, event))
<1> DEFINE V == Nat \cup {NoEvent}
<1>0. /\ s \in Seq(V) /\ default \in V /\ event \in V /\ Event \in Nat /\ NoEvent \notin Nat
      /\ Supported \subseteq Nat /\ PCMU \in V /\ PCMA \in V
  BY NegotiationAssumption, SeqMonotonic DEF Supported, PCMU, PCMA
<1> DEFINE both == <<PCMU, PCMA>>
           rest == Only(both, Supported \ {default})
<1>1. both \in Seq(V) /\ ToSet(both) = Supported
  <2>1. both \in Seq(V)
    BY <1>0
  <2>2. ToSet(both) = {both[1], both[2]}
    BY DEF ToSet
  <2> QED BY <2>1, <2>2 DEF Supported
<1> HIDE DEF V, both
<1>2. rest \in Seq(V) /\ ToSet(rest) = Supported \ {default}
  BY <1>1, OnlyIs
<1> HIDE DEF rest
<1>3. <<default>> \in Seq(V) /\ ToSet(<<default>>) = {default}
  BY <1>0, Elements
<1>4. <<default>> \o rest \in Seq(V) /\ ToSet(<<default>> \o rest) = Supported
  <2> DEFINE d == <<default>>
  <2>1. d \in Seq(V) /\ ToSet(d) = {default}
    BY <1>3
  <2> HIDE DEF d
  <2>2. d \o rest \in Seq(V) /\ ToSet(d \o rest) = ToSet(d) \cup ToSet(rest)
    BY <1>2, <2>1, Joined
  <2>3. ToSet(d \o rest) = Supported
    BY <1>2, <2>1, <2>2
  <2> QED BY <2>2, <2>3 DEF d
<1>5. Preferred(s, default) \in Seq(V) /\ ToSet(Preferred(s, default)) = Supported \cap ToSet(s)
  <2>1. Preferred(s, default) = Only(<<default>> \o rest, ToSet(s))
    BY DEF Preferred, rest, both
  <2> DEFINE all == <<default>> \o rest
  <2>2. all \in Seq(V) /\ ToSet(all) = Supported
    BY <1>4
  <2> HIDE DEF all
  <2>3. Only(all, ToSet(s)) \in Seq(V) /\ ToSet(Only(all, ToSet(s))) = Supported \cap ToSet(s)
    BY <2>2, OnlyIs
  <2> QED BY <2>1, <2>3 DEF all
<1> DEFINE voice == IF Preferred(s, default) = << >> THEN <<Choose(s, default)>> ELSE Preferred(s, default)
           tail == Only(<<event>>, ToSet(s))
<1>6. voice \in Seq(V) /\ ToSet(voice) \subseteq Supported /\ Supported \cap ToSet(s) \subseteq ToSet(voice)
  <2>1. CASE Preferred(s, default) = << >>
    <3>1. Choose(s, default) \in Supported /\ Choose(s, default) \in V
      BY <1>0, ChooseIs DEF V
    <3>2. <<Choose(s, default)>> \in Seq(V) /\ ToSet(<<Choose(s, default)>>) = {Choose(s, default)}
      BY <3>1, Elements
    <3>3. Supported \cap ToSet(s) = {}
      BY <1>5, <2>1, Elements
    <3> QED BY <2>1, <3>1, <3>2, <3>3
  <2>2. CASE Preferred(s, default) # << >>
    BY <1>5, <2>2
  <2> QED BY <2>1, <2>2
<1>7. tail \in Seq(V) /\ ToSet(tail) = {event} \cap ToSet(s)
  <2> DEFINE e == <<event>>
  <2>1. e \in Seq(V) /\ ToSet(e) = {event}
    BY <1>0, Elements
  <2> HIDE DEF e
  <2>2. Only(e, ToSet(s)) \in Seq(V) /\ ToSet(Only(e, ToSet(s))) = {event} \cap ToSet(s)
    BY <2>1, OnlyIs
  <2> QED BY <2>2 DEF e
<1>8. G711(s, default, event) = voice \o tail
  BY DEF G711
<1> HIDE DEF voice, tail
<1>9. /\ G711(s, default, event) \in Seq(V)
      /\ ToSet(G711(s, default, event)) = ToSet(voice) \cup ToSet(tail)
  BY <1>6, <1>7, <1>8, Joined
<1>10. ToSet(s) \subseteq Nat
  BY Elements
<1> QED BY <1>0, <1>6, <1>7, <1>9, <1>10 DEF V

\* What a description is after a change of some of its parts.
LEMMA DescriptionIs ==
  ASSUME NEW s \in Descriptions
  PROVE  /\ [s EXCEPT !.proto = "RTP/AVP", !.webrtc = FALSE] \in Descriptions
         /\ [s EXCEPT !.rtcp = TRUE] \in Descriptions
         /\ \A dir \in {"sendrecv", "sendonly", "recvonly", "inactive"} :
              [s EXCEPT !.dir = dir] \in Descriptions
BY DEF Descriptions

LEMMA FilteredIs ==
  ASSUME NEW s \in Descriptions, NEW V, NEW allowed \in Seq(V)
  PROVE  /\ Filtered(s, allowed) \in Descriptions
         /\ Codecs(Filtered(s, allowed)) \subseteq Codecs(s)
         /\ Codecs(s) \cap ToSet(allowed) # {} => Codecs(Filtered(s, allowed)) = Codecs(s) \cap ToSet(allowed)
         /\ Codecs(s) \subseteq ToSet(allowed) => Codecs(Filtered(s, allowed)) = Codecs(s)
         /\ Filtered(s, allowed).addr = s.addr /\ Filtered(s, allowed).dir = s.dir
         /\ Filtered(s, allowed).webrtc = s.webrtc /\ Filtered(s, allowed).proto = s.proto
<1> DEFINE kept == Only(s.codecs, ToSet(allowed))
<1>1. s.codecs \in Seq(Nat) /\ s.maps \in SUBSET Nat
  BY DEF Descriptions
<1>2. kept \in Seq(Nat) /\ ToSet(kept) = Codecs(s) \cap ToSet(allowed)
  BY <1>1, OnlyIs DEF Codecs
<1>3. KeptCodecs(s, allowed) = IF kept = << >> THEN s.codecs ELSE kept
  BY DEF KeptCodecs
<1> HIDE DEF kept
<1>4. kept = << >> <=> Codecs(s) \cap ToSet(allowed) = {}
  BY <1>2, Elements
<1>5. /\ KeptCodecs(s, allowed) \in Seq(Nat)
      /\ ToSet(KeptCodecs(s, allowed)) = IF Codecs(s) \cap ToSet(allowed) = {} THEN Codecs(s)
                                         ELSE Codecs(s) \cap ToSet(allowed)
  BY <1>1, <1>2, <1>3, <1>4 DEF Codecs
<1> DEFINE codecs == KeptCodecs(s, allowed)
           maps == s.maps \cap ToSet(allowed)
<1>6. Filtered(s, allowed) = [s EXCEPT !.codecs = codecs, !.maps = maps]
  BY DEF Filtered
<1>7. codecs \in Seq(Nat) /\ maps \in SUBSET Nat
  BY <1>1, <1>5
<1>8. ToSet(codecs) = IF Codecs(s) \cap ToSet(allowed) = {} THEN Codecs(s)
                      ELSE Codecs(s) \cap ToSet(allowed)
  BY <1>5
<1> HIDE DEF codecs, maps
<1>9. Filtered(s, allowed) \in Descriptions
  BY <1>6, <1>7 DEF Descriptions
<1>10. /\ Filtered(s, allowed).codecs = codecs
       /\ Filtered(s, allowed).addr = s.addr /\ Filtered(s, allowed).dir = s.dir
       /\ Filtered(s, allowed).webrtc = s.webrtc /\ Filtered(s, allowed).proto = s.proto
  BY <1>6, <1>9 DEF Descriptions
<1> QED BY <1>8, <1>9, <1>10 DEF Codecs

LEMMA PlainIs ==
  ASSUME NEW s \in Descriptions, NEW V, NEW allowed \in Seq(V), setting \in Settings
  PROVE  /\ Plain(s, allowed) \in Descriptions
         /\ Codecs(Plain(s, allowed)) \subseteq Codecs(s)
         /\ ~setting.plain => Codecs(Plain(s, allowed)) = Codecs(s)
         /\ Codecs(s) \subseteq ToSet(allowed) => Codecs(Plain(s, allowed)) = Codecs(s)
         /\ Plain(s, allowed).addr = s.addr /\ Plain(s, allowed).dir = s.dir
         /\ setting.plain => ~Plain(s, allowed).webrtc /\ Plain(s, allowed).proto = "RTP/AVP"
<1> DEFINE f == Filtered(s, allowed)
<1>1. /\ f \in Descriptions /\ f.addr = s.addr /\ f.dir = s.dir /\ Codecs(f) \subseteq Codecs(s)
      /\ Codecs(s) \subseteq ToSet(allowed) => Codecs(f) = Codecs(s)
  BY FilteredIs
<1>2. Normalised(s, allowed) = [f EXCEPT !.proto = "RTP/AVP", !.webrtc = FALSE]
  BY DEF Normalised
<1> HIDE DEF f
<1>3. Normalised(s, allowed) \in Descriptions
  BY <1>1, <1>2, DescriptionIs
<1>4. /\ Normalised(s, allowed).codecs = f.codecs
      /\ Normalised(s, allowed).addr = f.addr /\ Normalised(s, allowed).dir = f.dir
      /\ Normalised(s, allowed).webrtc = FALSE /\ Normalised(s, allowed).proto = "RTP/AVP"
  BY <1>1, <1>2, <1>3 DEF Descriptions
<1>5. setting.plain \in BOOLEAN
  BY NegotiationAssumption
<1> QED BY <1>1, <1>3, <1>4, <1>5 DEF Plain, Codecs

LEMMA ExplicitIs ==
  ASSUME NEW s \in Descriptions
  PROVE  /\ Explicit(s) \in Descriptions /\ Codecs(Explicit(s)) = Codecs(s)
         /\ Explicit(s).addr = s.addr /\ Explicit(s).dir = s.dir
         /\ Explicit(s).webrtc = s.webrtc /\ Explicit(s).proto = s.proto
<1>1. [s EXCEPT !.rtcp = TRUE] \in Descriptions
  BY DescriptionIs
<1>2. /\ [s EXCEPT !.rtcp = TRUE].codecs = s.codecs
      /\ [s EXCEPT !.rtcp = TRUE].addr = s.addr /\ [s EXCEPT !.rtcp = TRUE].dir = s.dir
      /\ [s EXCEPT !.rtcp = TRUE].webrtc = s.webrtc /\ [s EXCEPT !.rtcp = TRUE].proto = s.proto
  BY DEF Descriptions
<1> QED BY <1>1, <1>2 DEF Explicit, WithRtcp, Codecs

\* What the server offers or answers itself.
LEMMA MadeIs ==
  ASSUME NEW pt \in Supported, NEW event \in {Event, NoEvent}, NEW payloads \in Seq(Nat)
  PROVE  /\ Made(pt, event, payloads) \in Descriptions
         /\ pt \in Codecs(Made(pt, event, payloads))
         /\ Codecs(Made(pt, event, payloads)) \subseteq
              ({pt} \cup (Supported \cap ToSet(payloads)) \cup ({event} \cap {Event}))
         /\ Made(pt, event, payloads).dir = "sendrecv"
<1> DEFINE own == <<pt>>
           more == Only(payloads, Supported \ {pt})
           tail == IF event = NoEvent THEN << >> ELSE <<event>>
           codecs == own \o more \o tail
           maps == ToSet(codecs)
<1>0. Event \in Nat /\ NoEvent \notin Nat /\ pt \in Nat
  BY NegotiationAssumption DEF Supported, PCMU, PCMA
<1>1. own \in Seq(Nat) /\ ToSet(own) = {pt}
  BY <1>0, Elements
<1>2. more \in Seq(Nat) /\ ToSet(more) = ToSet(payloads) \cap (Supported \ {pt})
  BY OnlyIs
<1>3. tail \in Seq(Nat) /\ ToSet(tail) = {event} \cap {Event}
  <2>1. CASE event = NoEvent
    BY <1>0, <2>1, Elements
  <2>2. CASE event # NoEvent
    <3>1. event = Event /\ tail = <<event>>
      BY <2>2
    <3>2. <<Event>> \in Seq(Nat) /\ ToSet(<<Event>>) = {Event}
      BY <1>0, Elements
    <3> QED BY <3>1, <3>2
  <2> QED BY <2>1, <2>2
<1> HIDE DEF own, more, tail
<1>4. own \o more \in Seq(Nat) /\ ToSet(own \o more) = ToSet(own) \cup ToSet(more)
  BY <1>1, <1>2, Joined
<1>5. codecs \in Seq(Nat) /\ ToSet(codecs) = (ToSet(own) \cup ToSet(more)) \cup ToSet(tail)
  <2> DEFINE two == own \o more
  <2>1. two \in Seq(Nat) /\ ToSet(two) = ToSet(own) \cup ToSet(more)
    BY <1>4
  <2> HIDE DEF two
  <2>2. two \o tail \in Seq(Nat) /\ ToSet(two \o tail) = ToSet(two) \cup ToSet(tail)
    BY <1>3, <2>1, Joined
  <2> QED BY <2>1, <2>2 DEF two
<1>6. Made(pt, event, payloads) = [None EXCEPT !.codecs = codecs, !.maps = maps, !.rtcp = TRUE, !.addr = "sbc"]
  BY DEF Made, own, more, tail
<1>7. codecs \in Seq(Nat) /\ maps \in SUBSET Nat
  BY <1>5, Elements
<1> HIDE DEF codecs, maps
<1>8. None \in Descriptions /\ None.dir = "sendrecv"
  BY Elements DEF None, Descriptions
<1>9. Made(pt, event, payloads) \in Descriptions
  BY <1>6, <1>7, <1>8 DEF Descriptions
<1>10. Made(pt, event, payloads).codecs = codecs /\ Made(pt, event, payloads).dir = "sendrecv"
  BY <1>6, <1>8, <1>9 DEF Descriptions
<1> QED BY <1>1, <1>2, <1>3, <1>5, <1>9, <1>10 DEF Codecs

LEMMA PolicyIs ==
  ASSUME NEW s \in Seq(Nat), NEW target \in Supported
  PROVE  Policy(s, target) \in Policies /\ ToSet(Policy(s, target).transcode) \subseteq Supported
<1>1. ToSet(SupportedIn(s)) \subseteq Supported
  BY SupportedInIs
<1>2. <<target>> \in Seq(Supported) /\ ToSet(<<target>>) = {target}
  BY Elements
<1>3. << >> \in Seq(Supported) /\ ToSet(<< >>) = {}
  BY Elements
<1>4. CASE Policy(s, target) = NoPolicy
  BY <1>3, <1>4 DEF NoPolicy, Policies
<1>5. CASE Policy(s, target) # NoPolicy
  <2>1. Policy(s, target) = [mask |-> ToSet(SupportedIn(s)), transcode |-> <<target>>]
    BY <1>5 DEF Policy
  <2> QED BY <1>1, <1>2, <2>1 DEF Policies
<1> QED BY <1>4, <1>5

LEMMA EngineOfferIs ==
  ASSUME NEW s \in Descriptions, NEW p \in Policies
  PROVE  /\ EngineOffer(s, p) \in Descriptions
         /\ Codecs(EngineOffer(s, p)) \subseteq Codecs(s) \cup ToSet(p.transcode)
         /\ EngineOffer(s, p).addr = "engine" /\ EngineOffer(s, p).dir = s.dir
         /\ EngineOffer(s, p).webrtc = s.webrtc /\ EngineOffer(s, p).proto = s.proto
<1> DEFINE codecs == Masked(s, p) \o p.transcode
           maps == (s.maps \ p.mask) \cup ToSet(p.transcode)
<1>1. s.codecs \in Seq(Nat) /\ s.maps \in SUBSET Nat
  BY DEF Descriptions
<1>2. Masked(s, p) \in Seq(Nat) /\ ToSet(Masked(s, p)) \subseteq Codecs(s)
  BY <1>1, OnlyIs DEF Masked, Codecs
<1>3. p.transcode \in Seq(Nat) /\ ToSet(p.transcode) \subseteq Nat
  <2>1. p.transcode \in Seq(Supported) /\ Supported \subseteq Nat
    BY DEF Policies, Supported, PCMU, PCMA
  <2>2. p.transcode \in Seq(Nat)
    BY <2>1, SeqMonotonic
  <2> QED BY <2>2, Elements
<1>4. codecs \in Seq(Nat) /\ ToSet(codecs) = ToSet(Masked(s, p)) \cup ToSet(p.transcode)
  BY <1>2, <1>3, Joined
<1>5. maps \in SUBSET Nat
  BY <1>1, <1>3
<1>6. EngineOffer(s, p) = [s EXCEPT !.codecs = codecs, !.maps = maps, !.addr = "engine", !.rtcp = TRUE]
  BY DEF EngineOffer
<1> HIDE DEF codecs, maps
<1>7. EngineOffer(s, p) \in Descriptions
  BY <1>4, <1>5, <1>6 DEF Descriptions
<1>8. /\ EngineOffer(s, p).codecs = codecs
      /\ EngineOffer(s, p).addr = "engine" /\ EngineOffer(s, p).dir = s.dir
      /\ EngineOffer(s, p).webrtc = s.webrtc /\ EngineOffer(s, p).proto = s.proto
  BY <1>6, <1>7 DEF Descriptions
<1> QED BY <1>2, <1>4, <1>7, <1>8 DEF Codecs

\* A is answered with codecs it was asked about, all those among them that B
\* took.
LEMMA EngineAnswerIs ==
  ASSUME NEW s \in Descriptions, NEW p \in Policies, NEW offered \in Descriptions
  PROVE  /\ EngineAnswer(s, p, offered) \in Descriptions
         /\ Codecs(EngineAnswer(s, p, offered)) \subseteq Codecs(offered)
         /\ Codecs(offered) \cap Codecs(s) \subseteq Codecs(EngineAnswer(s, p, offered))
         /\ EngineAnswer(s, p, offered).addr = "engine" /\ EngineAnswer(s, p, offered).dir = s.dir
         /\ EngineAnswer(s, p, offered).webrtc = s.webrtc /\ EngineAnswer(s, p, offered).proto = s.proto
<1> DEFINE taken == Only(offered.codecs, ToSet(s.codecs))
           both == Only(offered.codecs, p.mask \cup ToSet(taken))
           codecs == IF \E pt \in ToSet(p.transcode) : Contains(s.codecs, pt) THEN both ELSE taken
           maps == ToSet(codecs)
<1>1. offered.codecs \in Seq(Nat)
  BY DEF Descriptions
<1>2. taken \in Seq(Nat) /\ ToSet(taken) = Codecs(offered) \cap Codecs(s)
  BY <1>1, OnlyIs DEF Codecs
<1>3. both \in Seq(Nat) /\ ToSet(both) = Codecs(offered) \cap (p.mask \cup ToSet(taken))
  BY <1>1, OnlyIs DEF Codecs
<1>4. EngineAnswer(s, p, offered) =
        [s EXCEPT !.codecs = codecs, !.maps = maps, !.addr = "engine", !.rtcp = TRUE]
  BY DEF EngineAnswer
<1> HIDE DEF taken, both
<1>5. codecs \in Seq(Nat) /\ ToSet(codecs) \subseteq Codecs(offered)
      /\ Codecs(offered) \cap Codecs(s) \subseteq ToSet(codecs)
  BY <1>2, <1>3
<1>6. maps \in SUBSET Nat
  BY <1>5, Elements
<1> HIDE DEF codecs, maps
<1>7. EngineAnswer(s, p, offered) \in Descriptions
  BY <1>4, <1>5, <1>6 DEF Descriptions
<1>8. /\ EngineAnswer(s, p, offered).codecs = codecs
      /\ EngineAnswer(s, p, offered).addr = "engine" /\ EngineAnswer(s, p, offered).dir = s.dir
      /\ EngineAnswer(s, p, offered).webrtc = s.webrtc /\ EngineAnswer(s, p, offered).proto = s.proto
  BY <1>4, <1>7 DEF Descriptions
<1> QED BY <1>5, <1>7, <1>8 DEF Codecs

LEMMA PhoneIs ==
  ASSUME NEW codecs \in Seq(Nat), NEW who \in {"A", "B"}, NEW webrtc \in BOOLEAN,
         NEW dir \in {"sendrecv", "sendonly", "recvonly", "inactive"}
  PROVE  /\ Phone(codecs, who, webrtc, dir) \in Descriptions
         /\ Phone(codecs, who, webrtc, dir).codecs = codecs
         /\ Phone(codecs, who, webrtc, dir).maps = ToSet(codecs)
         /\ Phone(codecs, who, webrtc, dir).dir = dir
<1> DEFINE maps == ToSet(codecs)
           d == [None EXCEPT !.codecs = codecs, !.maps = maps]
           proto == IF webrtc THEN "UDP/TLS/RTP/SAVPF" ELSE "RTP/AVP"
<1>1. maps \in SUBSET Nat /\ None \in Descriptions
  BY Elements DEF None, Descriptions
<1>2. Phone(codecs, who, webrtc, dir) = [d EXCEPT !.addr = who, !.webrtc = webrtc, !.dir = dir, !.proto = proto]
  BY DEF Phone, Described
<1>3. proto \in {"RTP/AVP", "UDP/TLS/RTP/SAVPF"}
  OBVIOUS
<1> HIDE DEF maps, proto
<1>4. d \in Descriptions /\ d.codecs = codecs /\ d.maps = maps
  <2>1. d \in Descriptions
    BY <1>1 DEF Descriptions
  <2> QED BY <1>1, <2>1 DEF Descriptions
<1> HIDE DEF d
<1>5. Phone(codecs, who, webrtc, dir) \in Descriptions
  BY <1>2, <1>3, <1>4 DEF Descriptions
<1>6. /\ Phone(codecs, who, webrtc, dir).codecs = d.codecs
      /\ Phone(codecs, who, webrtc, dir).maps = d.maps
      /\ Phone(codecs, who, webrtc, dir).dir = dir
  BY <1>2, <1>4, <1>5 DEF Descriptions
<1> QED BY <1>4, <1>5, <1>6 DEF maps

LEMMA AnswersAre ==
  ASSUME NEW s \in Descriptions, NEW a \in Answers(s)
  PROVE  /\ a \in Descriptions /\ Codecs(a) \subseteq Codecs(s) /\ a.maps = Codecs(a)
         /\ a.dir = Reply(s.dir)
<1>1. PICK taken \in SUBSET ToSet(s.codecs) : a = Phone(Only(s.codecs, taken), "B", s.webrtc, Reply(s.dir))
  BY DEF Answers
<1>2. /\ s.codecs \in Seq(Nat) /\ s.webrtc \in BOOLEAN
      /\ Reply(s.dir) \in {"sendrecv", "sendonly", "recvonly", "inactive"}
  BY DEF Descriptions, Reply
<1>3. Only(s.codecs, taken) \in Seq(Nat) /\ ToSet(Only(s.codecs, taken)) \subseteq ToSet(s.codecs)
  BY <1>2, OnlyIs
<1> QED BY <1>1, <1>2, <1>3, PhoneIs DEF Codecs

\* What RTPengine is asked about is A's offer, or the part of it that the clamp
\* leaves.
LEMMA ToEngineIs ==
  ASSUME NegotiationTypes, Asked
  PROVE  /\ ToEngine \in Descriptions /\ Codecs(ToEngine) \subseteq Codecs(offer)
         /\ setting.g711 /\ Known(first) => Codecs(ToEngine) \subseteq Supported \cup {Event}
<1> DEFINE allowed == G711(Parsed(offer), setting.default, EventOf(offer))
<1>1. /\ offer \in Descriptions /\ setting \in Settings /\ setting.default \in Supported
      /\ setting.g711 \in BOOLEAN
  BY NegotiationAssumption DEF NegotiationTypes, NegotiationTypeOK
<1>2. Parsed(offer) \in Seq(Nat) /\ (Codecs(offer) # {} => Parsed(offer) = offer.codecs)
  BY <1>1, ParsedIs
<1>3. EventOf(offer) \in {Event, NoEvent}
  BY DEF EventOf
<1>4. /\ ToSet(allowed) \subseteq Supported \cup {Event}
      /\ ToSet(Parsed(offer)) \cap (Supported \cup {EventOf(offer)}) \subseteq ToSet(allowed)
  BY <1>1, <1>2, <1>3, G711Is
<1>5. allowed \in Seq(Nat \cup {NoEvent})
  BY <1>1, <1>2, <1>3, G711Is
<1> HIDE DEF allowed
<1>6. /\ Filtered(offer, allowed) \in Descriptions
      /\ Codecs(Filtered(offer, allowed)) \subseteq Codecs(offer)
      /\ Codecs(offer) \cap ToSet(allowed) # {} =>
           Codecs(Filtered(offer, allowed)) = Codecs(offer) \cap ToSet(allowed)
  BY <1>1, <1>5, FilteredIs
<1>7. Clamped = IF setting.g711 THEN Filtered(offer, allowed) ELSE offer
  BY DEF Clamped, allowed
<1>8. /\ Clamped \in Descriptions /\ Codecs(Clamped) \subseteq Codecs(offer)
      /\ setting.g711 /\ Known(first) => Codecs(Clamped) \subseteq Supported \cup {Event}
      /\ Known(first) => Codecs(Clamped) # {}
  <2>1. Known(first) => Codecs(offer) \cap ToSet(allowed) # {}
    BY <1>2, <1>4 DEF Known, Asked, Codecs
  <2>2. Known(first) => Codecs(offer) # {}
    BY DEF Known, Asked, Codecs
  <2> QED BY <1>1, <1>4, <1>6, <1>7, <2>1, <2>2
<1>9. Known(first) /\ Parsed(Clamped) = Parsed(offer) => Codecs(offer) = Codecs(Clamped)
  <2> SUFFICES ASSUME Known(first), Parsed(Clamped) = Parsed(offer) PROVE Codecs(offer) = Codecs(Clamped)
    OBVIOUS
  <2>1. Codecs(offer) # {}
    BY DEF Known, Asked, Codecs
  <2>2. Parsed(Clamped) = Clamped.codecs /\ Parsed(offer) = offer.codecs
    BY <1>1, <1>8, <2>1, ParsedIs
  <2> QED BY <2>2 DEF Codecs
<1> QED BY <1>1, <1>8, <1>9 DEF ToEngine

LEMMA NegotiationInitial == NegotiationInit => NegotiationInv
<1> SUFFICES ASSUME NegotiationInit PROVE NegotiationInv
  OBVIOUS
<1> DEFINE n == None
<1>1. /\ n \in Descriptions /\ n.codecs = << >> /\ n.maps = {} /\ n.proto = "RTP/AVP" /\ n.webrtc = FALSE
      /\ n.addr = "nobody" /\ n.dir = "sendrecv"
  BY Elements DEF None, Descriptions
<1>2. offer = n /\ offerToB = n /\ answerOfB = n /\ answerToA = n
  BY DEF NegotiationInit
<1> HIDE DEF n
<1>3. /\ setting \in Settings /\ stage = "idle" /\ refreshes = 0 /\ first = << >>
      /\ policy = [mask |-> {}, transcode |-> << >>] /\ relay = [inbound |-> PCMU, outbound |-> PCMU]
  BY DEF NegotiationInit, NoPolicy
<1>4. policy \in Policies /\ relay \in Payloads /\ first \in Seq(Nat) /\ 0 \in 0 .. MaxRefreshes
  BY <1>3, Elements, NegotiationAssumption DEF Policies, Payloads, Supported
<1>5. relay.inbound \in Supported /\ relay.outbound \in Supported /\ policy.mask \subseteq Supported
  BY <1>4 DEF Policies, Payloads
<1>6. NegotiationTypes
  BY <1>1, <1>2, <1>3, <1>4, <1>5 DEF NegotiationTypes, NegotiationTypeOK
<1>7. MediaAnchored
  BY <1>1, <1>2 DEF MediaAnchored
<1> QED
  BY <1>1, <1>2, <1>3, <1>6, <1>7
     DEF NegotiationInv, Asked, Proposed, Taken, AnsweredBefore, CodecsMeet

\* The server's configuration, and what the code's configurations have in common.
Clamps == \A s \in Settings : s.plain => s.g711

LEMMA SettingIs ==
  ASSUME NegotiationTypes
  PROVE  /\ setting \in Settings /\ setting.backend \in {"internal", "rtpengine"}
         /\ setting.default \in Supported /\ setting.g711 \in BOOLEAN
         /\ setting.plain \in BOOLEAN /\ setting.explicit \in BOOLEAN
         /\ refreshes \in Nat
BY NegotiationAssumption DEF NegotiationTypes, NegotiationTypeOK

LEMMA CallKeeps == ASSUME NegotiationInv, Call PROVE NegotiationInv'
<1> USE DEF NegotiationInv
<1>1. /\ stage = "idle" /\ stage' = "offered" /\ refreshes = 0 /\ first' = offer'.codecs
      /\ UNCHANGED <<setting, offerToB, answerOfB, answerToA, policy, relay, refreshes>>
  BY DEF Call, Asked
<1>2. offer' \in Descriptions /\ offer'.maps \subseteq ToSet(offer'.codecs) /\ offer'.dir = "sendrecv"
  <2>1. PICK codecs \in Offers, webrtc \in BOOLEAN :
          offer' = IF codecs = << >> THEN None ELSE Phone(codecs, "A", webrtc, "sendrecv")
    BY DEF Call
  <2>2. codecs \in Seq(Nat)
    BY NegotiationAssumption
  <2>3. CASE codecs = << >>
    BY <2>1, <2>3, Elements DEF None, Descriptions
  <2>4. CASE codecs # << >>
    BY <2>1, <2>2, <2>4, PhoneIs
  <2> QED BY <2>3, <2>4
<1>3. first' \in Seq(Nat)
  BY <1>1, <1>2 DEF Descriptions
<1>4. NegotiationTypes'
  BY <1>1, <1>2, <1>3 DEF NegotiationTypes, NegotiationTypeOK
<1>5. MediaAnchored'
  BY <1>1 DEF MediaAnchored
<1> QED
  BY <1>1, <1>2, <1>4, <1>5 DEF Asked, Proposed, Taken, AnsweredBefore, CodecsMeet

LEMMA InternalOfferKeeps == ASSUME NegotiationInv, InternalOffer PROVE NegotiationInv'
<1> USE DEF NegotiationInv
<1>1. /\ stage' = "ringing" /\ refreshes = 0 /\ setting.backend = "internal"
      /\ UNCHANGED <<setting, offer, answerOfB, answerToA, policy, first, refreshes>>
  BY DEF InternalOffer
<1> DEFINE remote == Parsed(offer)
           inbound == Choose(remote, PCMU)
           outbound == setting.default
           payloads == OutboundOffer(remote, inbound, outbound)
           event == EventOf(offer)
<1>2. /\ relay' = [inbound |-> inbound, outbound |-> outbound]
      /\ offerToB' = Made(outbound, event, payloads)
  BY DEF InternalOffer
<1>3. remote \in Seq(Nat) /\ outbound \in Supported
  BY ParsedIs, SettingIs DEF NegotiationTypes
<1>4. inbound \in Supported
  BY <1>3, ChooseIs DEF Supported
<1>5. payloads \in Seq(Nat)
  BY <1>3, Elements DEF OutboundOffer, Supported, PCMU, PCMA
<1>6. event \in {Event, NoEvent}
  BY DEF EventOf
<1>7. relay.inbound' = Choose(Parsed(offer), PCMU)
  BY <1>2
<1> HIDE DEF remote, inbound, outbound, payloads, event
<1>8. /\ offerToB' \in Descriptions /\ offerToB'.dir = "sendrecv"
      /\ Codecs(offerToB') \subseteq Supported \cup {Event}
  BY <1>2, <1>3, <1>5, <1>6, MadeIs
<1>9. relay' \in Payloads /\ relay'.inbound \in Supported /\ relay'.outbound \in Supported
  BY <1>2, <1>3, <1>4 DEF Payloads
<1>10. NegotiationTypes'
  BY <1>1, <1>8, <1>9 DEF NegotiationTypes, NegotiationTypeOK
<1>11. MediaAnchored'
  BY <1>1 DEF MediaAnchored
<1>12. Proposed'
  BY <1>1, <1>7, <1>8 DEF Proposed, Codecs
<1> QED
  BY <1>1, <1>10, <1>11, <1>12 DEF Asked, Taken, AnsweredBefore, CodecsMeet

LEMMA InternalAnswerKeeps == ASSUME NegotiationInv, InternalAnswer PROVE NegotiationInv'
<1> USE DEF NegotiationInv
<1>1. /\ stage = "answered" /\ stage' = "up" /\ refreshes = 0 /\ setting.backend = "internal"
      /\ relay' = [relay EXCEPT !.outbound = Choose(Parsed(answerOfB), @)]
      /\ answerToA' = Made(relay.inbound, EventOf(offer), << >>)
      /\ UNCHANGED <<setting, offer, offerToB, answerOfB, policy, first, refreshes>>
  BY DEF InternalAnswer
<1>2. /\ offer \in Descriptions /\ answerOfB \in Descriptions /\ relay \in Payloads
      /\ relay.inbound \in Supported /\ relay.outbound \in Supported
  BY DEF NegotiationTypes, Payloads
<1>3. /\ Parsed(offer) \in Seq(Nat) /\ (Codecs(offer) # {} => Parsed(offer) = offer.codecs)
      /\ Parsed(answerOfB) \in Seq(Nat) /\ (Codecs(answerOfB) # {} => Parsed(answerOfB) = answerOfB.codecs)
  BY <1>2, ParsedIs
<1>4. EventOf(offer) \in {Event, NoEvent} /\ (EventOf(offer) = Event => Event \in Codecs(offer) \/ Event = NoEvent)
  BY DEF EventOf, Asked, Codecs
<1>5. Event # NoEvent
  BY NegotiationAssumption
<1>6. << >> \in Seq(Nat) /\ ToSet(<< >>) = {}
  BY Elements
<1>7. /\ answerToA' \in Descriptions /\ relay.inbound \in Codecs(answerToA')
      /\ Codecs(answerToA') \subseteq {relay.inbound} \cup ({EventOf(offer)} \cap {Event})
      /\ answerToA'.dir = "sendrecv"
  BY <1>1, <1>2, <1>4, <1>6, MadeIs
<1>8. /\ relay' \in Payloads /\ relay'.inbound = relay.inbound
      /\ relay'.outbound = Choose(Parsed(answerOfB), relay.outbound)
  <2>1. Choose(Parsed(answerOfB), relay.outbound) \in Supported
    BY <1>2, <1>3, ChooseIs
  <2> QED BY <1>1, <1>2, <2>1 DEF Payloads
<1>9. NegotiationTypes'
  BY <1>1, <1>7, <1>8 DEF NegotiationTypes, NegotiationTypeOK, Payloads
<1>10. MediaAnchored'
  BY <1>1 DEF MediaAnchored
<1>11. AnsweredBefore'
  <2>1. ASSUME Known(first) PROVE Codecs(answerToA') \subseteq ToSet(first)
    <3>1. Parsed(offer) = first /\ Codecs(offer) = ToSet(first)
      BY <1>3, <2>1 DEF Asked, Codecs, Known
    <3>2. relay.inbound = Choose(first, PCMU)
      BY <1>1, <3>1 DEF Proposed
    <3>3. relay.inbound \in ToSet(first)
      BY <1>3, <2>1, <3>1, <3>2, ChooseIs DEF Supported
    <3> QED BY <1>4, <1>5, <1>7, <3>1, <3>3
  <2>2. answerOfB.dir = "sendrecv"
    BY <1>1 DEF Taken, Proposed, Reply
  <2> QED BY <1>1, <1>7, <2>1, <2>2 DEF AnsweredBefore
<1>12. CodecsMeet'
  <2> SUFFICES ASSUME Voice(answerOfB) # {}
               PROVE  /\ Contains(answerToA'.codecs, relay'.inbound)
                      /\ Contains(answerOfB.codecs, relay'.outbound)
    BY <1>1 DEF CodecsMeet
  <2>1. answerToA'.codecs \in Seq(Nat) /\ answerOfB.codecs \in Seq(Nat)
    BY <1>2, <1>7, ParsedIs
  <2>2. Contains(answerToA'.codecs, relay'.inbound)
    BY <1>7, <1>8, <2>1, Elements DEF Codecs
  <2>3. Codecs(answerOfB) \subseteq Supported \cup {Event}
    BY <1>1 DEF Taken, Proposed
  <2>4. Known(answerOfB.codecs) /\ Parsed(answerOfB) = answerOfB.codecs
    BY <1>3, <2>3 DEF Known, Voice, Codecs
  <2>5. relay'.outbound \in ToSet(answerOfB.codecs)
    BY <1>2, <1>8, <2>1, <2>4, ChooseIs
  <2> QED BY <2>1, <2>2, <2>5, Elements
<1> QED
  BY <1>1, <1>9, <1>10, <1>11, <1>12 DEF Asked, Proposed, Taken

LEMMA OfferOfEngineKeeps == ASSUME NegotiationInv, OfferOfEngine PROVE NegotiationInv'
<1> USE DEF NegotiationInv
<1>1. /\ stage' = "ringing" /\ refreshes = 0 /\ setting.backend = "rtpengine"
      /\ UNCHANGED <<setting, offer, answerOfB, answerToA, relay, first, refreshes>>
  BY DEF OfferOfEngine
<1> DEFINE engines == ToEngine
           remote == Parsed(engines)
           plain == Plain(engines, remote)
           asked == Explicit(plain)
           made == EngineOffer(asked, policy')
           kept == Plain(made, remote)
<1>2. policy' = Policy(remote, setting.default) /\ offerToB' = Explicit(kept)
  BY DEF OfferOfEngine
<1>3. engines \in Descriptions /\ setting \in Settings /\ setting.default \in Supported
  BY ToEngineIs, SettingIs
<1>4. ToEngine' = engines
  BY <1>1 DEF ToEngine, Clamped
<1> HIDE DEF engines
<1>5. remote \in Seq(Nat)
  BY <1>3, ParsedIs
<1> HIDE DEF remote
<1>6. policy' \in Policies /\ policy'.mask \subseteq Supported
  BY <1>2, <1>3, <1>5, PolicyIs DEF Policies
<1>7. plain \in Descriptions /\ Codecs(plain) \subseteq Codecs(engines)
  BY <1>3, <1>5, PlainIs
<1> HIDE DEF plain
<1>8. asked \in Descriptions /\ Codecs(asked) = Codecs(plain)
  BY <1>7, ExplicitIs
<1> HIDE DEF asked
<1>9. /\ made \in Descriptions /\ Codecs(made) \subseteq Codecs(asked) \cup ToSet(policy'.transcode)
      /\ made.addr = "engine"
  BY <1>6, <1>8, EngineOfferIs
<1> HIDE DEF made
<1>10. /\ kept \in Descriptions /\ Codecs(kept) \subseteq Codecs(made) /\ kept.addr = "engine"
       /\ setting.plain => ~kept.webrtc /\ kept.proto = "RTP/AVP"
  BY <1>3, <1>5, <1>9, PlainIs
<1> HIDE DEF kept
<1>11. /\ offerToB' \in Descriptions /\ Codecs(offerToB') = Codecs(kept) /\ offerToB'.addr = "engine"
       /\ setting.plain => ~offerToB'.webrtc /\ offerToB'.proto = "RTP/AVP"
  BY <1>2, <1>10, ExplicitIs
<1>12. Codecs(offerToB') \subseteq ToSet(policy'.transcode) \cup Codecs(engines)
  BY <1>7, <1>8, <1>9, <1>10, <1>11
<1>13. NegotiationTypes'
  BY <1>1, <1>6, <1>11 DEF NegotiationTypes, NegotiationTypeOK
<1>14. MediaAnchored'
  BY <1>1, <1>11 DEF MediaAnchored
<1>15. Proposed'
  BY <1>1, <1>4, <1>12 DEF Proposed, Codecs
<1> QED
  BY <1>1, <1>13, <1>14, <1>15 DEF Asked, Taken, AnsweredBefore, CodecsMeet

\* B's answer as RTPengine gets it: none of what B took is lost.
LEMMA BodyIs ==
  ASSUME NegotiationInv, Clamps, stage = "answered", refreshes = 0, setting.backend = "rtpengine"
  PROVE  /\ BodyOfB \in Descriptions /\ BodyOfB.addr = answerOfB.addr /\ BodyOfB.dir = answerOfB.dir
         /\ Known(first) => Codecs(BodyOfB) = Codecs(answerOfB)
         /\ setting.plain => ~BodyOfB.webrtc /\ BodyOfB.proto = "RTP/AVP"
<1> USE DEF NegotiationInv
<1> DEFINE b == answerOfB
           listed == Parsed(b)
           event == EventOf(b)
           allowed == G711(listed, setting.default, event)
           plain == Plain(b, allowed)
<1>1. /\ b \in Descriptions /\ setting \in Settings /\ setting.default \in Supported
      /\ setting.plain \in BOOLEAN /\ b.maps = Codecs(b)
  BY SettingIs DEF NegotiationTypes, Taken
<1>2. listed \in Seq(Nat) /\ Codecs(b) \subseteq ToSet(listed)
  BY <1>1, ParsedIs
<1>3. event \in {Event, NoEvent} /\ (Event \in Codecs(b) => event = Event)
  BY <1>1 DEF EventOf
<1>4. BodyOfB = Explicit(plain)
  BY DEF BodyOfB
<1> HIDE DEF b, listed, event
<1>5. /\ allowed \in Seq(Nat \cup {NoEvent})
      /\ ToSet(listed) \cap (Supported \cup {event}) \subseteq ToSet(allowed)
  BY <1>1, <1>2, <1>3, G711Is
<1> HIDE DEF allowed
<1>6. /\ plain \in Descriptions /\ plain.addr = b.addr /\ plain.dir = b.dir
      /\ ~setting.plain => Codecs(plain) = Codecs(b)
      /\ Codecs(b) \subseteq ToSet(allowed) => Codecs(plain) = Codecs(b)
      /\ setting.plain => ~plain.webrtc /\ plain.proto = "RTP/AVP"
  BY <1>1, <1>5, PlainIs
<1> HIDE DEF plain
<1>7. /\ BodyOfB \in Descriptions /\ BodyOfB.addr = plain.addr /\ BodyOfB.dir = plain.dir
      /\ Codecs(BodyOfB) = Codecs(plain)
      /\ BodyOfB.webrtc = plain.webrtc /\ BodyOfB.proto = plain.proto
  BY <1>4, <1>6, ExplicitIs
<1>8. ASSUME Known(first), setting.plain PROVE Codecs(b) \subseteq ToSet(allowed)
  <2>1. setting.g711
    BY <1>1, <1>8 DEF Clamps
  <2>2. Codecs(ToEngine) \subseteq Supported \cup {Event}
    BY <1>8, <2>1, ToEngineIs
  <2>3. ToSet(policy.transcode) \subseteq Supported
    BY Elements DEF NegotiationTypes, Policies
  <2>4. Codecs(b) \subseteq Supported \cup {Event}
    BY <2>2, <2>3 DEF Taken, Proposed, b
  <2> QED BY <1>2, <1>3, <1>5, <2>4
<1> QED BY <1>1, <1>6, <1>7, <1>8 DEF b

LEMMA EngineAnswersKeeps == ASSUME NegotiationInv, Clamps, EngineAnswers PROVE NegotiationInv'
<1> USE DEF NegotiationInv
<1>1. /\ stage = "answered" /\ stage' = "up" /\ refreshes = 0 /\ setting.backend = "rtpengine"
      /\ UNCHANGED <<setting, offer, offerToB, answerOfB, policy, relay, first, refreshes>>
  BY DEF EngineAnswers
<1> DEFINE engines == ToEngine
           body == BodyOfB
           made == EngineAnswer(body, policy, engines)
           plain == Plain(made, Parsed(engines))
<1>2. answerToA' = Explicit(plain)
  BY DEF EngineAnswers, AnswerOfEngine
<1>3. /\ engines \in Descriptions /\ Codecs(engines) \subseteq Codecs(offer)
      /\ setting \in Settings /\ setting.plain \in BOOLEAN /\ policy \in Policies
  BY ToEngineIs, SettingIs DEF NegotiationTypes
<1>4. /\ body \in Descriptions /\ body.dir = answerOfB.dir
      /\ Known(first) => Codecs(body) = Codecs(answerOfB)
      /\ setting.plain => ~body.webrtc /\ body.proto = "RTP/AVP"
  BY <1>1, BodyIs
<1>5. Codecs(answerOfB) \subseteq ToSet(policy.transcode) \cup Codecs(engines)
  BY <1>1 DEF Taken, Proposed
<1> HIDE DEF engines, body
<1>6. /\ made \in Descriptions /\ Codecs(made) \subseteq Codecs(engines)
      /\ Codecs(engines) \cap Codecs(body) \subseteq Codecs(made)
      /\ made.addr = "engine" /\ made.dir = body.dir
  BY <1>3, <1>4, EngineAnswerIs
<1> HIDE DEF made
<1>7. /\ plain \in Descriptions /\ Codecs(plain) = Codecs(made)
      /\ plain.addr = "engine" /\ plain.dir = body.dir
      /\ setting.plain => ~plain.webrtc /\ plain.proto = "RTP/AVP"
  <2>1. Parsed(engines) \in Seq(Nat) /\ Codecs(made) \subseteq ToSet(Parsed(engines))
    BY <1>3, <1>6, ParsedIs
  <2> DEFINE listed == Parsed(engines)
  <2>2. listed \in Seq(Nat) /\ Codecs(made) \subseteq ToSet(listed)
    BY <2>1
  <2> HIDE DEF listed
  <2>3. /\ Plain(made, listed) \in Descriptions /\ Codecs(Plain(made, listed)) = Codecs(made)
        /\ Plain(made, listed).addr = made.addr /\ Plain(made, listed).dir = made.dir
        /\ setting.plain => ~Plain(made, listed).webrtc /\ Plain(made, listed).proto = "RTP/AVP"
    BY <1>3, <1>6, <2>2, PlainIs
  <2> QED BY <1>6, <2>3 DEF listed
<1> HIDE DEF plain
<1>8. /\ answerToA' \in Descriptions /\ Codecs(answerToA') = Codecs(made)
      /\ answerToA'.addr = "engine" /\ answerToA'.dir = answerOfB.dir
      /\ setting.plain => ~answerToA'.webrtc /\ answerToA'.proto = "RTP/AVP"
  BY <1>2, <1>4, <1>7, ExplicitIs
<1>9. NegotiationTypes'
  BY <1>1, <1>8 DEF NegotiationTypes, NegotiationTypeOK
<1>10. MediaAnchored'
  BY <1>1, <1>8 DEF MediaAnchored
<1>11. AnsweredBefore'
  BY <1>1, <1>3, <1>6, <1>8 DEF AnsweredBefore, Asked, Codecs
<1>12. CodecsMeet'
  <2> SUFFICES ASSUME Known(first) PROVE Voice(answerOfB) \subseteq Voice(answerToA') \cup ToSet(policy.transcode)
    <3>1. first \in Seq(Nat)
      BY DEF NegotiationTypes
    <3>2. SupportedIn(first) # << >> => Known(first)
      BY <3>1, SupportedInIs
    <3> QED BY <1>1, <3>2 DEF CodecsMeet
  <2>1. Codecs(answerOfB) \subseteq Codecs(answerToA') \cup ToSet(policy.transcode)
    BY <1>4, <1>5, <1>6, <1>8
  <2> QED BY <2>1 DEF Voice, Codecs
<1> QED
  BY <1>1, <1>9, <1>10, <1>11, <1>12 DEF Asked, Proposed, Taken

LEMMA BKeeps == ASSUME NegotiationInv, OfferRefused \/ BTakes \/ BDeclines PROVE NegotiationInv'
<1> USE DEF NegotiationInv
<1>1. CASE OfferRefused
  BY <1>1 DEF OfferRefused, NegotiationTypes, NegotiationTypeOK, Asked, Proposed, Taken,
              AnsweredBefore, CodecsMeet, MediaAnchored
<1>2. CASE BTakes
  <2>1. /\ stage = "ringing" /\ stage' = "answered" /\ answerOfB' \in Answers(offerToB)
        /\ UNCHANGED <<setting, offer, offerToB, answerToA, policy, relay, first, refreshes>>
    BY <1>2 DEF BTakes
  <2>2. /\ answerOfB' \in Descriptions /\ Codecs(answerOfB') \subseteq Codecs(offerToB)
        /\ answerOfB'.maps = Codecs(answerOfB') /\ answerOfB'.dir = Reply(offerToB.dir)
    BY <2>1, AnswersAre DEF NegotiationTypes
  <2>3. NegotiationTypes'
    BY <2>1, <2>2 DEF NegotiationTypes, NegotiationTypeOK
  <2>4. ToEngine' = ToEngine
    BY <2>1 DEF ToEngine, Clamped
  <2>5. Proposed'
    BY <2>1, <2>4 DEF Proposed
  <2>6. Taken'
    BY <2>1, <2>2 DEF Taken
  <2> QED
    BY <2>1, <2>3, <2>5, <2>6 DEF Asked, AnsweredBefore, CodecsMeet, MediaAnchored
<1>3. CASE BDeclines
  <2>1. refreshes \in Nat
    BY SettingIs
  <2> QED
    BY <1>3, <2>1 DEF BDeclines, NegotiationTypes, NegotiationTypeOK, Asked, Proposed, Taken,
                      AnsweredBefore, CodecsMeet, MediaAnchored
<1> QED BY <1>1, <1>2, <1>3

LEMMA RefreshKeeps == ASSUME NegotiationInv, ~Renegotiates, Refresh PROVE NegotiationInv'
<1> USE DEF NegotiationInv
<1>1. /\ stage = "up" /\ stage' = "offered" /\ refreshes < MaxRefreshes /\ refreshes' = refreshes + 1
      /\ UNCHANGED <<setting, offerToB, answerOfB, answerToA, policy, relay, first>>
  BY DEF Refresh
<1>2. refreshes' \in 0 .. MaxRefreshes /\ refreshes' > 0
  BY <1>1, SettingIs, NegotiationAssumption
<1>3. PICK codecs \in Offers \ {<< >>}, dir \in {"sendrecv", "sendonly", "inactive"} :
        codecs = first /\ offer' = Phone(codecs, "A", offer.webrtc, dir)
  BY DEF Refresh
<1>4. codecs \in Seq(Nat) /\ offer.webrtc \in BOOLEAN
  BY NegotiationAssumption DEF NegotiationTypes, Descriptions
<1>5. offer' \in Descriptions /\ offer'.codecs = first /\ offer'.maps = ToSet(first)
  BY <1>3, <1>4, PhoneIs
<1>6. NegotiationTypes'
  BY <1>1, <1>2, <1>5 DEF NegotiationTypes, NegotiationTypeOK
<1>7. Asked'
  BY <1>1, <1>2, <1>5 DEF Asked
<1>8. AnsweredBefore'
  BY <1>1 DEF AnsweredBefore
<1>9. MediaAnchored'
  BY <1>1 DEF MediaAnchored
<1> QED
  BY <1>1, <1>6, <1>7, <1>8, <1>9 DEF Proposed, Taken, CodecsMeet

LEMMA RefreshSentKeeps ==
  ASSUME NegotiationInv, RefreshRelayed \/ RefreshOfEngine
  PROVE  NegotiationInv'
<1> USE DEF NegotiationInv
<1>1. /\ stage = "offered" /\ stage' = "ringing" /\ refreshes > 0
      /\ UNCHANGED <<setting, offer, answerOfB, answerToA, relay, first, refreshes>>
  BY DEF RefreshRelayed, RefreshOfEngine
<1>2. /\ offer \in Descriptions /\ policy \in Policies /\ setting \in Settings
      /\ setting.default \in Supported /\ refreshes \in Nat
  BY SettingIs DEF NegotiationTypes
<1>3. /\ offerToB' \in Descriptions /\ policy' \in Policies /\ policy'.mask \subseteq Supported
      /\ setting.backend = "rtpengine" => /\ offerToB'.addr = "engine"
                                          /\ setting.plain => ~offerToB'.webrtc /\ offerToB'.proto = "RTP/AVP"
  <2>1. CASE RefreshRelayed
    BY <1>2, <2>1 DEF RefreshRelayed, Policies
  <2>2. CASE RefreshOfEngine
    <3> DEFINE listed == Parsed(offer)
               plain == Plain(offer, listed)
    <3>1. policy' = Policy(listed, setting.default) /\ offerToB' = EngineOffer(plain, policy')
      BY <2>2 DEF RefreshOfEngine
    <3>2. listed \in Seq(Nat)
      BY <1>2, ParsedIs
    <3> HIDE DEF listed
    <3>3. policy' \in Policies /\ policy'.mask \subseteq Supported
      BY <1>2, <3>1, <3>2, PolicyIs DEF Policies
    <3>4. /\ plain \in Descriptions
          /\ setting.plain => ~plain.webrtc /\ plain.proto = "RTP/AVP"
      BY <1>2, <3>2, PlainIs
    <3> HIDE DEF plain
    <3>5. /\ offerToB' \in Descriptions /\ offerToB'.addr = "engine"
          /\ offerToB'.webrtc = plain.webrtc /\ offerToB'.proto = plain.proto
      BY <3>1, <3>3, <3>4, EngineOfferIs
    <3> QED BY <3>3, <3>4, <3>5
  <2> QED BY <2>1, <2>2
<1>4. NegotiationTypes'
  BY <1>1, <1>3 DEF NegotiationTypes, NegotiationTypeOK
<1>5. MediaAnchored'
  BY <1>1, <1>3 DEF MediaAnchored
<1>6. AnsweredBefore'
  BY <1>1 DEF AnsweredBefore
<1> QED
  BY <1>1, <1>2, <1>4, <1>5, <1>6 DEF Asked, Proposed, Taken, CodecsMeet

LEMMA RefreshAnsweredKeeps ==
  ASSUME NegotiationInv, RefreshAnswered \/ EngineAnswersRefresh
  PROVE  NegotiationInv'
<1> USE DEF NegotiationInv
<1>1. /\ stage = "answered" /\ stage' = "up" /\ refreshes > 0
      /\ UNCHANGED <<setting, offer, offerToB, answerOfB, policy, relay, first, refreshes>>
  BY DEF RefreshAnswered, EngineAnswersRefresh
<1>2. /\ offer \in Descriptions /\ answerOfB \in Descriptions /\ answerToA \in Descriptions
      /\ policy \in Policies /\ setting \in Settings /\ refreshes \in Nat
      /\ answerOfB.dir \in {"sendrecv", "sendonly", "recvonly", "inactive"}
  BY SettingIs DEF NegotiationTypes, Descriptions
<1>3. /\ answerToA' \in Descriptions /\ answerToA'.dir = answerOfB.dir
      /\ Known(first) => Codecs(answerToA') \subseteq ToSet(first)
      /\ setting.backend = "rtpengine" => /\ answerToA'.addr # "B"
                                          /\ setting.plain => ~answerToA'.webrtc /\ answerToA'.proto = "RTP/AVP"
  <2>1. CASE RefreshAnswered
    <3>1. answerToA' = [answerToA EXCEPT !.dir = answerOfB.dir] /\ setting.backend = "internal"
      BY <2>1 DEF RefreshAnswered, AnsweredAgain, Directed
    <3>2. answerToA' \in Descriptions
      BY <1>2, <3>1, DescriptionIs
    <3>3. answerToA'.dir = answerOfB.dir /\ answerToA'.codecs = answerToA.codecs
      BY <1>2, <3>1, <3>2 DEF Descriptions
    <3> QED BY <1>1, <3>1, <3>2, <3>3 DEF AnsweredBefore, Codecs
  <2>2. CASE EngineAnswersRefresh
    <3> DEFINE body == Plain(answerOfB, Parsed(answerOfB))
               made == EngineAnswer(body, policy, offer)
               plain == Plain(made, Parsed(offer))
    <3>1. answerToA' = made \/ answerToA' = plain
      BY <2>2 DEF EngineAnswersRefresh
    <3>2. Parsed(answerOfB) \in Seq(Nat) /\ Parsed(offer) \in Seq(Nat)
      BY <1>2, ParsedIs
    <3>3. /\ body \in Descriptions /\ body.dir = answerOfB.dir
          /\ setting.plain => ~body.webrtc /\ body.proto = "RTP/AVP"
      <4> DEFINE listed == Parsed(answerOfB)
      <4>1. listed \in Seq(Nat) BY <3>2
      <4> HIDE DEF listed
      <4>2. /\ Plain(answerOfB, listed) \in Descriptions /\ Plain(answerOfB, listed).dir = answerOfB.dir
            /\ setting.plain => ~Plain(answerOfB, listed).webrtc /\ Plain(answerOfB, listed).proto = "RTP/AVP"
        BY <1>2, <4>1, PlainIs
      <4> QED BY <4>2 DEF listed
    <3> HIDE DEF body
    <3>4. /\ made \in Descriptions /\ Codecs(made) \subseteq Codecs(offer)
          /\ made.addr = "engine" /\ made.dir = body.dir
          /\ made.webrtc = body.webrtc /\ made.proto = body.proto
      BY <1>2, <3>3, EngineAnswerIs
    <3> HIDE DEF made
    <3>5. /\ plain \in Descriptions /\ Codecs(plain) \subseteq Codecs(made)
          /\ plain.addr = made.addr /\ plain.dir = made.dir
          /\ setting.plain => ~plain.webrtc /\ plain.proto = "RTP/AVP"
      <4> DEFINE listed == Parsed(offer)
      <4>1. listed \in Seq(Nat) BY <3>2
      <4> HIDE DEF listed
      <4>2. /\ Plain(made, listed) \in Descriptions /\ Codecs(Plain(made, listed)) \subseteq Codecs(made)
            /\ Plain(made, listed).addr = made.addr /\ Plain(made, listed).dir = made.dir
            /\ setting.plain => ~Plain(made, listed).webrtc /\ Plain(made, listed).proto = "RTP/AVP"
        BY <1>2, <3>4, <4>1, PlainIs
      <4> QED BY <4>2 DEF listed
    <3> HIDE DEF plain
    <3>6. Codecs(offer) = ToSet(first)
      BY DEF Asked, Codecs
    <3> QED BY <3>1, <3>3, <3>4, <3>5, <3>6
  <2> QED BY <2>1, <2>2
<1>4. NegotiationTypes'
  BY <1>1, <1>3 DEF NegotiationTypes, NegotiationTypeOK
<1>5. MediaAnchored'
  BY <1>1, <1>3 DEF MediaAnchored
<1>6. AnsweredBefore'
  BY <1>1, <1>3 DEF AnsweredBefore, Codecs
<1> QED
  BY <1>1, <1>2, <1>4, <1>5, <1>6 DEF Asked, Proposed, Taken, CodecsMeet

LEMMA NegotiationKept ==
  ASSUME NegotiationInv, Clamps, ~Renegotiates, [NegotiationNext]_negotiationVars
  PROVE  NegotiationInv'
<1>1. CASE UNCHANGED negotiationVars
  <2>1. UNCHANGED <<setting, stage, offer, offerToB, answerOfB, answerToA, policy, relay, first, refreshes>>
    BY <1>1 DEF negotiationVars
  <2>2. ToEngine' = ToEngine
    BY <2>1 DEF ToEngine, Clamped
  <2> QED
    BY <2>1, <2>2 DEF NegotiationInv, NegotiationTypes, NegotiationTypeOK, Asked, Proposed, Taken,
                      AnsweredBefore, CodecsMeet, MediaAnchored
<1> QED
  BY <1>1, CallKeeps, InternalOfferKeeps, InternalAnswerKeeps, OfferOfEngineKeeps, EngineAnswersKeeps,
     BKeeps, RefreshKeeps, RefreshSentKeeps, RefreshAnsweredKeeps DEF NegotiationNext

\* What the invariant says of the parties.
LEMMA NegotiationSafe ==
  ASSUME NegotiationInv
  PROVE  NegotiationTypeOK /\ AnswerFitsOffer /\ CodecsMeet /\ HoldMirrored /\ MediaAnchored
<1>1. offer.codecs \in Seq(Nat) /\ first = offer.codecs
  BY DEF NegotiationInv, NegotiationTypes, Asked
<1>2. SupportedIn(offer.codecs) # << >> => Known(first)
  BY <1>1, SupportedInIs
<1> QED
  BY <1>1, <1>2 DEF NegotiationInv, NegotiationTypes, AnsweredBefore, AnswerFitsOffer, HoldMirrored, Codecs

\* Over RTPengine, whatever commands are lost, retried or carried out late, an
\* answered call has its media until it is finalized, and when none was nothing
\* is left of a call that is over.  In the descriptions, whatever the server or
\* RTPengine rewrites: A is answered with codecs it offered, neither party sends
\* a codec that nothing turns into one the other takes, a hold is mirrored and
\* taken back, and RTPengine stays in between.  For every list of codecs the
\* phones may offer and any number of refreshes that offer the same.
THEOREM MediaAlwaysSafe ==
  ASSUME ~Renegotiates, Clamps
  PROVE  ControlSpec /\ NegotiationSpec => []MediaSafe
<1>1. NegotiationInv /\ [NegotiationNext]_negotiationVars => NegotiationInv'
  BY NegotiationKept
<1>2. NegotiationSpec => []NegotiationInv
  BY <1>1, NegotiationInitial, PTL DEF NegotiationSpec
<1>3. ControlSafe /\ NegotiationInv => MediaSafe
  BY NegotiationSafe DEF MediaSafe
<1> QED
  BY <1>2, <1>3, ControlAlwaysSafe, PTL
=============================================================================
