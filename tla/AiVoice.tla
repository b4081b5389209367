-------------------------------- MODULE AiVoice --------------------------------
(***************************************************************************)
(* One call to the AI gateway: handle_ai_gateway_invite, the turn that its *)
(* ACK starts (run_ai_voice_turn, AiVoiceGateway.start_turn,               *)
(* collect_responses), the BYE, the session timer and                      *)
(* finalize_ai_voice_call.                                                 *)
(*                                                                         *)
(* collect_responses waits for the first of the collecting task, the task  *)
(* that waits for the cancellation event, and the deadline; then it awaits *)
(* the two tasks once more, and other tasks run meanwhile.                 *)
(***************************************************************************)
EXTENDS Integers

CONSTANTS
  MaxChunks,     \* bound: chunks of a provider's stream
  SessionTimer   \* the INVITE asks for a session timer

ASSUME AiAssumption == MaxChunks \in Nat /\ SessionTimer \in BOOLEAN

VARIABLES
  aiCall,     \* AIVoiceCall: registered, finalized, its slot and its media
  dialog,     \* CallState of the caller's dialog
  turn,       \* step of the task, cancellation event, result of the wait
  collector,  \* _collect_ordered_responses
  out,        \* what was synthesized and which actions were taken
  endedAt     \* history: the turn's step when the call was finalized

aiVars == <<aiCall, dialog, turn, collector, out, endedAt>>

(***************************************************************************)
(* The call.                                                               *)
(***************************************************************************)
\* finalize_ai_voice_call; there is no event before the turn is started.
MutantFinalized(c) == [c EXCEPT !.finalized = TRUE, !.registered = FALSE]
Finalized(c) == [c EXCEPT !.finalized = TRUE, !.registered = FALSE, !.slot = FALSE]
FinalizeAi ==
  /\ aiCall' = [Finalized(aiCall) EXCEPT !.media = FALSE]
  /\ endedAt' = turn.step
  /\ turn' = [turn EXCEPT !.event = turn.step # "none"]

\* Admission, 100 and 180, then media of either backend.
Invite ==
  /\ dialog = "INIT" /\ dialog' = "RINGING"
  /\ aiCall' = [aiCall EXCEPT !.registered = TRUE, !.slot = TRUE]
  /\ UNCHANGED <<turn, collector, out, endedAt>>

Setting == dialog = "RINGING" /\ aiCall.registered /\ ~aiCall.raised

Answer ==
  /\ Setting /\ dialog' = "ANSWERED"
  /\ aiCall' = [aiCall EXCEPT !.media = TRUE]
  /\ UNCHANGED <<turn, collector, out, endedAt>>

\* 503 or 488; the dialog stays where it is.
SetupFails ==
  /\ Setting /\ FinalizeAi
  /\ UNCHANGED <<dialog, collector, out>>

\* create_session raises out of the handler: nobody finalizes the call.
SetupRaises ==
  /\ Setting /\ aiCall' = [aiCall EXCEPT !.raised = TRUE]
  /\ UNCHANGED <<dialog, turn, collector, out, endedAt>>

\* Each ACK but the first finds the task.
Ack ==
  /\ aiCall.registered /\ dialog = "ANSWERED" /\ turn.step = "none"
  /\ turn' = [turn EXCEPT !.step = "stt"]
  /\ UNCHANGED <<aiCall, dialog, collector, out, endedAt>>

MutantBye == dialog' = "TERMINATED" /\ aiCall' = [aiCall EXCEPT !.media = FALSE]
             /\ UNCHANGED <<turn, endedAt>>
Bye == dialog' = "TERMINATED" /\ IF aiCall.registered THEN FinalizeAi
                                 ELSE UNCHANGED <<aiCall, turn, endedAt>>

\* terminate_dialog refuses a BYE in every other state.
ReceiveBye ==
  /\ dialog = "ANSWERED" /\ Bye
  /\ UNCHANGED <<collector, out>>

\* expire_dialog_session: there is no B2BUA call, so the dialog ends here.
SessionExpires ==
  /\ SessionTimer /\ dialog = "ANSWERED"
  /\ dialog' = "TERMINATED" /\ aiCall' = [aiCall EXCEPT !.media = FALSE]
  /\ UNCHANGED <<turn, collector, out, endedAt>>

(***************************************************************************)
(* The turn.                                                               *)
(***************************************************************************)
Done == turn' = [turn EXCEPT !.step = "done"]
Interrupted == Done /\ out' = [out EXCEPT !.interrupted = TRUE]

\* Synthesizes n chunks, one await each.
Speak(source, n) ==
  /\ turn' = [turn EXCEPT !.step = "speak"]
  /\ out' = [out EXCEPT !.source = source, !.left = n]

\* Speech without text is answered at once; a turn whose call has ended does
\* not ask the provider.
SttEnds ==
  /\ turn.step = "stt"
  /\ \/ Speak("no input", 1) /\ UNCHANGED collector
     \/ turn.event /\ Interrupted /\ UNCHANGED collector
     \/ /\ ~turn.event
        /\ turn' = [turn EXCEPT !.step = "collect"]
        /\ collector' = [collector EXCEPT !.status = "running"]
        /\ UNCHANGED out
  /\ UNCHANGED <<aiCall, dialog, endedAt>>

Collecting == turn.step = "collect" /\ collector.status = "running"

\* A chunk with the expected number, before the final one.
Ordered(expected) == expected /\ ~collector.final
ReceiveChunk(expected, final) ==
  /\ Collecting /\ collector.got < MaxChunks
  /\ collector' = IF Ordered(expected)
                  THEN [collector EXCEPT !.got = @ + 1, !.final = final]
                  ELSE [collector EXCEPT !.status = "error"]
  /\ UNCHANGED <<aiCall, dialog, turn, out, endedAt>>

MutantComplete == TRUE
Complete == collector.got = 0 \/ collector.final
StreamEnds ==
  /\ Collecting
  /\ \E failed \in BOOLEAN :
       collector' = [collector EXCEPT !.status = IF ~failed /\ Complete THEN "ok" ELSE "error"]
  /\ UNCHANGED <<aiCall, dialog, turn, out, endedAt>>

\* The waiting task sees the event.
WaiterWakes ==
  /\ turn.step = "collect" /\ turn.event /\ ~turn.waiterDone
  /\ turn' = [turn EXCEPT !.waiterDone = TRUE]
  /\ UNCHANGED <<aiCall, dialog, collector, out, endedAt>>

\* asyncio.wait: cancellation first, then the collector, then the deadline.
MutantDeadline == FALSE
Deadline == TRUE
Wake ==
  /\ turn.step = "collect"
  /\ \/ turn.waiterDone \/ collector.status # "running" \/ Deadline
  /\ turn' = [turn EXCEPT !.step = "settle",
                          !.result = CASE turn.waiterDone -> "cancelled"
                                       [] ~turn.waiterDone /\ collector.status # "running"
                                            -> collector.status
                                       [] OTHER -> "timeout"]
  /\ collector' = [collector EXCEPT !.status = IF @ = "running" THEN "cancelled" ELSE @]
  /\ UNCHANGED <<aiCall, dialog, out, endedAt>>

\* The event is looked at once more, but only for an answer.
MutantStillWanted == turn.result = "ok"
StillWanted == turn.result = "ok" /\ ~turn.event
Settled ==
  /\ turn.step = "settle"
  /\ CASE StillWanted -> Speak("answer", collector.got)
       [] turn.result \in {"error", "timeout"} -> Speak("fallback", 1)
       [] OTHER -> Interrupted
  /\ UNCHANGED <<aiCall, dialog, collector, endedAt>>

Synthesized ==
  /\ turn.step = "speak" /\ out.left > 0
  /\ out' = [out EXCEPT !.left = @ - 1]
  /\ UNCHANGED <<aiCall, dialog, turn, collector, endedAt>>

\* The actions of the bot are applied whether the call is still up or not.
TurnEnds ==
  /\ turn.step = "speak" /\ out.left = 0
  /\ Done /\ out' = [out EXCEPT !.actions = out.source = "answer"]
  /\ UNCHANGED <<aiCall, dialog, collector, endedAt>>

AiInit ==
  /\ aiCall = [registered |-> FALSE, finalized |-> FALSE, slot |-> FALSE,
             media |-> FALSE, raised |-> FALSE]
  /\ dialog = "INIT"
  /\ turn = [step |-> "none", event |-> FALSE, waiterDone |-> FALSE, result |-> "none"]
  /\ collector = [status |-> "none", got |-> 0, final |-> FALSE]
  /\ out = [source |-> "none", left |-> 0, actions |-> FALSE, interrupted |-> FALSE]
  /\ endedAt = "up"

Turn == SttEnds \/ Wake \/ Settled \/ Synthesized \/ TurnEnds
AiNext ==
  \/ Invite \/ Answer \/ SetupFails \/ SetupRaises
  \/ Ack \/ ReceiveBye \/ SessionExpires
  \/ Turn \/ WaiterWakes \/ StreamEnds
  \/ \E expected, final \in BOOLEAN : ReceiveChunk(expected, final)

\* Recognition and synthesis have timeouts of their own; a provider may hang.
AiFairness == WF_aiVars(Turn)
AiSpec == AiInit /\ [][AiNext]_aiVars /\ AiFairness

(***************************************************************************)
(* Properties                                                              *)
(***************************************************************************)

\* Types, and the slot is held exactly while the call is registered.
AiTypeOK ==
  /\ aiCall.slot = aiCall.registered
  /\ dialog \in {"INIT", "RINGING", "ANSWERED", "TERMINATED"}
  /\ turn.step \in {"none", "stt", "collect", "settle", "speak", "done"}
  /\ turn.result \in {"none", "cancelled", "ok", "error", "timeout"}
  /\ collector.status \in {"none", "running", "ok", "error", "cancelled"}
  /\ collector.got \in 0 .. MaxChunks /\ out.left \in 0 .. MaxChunks + 1
  /\ out.source \in {"none", "answer", "fallback", "no input"}

\* An answer that arrives when the call has ended is neither spoken nor obeyed,
\* however the hangup races with the provider.
NoStaleAnswer ==
  endedAt \in {"stt", "collect", "settle"} => out.source # "answer" /\ ~out.actions

\* What is spoken as the bot's answer is the whole stream, in order.
WholeAnswers == out.source = "answer" => (collector.got > 0 => collector.final)

\* A call whose dialog is over has given back its admission slot.
SlotFollowsDialog == dialog = "TERMINATED" => ~aiCall.slot

\* A turn that starts ends, though the provider may never answer.
TurnsEnd == turn.step = "stt" ~> turn.step = "done"

\* docs/OBSERVABILITY.md:68-70: "A caller ending an AI call should increase the
\* interruption counter without synthesizing fallback audio for that ended
\* call."
NoFallbackAfterEnd ==
  [][out.source = "none" /\ out'.source = "fallback" => ~aiCall.finalized]_aiVars
=============================================================================
