----------------------------- MODULE B2BUACall -----------------------------
(***************************************************************************)
(* One B2BUA call of PlaySBC from the caller's INVITE to the finalizer.    *)
(*                                                                         *)
(* The caller A reaches the SBC over UDP; the SBC opens a second leg to B, *)
(* whose network may fork the INVITE, so that several forks answer.  Three *)
(* kinds of code touch a call, each step atomic because the program is one *)
(* asyncio loop:                                                           *)
(*   - the task of handle_b2bua_invite, which creates the media sessions,  *)
(*     starts the outbound INVITE and then waits on a queue (pc);          *)
(*   - handle_response, which runs at once for every response of B and     *)
(*     only leaves a message in that queue;                                *)
(*   - handle_message for the caller's ACK, CANCEL and BYE and B's BYE,    *)
(*     and the timers: wait_for, the client transactions, the finalizer,   *)
(*     the session timer and the expiry of the tombstones.                 *)
(* What is interleaved is the order of these steps.  In-dialog UPDATE,     *)
(* PRACK and re-INVITE, the transfer services, the shared HA store and the *)
(* RTPengine backend are outside this module.                              *)
(***************************************************************************)
EXTENDS Integers, Sequences, FiniteSets

CONSTANTS
  Calls,          \* inbound Call-IDs, each with one accepted INVITE
  Forks,          \* To tags under which the forks of an outbound INVITE answer
  NoFork,         \* the empty tag
  MaxCalls,       \* call_admission.max_concurrent_calls, admission enabled
  Provisionals,   \* the 1xx responses B may send
  MaxProvisional, \* bound: 1xx responses per call
  MaxQueue,       \* bound: responses left in one queue
  ReliablePeer,   \* the outbound leg runs over TCP or TLS
  SessionTimers   \* the caller asks for Session-Expires

ASSUME CallAssumption == IsFiniteSet(Calls)
ASSUME ForkAssumption == NoFork \notin Forks
ASSUME AdmissionAssumption == MaxCalls \in Nat
ASSUME ProvisionalAssumption ==
  /\ Provisionals \subseteq {"plain", "reliable", "badrseq"}
  /\ MaxProvisional \in Nat
  /\ MaxQueue \in Nat
ASSUME ModeAssumption == ReliablePeer \in BOOLEAN /\ SessionTimers \in BOOLEAN

VARIABLES
  pc,      \* where the task of handle_b2bua_invite stands
  call,    \* the B2BUACall object and the tables it is registered in
  queue,   \* the response queue the task waits on
  active,  \* RoutingEngine.active_calls
  dialog,  \* SipDialog.state of the caller's dialog
  stx,     \* the server transaction of the caller's INVITE
  ctx,     \* the client transactions of the outbound INVITE and CANCEL
  timer,   \* the scheduled finalizer and the session timer
  media,   \* the RTP sessions that are open
  wire     \* history: what was sent to and received from the two legs

vars == <<pc, call, queue, active, dialog, stx, ctx, timer, media, wire>>

Tags == Forks \cup {NoFork}

Call == [ reg   : BOOLEAN,   \* in b2bua_calls_by_inbound and _by_outbound
          open  : BOOLEAN,   \* in pending_outbound_responses
          fin   : BOOLEAN,   \* finalized
          tomb  : {"none", "recent", "late", "gone"},
          final : {"none", "2xx", "fail"},  \* outbound_final_status
          win   : Tags,      \* winning_to_tag
          to    : Tags,      \* tag of outbound_to_header
          obye  : BOOLEAN,   \* outbound_bye_sent
          ibye  : BOOLEAN,   \* inbound_bye_sent
          lost  : SUBSET Forks ]            \* losing_forks

Response == [ kind : {"plain", "reliable", "badrseq", "2xx", "fail",
                      "timeout", "error"},
              tag  : Tags ]

Wire == [ toA      : SUBSET {"2xx", "fail"},  \* finals sent to the caller
          early    : BOOLEAN,       \* a 18x was sent to the caller
          provs    : 0..MaxProvisional,
          heard    : SUBSET Forks,  \* forks whose 2xx found the call
          acked    : SUBSET Forks,  \* forks sent an ACK for their 2xx
          byed     : SUBSET Forks,  \* forks sent a BYE
          ended    : SUBSET Forks,  \* forks that sent a BYE
          unacked  : BOOLEAN,       \* a failure of a live INVITE not ACKed
          failAck  : BOOLEAN,       \* the caller's ACK of a failure came
          aCancel  : {"no", "rejected", "accepted"},
          aBye     : {"no", "early", "answered"},
          expired  : BOOLEAN ]      \* the session timer hung up

TypeOK ==
  /\ pc \in [Calls -> {"idle", "media", "wait", "expired", "done", "dead"}]
  /\ call \in [Calls -> Call]
  /\ queue \in [Calls -> Seq(Response)]
  /\ active \in Nat
  /\ dialog \in [Calls -> {"none", "RINGING", "ANSWERED", "TERMINATED"}]
  /\ stx \in [Calls -> {"none", "PROCEEDING", "ACCEPTED", "COMPLETED",
                        "CONFIRMED"}]
  /\ ctx \in [Calls -> [inv    : {"none", "active", "final"},
                        cancel : {"none", "active", "final"}]]
  /\ timer \in [Calls -> [finalizer : BOOLEAN, session : BOOLEAN]]
  /\ media \in [Calls -> SUBSET {"in", "out"}]
  /\ wire \in [Calls -> Wire]

NewCall == [ reg |-> FALSE, open |-> FALSE, fin |-> FALSE, tomb |-> "none",
             final |-> "none", win |-> NoFork, to |-> NoFork,
             obye |-> FALSE, ibye |-> FALSE, lost |-> {} ]

Init ==
  /\ pc = [c \in Calls |-> "idle"]
  /\ call = [c \in Calls |-> NewCall]
  /\ queue = [c \in Calls |-> <<>>]
  /\ active = 0
  /\ dialog = [c \in Calls |-> "none"]
  /\ stx = [c \in Calls |-> "none"]
  /\ ctx = [c \in Calls |-> [inv |-> "none", cancel |-> "none"]]
  /\ timer = [c \in Calls |-> [finalizer |-> FALSE, session |-> FALSE]]
  /\ media = [c \in Calls |-> {}]
  /\ wire = [c \in Calls |->
               [ toA |-> {}, early |-> FALSE, provs |-> 0, heard |-> {},
                 acked |-> {}, byed |-> {}, ended |-> {}, unacked |-> FALSE,
                 failAck |-> FALSE, aCancel |-> "no", aBye |-> "no",
                 expired |-> FALSE ]]

-----------------------------------------------------------------------------
(* What the handlers share.                                                *)

\* RoutingEngine.release never counts below zero.
MutantReleased(n) == n - 1
Released(n) == IF n = 0 THEN 0 ELSE n - 1

\* finalize_b2bua_call: it leaves every table and stays as a tombstone.
Finalized(k) ==
  IF k.fin THEN k
  ELSE [k EXCEPT !.fin = TRUE, !.tomb = "recent", !.reg = FALSE,
                 !.open = FALSE]

\* The slot finalize_b2bua_call gives back, once per call.
MutantFinalizeSlot(k) == active
FinalizeSlot(k) == IF k.fin THEN active ELSE Released(active)

\* handle_response finds the call of a 2xx by its outbound Call-ID, or else
\* its tombstone in late_invite_calls.
Known(k) == k.reg \/ k.tomb \in {"recent", "late"}

\* The fork a message with the call's To header reaches, if it has a tag.
Reached(k) == {k.to} \ {NoFork}

Enqueued(c, k, m) == IF k.open THEN Append(queue[c], m) ELSE queue[c]

\* The end of handle_response, for a response no queue took: once the SBC
\* has sent its BYE to B, any final response finalizes the call.
EndsCall(k) == ~k.open /\ k.reg /\ k.obye

\* schedule_b2bua_finalizer.
MutantFinalizerScheduled(c) == timer
FinalizerScheduled(c) == [timer EXCEPT ![c].finalizer = TRUE]

\* The fork of a 2xx is remembered as the winner once and for all, and the
\* final status while the call is registered.
Answered(k, t) ==
  [k EXCEPT !.win = IF @ = NoFork THEN t ELSE @,
            !.final = IF k.reg THEN "2xx" ELSE @]

\* A 2xx of the fork that already won.  Every 2xx here is a 200, the only one
\* whose repetition the code knows.
MutantIsRetransmission(k, t) == k.win = t /\ k.final = "2xx" /\ ~k.fin
IsRetransmission(k, t) == k.win = t /\ k.final = "2xx"

\* A 2xx that comes too late to win.
MutantLosesIgnoringEnd(k, t) ==
  k.final = "fail" \/ (k.win # NoFork /\ k.win # t)
MutantLosesIgnoringWinner(k, t) == k.fin \/ k.final = "fail"
LosesRace(k, t) ==
  \/ k.fin
  \/ k.final = "fail"
  \/ k.win # NoFork /\ k.win # t

\* The task takes the target of the dialog from the final answer.
Connected(k, t) == [k EXCEPT !.to = t, !.open = FALSE]

-----------------------------------------------------------------------------
(* The caller's INVITE and the task of handle_b2bua_invite.                *)

InviteRejected(c) ==
  /\ pc[c] = "idle"
  /\ active >= MaxCalls
  /\ pc' = [pc EXCEPT ![c] = "done"]
  /\ dialog' = [dialog EXCEPT ![c] = "RINGING"]
  /\ stx' = [stx EXCEPT ![c] = "COMPLETED"]
  /\ wire' = [wire EXCEPT ![c].toA = {"fail"}]
  /\ UNCHANGED <<call, queue, active, ctx, timer, media>>

InviteAdmitted(c) ==
  /\ pc[c] = "idle"
  /\ active < MaxCalls
  /\ active' = active + 1
  /\ pc' = [pc EXCEPT ![c] = "media"]
  /\ dialog' = [dialog EXCEPT ![c] = "RINGING"]
  /\ stx' = [stx EXCEPT ![c] = "PROCEEDING"]
  /\ UNCHANGED <<call, queue, ctx, timer, media, wire>>

\* Both RTP sessions are open: the call is registered and the INVITE leaves.
MediaReady(c) ==
  /\ pc[c] = "media"
  /\ pc' = [pc EXCEPT ![c] = "wait"]
  /\ media' = [media EXCEPT ![c] = {"in", "out"}]
  /\ call' = [call EXCEPT ![c].reg = TRUE, ![c].open = TRUE]
  /\ ctx' = [ctx EXCEPT ![c].inv = "active"]
  /\ UNCHANGED <<queue, active, dialog, stx, timer, wire>>

\* create_session raises for one of the legs: the task ends with the error.
MediaFailed(c) ==
  /\ pc[c] = "media"
  /\ pc' = [pc EXCEPT ![c] = "dead"]
  /\ \E opened \in {{}, {"in"}} : media' = [media EXCEPT ![c] = opened]
  /\ UNCHANGED <<call, queue, active, dialog, stx, ctx, timer, wire>>

Waiting(c, kinds) ==
  /\ pc[c] = "wait"
  /\ queue[c] # <<>>
  /\ Head(queue[c]).kind \in kinds
  /\ queue' = [queue EXCEPT ![c] = Tail(@)]

\* A 1xx is forwarded and the wait begins again with a fresh timeout.
ResumeProvisional(c) ==
  /\ Waiting(c, {"plain", "reliable"})
  /\ wire' = [wire EXCEPT ![c].early = TRUE]
  /\ call' = IF Head(queue[c]).kind = "reliable"
             THEN [call EXCEPT ![c].to = Head(queue[c]).tag] ELSE call
  /\ UNCHANGED <<pc, active, dialog, stx, ctx, timer, media>>

\* A reliable 1xx without a valid RSeq raises ValueError: the finally clause
\* drops the queue, nothing else is cleaned up.
ResumeBadProvisional(c) ==
  /\ Waiting(c, {"badrseq"})
  /\ pc' = [pc EXCEPT ![c] = "dead"]
  /\ call' = [call EXCEPT ![c].open = FALSE]
  /\ UNCHANGED <<active, dialog, stx, ctx, timer, media, wire>>

\* The 200 goes to the caller; handle_message then releases the slot of a
\* call that a BYE finalized in the meantime.
ResumeAnswer(c) ==
  /\ Waiting(c, {"2xx"})
  /\ pc' = [pc EXCEPT ![c] = "done"]
  /\ call' = [call EXCEPT ![c] = Connected(@, Head(queue[c]).tag)]
  /\ dialog' = [dialog EXCEPT ![c] = "ANSWERED"]
  /\ stx' = [stx EXCEPT ![c] = "ACCEPTED"]
  /\ timer' = [timer EXCEPT ![c].session = SessionTimers]
  /\ active' = IF call[c].reg THEN active ELSE Released(active)
  /\ wire' = [wire EXCEPT ![c].toA = @ \cup {"2xx"}]
  /\ UNCHANGED <<ctx, media>>

\* The end of every failed call: the failure response to the caller,
\* cleanup_b2bua_call, and the release in handle_message, which finds the
\* call no longer registered.
FailCall(c, k) ==
  /\ pc' = [pc EXCEPT ![c] = "done"]
  /\ call' = [call EXCEPT ![c] = [Finalized(k) EXCEPT !.open = FALSE]]
  /\ active' = Released(FinalizeSlot(k))
  /\ stx' = [stx EXCEPT ![c] = "COMPLETED"]
  /\ timer' = [timer EXCEPT ![c].session = FALSE]
  /\ media' = [media EXCEPT ![c] = {}]
  /\ wire' = [wire EXCEPT ![c].toA = @ \cup {"fail"}]
  /\ UNCHANGED dialog

ResumeReject(c) ==
  /\ Waiting(c, {"fail"})
  /\ FailCall(c, [call[c] EXCEPT !.to = Head(queue[c]).tag])
  /\ UNCHANGED ctx

\* OutboundInviteTransactionFailure with outbound_invite_transport_error.
ResumeError(c) ==
  /\ Waiting(c, {"error"})
  /\ FailCall(c, call[c])
  /\ UNCHANGED ctx

\* send_outbound_cancel starts a client transaction under the key of the
\* outbound INVITE's branch, and raises TransactionError when the CANCEL the
\* caller asked for is still there.
GiveUp(c) ==
  \/ /\ ctx[c].cancel = "none"
     /\ ctx' = [ctx EXCEPT ![c].cancel = "active"]
     /\ FailCall(c, call[c])
  \/ /\ ctx[c].cancel # "none"
     /\ pc' = [pc EXCEPT ![c] = "dead"]
     /\ call' = [call EXCEPT ![c].open = FALSE]
     /\ UNCHANGED <<active, dialog, stx, ctx, timer, media, wire>>

ResumeTimeout(c) == Waiting(c, {"timeout"}) /\ GiveUp(c)

\* The timeout of wait_for, forgotten once B has sent a provisional response.
MutantWaitTimeout(c) ==
  /\ pc[c] = "wait" /\ queue[c] = <<>> /\ ~wire[c].early
  /\ pc' = [pc EXCEPT ![c] = "expired"]
  /\ UNCHANGED <<call, queue, active, dialog, stx, ctx, timer, media, wire>>

\* wait_for times out: from here the task no longer takes from the queue,
\* but it runs only in a later iteration of the loop.
WaitTimeout(c) ==
  /\ pc[c] = "wait"
  /\ queue[c] = <<>>
  /\ pc' = [pc EXCEPT ![c] = "expired"]
  /\ UNCHANGED <<call, queue, active, dialog, stx, ctx, timer, media, wire>>

HandleTimeout(c) ==
  /\ pc[c] = "expired"
  /\ GiveUp(c)
  /\ UNCHANGED queue

-----------------------------------------------------------------------------
(* Responses of B: handle_response.                                        *)

Provisional(c, t, kind) ==
  /\ call[c].open
  /\ call[c].final = "none"
  /\ wire[c].provs < MaxProvisional
  /\ Len(queue[c]) < MaxQueue
  /\ queue' = [queue EXCEPT ![c] = Append(@, [kind |-> kind, tag |-> t])]
  /\ wire' = [wire EXCEPT ![c].provs = @ + 1]
  /\ UNCHANGED <<pc, call, active, dialog, stx, ctx, timer, media>>

\* receive_response: the INVITE transaction is Accepted or Completed until
\* its cleanup; over a reliable transport a failure ends it at once.
FinalReceived(c, failed) ==
  ctx' = [ctx EXCEPT ![c].inv =
            CASE @ # "active" -> @
              [] @ = "active" /\ failed /\ ReliablePeer -> "none"
              [] OTHER -> "final"]

\* A retransmitted winning 2xx is only acknowledged again, with the To header
\* the call has at that moment.
WinnerRetransmits(c, t) ==
  /\ Known(call[c])
  /\ IsRetransmission(call[c], t)
  /\ FinalReceived(c, FALSE)
  /\ wire' = [wire EXCEPT ![c].acked = @ \cup Reached(call[c])]
  /\ UNCHANGED <<pc, call, queue, active, dialog, stx, timer, media>>

\* cleanup_losing_invite_fork: ACK every time, BYE the first time.
LoserAnswers(c, t) ==
  /\ Known(call[c])
  /\ ~IsRetransmission(call[c], t)
  /\ LosesRace(call[c], t)
  /\ FinalReceived(c, FALSE)
  /\ call' = [call EXCEPT ![c].lost = @ \cup {t}]
  /\ wire' = [wire EXCEPT ![c].heard = @ \cup {t},
                          ![c].acked = @ \cup {t},
                          ![c].byed = IF t \in call[c].lost THEN @
                                      ELSE @ \cup {t}]
  /\ UNCHANGED <<pc, queue, active, dialog, stx, timer, media>>

\* The first 2xx: its fork wins and the message is left for the task.
WinnerAnswers(c, t) ==
  LET k == Answered(call[c], t) IN
  /\ Known(call[c])
  /\ ~IsRetransmission(call[c], t)
  /\ ~LosesRace(call[c], t)
  /\ Len(queue[c]) < MaxQueue
  /\ FinalReceived(c, FALSE)
  /\ queue' = [queue EXCEPT ![c] = Enqueued(c, k, [kind |-> "2xx", tag |-> t])]
  /\ call' = [call EXCEPT ![c] = IF EndsCall(k) THEN Finalized(k) ELSE k]
  /\ active' = IF EndsCall(k) THEN FinalizeSlot(k) ELSE active
  /\ wire' = [wire EXCEPT ![c].heard = @ \cup {t}]
  /\ UNCHANGED <<pc, dialog, stx, timer, media>>

\* B's network answers with a failure only when no fork has answered.  The
\* failure is ACKed while its transaction and the registered call exist; over
\* UDP it comes again until B has seen an ACK.
Fails(c, t) ==
  LET matched == ctx[c].inv # "none"
      heard == call[c].reg /\ matched
      k == IF ~call[c].reg THEN call[c]
           ELSE [call[c] EXCEPT !.final = "fail",
                                !.to = IF matched THEN t ELSE @]
  IN
  /\ call[c].reg \/ call[c].fin
  /\ wire[c].heard = {}
  /\ ReliablePeer => call[c].final = "none"
  /\ Len(queue[c]) < MaxQueue
  /\ FinalReceived(c, TRUE)
  /\ queue' = [queue EXCEPT ![c] = Enqueued(c, k, [kind |-> "fail", tag |-> t])]
  /\ call' = [call EXCEPT ![c] = IF EndsCall(k) THEN Finalized(k) ELSE k]
  /\ active' = IF EndsCall(k) THEN FinalizeSlot(k) ELSE active
  /\ wire' = [wire EXCEPT ![c].unacked = matched /\ ~heard]
  /\ UNCHANGED <<pc, dialog, stx, timer, media>>

\* A final response to the SBC's BYE, on either leg.
MutantByeResponse(c) ==
  /\ call[c].reg
  /\ call' = [call EXCEPT ![c] = Finalized(@)]
  /\ active' = FinalizeSlot(call[c])
  /\ UNCHANGED <<pc, queue, dialog, stx, ctx, timer, media, wire>>
ByeResponse(c) ==
  /\ call[c].reg
  /\ call[c].obye
  /\ call' = [call EXCEPT ![c] = Finalized(@)]
  /\ active' = FinalizeSlot(call[c])
  /\ UNCHANGED <<pc, queue, dialog, stx, ctx, timer, media, wire>>

CancelResponse(c) ==
  /\ ctx[c].cancel = "active"
  /\ ctx' = [ctx EXCEPT ![c].cancel = IF ReliablePeer THEN "none" ELSE "final"]
  /\ UNCHANGED <<pc, call, queue, active, dialog, stx, timer, media, wire>>

-----------------------------------------------------------------------------
(* Requests of the caller and of B: handle_message.                        *)

\* ACK of the answer, or of a failure.  The transaction is confirmed only
\* after the dialog took the ACK, and the dialog is looked at only while the
\* RTP session or the call exists.
Ack(c) ==
  LET known == call[c].reg \/ "in" \in media[c]
      taken == known /\ dialog[c] = "ANSWERED"
  IN
  /\ wire[c].toA # {}
  /\ stx' = IF taken /\ stx[c] = "COMPLETED"
            THEN [stx EXCEPT ![c] = "CONFIRMED"] ELSE stx
  /\ wire' = [wire EXCEPT
                ![c].failAck = @ \/ "fail" \in wire[c].toA,
                ![c].acked = IF call[c].reg THEN @ \cup Reached(call[c])
                             ELSE @]
  /\ UNCHANGED <<pc, call, queue, active, dialog, ctx, timer, media>>

\* The caller cancels while its INVITE is pending.
CancelAccepted(c) ==
  /\ wire[c].aCancel = "no"
  /\ wire[c].toA = {}
  /\ call[c].reg
  /\ stx[c] = "PROCEEDING"
  /\ call[c].final = "none"
  /\ ctx[c].cancel = "none"
  /\ ctx' = [ctx EXCEPT ![c].cancel = "active"]
  /\ wire' = [wire EXCEPT ![c].aCancel = "accepted"]
  /\ UNCHANGED <<pc, call, queue, active, dialog, stx, timer, media>>

CancelRejected(c) ==
  /\ wire[c].aCancel = "no"
  /\ wire[c].toA = {}
  /\ pc[c] # "idle"
  /\ ~call[c].reg \/ call[c].final # "none"
  /\ wire' = [wire EXCEPT ![c].aCancel = "rejected"]
  /\ UNCHANGED <<pc, call, queue, active, dialog, stx, ctx, timer, media>>

\* A user agent hangs up after the answer, or inside an early dialog.
MayHangUp(c) ==
  /\ wire[c].aBye = "no"
  /\ wire[c].early \/ "2xx" \in wire[c].toA
  /\ "fail" \notin wire[c].toA

ByeKind(c) == IF "2xx" \in wire[c].toA THEN "answered" ELSE "early"

CallerHangsUp(c) ==
  /\ MayHangUp(c)
  /\ call[c].reg
  /\ dialog' = [dialog EXCEPT ![c] = IF @ = "ANSWERED" THEN "TERMINATED" ELSE @]
  /\ call' = [call EXCEPT ![c].obye = TRUE]
  /\ wire' = [wire EXCEPT
                ![c].aBye = ByeKind(c),
                ![c].byed = IF call[c].obye THEN @ ELSE @ \cup Reached(call[c])]
  /\ media' = [media EXCEPT ![c] = {}]
  /\ timer' = FinalizerScheduled(c)
  /\ UNCHANGED <<pc, queue, active, stx, ctx>>

\* The BYE finds no call: tolerated while the Call-ID is remembered as
\* finalized, else it is the dialog's.
CallerHangsUpLate(c) ==
  LET taken == call[c].tomb # "recent" /\ dialog[c] = "ANSWERED" IN
  /\ MayHangUp(c)
  /\ ~call[c].reg
  /\ dialog' = [dialog EXCEPT ![c] = IF taken THEN "TERMINATED" ELSE @]
  /\ media' = [media EXCEPT ![c] = IF taken THEN @ \ {"in"} ELSE @]
  /\ wire' = [wire EXCEPT ![c].aBye = ByeKind(c)]
  /\ UNCHANGED <<pc, call, queue, active, stx, ctx, timer>>

\* A fork hangs up once its 2xx was acknowledged; the call is found by the
\* outbound Call-ID alone.
PeerHangsUp(c, t) ==
  /\ t \in wire[c].acked \ wire[c].ended
  /\ wire' = [wire EXCEPT ![c].ended = @ \cup {t}]
  /\ IF call[c].reg
     THEN /\ call' = [call EXCEPT ![c].ibye = TRUE]
          /\ media' = [media EXCEPT ![c] = @ \ {"in"}]
          /\ timer' = FinalizerScheduled(c)
     ELSE UNCHANGED <<call, media, timer>>
  /\ UNCHANGED <<pc, queue, active, dialog, stx, ctx>>

-----------------------------------------------------------------------------
(* Timers.                                                                 *)

\* Timer B or C of the outbound INVITE.
InviteTimeout(c) ==
  /\ ctx[c].inv = "active"
  /\ Len(queue[c]) < MaxQueue
  /\ ctx' = [ctx EXCEPT ![c].inv = "none"]
  /\ queue' = [queue EXCEPT ![c] =
                 Enqueued(c, call[c], [kind |-> "timeout", tag |-> NoFork])]
  /\ UNCHANGED <<pc, call, active, dialog, stx, timer, media, wire>>

\* The stream to B cannot be used: its unfinished transactions fail.
TransportError(c) ==
  /\ ReliablePeer
  /\ ctx[c].inv = "active"
  /\ Len(queue[c]) < MaxQueue
  /\ ctx' = [ctx EXCEPT ![c].inv = "none",
                        ![c].cancel = IF @ = "active" THEN "none" ELSE @]
  /\ queue' = [queue EXCEPT ![c] =
                 Enqueued(c, call[c], [kind |-> "error", tag |-> NoFork])]
  /\ UNCHANGED <<pc, call, active, dialog, stx, timer, media, wire>>

InviteForgotten(c) ==
  /\ ctx[c].inv = "final"
  /\ ctx' = [ctx EXCEPT ![c].inv = "none"]
  /\ UNCHANGED <<pc, call, queue, active, dialog, stx, timer, media, wire>>

\* Timer F of an unanswered CANCEL, or the cleanup of an answered one.
CancelForgotten(c) ==
  /\ ctx[c].cancel # "none"
  /\ ctx' = [ctx EXCEPT ![c].cancel = "none"]
  /\ UNCHANGED <<pc, call, queue, active, dialog, stx, timer, media, wire>>

\* _finalize_b2bua_later, two seconds after a BYE.
FinalizeLater(c) ==
  /\ timer[c].finalizer
  /\ timer' = [timer EXCEPT ![c].finalizer = FALSE]
  /\ call' = [call EXCEPT ![c] = Finalized(@)]
  /\ active' = FinalizeSlot(call[c])
  /\ UNCHANGED <<pc, queue, dialog, stx, ctx, media, wire>>

\* expire_dialog_session: the caller did not refresh.
SessionExpires(c) ==
  /\ timer[c].session
  /\ \/ /\ dialog[c] = "TERMINATED"
        /\ timer' = [timer EXCEPT ![c].session = FALSE]
        /\ UNCHANGED <<call, dialog, media, wire>>
     \/ /\ dialog[c] # "TERMINATED" /\ call[c].reg
        /\ call' = [call EXCEPT ![c].ibye = TRUE, ![c].obye = TRUE]
        /\ wire' = [wire EXCEPT
                      ![c].expired = TRUE,
                      ![c].byed = IF call[c].obye THEN @
                                  ELSE @ \cup Reached(call[c])]
        /\ timer' = [timer EXCEPT ![c] = [finalizer |-> TRUE, session |-> FALSE]]
        /\ UNCHANGED <<dialog, media>>
     \/ /\ dialog[c] # "TERMINATED" /\ ~call[c].reg
        /\ dialog' = [dialog EXCEPT ![c] = "TERMINATED"]
        /\ media' = [media EXCEPT ![c] = @ \ {"in"}]
        /\ timer' = [timer EXCEPT ![c].session = FALSE]
        /\ UNCHANGED <<call, wire>>
  /\ UNCHANGED <<pc, queue, active, stx, ctx>>

\* recently_finalized_b2bua_call_ids after 30 s, late_invite_calls after 32 s.
TombstoneAges(c) ==
  /\ call[c].tomb \in {"recent", "late"}
  /\ call' = [call EXCEPT ![c].tomb = IF @ = "recent" THEN "late" ELSE "gone"]
  /\ UNCHANGED <<pc, queue, active, dialog, stx, ctx, timer, media, wire>>

-----------------------------------------------------------------------------
\* The steps of the invite task, in the order the code takes them.
Task(c) ==
  \/ MediaReady(c) \/ MediaFailed(c)
  \/ ResumeProvisional(c) \/ ResumeBadProvisional(c)
  \/ ResumeAnswer(c) \/ ResumeReject(c) \/ ResumeError(c) \/ ResumeTimeout(c)
  \/ WaitTimeout(c) \/ HandleTimeout(c)

Caller(c) ==
  \/ InviteRejected(c) \/ InviteAdmitted(c)
  \/ Ack(c) \/ CancelAccepted(c) \/ CancelRejected(c)
  \/ CallerHangsUp(c) \/ CallerHangsUpLate(c)

Peer(c) ==
  \/ \E t \in Forks : \/ \E kind \in Provisionals : Provisional(c, t, kind)
                      \/ WinnerRetransmits(c, t)
                      \/ LoserAnswers(c, t)
                      \/ WinnerAnswers(c, t)
                      \/ Fails(c, t)
                      \/ PeerHangsUp(c, t)
  \/ ByeResponse(c)
  \/ CancelResponse(c)

Timers(c) ==
  \/ InviteTimeout(c) \/ TransportError(c)
  \/ InviteForgotten(c) \/ CancelForgotten(c)
  \/ FinalizeLater(c) \/ SessionExpires(c) \/ TombstoneAges(c)

Next == \E c \in Calls : Task(c) \/ Caller(c) \/ Peer(c) \/ Timers(c)

Spec == Init /\ [][Next]_vars

\* The event loop runs a task that can go on and fires a timer that is due;
\* nothing is assumed of the caller, of B or of the network.
Fairness ==
  \A c \in Calls : /\ WF_vars(Task(c))
                   /\ WF_vars(FinalizeLater(c))

FairSpec == Spec /\ Fairness

-----------------------------------------------------------------------------
(* Safety.                                                                 *)

\* Every fork whose 2xx reached the call is its winner or was sent a BYE: in
\* whatever order answers, failures, timeouts and hangups arrive, no answered
\* fork is forgotten by handle_response.
AnswersAccounted ==
  \A c \in Calls : wire[c].heard \subseteq wire[c].byed \cup {call[c].win}

\* The winner is never cleaned up as a loser: a retransmitted winning 2xx is
\* recognised as long as the call or its tombstone is known.
WinnerNotLost == \A c \in Calls : call[c].win \notin call[c].lost

\* The promise of ForkSelection, kept by the call object: a call is closed
\* once it is finalized or its outbound INVITE failed, and the losing forks
\* are the released ones.
Selection == INSTANCE ForkSelection WITH
  winner   <- [c \in Calls |-> call[c].win],
  released <- [c \in Calls |-> call[c].lost],
  closed   <- {c \in Calls : call[c].fin \/ call[c].final = "fail"}

\* Forked answers, failures, timeouts and finalizers arrive in every order,
\* and the winner is still chosen once, first, and never released as a loser.
ImplementsForkSelection == Selection!Spec

\* The calls that hold an admission slot.
Held == { c \in Calls : \/ pc[c] = "media"
                        \/ call[c].reg
                        \/ pc[c] = "dead" /\ ~call[c].fin }

\* active_calls never counts more calls than hold a slot: no path of the
\* finalizers keeps the slot of a call that is over.
NeverOvercounted == active <= Cardinality(Held)

\* Once an answered call is finalized its winning fork was sent a BYE or hung
\* up itself, provided the caller did not hang up before the answer and no
\* losing fork hung up on its own.
WinnerReleased ==
  \A c \in Calls :
    (/\ call[c].fin
     /\ "2xx" \in wire[c].toA
     /\ wire[c].aBye # "early"
     /\ wire[c].ended \subseteq {call[c].win})
      => call[c].win \in wire[c].byed \cup wire[c].ended

\* A call whose caller was answered ends only by a hangup or by the session
\* timer: no CANCEL, timeout or late response tears an answered call down.
AnsweredCallSurvives ==
  \A c \in Calls :
    ("2xx" \in wire[c].toA /\ call[c].fin)
      => \/ wire[c].aBye # "no"
         \/ wire[c].ended # {}
         \/ wire[c].expired

\* An answered call is kept until somebody hangs up or its session expires, and
\* then its winning fork hears of it.
AnsweredCallKept == WinnerReleased /\ AnsweredCallSurvives

-----------------------------------------------------------------------------
(* Liveness, under FairSpec.                                               *)

\* The task of an admitted INVITE ends: it answers, fails or raises.
InviteTaskEnds ==
  \A c \in Calls : pc[c] = "media" ~> pc[c] \in {"done", "dead"}

\* A hangup of either side finalizes the call, whether or not the other leg
\* answers the SBC's BYE.
HangupFinalizes ==
  \A c \in Calls :
    (call[c].reg /\ (call[c].obye \/ call[c].ibye)) ~> call[c].fin

-----------------------------------------------------------------------------
(* What the documents say and the code does not do; each is violated.      *)

\* "Current active calls admitted by PlaySBC."
ActiveCallsExact == active = Cardinality(Held)

\* "... Timer G on unreliable transports until transaction ACK or Timer H."
AckStopsRetransmission ==
  \A c \in Calls : wire[c].failAck => stx[c] # "COMPLETED"

\* "retransmitted finals are ACKed again"
RetransmittedFinalAcked == \A c \in Calls : ~wire[c].unacked

\* "Pending INVITE, CANCEL/200, INVITE 487, ACK, and cleanup"
CancelCompletes ==
  \A c \in Calls : wire[c].aCancel = "accepted" ~> wire[c].toA # {}

\* "A completed INVITE cannot be cancelled"
CompletedInviteNotCancelled ==
  [][\A c \in Calls :
       (ctx[c].cancel = "none" /\ ctx'[c].cancel = "active")
         => call[c].final = "none"]_vars

\* "Dialog identity is Call-ID plus local and remote tags."
OnlyWinnerHangsUp ==
  [][\A c \in Calls :
       (~call[c].ibye /\ call'[c].ibye)
         => call[c].win \in wire'[c].ended \/ wire'[c].expired]_vars

\* "the call tears down cleanly, and no PlaySBC or RTPengine session leaks"
FinalizedCallHasNoMedia ==
  \A c \in Calls : (call[c].fin /\ pc[c] = "done") => media[c] = {}

=============================================================================
