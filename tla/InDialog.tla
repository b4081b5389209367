------------------------------ MODULE InDialog ------------------------------
(***************************************************************************)
(* Requests inside an answered call of PlaySBC: the caller's re-INVITEs    *)
(* and UPDATEs, which the SBC translates into requests of its own to B.    *)
(*                                                                         *)
(* A re-INVITE and an UPDATE with an offer are served by a task that may   *)
(* ask RTPengine, sends the request to B, waits for the answer on a queue, *)
(* tries once more two seconds after a 491, may ask RTPengine again, and   *)
(* then answers the caller.  Each provisional response to a re-INVITE      *)
(* starts the wait anew, and a reliable one without a valid RSeq ends the  *)
(* task with an exception.  An UPDATE without a body has no task: its      *)
(* answer is relayed by handle_response, and a 491 starts a task that only *)
(* sleeps and sends again.  The flags reinvite_pending and pending_update  *)
(* keep these apart; responses, hangups, the finalizer and the client      *)
(* transactions run between any two of their steps.                        *)
(*                                                                         *)
(* One call, already answered.  Its outbound dialog has one fork, the      *)
(* winner, so every 2xx carries its tag; the tombstone of the finalized    *)
(* call does not expire (B2BUACall has forks and tombstones).              *)
(***************************************************************************)
EXTENDS Integers, Sequences, FiniteSets

CONSTANTS
  Last,        \* the caller's requests have the CSeq numbers 1 .. Last
  Kinds,       \* the kinds of requests the caller sends
  Backends,    \* the media backends the call may have
  MaxRepeats,  \* bound: responses of B that arrive once more
  MaxRelays,   \* bound: requests of B relayed to the caller
  MaxRings     \* bound: provisional responses that wait in the queue at once

ASSUME RequestAssumption ==
  /\ Last \in Nat
  /\ Kinds \subseteq {"reinvite", "offer", "target"}
  /\ Backends \subseteq {"internal", "rtpengine"}
  /\ MaxRepeats \in Nat /\ MaxRelays \in Nat /\ MaxRings \in Nat

VARIABLES
  call,      \* the B2BUACall object and its tables
  task,      \* the handler of the re-INVITE or offer in progress
  queue,     \* the responses left for that task
  sleepers,  \* running tasks of retry_outbound_update
  sent,      \* the INVITEs and UPDATEs sent to B, in the order of their CSeq
  told,      \* the final responses given to each request of the caller
  kind,      \* what the caller sent under each CSeq number
  wire       \* history and the counters of the bounds

vars == <<call, task, queue, sleepers, sent, told, kind, wire>>

Requests == 1..Last
None == 0       \* no request; as a Contact, that of the call's first answer
Unagreed == -1  \* the Contact of a refusal or of a provisional response, or
                \* the URI the routing chose

Reply == {"2xx", "491", "fail"}  \* what B answers

\* What B says before: a 1xx, one that is reliable, and one that says so but
\* has no valid RSeq.
Provisional == {"rings", "reliable", "broken"}

Call == [ backend  : {"internal", "rtpengine"},
          reg      : BOOLEAN,  \* in b2bua_calls_by_inbound and _by_outbound
          obye     : BOOLEAN,  \* outbound_bye_sent
          ibye     : BOOLEAN,  \* inbound_bye_sent
          reinvite : BOOLEAN,  \* reinvite_pending
          invites  : BOOLEAN,  \* in pending_outbound_responses
          update   : Requests \cup {None},  \* pending_update
          updates  : BOOLEAN,  \* pending_update_queue
          retried  : BOOLEAN,  \* update_retry_count
          final    : {"2xx", "fail"},       \* outbound_final_status
          inCseq   : Nat,      \* inbound_cseq
          target   : Requests \cup {None, Unagreed},  \* outbound_contact_uri
          inTarget : Requests \cup {None},  \* inbound_contact_uri
          lost     : BOOLEAN ] \* the winner's tag is in losing_forks

Task == [ pc    : {"idle", "offer", "wait", "expired", "sleep", "answer"},
          cur   : Requests \cup {None},  \* the request it serves
          again : BOOLEAN ]              \* the second attempt

\* "by" is the place in sent of the request it answers, None for a provisional.
Message == [status : Reply \cup Provisional \cup {"timeout"}, by : Nat]

Sent == [ method : {"INVITE", "UPDATE"},
          for    : Requests,
          offer  : BOOLEAN,
          reply  : Reply \cup {"none"},
          gone   : BOOLEAN ]  \* its client transaction timed out

Wire == [ repeats   : 0..MaxRepeats,
          relays    : 0..MaxRelays,
          aSession  : Requests \cup {None},  \* the last offer A saw accepted
          bSession  : Requests \cup {None},  \* the last offer B accepted
          dropped   : SUBSET Requests,  \* those whose task an exception ended
          disturbed : BOOLEAN ]  \* a response was late, repeated or wasted

TypeOK ==
  /\ call \in Call
  /\ task \in Task
  /\ queue \in Seq(Message)
  /\ sleepers \in Nat
  /\ sent \in Seq(Sent)
  /\ told \in [Requests -> Seq({"2xx", "refused"})]
  /\ kind \in [Requests -> Kinds \cup {"none"}]
  /\ wire \in Wire

Idle == [pc |-> "idle", cur |-> None, again |-> FALSE]

Init ==
  /\ call \in [ backend : Backends, reg : {TRUE}, obye : {FALSE},
                ibye : {FALSE}, reinvite : {FALSE},
                invites : {FALSE}, update : {None}, updates : {FALSE},
                retried : {FALSE}, final : {"2xx"}, inCseq : {0},
                target : {None}, inTarget : {None}, lost : {FALSE} ]
  /\ task = Idle
  /\ queue = <<>>
  /\ sleepers = 0
  /\ sent = <<>>
  /\ told = [n \in Requests |-> <<>>]
  /\ kind = [n \in Requests |-> "none"]
  /\ wire = [ repeats |-> 0, relays |-> 0, aSession |-> None,
              bSession |-> None, dropped |-> {}, disturbed |-> FALSE ]

-----------------------------------------------------------------------------
(* What the handlers share.                                                *)

Tell(n, status) == told' = [told EXCEPT ![n] = Append(@, status)]

\* send_outbound_invite and send_b2bua_in_dialog_request: the next CSeq.
WithRequest(s, method, n, offer) ==
  Append(s, [ method |-> method, for |-> n, offer |-> offer,
              reply |-> "none", gone |-> FALSE ])

MethodOf(n) == IF kind[n] = "reinvite" THEN "INVITE" ELSE "UPDATE"

\* The offer the task sends to B, at the first attempt and after a 491.
MutantSendOffer(n) == sent' = WithRequest(sent, MethodOf(n), n, FALSE)
SendOffer(n) == sent' = WithRequest(sent, MethodOf(n), n, TRUE)

\* Requests that must not overlap with one that is pending.
MutantBusy(k) == k.reinvite
Busy(k) == k.reinvite \/ k.update # None

MutantStale(k, n) == n = k.inCseq
Stale(k, n) == n <= k.inCseq

\* The finally clauses of the two handlers.
Released(k) ==
  IF k.reinvite THEN [k EXCEPT !.reinvite = FALSE, !.invites = FALSE]
  ELSE [k EXCEPT !.update = None, !.updates = FALSE]

\* finalize_b2bua_call.
Finalized(k) == [k EXCEPT !.reg = FALSE, !.invites = FALSE]

\* The task answers the caller and ends.
EndTask(status) ==
  /\ Tell(task.cur, status)
  /\ task' = Idle
  /\ queue' = <<>>

-----------------------------------------------------------------------------
(* Requests of the caller: handle_message.                                 *)

Receive(n, what) ==
  /\ kind[n] = "none"
  /\ kind' = [kind EXCEPT ![n] = what]

Refused(n) ==
  /\ Tell(n, "refused")
  /\ UNCHANGED <<call, task, queue, sleepers, sent, wire>>

\* 481: the call is over and an UPDATE finds no dialog.  (A re-INVITE would be
\* taken for the INVITE of a new call.)
NoDialog(n) ==
  /\ ~call.reg
  /\ \E what \in Kinds \ {"reinvite"} : Receive(n, what)
  /\ Refused(n)

\* 500.
OutOfOrder(n) ==
  /\ call.reg /\ Stale(call, n)
  /\ \E what \in Kinds : /\ what # "reinvite" => ~Busy(call)
                         /\ Receive(n, what)
  /\ Refused(n)

\* 491.
Glare(n) ==
  /\ call.reg /\ Busy(call)
  /\ \E what \in Kinds : /\ what = "reinvite" => ~Stale(call, n)
                         /\ Receive(n, what)
  /\ Refused(n)

Admissible(n) == call.reg /\ ~Stale(call, n) /\ ~Busy(call)

\* 488: no audio stream in the body.
NoAudio(n) ==
  /\ Admissible(n)
  /\ \E what \in Kinds \ {"target"} : Receive(n, what)
  /\ Refused(n)

\* The beginning of the two handlers, up to their first await.
StartOffer(n) ==
  /\ Admissible(n)
  /\ \E what \in Kinds \ {"target"} :
       /\ Receive(n, what)
       /\ call' = IF what = "reinvite"
                  THEN [call EXCEPT !.reinvite = TRUE, !.invites = TRUE]
                  ELSE [call EXCEPT !.update = n, !.updates = TRUE]
       /\ IF call.backend = "rtpengine"
          THEN /\ task' = [Idle EXCEPT !.pc = "offer", !.cur = n]
               /\ UNCHANGED sent
          ELSE /\ task' = [Idle EXCEPT !.pc = "wait", !.cur = n]
               /\ sent' = WithRequest(sent, IF what = "reinvite" THEN "INVITE"
                                            ELSE "UPDATE", n, TRUE)
  /\ UNCHANGED <<queue, sleepers, told, wire>>

\* An UPDATE without a body only refreshes the caller's Contact.
UpdateTarget(n) ==
  /\ Admissible(n)
  /\ "target" \in Kinds /\ Receive(n, "target")
  /\ call' = [call EXCEPT !.inCseq = n, !.update = n, !.retried = FALSE]
  /\ sent' = WithRequest(sent, "UPDATE", n, FALSE)
  /\ UNCHANGED <<task, queue, sleepers, told, wire>>

\* A BYE of either side is sent on to the other, and the call ends later.
CallerHangsUp ==
  /\ call.reg /\ ~call.obye
  /\ call' = [call EXCEPT !.obye = TRUE]
  /\ UNCHANGED <<task, queue, sleepers, sent, told, kind, wire>>

PeerHangsUp ==
  /\ call.reg /\ ~call.ibye
  /\ call' = [call EXCEPT !.ibye = TRUE, !.inCseq = @ + 1]
  /\ UNCHANGED <<task, queue, sleepers, sent, told, kind, wire>>

\* handle_b2bua_refer, handle_b2bua_transfer_notify and send_transfer_notify
\* number their requests to the caller with the CSeq the caller used last.
RelayToCaller ==
  /\ call.reg
  /\ wire.relays < MaxRelays
  /\ wire' = [wire EXCEPT !.relays = @ + 1]
  /\ call' = [call EXCEPT !.inCseq = @ + 1]
  /\ UNCHANGED <<task, queue, sleepers, sent, told, kind>>

-----------------------------------------------------------------------------
(* The task of a re-INVITE or of an UPDATE with an offer.                  *)

\* RTPengine rewrote the offer.
Offered ==
  /\ task.pc = "offer"
  /\ SendOffer(task.cur)
  /\ task' = [task EXCEPT !.pc = "wait"]
  /\ UNCHANGED <<call, queue, sleepers, told, kind, wire>>

\* retry_rtpengine_control gives up: 488, or 504 after a timeout.
MediaFails ==
  /\ task.pc \in {"offer", "answer"}
  /\ EndTask("refused")
  /\ call' = Released(call)
  /\ wire' = [wire EXCEPT !.disturbed = @ \/ task.pc = "answer"]
  /\ UNCHANGED <<sleepers, sent, kind>>

\* The next response in the queue, whichever request it answers.
Take(statuses) ==
  /\ task.pc = "wait"
  /\ queue # <<>>
  /\ Head(queue).status \in statuses

\* A provisional response goes on to the caller, and the wait starts anew; a
\* reliable one brings the target of its Contact.
TakeRing ==
  /\ Take({"rings", "reliable"})
  /\ call' = IF Head(queue).status = "reliable"
             THEN [call EXCEPT !.target = Unagreed] ELSE call
  /\ queue' = Tail(queue)
  /\ UNCHANGED <<task, sleepers, sent, told, kind, wire>>

\* The ValueError of wait_for_outbound_invite, which no handler of the task
\* catches: its finally clause runs, and the caller hears nothing.
TakeBroken ==
  /\ Take({"broken"})
  /\ task' = Idle
  /\ queue' = <<>>
  /\ call' = Released(call)
  /\ wire' = [wire EXCEPT !.dropped = @ \cup {task.cur}, !.disturbed = TRUE]
  /\ UNCHANGED <<sleepers, sent, told, kind>>

TakeGlare ==
  /\ Take({"491"})
  /\ ~task.again
  /\ task' = [task EXCEPT !.pc = "sleep", !.again = TRUE]
  /\ queue' = Tail(queue)
  /\ UNCHANGED <<call, sleepers, sent, told, kind, wire>>

\* Two seconds later the same offer is sent under the next CSeq.
Retry ==
  /\ task.pc = "sleep"
  /\ SendOffer(task.cur)
  /\ task' = [task EXCEPT !.pc = "wait"]
  /\ UNCHANGED <<call, queue, sleepers, told, kind, wire>>

TakeRefusal ==
  /\ Take({"491", "fail"})
  /\ Head(queue).status = "491" => task.again
  /\ EndTask("refused")
  /\ call' = Released(call)
  /\ UNCHANGED <<sleepers, sent, kind, wire>>

\* OutboundInviteTransactionFailure is a TimeoutError: 504.
TakeFailure ==
  /\ Take({"timeout"})
  /\ EndTask("refused")
  /\ call' = Released(call)
  /\ UNCHANGED <<sleepers, sent, kind, wire>>

\* A 2xx refreshes the target of each leg: for a re-INVITE before RTPengine
\* is asked, for an UPDATE after it.
Refreshed(k, n) == [k EXCEPT !.target = n, !.inTarget = n]

\* The caller is answered; the new session and CSeq are kept.
Accept(n) ==
  /\ call' = [Refreshed(Released(call), n) EXCEPT !.inCseq = n]
  /\ wire' = [wire EXCEPT !.aSession = n]
  /\ EndTask("2xx")

TakeAnswer ==
  /\ Take({"2xx"})
  /\ IF call.backend = "internal"
     THEN Accept(task.cur)
     ELSE /\ task' = [task EXCEPT !.pc = "answer"]
          /\ call' = IF kind[task.cur] = "reinvite"
                     THEN Refreshed(call, task.cur) ELSE call
          /\ queue' = Tail(queue)
          /\ UNCHANGED <<told, wire>>
  /\ UNCHANGED <<sleepers, sent, kind>>

\* RTPengine rewrote the answer.
MediaAnswered ==
  /\ task.pc = "answer"
  /\ Accept(task.cur)
  /\ UNCHANGED <<sleepers, sent, kind>>

\* A wait that forgets its timeout once it waits for the second answer.
MutantWaitTimeout ==
  /\ task.pc = "wait" /\ queue = <<>> /\ ~task.again
  /\ task' = [task EXCEPT !.pc = "expired"]
  /\ wire' = [wire EXCEPT !.disturbed = TRUE]
  /\ UNCHANGED <<call, queue, sleepers, sent, told, kind>>

\* wait_for times out: 504; the task runs in a later iteration of the loop.
WaitTimeout ==
  /\ task.pc = "wait" /\ queue = <<>>
  /\ task' = [task EXCEPT !.pc = "expired"]
  /\ wire' = [wire EXCEPT !.disturbed = TRUE]
  /\ UNCHANGED <<call, queue, sleepers, sent, told, kind>>

HandleTimeout ==
  /\ task.pc = "expired"
  /\ EndTask("refused")
  /\ call' = Released(call)
  /\ UNCHANGED <<sleepers, sent, kind, wire>>

\* retry_outbound_update, for whatever UPDATE is pending by then.
MutantStillPending(k) == k.reg
StillPending(k) == k.reg /\ k.update # None

RetryUpdate ==
  /\ sleepers > 0
  /\ sleepers' = sleepers - 1
  /\ sent' = IF StillPending(call)
             THEN WithRequest(sent, "UPDATE", call.update, FALSE) ELSE sent
  /\ UNCHANGED <<call, task, queue, told, kind, wire>>

-----------------------------------------------------------------------------
(* Responses of B: handle_response.                                        *)

\* B answers request i, or its earlier answer arrives once more.
Answers(i, status) ==
  \/ /\ sent[i].reply = "none"
     /\ wire' = [wire EXCEPT
                   !.bSession = IF status = "2xx" /\ sent[i].offer
                                THEN sent[i].for ELSE @]
  \/ /\ sent[i].reply = status
     /\ wire.repeats < MaxRepeats
     /\ wire' = [wire EXCEPT !.repeats = @ + 1, !.disturbed = TRUE]

Received(i, status) == [sent EXCEPT ![i].reply = status]

\* A response no queue and no pending request took, once a BYE went to B.
EndsCall(k) == k.reg /\ k.obye

\* The winner's 2xx outside a re-INVITE: acknowledged while the last final
\* response of an INVITE was a 2xx (a 200), else treated as that of a losing
\* fork, which is acknowledged and sent a BYE the first time.
Cleaned(k) == IF k.final = "2xx" THEN k ELSE [k EXCEPT !.lost = TRUE]

InviteAnsweredLate(i) ==
  /\ sent[i].method = "INVITE" /\ ~call.reinvite
  /\ Answers(i, "2xx")
  /\ sent' = Received(i, "2xx")
  /\ call' = Cleaned(call)
  /\ UNCHANGED <<task, queue, sleepers, told, kind>>

\* The 2xx of the caller's first INVITE arrives once more.
FirstAnswerAgain ==
  /\ ~call.reinvite
  /\ wire.repeats < MaxRepeats
  /\ wire' = [wire EXCEPT !.repeats = @ + 1, !.disturbed = TRUE]
  /\ call' = Cleaned(call)
  /\ UNCHANGED <<task, queue, sleepers, sent, told, kind>>

InviteAnswered(i) ==
  /\ sent[i].method = "INVITE" /\ call.reinvite
  /\ Answers(i, "2xx")
  /\ sent' = Received(i, "2xx")
  /\ call' = IF call.reg THEN [call EXCEPT !.final = "2xx"] ELSE call
  /\ queue' = IF call.invites
              THEN Append(queue, [status |-> "2xx", by |-> i]) ELSE queue
  /\ UNCHANGED <<task, sleepers, told, kind>>

\* A provisional response to this INVITE or, delayed, to an earlier one is queued
\* for the task of a re-INVITE, and otherwise changes nothing.
Ringing == {j \in DOMAIN queue : queue[j].status \in Provisional}

Rings(what) ==
  /\ call.invites
  /\ Cardinality(Ringing) < MaxRings
  /\ queue' = Append(queue, [status |-> what, by |-> None])
  /\ UNCHANGED <<call, task, sleepers, sent, told, kind, wire>>

\* A failure of a known transaction is acknowledged after its Contact, or
\* else the URI of the routing, became the target of the dialog.
InviteFailed(i, status) ==
  LET matched == ~sent[i].gone IN
  /\ sent[i].method = "INVITE" /\ status # "2xx"
  /\ Answers(i, status)
  /\ sent' = Received(i, status)
  /\ LET k == IF ~call.reg THEN call
             ELSE [call EXCEPT !.final = "fail",
                               !.target = IF matched THEN Unagreed ELSE @]
     IN call' = IF ~k.invites /\ EndsCall(k) THEN Finalized(k) ELSE k
  /\ queue' = IF call.invites
              THEN Append(queue, [status |-> status, by |-> i]) ELSE queue
  /\ UNCHANGED <<task, sleepers, told, kind>>

Pending == StillPending(call)

\* An answer for the task of an UPDATE with an offer.
UpdateQueued(i, status) ==
  /\ sent[i].method = "UPDATE"
  /\ Pending /\ call.updates
  /\ Answers(i, status)
  /\ sent' = Received(i, status)
  /\ queue' = Append(queue, [status |-> status, by |-> i])
  /\ UNCHANGED <<call, task, sleepers, told, kind>>

UpdateGlare(i) ==
  /\ sent[i].method = "UPDATE"
  /\ Pending /\ ~call.updates /\ ~call.retried
  /\ Answers(i, "491")
  /\ sent' = Received(i, "491")
  /\ call' = [call EXCEPT !.retried = TRUE]
  /\ sleepers' = sleepers + 1
  /\ UNCHANGED <<task, queue, told, kind>>

\* The answer of an UPDATE without a body is relayed.
MutantRelayed(k) == k
Relayed(k) == [k EXCEPT !.update = None]

UpdateAnswered(i, status) ==
  /\ sent[i].method = "UPDATE"
  /\ Pending /\ ~call.updates
  /\ status = "491" => call.retried
  /\ Answers(i, status)
  /\ sent' = Received(i, status)
  /\ Tell(call.update, IF status = "2xx" THEN "2xx" ELSE "refused")
  /\ call' = Relayed(IF status = "2xx" THEN Refreshed(call, call.update)
                     ELSE call)
  /\ UNCHANGED <<task, queue, sleepers, kind>>

\* No UPDATE is pending any more.
UpdateIgnored(i, status) ==
  /\ sent[i].method = "UPDATE"
  /\ ~Pending
  /\ Answers(i, status)
  /\ sent' = Received(i, status)
  /\ call' = IF EndsCall(call) THEN Finalized(call) ELSE call
  /\ UNCHANGED <<task, queue, sleepers, told, kind>>

\* A final response to the SBC's BYE.
ByeAnswered ==
  /\ EndsCall(call)
  /\ call' = Finalized(call)
  /\ UNCHANGED <<task, queue, sleepers, sent, told, kind, wire>>

-----------------------------------------------------------------------------
(* Timers.                                                                 *)

\* Timer B or C.  (Timer F of an UPDATE tells nobody.)
InviteTimeout(i) ==
  /\ sent[i].method = "INVITE" /\ sent[i].reply = "none" /\ ~sent[i].gone
  /\ sent' = [sent EXCEPT ![i].gone = TRUE]
  /\ queue' = IF call.invites
              THEN Append(queue, [status |-> "timeout", by |-> i]) ELSE queue
  /\ wire' = [wire EXCEPT !.disturbed = TRUE]
  /\ UNCHANGED <<call, task, sleepers, told, kind>>

\* _finalize_b2bua_later, two seconds after a BYE of either side.
FinalizeLater ==
  /\ call.reg /\ (call.obye \/ call.ibye)
  /\ call' = Finalized(call)
  /\ UNCHANGED <<task, queue, sleepers, sent, told, kind, wire>>

-----------------------------------------------------------------------------
Caller ==
  \/ \E n \in Requests : \/ NoDialog(n) \/ OutOfOrder(n) \/ Glare(n)
                          \/ NoAudio(n) \/ StartOffer(n) \/ UpdateTarget(n)
  \/ CallerHangsUp

TaskStep ==
  \/ Offered \/ MediaFails \/ TakeRing \/ TakeBroken \/ TakeGlare \/ Retry \/ TakeRefusal
  \/ TakeFailure \/ TakeAnswer \/ MediaAnswered
  \/ WaitTimeout \/ HandleTimeout

Peer ==
  \/ \E i \in DOMAIN sent :
       \/ InviteAnsweredLate(i) \/ InviteAnswered(i)
       \/ UpdateGlare(i)
       \/ \E status \in Reply :
            \/ InviteFailed(i, status)
            \/ UpdateQueued(i, status) \/ UpdateAnswered(i, status)
            \/ UpdateIgnored(i, status)
  \/ \E what \in Provisional : Rings(what)
  \/ FirstAnswerAgain \/ ByeAnswered
  \/ PeerHangsUp
  \/ RelayToCaller

Timers ==
  \/ RetryUpdate \/ FinalizeLater
  \/ \E i \in DOMAIN sent : InviteTimeout(i)

Next == Caller \/ TaskStep \/ Peer \/ Timers

Spec == Init /\ [][Next]_vars

\* The event loop runs a task that can go on; nothing is assumed of the
\* caller, of B or of the network.
FairSpec == Spec /\ WF_vars(TaskStep)

\* Bound: a response of B arrives once more only on the internal media backend,
\* where the caller sends UPDATEs and B's requests are not relayed.  A provisional
\* response is queued before any other, and neither while it waits nor after a
\* broken one ended a task has B's request been relayed or anybody hung up.
Apart ==
  /\ wire.repeats > 0 =>
       /\ call.backend = "internal" /\ wire.relays = 0
       /\ \A n \in Requests : kind[n] # "reinvite"
  /\ Ringing \subseteq {1}
  /\ Ringing # {} \/ wire.dropped # {} =>
       wire.relays = 0 /\ ~call.obye /\ ~call.ibye

BoundedNext == Next /\ Apart'
BoundedSpec == Init /\ [][BoundedNext]_vars /\ WF_vars(TaskStep)

-----------------------------------------------------------------------------
(* Properties.                                                             *)

\* No request of the caller is answered finally more than once: the task,
\* the relay of handle_response and their timeouts never both answer it.
AnsweredOnce == \A n \in Requests : Len(told[n]) <= 1

\* One exchange at a time: while a task serves a request, that request and
\* no other is pending, and only its own queue is open.
ExclusiveExchange ==
  /\ task.pc = "idle" <=> ~call.reinvite /\ ~call.updates
  /\ call.reinvite => call.update = None /\ ~call.updates
  /\ call.updates => call.update = task.cur

\* Once nothing is pending the caller and B agree on the session: the last
\* offer the caller saw accepted is the last one B accepted, whatever was
\* refused, retried or hung up meanwhile, unless a wait timed out, RTPengine
\* failed after B's answer, a response of B came twice, or a provisional
\* response without a valid RSeq ended the task.
SessionsAgree ==
  (task.pc = "idle" /\ ~wire.disturbed) => wire.aSession = wire.bSession

\* Requests are accepted in the order of their CSeq numbers, although they
\* overtake each other and inbound_cseq is only set when a task succeeds.
AcceptedInOrder ==
  [][\A n \in Requests :
       (told[n] = <<>> /\ told'[n] = <<"2xx">>)
         => \A m \in Requests : told[m] = <<"2xx">> => m < n]_vars

\* Under FairSpec, or BoundedSpec, a re-INVITE or an offer has its task until the
\* caller is answered, or an exception dropped it, and no longer, if B comes to
\* an end of its provisional responses: each one starts the wait anew.
StopsRinging ==
  <>[][\A what \in Provisional : ~Rings(what)]_vars
ExchangeEnds ==
  StopsRinging =>
    \A n \in Requests :
      task.cur = n ~> task.cur # n /\ (told[n] # <<>> \/ n \in wire.dropped)

-----------------------------------------------------------------------------
(* What the documents say, or a reader would expect, and the code does not *)
(* do; each is violated.                                                   *)

\* The caller of a re-INVITE or of an offer is answered, though B may send a
\* reliable provisional response without a valid RSeq.
OffersAnswered ==
  StopsRinging => \A n \in Requests : task.cur = n ~> told[n] # <<>>

\* The same if B never comes to an end of its provisional responses.
AnsweredWhileRinging ==
  \A n \in Requests : task.cur = n ~> (told[n] # <<>> \/ n \in wire.dropped)

\* "Rejected refreshes do not mutate the target or route set."
RejectedKeepsTarget ==
  [][(\E i \in DOMAIN sent :
        sent[i].reply = "none" /\ sent'[i].reply \in {"491", "fail"})
       => call'.target = call.target]_vars

\* "Losing dialogs receive ACK and BYE; retransmitted winning 2xx gets ACK."
WinnerNotReleased == call.reg => ~call.lost

\* "an outbound 491 triggers one delayed higher-CSeq retry"
OneRetry ==
  \A n \in Requests : Cardinality({i \in DOMAIN sent : sent[i].for = n}) <= 2

\* "... sent-by, method, CSeq, and Call-ID context."
OwnAnswer ==
  [][task.pc = "wait" /\ task'.pc # "wait" /\ queue # <<>>
         /\ Head(queue).status \notin Provisional
       => sent[Head(queue).by].for = task.cur]_vars

=============================================================================
