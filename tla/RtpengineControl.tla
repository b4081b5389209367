--------------------------- MODULE RtpengineControl ---------------------------
(***************************************************************************)
(* The RTPengine side of one call: OFFER and ANSWER of                     *)
(* handle_b2bua_invite_rtpengine with the retries of                       *)
(* retry_rtpengine_control, and the QUERY and DELETE of                    *)
(* _delete_rtpengine_call.                                                 *)
(*                                                                         *)
(* Commands are datagrams, one socket and one cookie each.  A command or   *)
(* its reply may be lost, and a command that was given up may still be     *)
(* carried out later; its reply is then dropped.  Either party may hang    *)
(* up while the task waits for RTPengine.                                  *)
(***************************************************************************)
EXTENDS Integers, FiniteSets

CONSTANTS
  Attempts,       \* attempts of retry_rtpengine_control
  QueryAttempts   \* attempts of query_rtpengine_until_stable

ASSUME ControlAssumption == Attempts \in Nat \ {0} /\ QueryAttempts \in Nat \ {0}

VARIABLES
  invite,   \* the task of handle_b2bua_invite_rtpengine
  delete,   \* the task of _delete_rtpengine_call
  sent,     \* commands under way to RTPengine
  replies,  \* replies under way, with the command's number
  engine,   \* what RTPengine keeps for the Call-ID
  b2bua,      \* B2BUACall: registered, finalized, its finalizer, what A was told
  disturbed \* history: a command or a reply was lost or came too late, or the
            \* reply to an OFFER had no SDP

controlVars == <<invite, delete, sent, replies, engine, b2bua, disturbed>>

(***************************************************************************)
(* A task waits for the reply to its latest command.                       *)
(***************************************************************************)
NoTask == [step |-> "none", attempt |-> 0]

\* The cookie of a command: its task, its step and its attempt.
Cookie(task) == [command |-> task.step, attempt |-> task.attempt]
Issue(task) == sent' = sent \cup {Cookie(task)}
NextAttempt(task) == [task EXCEPT !.attempt = @ + 1]
First(step) == [step |-> step, attempt |-> 1]

Replied(task, ok) == [cookie |-> Cookie(task), ok |-> ok] \in replies
GotReply(task) ==
  replies' = {r \in replies : r.cookie # Cookie(task)}

(***************************************************************************)
(* RTPengine.                                                              *)
(***************************************************************************)
Executed(c) ==
  CASE c.command = "offer" -> IF engine = "none" THEN "offered" ELSE engine
    [] c.command = "answer" -> IF engine = "none" THEN "none" ELSE "answered"
    [] c.command = "query" -> engine
    [] c.command = "delete" -> "none"

\* An offer may be refused; the others need the session.  "ok" without SDP is
\* an error to the task that sent the command.
Execute(c) ==
  /\ c \in sent
  /\ sent' = sent \ {c}
  /\ \/ /\ engine' = Executed(c)
        /\ replies' = replies \cup
             {[cookie |-> c, ok |-> c.command = "offer" \/ engine # "none"]}
        /\ UNCHANGED disturbed
     \/ /\ c.command = "offer"
        /\ replies' = replies \cup {[cookie |-> c, ok |-> FALSE]}
        /\ UNCHANGED <<engine, disturbed>>
     \/ /\ c.command \in {"offer", "answer"}
        /\ engine' = Executed(c)
        /\ replies' = replies \cup {[cookie |-> c, ok |-> FALSE]}
        /\ disturbed' = (disturbed \/ c.command = "offer")
  /\ UNCHANGED <<invite, delete, b2bua>>

LoseCommand(c) ==
  /\ sent' = sent \ {c} /\ disturbed' = TRUE
  /\ UNCHANGED <<invite, delete, replies, engine, b2bua>>

LoseReply(r) ==
  /\ replies' = replies \ {r} /\ disturbed' = TRUE
  /\ UNCHANGED <<invite, delete, sent, engine, b2bua>>

(***************************************************************************)
(* The end of a call.                                                      *)
(***************************************************************************)
Ended(l) == [l EXCEPT !.finalized = TRUE, !.registered = FALSE]

\* finalize_b2bua_call: the delete task is created once.
MutantFinalize(l) == b2bua' = Ended(l) /\ UNCHANGED <<delete, sent>>
Finalize(l) ==
  /\ b2bua' = Ended(l)
  /\ IF b2bua.finalized THEN UNCHANGED <<delete, sent>>
     ELSE delete' = First("query") /\ Issue(First("query"))

(***************************************************************************)
(* The invite task.                                                        *)
(***************************************************************************)
MutantTellA(what) == [b2bua EXCEPT !.told = IF b2bua.finalized THEN @ ELSE what]
TellA(what) == [b2bua EXCEPT !.told = what]

\* No client is configured, or an interface it needs is missing.
NoEngine ==
  /\ invite.step = "none"
  /\ invite' = First("done") /\ b2bua' = TellA("refused")
  /\ UNCHANGED <<delete, sent, replies, engine, disturbed>>

Begin ==
  /\ invite.step = "none"
  /\ invite' = First("offer") /\ Issue(First("offer"))
  /\ UNCHANGED <<delete, replies, engine, b2bua, disturbed>>

\* The attempts are used up, or RTPengine answers with an error.
MutantLastAttempt == FALSE
LastAttempt == invite.attempt >= Attempts
Failing == Replied(invite, FALSE) \/ LastAttempt

Retry ==
  /\ invite.step \in {"offer", "answer"}
  /\ ~Replied(invite, TRUE) /\ ~Failing
  /\ invite' = NextAttempt(invite) /\ Issue(NextAttempt(invite))
  /\ disturbed' = TRUE
  /\ UNCHANGED <<delete, replies, engine, b2bua>>

\* Given up: a command may still be under way.
GivenUp == disturbed' = (disturbed \/ ~Replied(invite, FALSE))

\* 488; the call does not exist yet, and nothing is deleted.
OfferFails ==
  /\ invite.step = "offer" /\ ~Replied(invite, TRUE) /\ Failing
  /\ invite' = First("done") /\ b2bua' = TellA("refused") /\ GivenUp
  /\ GotReply(invite)
  /\ UNCHANGED <<delete, sent, engine>>

Offered ==
  /\ invite.step = "offer" /\ Replied(invite, TRUE)
  /\ invite' = First("ringing") /\ GotReply(invite)
  /\ b2bua' = [b2bua EXCEPT !.registered = TRUE]
  /\ UNCHANGED <<delete, sent, engine, disturbed>>

\* B refuses, or nobody answers in time: cleanup_b2bua_call.
BRefuses ==
  /\ invite.step = "ringing"
  /\ invite' = First("done") /\ Finalize(TellA("refused"))
  /\ UNCHANGED <<replies, engine, disturbed>>

\* A 2xx of B reaches the queue only while the call is registered.
BAnswers ==
  /\ invite.step = "ringing" /\ b2bua.registered
  /\ invite' = First("answer") /\ Issue(First("answer"))
  /\ UNCHANGED <<delete, replies, engine, b2bua, disturbed>>

\* ACK and BYE to B, 488 to A, cleanup_b2bua_call.
AnswerFails ==
  /\ invite.step = "answer" /\ ~Replied(invite, TRUE) /\ Failing
  /\ invite' = First("done") /\ Finalize(TellA("refused")) /\ GivenUp
  /\ GotReply(invite)
  /\ UNCHANGED engine

\* 200; whether the call was finalized meanwhile is not looked at.
MutantAnswered == invite.step = "answer" /\ (Replied(invite, TRUE) \/ LastAttempt)
Answered == invite.step = "answer" /\ Replied(invite, TRUE)
AnswerSucceeds ==
  /\ Answered
  /\ invite' = First("done") /\ b2bua' = TellA("answered") /\ GotReply(invite)
  /\ UNCHANGED <<delete, sent, engine, disturbed>>

(***************************************************************************)
(* Either party hangs up; the finalizer runs two seconds later.            *)
(***************************************************************************)
HangsUp ==
  /\ b2bua.registered /\ ~b2bua.finalizer
  /\ b2bua' = [b2bua EXCEPT !.finalizer = TRUE]
  /\ UNCHANGED <<invite, delete, sent, replies, engine, disturbed>>

FinalizeLater ==
  /\ b2bua.finalizer
  /\ Finalize([b2bua EXCEPT !.finalizer = FALSE])
  /\ UNCHANGED <<invite, replies, engine, disturbed>>

(***************************************************************************)
(* _delete_rtpengine_call.                                                 *)
(***************************************************************************)

\* Two samples that agree, or the last one: the model takes any number.
QueryAgain ==
  /\ delete.step = "query" /\ delete.attempt < QueryAttempts
  /\ delete' = NextAttempt(delete) /\ Issue(NextAttempt(delete))
  /\ GotReply(delete)
  /\ disturbed' = (disturbed \/ \A ok \in BOOLEAN : ~Replied(delete, ok))
  /\ UNCHANGED <<invite, engine, b2bua>>

MutantSampled == \E ok \in BOOLEAN : Replied(delete, ok)
Sampled == (\E ok \in BOOLEAN : Replied(delete, ok)) \/ delete.attempt = QueryAttempts

Queried ==
  /\ delete.step = "query" /\ Sampled
  /\ delete' = First("delete") /\ Issue(First("delete"))
  /\ GotReply(delete)
  /\ disturbed' = (disturbed \/ \A ok \in BOOLEAN : ~Replied(delete, ok))
  /\ UNCHANGED <<invite, engine, b2bua>>

\* DELETE is sent once.
Deleted ==
  /\ delete.step = "delete"
  /\ delete' = First("done") /\ GotReply(delete)
  /\ disturbed' = (disturbed \/ \A ok \in BOOLEAN : ~Replied(delete, ok))
  /\ UNCHANGED <<invite, sent, engine, b2bua>>

ControlInit ==
  /\ invite = NoTask /\ delete = NoTask
  /\ sent = {} /\ replies = {} /\ engine = "none"
  /\ b2bua = [registered |-> FALSE, finalized |-> FALSE, finalizer |-> FALSE,
            told |-> "nothing"]
  /\ disturbed = FALSE

InviteTask == Retry \/ OfferFails \/ Offered \/ BRefuses \/ BAnswers
              \/ AnswerFails \/ AnswerSucceeds
DeleteTask == QueryAgain \/ Queried \/ Deleted

ControlNext ==
  \/ NoEngine \/ Begin \/ InviteTask \/ DeleteTask \/ HangsUp \/ FinalizeLater
  \/ \E c \in sent : Execute(c) \/ LoseCommand(c)
  \/ \E r \in replies : LoseReply(r)

\* Timers fire and tasks run; the network and RTPengine owe nothing.
ControlFairness == WF_controlVars(InviteTask) /\ WF_controlVars(DeleteTask)
ControlSpec == ControlInit /\ [][ControlNext]_controlVars /\ ControlFairness

(***************************************************************************)
(* Properties                                                              *)
(***************************************************************************)

Task == [step : {"none", "offer", "ringing", "answer", "query", "delete", "done"},
         attempt : Nat]
ControlTypeOK ==
  /\ invite \in Task /\ invite.attempt <= Attempts
  /\ delete \in Task /\ delete.attempt <= QueryAttempts
  /\ engine \in {"none", "offered", "answered"}
  /\ b2bua \in [registered : BOOLEAN, finalized : BOOLEAN, finalizer : BOOLEAN,
              told : {"nothing", "refused", "answered"}]

\* A call that A was told is answered has its media in RTPengine until it is
\* finalized, whatever commands were lost, retried or carried out late.
AnsweredHasMedia ==
  b2bua.told = "answered" /\ ~b2bua.finalized => engine = "answered"

\* When nothing was lost and the reply to the OFFER had its SDP, a call that is
\* over leaves no session in RTPengine, though the hangup may come while the
\* ANSWER is under way and the reply to it may lack its SDP.
AtRest == sent = {} /\ delete.step \in {"none", "done"} /\ invite.step = "done"
SessionReleased ==
  ~disturbed /\ AtRest /\ b2bua.told # "nothing" /\ (b2bua.finalized \/ ~b2bua.registered)
    => engine = "none"

\* The caller's INVITE ends whatever RTPengine does, and so does the task that
\* deletes the session.
InviteAnswered == invite.step = "offer" ~> b2bua.told # "nothing"
DeleteEnds == delete.step = "query" ~> delete.step = "done"

\* docs/BUSINESS_CALLING_SERVICES.md:142: "no PlaySBC or RTPengine session
\* leaks", here with lost and late datagrams too.
NoSessionLeak ==
  AtRest /\ b2bua.told # "nothing" /\ (b2bua.finalized \/ ~b2bua.registered)
    => engine = "none"

\* A is not told that a call is answered which the SBC has already ended.
NoAnswerAfterEnd ==
  [][b2bua.told = "nothing" /\ b2bua'.told = "answered" => ~b2bua.finalized]_controlVars
=============================================================================
