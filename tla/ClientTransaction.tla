------------------------- MODULE ClientTransaction -------------------------
(***************************************************************************)
(* ClientTransactionManager: the client transactions of the requests the   *)
(* SBC sends, one manager per transport.  Its environment is the peer that *)
(* answers, late or twice or never, the stream that breaks, and the server *)
(* that starts the requests; the callbacks it makes are recorded in told.  *)
(*                                                                         *)
(* Time is a number of ticks to the next deadline; a tick comes once every *)
(* task that is due has run.  Responses, transport errors and the tasks    *)
(* due at one tick come in any order.                                      *)
(***************************************************************************)
EXTENDS Integers, FiniteSets

CONSTANTS
  Keys,        \* transaction keys: branch, sent-by, method, CSeq, Call-ID
  Invites,     \* the keys of INVITE requests
  Reliable,    \* the keys of requests sent over TCP or TLS
  T1, T2,      \* pauses between retransmissions, in ticks
  T4,          \* Timer K: how long a completed non-INVITE is kept
  TimerB, TimerF, TimerC,  \* the timeouts, C after a provisional response
  TimerD,      \* how long a failed INVITE is kept
  Linger       \* 64 * T1, how long an accepted INVITE is kept

ASSUME KeyAssumption == Invites \subseteq Keys /\ Reliable \subseteq Keys
ASSUME TimerAssumption ==
  /\ {T1, T2, T4, TimerB, TimerF, TimerC, TimerD, Linger} \subseteq Nat \ {0}
  /\ T1 <= T2

VARIABLES
  txn,    \* the table of transactions
  told    \* history: the outcomes the owner of the request was given

vars == <<txn, told>>

NoTimer == -1

\* The longest pause of a retransmission: those of an INVITE double until
\* Timer B ends them, the others stop at T2.
MaxPause(k) == IF k \in Invites THEN TimerB + T1 ELSE T2

Unanswered == {"CALLING", "TRYING", "PROCEEDING"}
Answered == {"ACCEPTED", "COMPLETED"}

Upto(S) == {NoTimer} \cup UNION {0..d : d \in S}

Txn(k) ==
  [ state      : {"ABSENT"} \cup Unanswered \cup Answered,
    retransmit : Upto({MaxPause(k)}),   \* ticks to the next retransmission
    interval   : 0..MaxPause(k),
    timeout    : Upto({TimerB, TimerC, TimerF}),
    cleanup    : Upto({TimerD, T4, Linger}) ]

Absent == [ state |-> "ABSENT", retransmit |-> NoTimer, interval |-> 0,
            timeout |-> NoTimer, cleanup |-> NoTimer ]

TypeOK ==
  /\ DOMAIN txn = Keys /\ \A k \in Keys : txn[k] \in Txn(k)
  /\ told \in [Keys -> SUBSET {"success", "failure", "timeout", "error"}]

Init == txn = [k \in Keys |-> Absent] /\ told = [k \in Keys |-> {}]

Tell(k, outcome) == told' = [told EXCEPT ![k] = @ \cup {outcome}]

-----------------------------------------------------------------------------
(* Timers.                                                                 *)

\* cancel_retransmission.
Quiet(x) == [x EXCEPT !.retransmit = NoTimer, !.interval = 0]

\* Every 1xx restarts the timeout of an INVITE, as Timer C.
MutantProvisionalOf(k, x) ==
  IF k \in Invites
  THEN [x EXCEPT !.state = "PROCEEDING", !.timeout = TimerC]
  ELSE [x EXCEPT !.state = "PROCEEDING"]
ProvisionalOf(k, x) ==
  IF k \in Invites
  THEN Quiet([x EXCEPT !.state = "PROCEEDING", !.timeout = TimerC])
  ELSE [x EXCEPT !.state = "PROCEEDING"]

\* The state and lifetime a final response gives; _schedule_cleanup forgets a
\* transaction with no lifetime at once.
MutantKept(x, state, delay) ==
  IF delay = 0 THEN Absent
  ELSE [Quiet(x) EXCEPT !.state = state, !.cleanup = delay]
Kept(x, state, delay) ==
  IF delay = 0 THEN Absent
  ELSE [Quiet(x) EXCEPT !.state = state, !.timeout = NoTimer, !.cleanup = delay]

MutantFinalOf(k, x, status) ==
  [Quiet(x) EXCEPT !.state = IF k \in Invites /\ status = "success"
                             THEN "ACCEPTED" ELSE "COMPLETED",
                   !.timeout = NoTimer]
FinalOf(k, x, status) ==
  IF k \in Invites /\ status = "success"
  THEN Kept(x, "ACCEPTED", Linger)
  ELSE Kept(x, "COMPLETED",
            IF k \in Reliable THEN 0 ELSE IF k \in Invites THEN TimerD ELSE T4)

\* The pause of _retransmit after the one that just ended.
MutantBackOff(k, x) == 2 * x.interval
BackOff(k, x) ==
  CASE k \in Invites -> 2 * x.interval
    [] k \notin Invites /\ x.state = "PROCEEDING" -> T2
    [] k \notin Invites /\ x.state # "PROCEEDING" ->
         IF 2 * x.interval < T2 THEN 2 * x.interval ELSE T2

-----------------------------------------------------------------------------
(* Operations.                                                             *)

\* start_request raises when the key is in use.
Start(k) ==
  /\ txn[k] = Absent
  /\ txn' = [txn EXCEPT ![k] =
       [ state |-> IF k \in Invites THEN "CALLING" ELSE "TRYING",
         retransmit |-> IF k \in Reliable THEN NoTimer ELSE T1,
         interval |-> IF k \in Reliable THEN 0 ELSE T1,
         timeout |-> IF k \in Invites THEN TimerB ELSE TimerF,
         cleanup |-> NoTimer ]]
  /\ told' = [told EXCEPT ![k] = {}]

\* receive_response.  A response to an answered transaction is handed to the
\* server again and changes nothing here; one without a transaction is not.
Provisional(k) ==
  /\ txn[k].state \in Unanswered
  /\ txn' = [txn EXCEPT ![k] = ProvisionalOf(k, @)]
  /\ UNCHANGED told

Final(k, status) ==
  /\ txn[k].state \in Unanswered
  /\ txn' = [txn EXCEPT ![k] = FinalOf(k, @, status)]
  /\ Tell(k, status)

\* transport_error, for the keys whose destination failed; on_transport_error
\* is called for each.
TransportError(keys) ==
  LET failed == {k \in keys : txn[k].state \in Unanswered} IN
  /\ failed # {}
  /\ txn' = [k \in Keys |-> IF k \in failed THEN Absent ELSE txn[k]]
  /\ told' = [k \in Keys |-> IF k \in failed THEN told[k] \cup {"error"} ELSE told[k]]

-----------------------------------------------------------------------------
(* Tasks.                                                                  *)

Retransmit(k) ==
  /\ txn[k].retransmit = 0
  /\ LET pause == BackOff(k, txn[k]) IN
     txn' = [txn EXCEPT ![k].retransmit = pause, ![k].interval = pause]
  /\ UNCHANGED told

\* _timeout: Timers B, C and F.
Timeout(k) ==
  /\ txn[k].timeout = 0
  /\ txn' = [txn EXCEPT ![k] = Absent]
  /\ Tell(k, "timeout")

\* _cleanup: Timers D and K and the end of Accepted.
Cleanup(k) ==
  /\ txn[k].cleanup = 0
  /\ txn' = [txn EXCEPT ![k] = Absent]
  /\ UNCHANGED told

Due(k) == 0 \in {txn[k].retransmit, txn[k].timeout, txn[k].cleanup}
Less(n) == IF n > 0 THEN n - 1 ELSE n

Tick ==
  /\ \A k \in Keys : ~Due(k)
  /\ txn' = [k \in Keys |-> [txn[k] EXCEPT !.retransmit = Less(@),
                                           !.timeout = Less(@),
                                           !.cleanup = Less(@)]]
  /\ txn' # txn
  /\ UNCHANGED told

Next ==
  \/ Tick
  \/ \E keys \in SUBSET Reliable : TransportError(keys)
  \/ \E k \in Keys :
       \/ Start(k) \/ Provisional(k)
       \/ \E status \in {"success", "failure"} : Final(k, status)
       \/ Retransmit(k) \/ Timeout(k) \/ Cleanup(k)

Spec == Init /\ [][Next]_vars

\* Time passes and the loop runs the tasks that are due; the peer owes nothing.
FairSpec ==
  /\ Spec /\ WF_vars(Tick)
  /\ \A k \in Keys : WF_vars(Retransmit(k)) /\ WF_vars(Timeout(k)) /\ WF_vars(Cleanup(k))

-----------------------------------------------------------------------------
(* Properties.                                                             *)

\* The owner of a request is given one outcome, never a timeout or an error
\* after an answer, whatever responses, errors and timers meet at one tick.
OutcomeOnce == \A k \in Keys : Cardinality(told[k]) <= 1

\* A request is resent only while it may help: an INVITE never after a 1xx, no
\* request after its final response, and nothing over a reliable transport.
QuietAfterAnswer ==
  \A k \in Keys :
    txn[k].retransmit # NoTimer =>
      /\ k \notin Reliable
      /\ txn[k].state \in (IF k \in Invites THEN {"CALLING"} ELSE {"TRYING", "PROCEEDING"})

\* No transaction can stay in the table for ever: each has a deadline, the
\* timeout while it is unanswered and the cleanup afterwards, never both.
DeadlineArmed ==
  \A k \in Keys :
    txn[k] # Absent => (txn[k].timeout # NoTimer) # (txn[k].cleanup # NoTimer)

\* The owner of a request is given one outcome, a request is resent only while
\* no answer came, and no transaction is left without a deadline, whatever
\* responses, transport errors and timers meet.
ClientSafe == OutcomeOnce /\ QuietAfterAnswer /\ DeadlineArmed

\* A non-INVITE request always has an outcome: unlike Timer C of an INVITE,
\* Timer F is not restarted by the 1xx that keep coming.
NonInviteEnds ==
  \A k \in Keys \ Invites : (txn[k].state \in Unanswered) ~> (told[k] # {})

=============================================================================
