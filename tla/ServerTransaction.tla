------------------------- MODULE ServerTransaction -------------------------
(***************************************************************************)
(* TransactionManager: the server transactions of the requests the SBC     *)
(* receives over UDP, with the two callers that write to it: the handler   *)
(* of the request (handle_message, through send_response) and the overload *)
(* gate of receive_sip_data, which answers 503 before the transaction is   *)
(* looked up.                                                              *)
(*                                                                         *)
(* Time is a number of ticks to the next deadline.  An expiry task always  *)
(* sleeps until the expires_at of its transaction, so one countdown stands *)
(* for both; cleanup_expired may remove the transaction before the task    *)
(* wakes.  A tick may come while a task is due: the loop can be late.      *)
(***************************************************************************)
EXTENDS Integers, FiniteSets

CONSTANTS
  Keys,      \* transaction keys: branch, sent-by, method, CSeq number
  Invites,   \* the keys of INVITE requests
  Reliable,  \* the keys whose top Via names TCP, TLS or WebSocket
  SameCall,  \* SameCall[k]: keys that differ from k in branch or sent-by only
  T1, T2, T4, TimerH,  \* the timers in ticks, TimerH the transaction_timeout
  Shedding   \* the overload controller is enabled and may shed any request

ASSUME KeyAssumption ==
  /\ Invites \subseteq Keys
  /\ Reliable \subseteq Keys
  /\ SameCall \in [Keys -> SUBSET Keys]
  /\ \A k \in Keys : k \notin SameCall[k]
  /\ \A k \in Keys : \A j \in SameCall[k] : k \in SameCall[j]
ASSUME TimerAssumption ==
  /\ T1 \in Nat \ {0} /\ T2 \in Nat /\ T4 \in Nat /\ TimerH \in Nat
  /\ T1 <= T2 /\ T4 <= TimerH
ASSUME SheddingAssumption == Shedding \in BOOLEAN

VARIABLES
  txn,     \* the table of transactions
  tu,      \* what the handler of each request does
  finals,  \* history: the final responses sent for each key
  acked    \* history: the keys whose ACK arrived

vars == <<txn, tu, finals, acked>>

NoTime == -1
NoResponse == "none"

Txn == [ state    : {"ABSENT", "TRYING", "PROCEEDING", "ACCEPTED",
                     "COMPLETED", "CONFIRMED"},
         cached   : {NoResponse, "1xx", "2xx", "fail", "482", "503"},
         merging  : BOOLEAN,          \* stored with a merge_id
         expires  : {NoTime} \cup 0..TimerH,
         task     : {"none", "running", "ended"},  \* retransmit_task
         wake     : 0..T2,            \* ticks to its next retransmission
         interval : 0..T2 ]

TypeOK ==
  /\ txn \in [Keys -> Txn]
  /\ tu \in [Keys -> {"idle", "working"}]
  /\ finals \in [Keys -> SUBSET {"2xx", "fail", "482", "503"}]
  /\ acked \in SUBSET Keys

Absent == [ state |-> "ABSENT", cached |-> NoResponse, merging |-> FALSE,
            expires |-> NoTime, task |-> "none", wake |-> 0, interval |-> 0 ]

Init ==
  /\ txn = [k \in Keys |-> Absent]
  /\ tu = [k \in Keys |-> "idle"]
  /\ finals = [k \in Keys |-> {}]
  /\ acked = {}

Has(t, k) == t[k].state # "ABSENT"

-----------------------------------------------------------------------------
(* TransactionManager.                                                     *)

\* cleanup_expired, run when a request is looked up.
Cleaned(t) == [k \in Keys |-> IF t[k].expires = 0 THEN Absent ELSE t[k]]

Started(t, k, merging) ==
  [t EXCEPT ![k] = [Absent EXCEPT !.state = "TRYING", !.merging = merging]]

\* The same logical request is in the table under another branch.
MutantMerged(t, k) == \E j \in SameCall[k] : t[j].state = "TRYING" /\ t[j].merging
Merged(t, k) == \E j \in SameCall[k] : Has(t, j) /\ t[j].merging

\* The next pause of Timer G.
MutantBackOff(i) == 2 * i
BackOff(i) == IF 2 * i < T2 THEN 2 * i ELSE T2

\* _start_invite_retransmissions: a task that ended is still remembered and
\* not started again.
MutantRetransmitting(x) == x
Retransmitting(x) ==
  IF x.task = "none"
  THEN [x EXCEPT !.task = "running", !.wake = T1, !.interval = T1]
  ELSE x

\* cache_response on an existing transaction: only a final response sets the
\* deadline, and a provisional response leaves an earlier one in place.
Cached(k, x, status) ==
  LET y == [x EXCEPT !.cached = status]
      completed == [y EXCEPT !.state = "COMPLETED", !.expires = TimerH]
  IN
  CASE status = "1xx" -> [y EXCEPT !.state = "PROCEEDING"]
    [] status = "2xx" /\ k \in Invites ->
         [y EXCEPT !.state = "ACCEPTED", !.expires = TimerH]
    [] status \notin {"1xx", "2xx"} /\ k \in Invites ->
         IF k \in Reliable THEN completed ELSE Retransmitting(completed)
    [] status # "1xx" /\ k \notin Invites ->
         IF k \in Reliable THEN Absent ELSE completed

\* A response to a key without a transaction creates one, with no merge_id.
CacheResponse(t, k, status) ==
  LET u == IF Has(t, k) THEN t ELSE Started(Cleaned(t), k, FALSE) IN
  [u EXCEPT ![k] = Cached(k, u[k], status)]

\* Sending a response: what leaves and what the table keeps.
Sends(t, k, status) ==
  /\ txn' = CacheResponse(t, k, status)
  /\ finals' = IF status = "1xx" THEN finals
               ELSE [finals EXCEPT ![k] = @ \cup {status}]

-----------------------------------------------------------------------------
(* Requests.                                                               *)

\* A new request goes to its handler; a retransmission only replays the
\* cached response; a merged request is answered 482.
Receive(k) ==
  LET t == Cleaned(txn) IN
  /\ IF Has(t, k)
     THEN txn' = t /\ UNCHANGED <<tu, finals>>
     ELSE IF Merged(t, k)
     THEN Sends(t, k, "482") /\ UNCHANGED tu
     ELSE /\ txn' = Started(t, k, TRUE)
          /\ tu' = [tu EXCEPT ![k] = "working"]
          /\ UNCHANGED finals
  /\ UNCHANGED acked

\* receive_sip_data: 503 without looking at the transaction.
Shed(k) ==
  /\ Shedding
  /\ Sends(txn, k, "503")
  /\ UNCHANGED <<tu, acked>>

Respond(k, status) ==
  /\ tu[k] = "working"
  /\ Sends(txn, k, status)
  /\ tu' = IF status = "1xx" THEN tu ELSE [tu EXCEPT ![k] = "idle"]
  /\ UNCHANGED acked

\* acknowledge_invite, for an ACK with the branch of its INVITE.
MutantConfirmed(k, x) ==
  [x EXCEPT !.state = "CONFIRMED", !.expires = NoTime, !.task = "none",
            !.wake = 0, !.interval = 0]
Confirmed(k, x) ==
  IF k \in Reliable THEN Absent
  ELSE [x EXCEPT !.state = "CONFIRMED", !.expires = T4, !.task = "none",
                 !.wake = 0, !.interval = 0]

MutantMatches(k, j) == j = k \/ j \in SameCall[k]
Matches(k, j) == j = k

Ack(k) ==
  /\ k \in Invites
  /\ finals[k] # {}
  /\ acked' = acked \cup {k}
  /\ LET found == {j \in Keys : Matches(k, j) /\ txn[j].state = "COMPLETED"}
     IN IF found = {} THEN UNCHANGED txn
        ELSE \E j \in found : txn' = [txn EXCEPT ![j] = Confirmed(j, @)]
  /\ UNCHANGED <<tu, finals>>

-----------------------------------------------------------------------------
(* Timers.                                                                 *)

\* _retransmit_invite_response, each time its sleep ends.
Retransmit(k) ==
  /\ txn[k].task = "running"
  /\ txn[k].wake = 0
  /\ txn' = CASE txn[k].state # "COMPLETED" ->
                   [txn EXCEPT ![k].task = "ended", ![k].interval = 0]
              [] txn[k].state = "COMPLETED" /\ txn[k].expires = 0 ->
                   Cleaned(txn)
              [] txn[k].state = "COMPLETED" /\ txn[k].expires # 0 ->
                   [txn EXCEPT ![k].wake = BackOff(txn[k].interval),
                               ![k].interval = BackOff(@)]
  /\ UNCHANGED <<tu, finals, acked>>

\* _expire_transaction: Timers H, I, J and the end of Accepted.
Expire(k) ==
  /\ txn[k].expires = 0
  /\ txn' = [txn EXCEPT ![k] = Absent]
  /\ UNCHANGED <<tu, finals, acked>>

Less(n) == IF n > 0 THEN n - 1 ELSE n

Tick ==
  /\ txn' = [k \in Keys |-> [txn[k] EXCEPT !.expires = Less(@),
                                           !.wake = Less(@)]]
  /\ txn' # txn
  /\ UNCHANGED <<tu, finals, acked>>

-----------------------------------------------------------------------------
Next ==
  \/ Tick
  \/ \E k \in Keys :
       \/ Receive(k) \/ Shed(k) \/ Ack(k)
       \/ \E status \in {"1xx", "2xx", "fail"} : Respond(k, status)
       \/ Retransmit(k) \/ Expire(k)

Spec == Init /\ [][Next]_vars

\* Time passes and the loop runs the tasks that are due.  Nothing is assumed
\* of the peers, nor that a handler ever responds.
FairSpec ==
  Spec /\ WF_vars(Tick) /\ \A k \in Keys : WF_vars(Retransmit(k)) /\ WF_vars(Expire(k))

-----------------------------------------------------------------------------
(* Properties.  The overload gate disturbs the requests it answers, and    *)
(* only those: the first three say what is kept for all the others.        *)

Shedded(k) == "503" \in finals[k]

\* The transaction of a request whose handler still works stays in the table,
\* so that a retransmission is absorbed and a CANCEL can find its INVITE.
PendingKept ==
  \A k \in Keys : (tu[k] = "working" /\ ~Shedded(k)) => Has(txn, k)

\* The same logical request is never handled twice at a time, although its
\* copies arrive under different branches and old transactions expire.
MergedOnce ==
  \A k \in Keys : \A j \in SameCall[k] :
    (tu[k] = "working" /\ tu[j] = "working") => Shedded(k) \/ Shedded(j)

\* "Final INVITE non-2xx responses use Timer G on unreliable transports until
\* transaction ACK or Timer H": a Completed INVITE always has a live task.
TimerGRuns ==
  \A k \in Invites \ Reliable :
    (txn[k].state = "COMPLETED" /\ ~Shedded(k)) => txn[k].task = "running"

\* Apart from shed requests: the transaction of a request at work stays in the
\* table, no copy of it under another branch is handled beside it, and its
\* failure is resent until its own ACK or Timer H, whatever other lookups,
\* copies and expiries come in between.
ServedOnce == PendingKept /\ MergedOnce /\ TimerGRuns

\* A transaction that has its final response is forgotten in the end, by its
\* expiry task, by Timer G or by the lookup of another request, however often
\* the request or its ACK is retransmitted; its key may then serve a new
\* transaction.  (A merged copy that keeps coming gets a new 482 transaction
\* in the very step that forgets the old one, so this is for SameCall[k] = {}.)
Final(k) == txn[k].state \in {"ACCEPTED", "COMPLETED", "CONFIRMED"}

FinalsForgotten == \A k \in Keys : (Final(k) /\ SameCall[k] = {}) ~> ~Final(k)

\* An ACK confirms the transaction of its own branch and no other, also with
\* shedding and with a merged copy of the INVITE waiting for its ACK.
AckPrecise ==
  [][\A k \in Keys :
       (txn[k].state # "CONFIRMED" /\ txn'[k].state = "CONFIRMED")
         => k \in acked']_vars

\* "Duplicate UDP server requests replay the cached response without
\* repeating application actions": while the handler works, no final response
\* was sent for its request.  The overload gate breaks it.
PendingUnanswered ==
  \A k \in Keys : (tu[k] = "working" /\ Has(txn, k)) => finals[k] = {}

\* The sentence TimerGRuns quotes, for every INVITE.  After a shed 503 and a
\* 1xx the ended task is still remembered, and the real failure is sent once.
TimerGAlwaysRuns ==
  \A k \in Invites \ Reliable :
    txn[k].state = "COMPLETED" => txn[k].task = "running"

=============================================================================
