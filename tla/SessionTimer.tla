------------------------------ MODULE SessionTimer ------------------------------
(***************************************************************************)
(* The dialog of one Call-ID and its session timer: DialogManager and      *)
(* SipDialog, the handlers of INVITE, ACK, UPDATE and BYE that use them,   *)
(* the row the nodes share, and the task that hangs an expired session up. *)
(*                                                                         *)
(* The caller may use its Call-ID for a second call.  Time is kept as what *)
(* is left of each deadline; Never is a deadline that is not set.  A node  *)
(* can die; its tables and its tasks are lost, the shared rows stay.       *)
(***************************************************************************)
EXTENDS Integers, FiniteSets

CONSTANTS
  Nodes,
  NoNode,
  Interval,    \* of a session, in ticks
  FinalDelay,  \* of the finalizer, in ticks
  MaxInvites,  \* bound: calls with the Call-ID
  MaxCSeq,     \* bound: requests of a call
  Patient,     \* the caller calls again after the finalizer of its last call
  Balanced     \* the requests of a call reach any node, not one until it dies

ASSUME SessionAssumption ==
  /\ NoNode \notin Nodes /\ IsFiniteSet(Nodes)
  /\ Interval \in Nat \ {0} /\ FinalDelay \in Nat \ {0}
  /\ MaxInvites \in Nat \ {0} /\ MaxCSeq \in Nat \ {0} /\ Patient \in BOOLEAN /\ Balanced \in BOOLEAN

VARIABLES
  up,        \* nodes that run
  home,      \* the node the caller's requests reach
  dialogs,   \* each node's DialogManager.dialogs entry
  timer,     \* each node's session_timer_tasks entry: what is left of its sleep
  legs,     \* each node's b2bua_calls_by_inbound entry
  final,     \* each node's scheduled finalizers
  gone,      \* each node's recently_finalized_b2bua_call_ids: calls finalized
  row,       \* the dialog's row
  callRow,   \* the call's row: its number, or 0
  owner,     \* the dialog's owner
  caller,    \* A: its call, and what is left of the session it agreed to
  byes       \* history: the BYEs that left for a party: <<call, party, why>>

sessionVars ==
  <<up, home, dialogs, timer, legs, final, gone, row, callRow, owner, caller, byes>>

Never == -1
Later(left) == IF left > 0 THEN left - 1 ELSE left

\* SipDialog: state, remote_cseq and session_expires_at.
NoDialog == [state |-> "none", cseq |-> 0, expires |-> Never]
Absent(d) == d.state = "none"

NoCall == [of |-> 0, a |-> FALSE, b |-> FALSE]
CallNumber(k) == [of |-> k, a |-> FALSE, b |-> FALSE]

\* claim_dialog without takeover; save_dialog raises where it fails.
MayClaim(n, o) == o \in {NoNode, n}
Claimed(n, o) == IF MayClaim(n, o) THEN n ELSE o

\* restore_b2bua_call_state: the call of the node, or of the shared row, which
\* makes the node its owner.
Restores(n) == legs[n].of = 0 /\ callRow # 0
CallAt(n) == IF Restores(n) THEN CallNumber(callRow) ELSE legs[n]
OwnerAfter(n) == IF Restores(n) THEN n ELSE owner

(***************************************************************************)
(* DialogManager on the shared rows                                        *)
(***************************************************************************)
\* The node's dialog if the operation fits it (mine), or the one that
\* restore_dialog_state loads if the operation fits that (shared).
Fitting(n, mine, shared) == IF mine THEN dialogs[n] ELSE IF shared THEN row ELSE NoDialog
\* restore_dialog_state takes the ownership whether the operation fits or not.
TakesOver(mine) == ~mine /\ ~Absent(row)

Acknowledgeable(cseq, d) == d.state = "ANSWERED" /\ d.cseq = cseq
Terminable(cseq, d) == d.state = "ANSWERED" /\ cseq > d.cseq
Terminated(d, c) == [d EXCEPT !.state = "TERMINATED", !.cseq = c]

\* save_dialog_state of a dialog that changed, by a node that may claim it.
MutantSaved(n, d, o) == IF MayClaim(n, o) /\ ~Absent(dialogs[n]) THEN d ELSE row
Saved(n, d, o) == IF MayClaim(n, o) THEN d ELSE row

(***************************************************************************)
(* INVITE                                                                  *)
(***************************************************************************)
Reusable(d) == d.state \in {"none", "TERMINATED"}

\* The environment: the caller's next call.
CallsNow(n) ==
  /\ n = home /\ n \in up /\ caller.state = "idle" /\ caller.of < MaxInvites
  /\ Patient => \A m \in Nodes : final[m] = {}

\* A new INVITE: create_invite, mark_ringing, save_dialog_state.
InviteArrives(n) ==
  /\ CallsNow(n)
  /\ Reusable(dialogs[n]) /\ MayClaim(n, OwnerAfter(n))
  /\ \E timed \in BOOLEAN :
       caller' = [of |-> caller.of + 1, state |-> "calling", cseq |-> 1,
                  timed |-> timed, left |-> Never, ack |-> 0]
  /\ dialogs' = [dialogs EXCEPT ![n] = [state |-> "RINGING", cseq |-> 1, expires |-> Never]]
  /\ row' = dialogs'[n] /\ owner' = n
  /\ legs' = [legs EXCEPT ![n] = CallNumber(caller.of + 1)]
  /\ UNCHANGED <<up, home, timer, final, gone, callRow, byes>>

\* 491: the Call-ID's dialog is not over here.
InvitePending(n) ==
  /\ CallsNow(n) /\ ~Reusable(dialogs[n])
  /\ caller' = [caller EXCEPT !.of = @ + 1, !.state = "refused"]
  /\ legs' = [legs EXCEPT ![n] = CallAt(n)] /\ owner' = OwnerAfter(n)
  /\ UNCHANGED <<up, home, dialogs, timer, final, gone, row, callRow, byes>>

\* save_dialog raises in the handler: the new dialog stays, nothing answers.
InviteFenced(n) ==
  /\ CallsNow(n)
  /\ Reusable(dialogs[n]) /\ ~MayClaim(n, OwnerAfter(n))
  /\ caller' = [caller EXCEPT !.of = @ + 1, !.state = "refused"]
  /\ dialogs' = [dialogs EXCEPT ![n] = [state |-> "RINGING", cseq |-> 1, expires |-> Never]]
  /\ UNCHANGED <<up, home, timer, legs, final, gone, row, callRow, owner, byes>>

\* 200 to an INVITE or UPDATE with Session-Expires: set_session_timer, save, and
\* a new task in place of the old one.  A node without the dialog arms none.
Reset(left) == Interval

Refreshed(d) == [d EXCEPT !.expires = Interval]

\* B answers: the 200, then mark_answered and both rows.
AnswerInvite(n) ==
  /\ n \in up /\ caller.state = "calling"
  /\ dialogs[n].state = "RINGING" /\ owner = n
  /\ LET d == [dialogs[n] EXCEPT !.state = "ANSWERED"]
     IN dialogs' = [dialogs EXCEPT ![n] = IF caller.timed THEN Refreshed(d) ELSE d]
  /\ row' = dialogs'[n] /\ callRow' = caller.of
  /\ timer' = IF caller.timed THEN [timer EXCEPT ![n] = Reset(@)] ELSE timer
  /\ caller' = [caller EXCEPT !.state = "talking", !.ack = 1,
                              !.left = IF caller.timed THEN Interval ELSE Never]
  /\ UNCHANGED <<up, home, legs, final, gone, owner, byes>>

\* B refuses: cleanup_b2bua_call cancels the timer and leaves the dialog.
Refuse(n) ==
  /\ n \in up /\ caller.state = "calling"
  /\ dialogs[n].state = "RINGING" /\ owner = n
  /\ legs' = [legs EXCEPT ![n] = NoCall] /\ gone' = [gone EXCEPT ![n] = @ \cup {caller.of}]
  /\ timer' = [timer EXCEPT ![n] = Never] /\ callRow' = 0
  /\ caller' = [caller EXCEPT !.state = "idle"]
  /\ UNCHANGED <<up, home, dialogs, final, row, owner, byes>>

(***************************************************************************)
(* ACK, refresh                                                            *)
(***************************************************************************)
\* acknowledge_dialog, tolerated when it fails.  The dialog knows the CSeq of
\* its first INVITE only.
AckArrives(n) ==
  /\ n = home /\ n \in up /\ caller.ack # 0 /\ caller' = [caller EXCEPT !.ack = 0]
  /\ LET mine == Acknowledgeable(caller.ack, dialogs[n])
         found == Fitting(n, mine, Acknowledgeable(caller.ack, row))
         held == IF TakesOver(mine) THEN n ELSE OwnerAfter(n)
     IN /\ legs' = [legs EXCEPT ![n] = CallAt(n)]
        /\ IF CallAt(n).of = 0 THEN UNCHANGED <<dialogs, owner, row>>
           ELSE /\ dialogs' = IF TakesOver(mine) THEN [dialogs EXCEPT ![n] = row] ELSE dialogs
                /\ owner' = IF Absent(found) THEN held ELSE Claimed(n, held)
                /\ row' = IF Absent(found) THEN row ELSE Saved(n, found, held)
  /\ UNCHANGED <<up, home, timer, final, gone, callRow, byes>>

\* A re-INVITE or UPDATE with Session-Expires that B accepts: its 200.
Refresh(n) ==
  /\ n = home /\ n \in up
  /\ caller.state = "talking" /\ caller.timed /\ caller.ack = 0 /\ caller.cseq < MaxCSeq
  /\ CallAt(n).of # 0 /\ OwnerAfter(n) = n
  /\ legs' = [legs EXCEPT ![n] = CallAt(n)] /\ owner' = n
  /\ IF Absent(dialogs[n]) THEN UNCHANGED <<dialogs, row, timer>>
     ELSE /\ dialogs' = [dialogs EXCEPT ![n] = Refreshed(@)] /\ row' = dialogs'[n]
          /\ timer' = [timer EXCEPT ![n] = Reset(@)]
  /\ \E ack \in {0, caller.cseq + 1} :
       caller' = [caller EXCEPT !.cseq = @ + 1, !.ack = ack, !.left = Interval]
  /\ UNCHANGED <<up, home, final, gone, callRow, byes>>

(***************************************************************************)
(* The end of a call                                                       *)
(***************************************************************************)
\* _send_packet drops what a node sends for a dialog it does not own.
Sent(n, k, parties, why) ==
  IF owner' = n THEN byes \cup {<<k, p, why>> : p \in parties} ELSE byes

Hanging(n, k) == final' = [final EXCEPT ![n] = @ \cup {[of |-> k, left |-> FinalDelay]}]

\* A hangs up: terminate_dialog, tolerated when it fails, the BYE to B unless it
\* was sent, and the finalizer.
ByeFromA(n) ==
  /\ n = home /\ n \in up /\ caller.state = "talking"
  /\ caller' = [caller EXCEPT !.state = "idle", !.left = Never, !.ack = 0]
  /\ LET mine == Terminable(caller.cseq + 1, dialogs[n])
         found == Fitting(n, mine, Terminable(caller.cseq + 1, row))
         over == Terminated(found, caller.cseq + 1)
         c == CallAt(n)
         knows == c.of # 0 \/ gone[n] = {}
         held == IF knows /\ TakesOver(mine) THEN n ELSE OwnerAfter(n)
     IN /\ IF knows /\ ~Absent(found)
           THEN /\ dialogs' = [dialogs EXCEPT ![n] = over] /\ owner' = Claimed(n, held)
                /\ row' = Saved(n, over, held)
           ELSE /\ dialogs' = IF knows /\ TakesOver(mine) THEN [dialogs EXCEPT ![n] = row] ELSE dialogs
                /\ owner' = held /\ UNCHANGED row
        /\ IF c.of = 0 THEN UNCHANGED <<legs, final, byes>>
           ELSE /\ legs' = [legs EXCEPT ![n] = [c EXCEPT !.b = TRUE]]
                /\ Hanging(n, c.of)
                /\ byes' = IF c.b THEN byes ELSE Sent(n, c.of, {"B"}, "A")
  /\ UNCHANGED <<up, home, timer, gone, callRow>>

\* B hangs up: the dialog is left as it is.
ByeFromB(n) ==
  /\ n \in up /\ legs[n].of = caller.of /\ caller.state = "talking" /\ owner = n
  /\ legs' = [legs EXCEPT ![n].a = TRUE] /\ Hanging(n, legs[n].of)
  /\ owner' = owner
  /\ byes' = IF legs[n].a THEN byes ELSE Sent(n, legs[n].of, {"A"}, "B")
  /\ caller' = IF legs[n].a THEN caller
               ELSE [caller EXCEPT !.state = "idle", !.left = Never, !.ack = 0]
  /\ UNCHANGED <<up, home, dialogs, timer, gone, row, callRow>>

\* expire_dialog_session after its sleep.
Due(d) == d.state # "TERMINATED" /\ (d.expires = Never \/ d.expires = 0)

Expire(n) ==
  /\ n \in up /\ timer[n] = 0 /\ timer' = [timer EXCEPT ![n] = Never]
  /\ LET d == dialogs[n]  c == legs[n]
         parties == (IF c.a THEN {} ELSE {"A"}) \cup (IF c.b THEN {} ELSE {"B"})
     IN IF ~Due(d) THEN UNCHANGED <<dialogs, legs, final, row, owner, byes, caller>>
        ELSE IF c.of # 0
        THEN /\ owner' = owner
             /\ legs' = [legs EXCEPT ![n].a = TRUE, ![n].b = TRUE]
             /\ byes' = Sent(n, c.of, parties, "timer") /\ Hanging(n, c.of)
             /\ caller' = IF <<caller.of, "A", "timer">> \in byes' \ byes
                          THEN [caller EXCEPT !.state = "idle", !.left = Never, !.ack = 0] ELSE caller
             /\ UNCHANGED <<dialogs, row>>
        ELSE /\ dialogs' = [dialogs EXCEPT ![n].state = "TERMINATED"]
             /\ row' = Saved(n, dialogs'[n], owner)
             /\ owner' = Claimed(n, owner)
             /\ UNCHANGED <<legs, final, byes, caller>>
  /\ UNCHANGED <<up, home, gone, callRow>>

\* _finalize_b2bua_later: fenced unless the node owns the dialog; what it
\* removes, it removes under the Call-ID.
FinalizeLater(n, f) ==
  /\ n \in up /\ f \in final[n] /\ f.left = 0 /\ final' = [final EXCEPT ![n] = @ \ {f}]
  /\ IF f.of \in gone[n] \/ owner # n THEN UNCHANGED <<gone, legs, callRow>>
     ELSE /\ gone' = [gone EXCEPT ![n] = @ \cup {f.of}]
          /\ legs' = [legs EXCEPT ![n] = NoCall] /\ callRow' = 0
  /\ UNCHANGED <<up, home, dialogs, timer, row, owner, caller, byes>>

(***************************************************************************)
(* The environment                                                         *)
(***************************************************************************)
\* A task whose sleep is over runs before time goes on.
SessionTick ==
  /\ \A n \in up : timer[n] # 0 /\ \A f \in final[n] : f.left # 0
  /\ timer' = [n \in Nodes |-> Later(timer[n])]
  /\ final' = [n \in Nodes |-> {[f EXCEPT !.left = Later(@)] : f \in final[n]}]
  /\ dialogs' = [n \in Nodes |-> [dialogs[n] EXCEPT !.expires = Later(@)]]
  /\ row' = [row EXCEPT !.expires = Later(@)]
  /\ caller' = [caller EXCEPT !.left = Later(@)]
  /\ UNCHANGED <<up, home, legs, gone, callRow, owner, byes>>

\* A node dies.
Die(n) ==
  /\ n \in up /\ Cardinality(up) > 1 /\ up' = up \ {n}
  /\ dialogs' = [dialogs EXCEPT ![n] = NoDialog] /\ timer' = [timer EXCEPT ![n] = Never]
  /\ legs' = [legs EXCEPT ![n] = NoCall] /\ final' = [final EXCEPT ![n] = {}]
  /\ gone' = [gone EXCEPT ![n] = {}]
  /\ UNCHANGED <<home, row, callRow, owner, caller, byes>>

\* Its lease runs out.
Lapse == owner \in Nodes \ up /\ owner' = NoNode /\
  UNCHANGED <<up, home, dialogs, timer, legs, final, gone, row, callRow, caller, byes>>

\* A request goes to another node than the last.
Reroute ==
  /\ Balanced \/ home \notin up
  /\ home' \in up \ {home}
  /\ UNCHANGED <<up, dialogs, timer, legs, final, gone, row, callRow, owner, caller, byes>>

SessionInit ==
  /\ up = Nodes /\ home \in Nodes
  /\ dialogs = [n \in Nodes |-> NoDialog] /\ timer = [n \in Nodes |-> Never]
  /\ legs = [n \in Nodes |-> NoCall] /\ final = [n \in Nodes |-> {}]
  /\ gone = [n \in Nodes |-> {}]
  /\ row = NoDialog /\ callRow = 0 /\ owner = NoNode /\ byes = {}
  /\ caller = [of |-> 0, state |-> "idle", cseq |-> 0, timed |-> FALSE, left |-> Never, ack |-> 0]

TaskRuns(n) == Expire(n) \/ \E f \in final[n] : FinalizeLater(n, f)

SessionNext ==
  \/ \E n \in Nodes :
       \/ InviteArrives(n) \/ InvitePending(n) \/ InviteFenced(n) \/ AnswerInvite(n) \/ Refuse(n)
       \/ AckArrives(n) \/ Refresh(n) \/ ByeFromA(n) \/ ByeFromB(n)
       \/ TaskRuns(n) \/ Die(n)
  \/ SessionTick \/ Lapse \/ Reroute

\* Tasks run and time goes on; neither party nor the network owes anything.
SessionFairness == WF_sessionVars(SessionTick) /\ \A n \in Nodes : WF_sessionVars(TaskRuns(n))

SessionSpec == SessionInit /\ [][SessionNext]_sessionVars /\ SessionFairness

(***************************************************************************)
(* Properties                                                              *)
(***************************************************************************)

SessionTypeOK ==
  /\ home \in Nodes /\ up \subseteq Nodes /\ owner \in Nodes \cup {NoNode}
  /\ \A n \in Nodes :
       /\ dialogs[n].state \in {"none", "RINGING", "ANSWERED", "TERMINATED"}
       /\ timer[n] \in Never .. Interval /\ dialogs[n].expires \in Never .. Interval
       /\ legs[n].of \in 0 .. MaxInvites /\ gone[n] \subseteq 1 .. MaxInvites
  /\ callRow \in 0 .. MaxInvites /\ caller.left \in Never .. Interval

\* A session that was agreed on, or refreshed, is not hung up by a timer before
\* its interval is over, although the dialog's earlier timers, and those of an
\* earlier call with its Call-ID, may still sleep.
NotHungUpEarly ==
  [][\A k \in 1 .. MaxInvites, p \in {"A", "B"} :
       <<k, p, "timer">> \in byes' \ byes
         => ~(caller.of = k /\ caller.state = "talking" /\ caller.timed /\ caller.left # 0)]_sessionVars

\* Whichever node takes the next request after its owner's death finds the
\* dialog where the owner left it.
RowCurrent == owner \in up /\ ~Absent(dialogs[owner]) => row = dialogs[owner]

\* A session whose timer was agreed on ends when it is not refreshed, though
\* neither party ever says a word again, unless its node dies.
SessionEnds ==
  caller.state = "talking" /\ caller.timed ~> (caller.state # "talking" \/ up # Nodes)

(***************************************************************************)
(* Properties of the documents that the code does not meet                 *)
(***************************************************************************)

\* The timer of a dialog hangs up that dialog's session only.
TimerOfItsOwnCall ==
  [][\A k \in 1 .. MaxInvites, p \in {"A", "B"} :
       <<k, p, "timer">> \in byes' \ byes => caller.of # k \/ caller.left = 0]_sessionVars

\* A caller whose call is over, or was refused, may call again with its Call-ID.
CallsAgain == caller.state # "refused"

\* A session that a node took over ends as well.
SessionEndsAnywhere ==
  caller.state = "talking" /\ caller.timed ~> caller.state # "talking"
=============================================================================
