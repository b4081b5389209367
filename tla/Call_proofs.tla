----------------------------- MODULE Call_proofs ------------------------------
(***************************************************************************)
(* Proofs about B2BUACall for any calls, forks and bounds, and about the   *)
(* media of its calls.                                                     *)
(*                                                                         *)
(* Types come first: one lemma per group of actions, one step per action.  *)
(* The selection of the winning fork then needs ForkOK, which relates the  *)
(* call object to what its forks saw: a loser was sent a BYE, only a fork  *)
(* that answered is winner or loser, and no fork is both.  Seen through    *)
(* ForkOK a call has only four kinds of step, Quiet, Chooses, Releases and *)
(* Closes; that every action is one of them gives the invariant and the    *)
(* refinement of ForkSelection at once.                                    *)
(***************************************************************************)
EXTENDS MCMedia, WellFoundedInduction, FiniteSetTheorems, TLAPS

Ctx == [inv : {"none", "active", "final"}, cancel : {"none", "active", "final"}]
Timer == [finalizer : BOOLEAN, session : BOOLEAN]

\* The operators on a call object keep its type.
LEMMA FinalizedType ==
  ASSUME NEW k \in Call PROVE Finalized(k) \in Call
BY DEF Finalized, Call

LEMMA SlotType ==
  ASSUME active \in Nat
  PROVE  /\ Released(active) \in Nat
         /\ \A k : FinalizeSlot(k) \in Nat /\ Released(FinalizeSlot(k)) \in Nat
BY DEF FinalizeSlot, Released

LEMMA AnsweredType ==
  ASSUME NEW k \in Call, NEW t \in Forks PROVE Answered(k, t) \in Call
BY DEF Answered, Call, Tags

LEMMA ConnectedType ==
  ASSUME NEW k \in Call, NEW t \in Tags PROVE Connected(k, t) \in Call
BY DEF Connected, Call

LEMMA EnqueuedType ==
  ASSUME TypeOK, NEW c \in Calls, NEW k, NEW m \in Response
  PROVE  Enqueued(c, k, m) \in Seq(Response)
BY DEF TypeOK, Enqueued

\* A message the task takes is one of the responses.
LEMMA WaitingType ==
  ASSUME TypeOK, NEW c \in Calls, NEW kinds, Waiting(c, kinds)
  PROVE  /\ Head(queue[c]) \in Response
         /\ queue' \in [Calls -> Seq(Response)]
BY DEF TypeOK, Waiting

\* What a failed call leaves keeps the types.
LEMMA FailTypes ==
  ASSUME TypeOK, NEW c \in Calls, NEW k \in Call, FailCall(c, k),
         ctx' \in [Calls -> Ctx],
         queue' \in [Calls -> Seq(Response)]
  PROVE  TypeOK'
<1>1. [Finalized(k) EXCEPT !.open = FALSE] \in Call
  BY FinalizedType DEF Call
<1>2. active' \in Nat BY SlotType DEF FailCall, TypeOK
<1>3. wire[c] \in Wire BY DEF TypeOK
<1>4. [wire[c] EXCEPT !.toA = @ \cup {"fail"}] \in Wire BY <1>3 DEF Wire
<1>5. wire' \in [Calls -> Wire] BY <1>4 DEF FailCall, TypeOK
<1> QED BY <1>1, <1>2, <1>5 DEF FailCall, TypeOK, Ctx

LEMMA GiveUpTypes ==
  ASSUME TypeOK, NEW c \in Calls, GiveUp(c), queue' \in [Calls -> Seq(Response)]
  PROVE  TypeOK'
<1>1. CASE ctx[c].cancel = "none" /\ FailCall(c, call[c])
           /\ ctx' = [ctx EXCEPT ![c].cancel = "active"]
  <2>1. call[c] \in Call BY DEF TypeOK
  <2> QED BY <1>1, <2>1, FailTypes DEF TypeOK, Ctx
<1>2. CASE /\ pc' = [pc EXCEPT ![c] = "dead"]
           /\ call' = [call EXCEPT ![c].open = FALSE]
           /\ UNCHANGED <<active, dialog, stx, ctx, timer, media, wire>>
  <2>1. call[c] \in Call BY DEF TypeOK
  <2>2. [call[c] EXCEPT !.open = FALSE] \in Call BY <2>1 DEF Call
  <2> QED BY <1>2, <2>2 DEF TypeOK
<1> QED BY <1>1, <1>2 DEF GiveUp

-----------------------------------------------------------------------------
THEOREM TypeInitially == Init => TypeOK
<1> SUFFICES ASSUME Init PROVE TypeOK OBVIOUS
<1>1. call \in [Calls -> Call] BY DEF Init, NewCall, Call, Tags
<1>2. wire \in [Calls -> Wire] BY ProvisionalAssumption DEF Init, Wire
<1> QED BY <1>1, <1>2 DEF Init, TypeOK

LEMMA TaskTypes ==
  ASSUME TypeOK, NEW c \in Calls, Task(c) PROVE TypeOK'
<1>0. call[c] \in Call /\ wire[c] \in Wire BY DEF TypeOK
<1>1. CASE MediaReady(c)
  <2>1. [call[c] EXCEPT !.reg = TRUE, !.open = TRUE] \in Call BY <1>0 DEF Call
  <2> QED BY <1>1, <2>1 DEF MediaReady, TypeOK
<1>2. CASE MediaFailed(c) BY <1>2 DEF MediaFailed, TypeOK
<1>3. CASE ResumeProvisional(c)
  <2>1. Head(queue[c]).tag \in Tags /\ queue' \in [Calls -> Seq(Response)]
    BY <1>3, WaitingType DEF ResumeProvisional, Response
  <2>2. [call[c] EXCEPT !.to = Head(queue[c]).tag] \in Call
    BY <1>0, <2>1 DEF Call
  <2>3. [wire[c] EXCEPT !.early = TRUE] \in Wire BY <1>0 DEF Wire
  <2> QED BY <1>3, <2>1, <2>2, <2>3 DEF ResumeProvisional, TypeOK
<1>4. CASE ResumeBadProvisional(c)
  <2>1. queue' \in [Calls -> Seq(Response)]
    BY <1>4, WaitingType DEF ResumeBadProvisional
  <2>2. [call[c] EXCEPT !.open = FALSE] \in Call BY <1>0 DEF Call
  <2> QED BY <1>4, <2>1, <2>2 DEF ResumeBadProvisional, TypeOK
<1>5. CASE ResumeAnswer(c)
  <2>1. Head(queue[c]).tag \in Tags /\ queue' \in [Calls -> Seq(Response)]
    BY <1>5, WaitingType DEF ResumeAnswer, Response
  <2>2. Connected(call[c], Head(queue[c]).tag) \in Call
    BY <1>0, <2>1, ConnectedType
  <2>3. [wire[c] EXCEPT !.toA = @ \cup {"2xx"}] \in Wire BY <1>0 DEF Wire
  <2>4. active' \in Nat BY <1>5, SlotType DEF ResumeAnswer, TypeOK
  <2>5. timer' \in [Calls -> Timer]
    BY <1>5, ModeAssumption DEF ResumeAnswer, TypeOK, Timer
  <2> QED BY <1>5, <2>1, <2>2, <2>3, <2>4, <2>5 DEF ResumeAnswer, TypeOK, Timer
<1>6. CASE ResumeReject(c)
  <2>1. Head(queue[c]).tag \in Tags /\ queue' \in [Calls -> Seq(Response)]
    BY <1>6, WaitingType DEF ResumeReject, Response
  <2>2. [call[c] EXCEPT !.to = Head(queue[c]).tag] \in Call
    BY <1>0, <2>1 DEF Call
  <2> QED BY <1>6, <2>1, <2>2, FailTypes DEF ResumeReject, TypeOK, Ctx
<1>7. CASE ResumeError(c)
  <2>1. queue' \in [Calls -> Seq(Response)] BY <1>7, WaitingType DEF ResumeError
  <2> QED BY <1>7, <1>0, <2>1, FailTypes DEF ResumeError, TypeOK, Ctx
<1>8. CASE ResumeTimeout(c)
  BY <1>8, WaitingType, GiveUpTypes DEF ResumeTimeout
<1>9. CASE WaitTimeout(c) BY <1>9 DEF WaitTimeout, TypeOK
<1>10. CASE HandleTimeout(c) BY <1>10, GiveUpTypes DEF HandleTimeout, TypeOK
<1> QED BY <1>1, <1>2, <1>3, <1>4, <1>5, <1>6, <1>7, <1>8, <1>9, <1>10 DEF Task

LEMMA CallerTypes ==
  ASSUME TypeOK, NEW c \in Calls, Caller(c) PROVE TypeOK'
<1>0. call[c] \in Call /\ wire[c] \in Wire BY DEF TypeOK
<1>1. CASE InviteRejected(c)
  <2>1. [wire[c] EXCEPT !.toA = {"fail"}] \in Wire BY <1>0 DEF Wire
  <2> QED BY <1>1, <2>1 DEF InviteRejected, TypeOK
<1>2. CASE InviteAdmitted(c) BY <1>2 DEF InviteAdmitted, TypeOK
<1>3. CASE Ack(c)
  <2> DEFINE w == [wire[c] EXCEPT
                     !.failAck = @ \/ "fail" \in wire[c].toA,
                     !.acked = IF call[c].reg THEN @ \cup Reached(call[c]) ELSE @]
  <2>1. Reached(call[c]) \subseteq Forks BY <1>0 DEF Reached, Call, Tags
  <2>2. w \in Wire BY <1>0, <2>1, ZenonT(30) DEF Wire
  <2>3. wire' = [wire EXCEPT ![c] = w] BY <1>3 DEF Ack
  <2>4. stx' \in [Calls -> {"none", "PROCEEDING", "ACCEPTED", "COMPLETED",
                            "CONFIRMED"}]
    BY <1>3 DEF Ack, TypeOK
  <2> QED BY <1>3, <2>2, <2>3, <2>4 DEF Ack, TypeOK
<1>4. CASE CancelAccepted(c)
  <2>1. [wire[c] EXCEPT !.aCancel = "accepted"] \in Wire BY <1>0 DEF Wire
  <2>2. wire' \in [Calls -> Wire]
    <3>1. wire' = [wire EXCEPT ![c].aCancel = "accepted"] BY <1>4 DEF CancelAccepted
    <3>2. wire \in [Calls -> Wire] BY DEF TypeOK
    <3> QED BY <2>1, <3>1, <3>2
  <2>0. ctx[c] \in Ctx BY DEF TypeOK, Ctx
  <2>3. [ctx[c] EXCEPT !.cancel = "active"] \in Ctx BY <2>0 DEF Ctx
  <2>4. ctx' \in [Calls -> Ctx] BY <1>4, <2>3 DEF CancelAccepted, TypeOK, Ctx
  <2>5. UNCHANGED <<pc, call, queue, active, dialog, stx, timer, media>>
    BY <1>4 DEF CancelAccepted
  <2> QED BY <2>2, <2>4, <2>5 DEF TypeOK, Ctx
<1>5. CASE CancelRejected(c)
  <2>1. [wire[c] EXCEPT !.aCancel = "rejected"] \in Wire BY <1>0 DEF Wire
  <2> QED BY <1>5, <2>1 DEF CancelRejected, TypeOK
<1>6. CASE CallerHangsUp(c)
  <2>1. Reached(call[c]) \subseteq Forks BY <1>0 DEF Reached, Call, Tags
  <2>2. [wire[c] EXCEPT
           !.aBye = ByeKind(c),
           !.byed = IF call[c].obye THEN @ ELSE @ \cup Reached(call[c])] \in Wire
    BY <1>0, <2>1 DEF Wire, ByeKind
  <2>3. [call[c] EXCEPT !.obye = TRUE] \in Call BY <1>0 DEF Call
  <2> QED BY <1>6, <2>2, <2>3 DEF CallerHangsUp, FinalizerScheduled, TypeOK
<1>7. CASE CallerHangsUpLate(c)
  <2>1. [wire[c] EXCEPT !.aBye = ByeKind(c)] \in Wire BY <1>0 DEF Wire, ByeKind
  <2> QED BY <1>7, <2>1 DEF CallerHangsUpLate, TypeOK
<1> QED BY <1>1, <1>2, <1>3, <1>4, <1>5, <1>6, <1>7 DEF Caller

\* The status of the client transactions stays a status.
LEMMA FinalReceivedType ==
  ASSUME TypeOK, NEW c \in Calls, NEW failed \in BOOLEAN, FinalReceived(c, failed)
  PROVE  ctx' \in [Calls -> Ctx]
<1> DEFINE i == CASE ctx[c].inv # "active" -> ctx[c].inv
                  [] failed /\ ReliablePeer -> "none"
                  [] OTHER -> "final"
<1>1. ctx[c].inv \in {"none", "active", "final"} BY DEF TypeOK
<1>2. i \in {"none", "active", "final"} BY <1>1, ModeAssumption
<1>3. ctx' = [ctx EXCEPT ![c].inv = i] BY ModeAssumption DEF FinalReceived
<1> HIDE DEF i
<1> QED BY <1>2, <1>3 DEF TypeOK, Ctx

\* A call that a response may have ended.
LEMMA EndedTypes ==
  ASSUME TypeOK, NEW c \in Calls, NEW k \in Call,
         call' = [call EXCEPT ![c] = IF EndsCall(k) THEN Finalized(k) ELSE k],
         active' = IF EndsCall(k) THEN FinalizeSlot(k) ELSE active
  PROVE  call' \in [Calls -> Call] /\ active' \in Nat
BY FinalizedType, SlotType DEF TypeOK

LEMMA PeerTypes ==
  ASSUME TypeOK, NEW c \in Calls, Peer(c) PROVE TypeOK'
<1>0. call[c] \in Call /\ wire[c] \in Wire /\ ctx[c] \in Ctx /\ timer[c] \in Timer
  BY DEF TypeOK, Ctx, Timer
<1>1. ASSUME NEW t \in Forks, NEW kind \in Provisionals, Provisional(c, t, kind)
      PROVE  TypeOK'
  <2>1. [kind |-> kind, tag |-> t] \in Response
    BY ProvisionalAssumption DEF Response, Tags
  <2>2. queue' \in [Calls -> Seq(Response)] BY <1>1, <2>1 DEF Provisional, TypeOK
  <2>3. [wire[c] EXCEPT !.provs = @ + 1] \in Wire
    BY <1>0, <1>1, ProvisionalAssumption DEF Provisional, Wire
  <2> QED BY <1>1, <2>2, <2>3 DEF Provisional, TypeOK
<1>2. ASSUME NEW t \in Forks, WinnerRetransmits(c, t) PROVE TypeOK'
  <2>1. Reached(call[c]) \subseteq Forks BY <1>0 DEF Reached, Call, Tags
  <2>2. [wire[c] EXCEPT !.acked = @ \cup Reached(call[c])] \in Wire
    BY <1>0, <2>1 DEF Wire
  <2> QED BY <1>2, <2>2, FinalReceivedType DEF WinnerRetransmits, TypeOK, Ctx
<1>3. ASSUME NEW t \in Forks, LoserAnswers(c, t) PROVE TypeOK'
  <2>1. [wire[c] EXCEPT !.heard = @ \cup {t}, !.acked = @ \cup {t},
                        !.byed = IF t \in call[c].lost THEN @ ELSE @ \cup {t}]
          \in Wire
    BY <1>0 DEF Wire
  <2>2. [call[c] EXCEPT !.lost = @ \cup {t}] \in Call BY <1>0 DEF Call
  <2> QED BY <1>3, <2>1, <2>2, FinalReceivedType DEF LoserAnswers, TypeOK, Ctx
<1>4. ASSUME NEW t \in Forks, WinnerAnswers(c, t) PROVE TypeOK'
  <2> DEFINE k == Answered(call[c], t)
  <2>1. k \in Call BY <1>0, AnsweredType
  <2>2. [kind |-> "2xx", tag |-> t] \in Response BY DEF Response, Tags
  <2>3. queue' \in [Calls -> Seq(Response)]
    BY <1>4, <2>2, EnqueuedType DEF WinnerAnswers, TypeOK
  <2>4. call' \in [Calls -> Call] /\ active' \in Nat
    BY <1>4, <2>1, EndedTypes DEF WinnerAnswers
  <2>5. [wire[c] EXCEPT !.heard = @ \cup {t}] \in Wire BY <1>0 DEF Wire
  <2> QED BY <1>4, <2>3, <2>4, <2>5, FinalReceivedType DEF WinnerAnswers, TypeOK, Ctx
<1>5. ASSUME NEW t \in Forks, Fails(c, t) PROVE TypeOK'
  <2> DEFINE k == IF ~call[c].reg THEN call[c]
                  ELSE [call[c] EXCEPT !.final = "fail",
                                       !.to = IF ctx[c].inv # "none" THEN t ELSE @]
             u == ctx[c].inv # "none" /\ ~(call[c].reg /\ ctx[c].inv # "none")
  <2>1. k \in Call BY <1>0 DEF Call, Tags
  <2>2. [kind |-> "fail", tag |-> t] \in Response BY DEF Response, Tags
  <2>3. /\ FinalReceived(c, TRUE)
        /\ queue' = [queue EXCEPT ![c] = Enqueued(c, k, [kind |-> "fail", tag |-> t])]
        /\ call' = [call EXCEPT ![c] = IF EndsCall(k) THEN Finalized(k) ELSE k]
        /\ active' = IF EndsCall(k) THEN FinalizeSlot(k) ELSE active
        /\ wire' = [wire EXCEPT ![c].unacked = u]
        /\ UNCHANGED <<pc, dialog, stx, timer, media>>
    BY <1>5 DEF Fails
  <2> HIDE DEF k
  <2>4. queue' \in [Calls -> Seq(Response)]
    BY <2>2, <2>3, EnqueuedType DEF TypeOK
  <2>5. call' \in [Calls -> Call] /\ active' \in Nat BY <2>1, <2>3, EndedTypes
  <2>6. [wire[c] EXCEPT !.unacked = u] \in Wire BY <1>0 DEF Wire
  <2> QED BY <2>3, <2>4, <2>5, <2>6, FinalReceivedType DEF TypeOK, Ctx
<1>6. ASSUME NEW t \in Forks, PeerHangsUp(c, t) PROVE TypeOK'
  <2>1. [wire[c] EXCEPT !.ended = @ \cup {t}] \in Wire BY <1>0 DEF Wire
  <2>2. [call[c] EXCEPT !.ibye = TRUE] \in Call BY <1>0 DEF Call
  <2>3. wire' \in [Calls -> Wire] BY <1>6, <2>1 DEF PeerHangsUp, TypeOK
  <2>4. CASE call[c].reg
    <3>1. [timer[c] EXCEPT !.finalizer = TRUE] \in Timer BY <1>0 DEF Timer
    <3>2. timer' = [timer EXCEPT ![c].finalizer = TRUE]
      BY <1>6, <2>4 DEF PeerHangsUp, FinalizerScheduled
    <3>3. timer' \in [Calls -> Timer] BY <3>1, <3>2 DEF TypeOK, Timer
    <3>4. call' = [call EXCEPT ![c].ibye = TRUE]
          /\ media' = [media EXCEPT ![c] = @ \ {"in"}]
          /\ UNCHANGED <<pc, queue, active, dialog, stx, ctx>>
      BY <1>6, <2>4 DEF PeerHangsUp
    <3> QED BY <2>2, <2>3, <3>3, <3>4 DEF TypeOK, Timer
  <2>5. CASE ~call[c].reg BY <1>6, <2>3, <2>5 DEF PeerHangsUp, TypeOK
  <2> QED BY <2>4, <2>5
<1>7. CASE ByeResponse(c)
  <2>1. Finalized(call[c]) \in Call BY <1>0, FinalizedType
  <2>2. active' \in Nat BY <1>7, SlotType DEF ByeResponse, TypeOK
  <2> QED BY <1>7, <2>1, <2>2 DEF ByeResponse, TypeOK
<1>8. CASE CancelResponse(c)
  <2>1. [ctx[c] EXCEPT !.cancel = IF ReliablePeer THEN "none" ELSE "final"] \in Ctx
    BY <1>0 DEF Ctx
  <2>2. ctx' \in [Calls -> Ctx] BY <1>8, <2>1 DEF CancelResponse, TypeOK, Ctx
  <2> QED BY <1>8, <2>2 DEF CancelResponse, TypeOK, Ctx
<1> QED BY <1>1, <1>2, <1>3, <1>4, <1>5, <1>6, <1>7, <1>8 DEF Peer

LEMMA TimersTypes ==
  ASSUME TypeOK, NEW c \in Calls, Timers(c) PROVE TypeOK'
<1>0. call[c] \in Call /\ wire[c] \in Wire /\ ctx[c] \in Ctx /\ timer[c] \in Timer
  BY DEF TypeOK, Ctx, Timer
<1>1. CASE InviteTimeout(c)
  <2>1. [kind |-> "timeout", tag |-> NoFork] \in Response BY DEF Response, Tags
  <2>2. queue' \in [Calls -> Seq(Response)]
    BY <1>1, <2>1, EnqueuedType DEF InviteTimeout, TypeOK
  <2> QED BY <1>1, <2>2 DEF InviteTimeout, TypeOK
<1>2. CASE TransportError(c)
  <2>1. [kind |-> "error", tag |-> NoFork] \in Response BY DEF Response, Tags
  <2>2. queue' \in [Calls -> Seq(Response)]
    BY <1>2, <2>1, EnqueuedType DEF TransportError, TypeOK
  <2>3. [ctx[c] EXCEPT !.inv = "none", !.cancel = IF @ = "active" THEN "none" ELSE @]
          \in Ctx
    BY <1>0 DEF Ctx
  <2>4. ctx' \in [Calls -> Ctx] BY <1>2, <2>3 DEF TransportError, TypeOK, Ctx
  <2> QED BY <1>2, <2>2, <2>4 DEF TransportError, TypeOK, Ctx
<1>3. CASE InviteForgotten(c)
  <2>1. [ctx[c] EXCEPT !.inv = "none"] \in Ctx BY <1>0 DEF Ctx
  <2>2. ctx' \in [Calls -> Ctx] BY <1>3, <2>1 DEF InviteForgotten, TypeOK, Ctx
  <2> QED BY <1>3, <2>2 DEF InviteForgotten, TypeOK, Ctx
<1>4. CASE CancelForgotten(c)
  <2>1. [ctx[c] EXCEPT !.cancel = "none"] \in Ctx BY <1>0 DEF Ctx
  <2>2. ctx' \in [Calls -> Ctx] BY <1>4, <2>1 DEF CancelForgotten, TypeOK, Ctx
  <2> QED BY <1>4, <2>2 DEF CancelForgotten, TypeOK, Ctx
<1>5. CASE FinalizeLater(c)
  <2>1. Finalized(call[c]) \in Call BY <1>0, FinalizedType
  <2>2. active' \in Nat BY <1>5, SlotType DEF FinalizeLater, TypeOK
  <2> QED BY <1>5, <2>1, <2>2 DEF FinalizeLater, TypeOK
<1>6. CASE SessionExpires(c)
  <2>1. Reached(call[c]) \subseteq Forks BY <1>0 DEF Reached, Call, Tags
  <2>2. [wire[c] EXCEPT
           !.expired = TRUE,
           !.byed = IF call[c].obye THEN @ ELSE @ \cup Reached(call[c])] \in Wire
    BY <1>0, <2>1 DEF Wire
  <2>3. [call[c] EXCEPT !.ibye = TRUE, !.obye = TRUE] \in Call BY <1>0 DEF Call
  <2>4. [timer[c] EXCEPT !.session = FALSE] \in Timer
        /\ [finalizer |-> TRUE, session |-> FALSE] \in Timer
    BY <1>0 DEF Timer
  <2>5. UNCHANGED <<pc, queue, active, stx, ctx>> BY <1>6 DEF SessionExpires
  <2>6. CASE /\ timer' = [timer EXCEPT ![c].session = FALSE]
             /\ UNCHANGED <<call, dialog, media, wire>>
    BY <2>4, <2>5, <2>6 DEF TypeOK, Timer
  <2>7. CASE /\ call' = [call EXCEPT ![c].ibye = TRUE, ![c].obye = TRUE]
             /\ wire' = [wire EXCEPT
                           ![c].expired = TRUE,
                           ![c].byed = IF call[c].obye THEN @
                                       ELSE @ \cup Reached(call[c])]
             /\ timer' = [timer EXCEPT ![c] = [finalizer |-> TRUE, session |-> FALSE]]
             /\ UNCHANGED <<dialog, media>>
    BY <2>2, <2>3, <2>4, <2>5, <2>7 DEF TypeOK, Timer
  <2>8. CASE /\ dialog' = [dialog EXCEPT ![c] = "TERMINATED"]
             /\ media' = [media EXCEPT ![c] = @ \ {"in"}]
             /\ timer' = [timer EXCEPT ![c].session = FALSE]
             /\ UNCHANGED <<call, wire>>
    BY <2>4, <2>5, <2>8 DEF TypeOK, Timer
  <2> QED BY <1>6, <2>6, <2>7, <2>8 DEF SessionExpires
<1>7. CASE TombstoneAges(c)
  <2>1. [call[c] EXCEPT !.tomb = IF @ = "recent" THEN "late" ELSE "gone"] \in Call
    BY <1>0 DEF Call
  <2> QED BY <1>7, <2>1 DEF TombstoneAges, TypeOK
<1> QED BY <1>1, <1>2, <1>3, <1>4, <1>5, <1>6, <1>7 DEF Timers

\* The state of every call keeps its types.
THEOREM TypeCorrect == Spec => []TypeOK
<1>1. TypeOK /\ [Next]_vars => TypeOK'
  <2> SUFFICES ASSUME TypeOK, [Next]_vars PROVE TypeOK' OBVIOUS
  <2>1. CASE Next
    BY <2>1, TaskTypes, CallerTypes, PeerTypes, TimersTypes DEF Next
  <2>2. CASE UNCHANGED vars BY <2>2 DEF vars, TypeOK
  <2> QED BY <2>1, <2>2
<1> QED BY <1>1, TypeInitially, PTL DEF Spec

-----------------------------------------------------------------------------
(* The winner of a forked INVITE.                                          *)

\* No winner is chosen any more.
Decided(k) == k.fin \/ k.final = "fail"

\* What a call object k and the history w of its legs have in common: the
\* conjuncts about the tombstone, the final status and the reason for a
\* release are what makes the other three inductive.
ForkOK(k, w) ==
  /\ k.tomb \in {"recent", "late"} => k.fin
  /\ k.win # NoFork => k.final = "2xx" /\ k.win \in w.heard
  /\ k.lost # {} => Decided(k) \/ k.win # NoFork
  /\ k.win \notin k.lost
  /\ k.lost \subseteq w.byed
  /\ w.heard \subseteq w.byed \cup {k.win}

ForkInv == \A c \in Calls : ForkOK(call[c], wire[c])

\* What a step of the call does to what ForkOK speaks of: nearly always
\* nothing, else it is the first answer, a later one, or a failure of B.
Ages(k, k2) ==
  /\ k.fin => k2.fin
  /\ k2.tomb \in {"recent", "late"} => k2.fin \/ k.tomb \in {"recent", "late"}

Quiet(k, w, k2, w2) ==
  /\ Ages(k, k2)
  /\ k2.win = k.win /\ k2.lost = k.lost /\ k2.final = k.final
  /\ w2.heard = w.heard /\ w.byed \subseteq w2.byed

Chooses(t, k, w, k2, w2) ==
  /\ Ages(k, k2)
  /\ ~Decided(k) /\ k.win = NoFork
  /\ k2.win = t /\ k2.lost = k.lost /\ k2.final = "2xx"
  /\ w2.heard = w.heard \cup {t} /\ w2.byed = w.byed

Releases(t, k, w, k2, w2) ==
  /\ Ages(k, k2)
  /\ Decided(k) \/ k.win # NoFork
  /\ t # k.win
  /\ k2.fin = k.fin
  /\ k2.win = k.win /\ k2.lost = k.lost \cup {t} /\ k2.final = k.final
  /\ w2.heard = w.heard \cup {t}
  /\ w.byed \subseteq w2.byed /\ (t \in k.lost \/ t \in w2.byed)

Closes(k, w, k2, w2) ==
  /\ Ages(k, k2)
  /\ w.heard = {}
  /\ k2.win = k.win /\ k2.lost = k.lost /\ k2.final \in {k.final, "fail"}
  /\ w2.heard = w.heard /\ w2.byed = w.byed

\* The step touches no call but c, and c in one of the four ways.
Others(c) == \A d \in Calls \ {c} : call'[d] = call[d] /\ wire'[d] = wire[d]

QuietStep(c) == Others(c) /\ Quiet(call[c], wire[c], call'[c], wire'[c])

ForkStep(c) ==
  /\ Others(c)
  /\ \/ Quiet(call[c], wire[c], call'[c], wire'[c])
     \/ \E t \in Forks : Chooses(t, call[c], wire[c], call'[c], wire'[c])
     \/ \E t \in Forks : Releases(t, call[c], wire[c], call'[c], wire'[c])
     \/ Closes(call[c], wire[c], call'[c], wire'[c])

\* Finalizing a call changes nothing about its forks.
LEMMA FinalizedIsQuiet ==
  ASSUME NEW k \in Call
  PROVE  /\ Ages(k, Finalized(k))
         /\ Finalized(k).win = k.win /\ Finalized(k).lost = k.lost
         /\ Finalized(k).final = k.final
BY DEF Ages, Finalized, Call

\* A step that leaves call and wire alone is quiet.
LEMMA UntouchedIsQuiet ==
  ASSUME TypeOK, NEW c \in Calls, UNCHANGED <<call, wire>>
  PROVE  QuietStep(c)
BY DEF QuietStep, Others, Quiet, Ages

LEMMA FailIsQuiet ==
  ASSUME TypeOK, NEW c \in Calls, NEW k \in Call, FailCall(c, k),
         k.win = call[c].win, k.lost = call[c].lost, k.final = call[c].final,
         k.fin = call[c].fin, k.tomb = call[c].tomb
  PROVE  QuietStep(c)
<1>1. Finalized(k) \in Call BY FinalizedType
<1>2. call'[c] = [Finalized(k) EXCEPT !.open = FALSE] BY DEF FailCall, TypeOK
<1>3. /\ call'[c].win = k.win /\ call'[c].lost = k.lost /\ call'[c].final = k.final
      /\ call'[c].fin = Finalized(k).fin /\ call'[c].tomb = Finalized(k).tomb
  BY <1>1, <1>2, FinalizedIsQuiet DEF Call
<1>4. Ages(call[c], call'[c]) BY <1>3, FinalizedIsQuiet DEF Ages
<1>5. wire'[c].heard = wire[c].heard /\ wire'[c].byed = wire[c].byed
  BY DEF FailCall, TypeOK, Wire
<1>6. Others(c) BY DEF FailCall, TypeOK, Others
<1> QED BY <1>3, <1>4, <1>5, <1>6 DEF QuietStep, Quiet

LEMMA GiveUpIsQuiet ==
  ASSUME TypeOK, NEW c \in Calls, GiveUp(c) PROVE QuietStep(c)
<1>0. call[c] \in Call BY DEF TypeOK
<1>1. CASE FailCall(c, call[c]) BY <1>0, <1>1, FailIsQuiet
<1>2. CASE call' = [call EXCEPT ![c].open = FALSE] /\ wire' = wire
  BY <1>0, <1>2 DEF QuietStep, Others, Quiet, Ages, Call, TypeOK
<1> QED BY <1>1, <1>2 DEF GiveUp

LEMMA TaskIsQuiet ==
  ASSUME TypeOK, NEW c \in Calls, Task(c) PROVE QuietStep(c)
<1>0. call[c] \in Call /\ wire[c] \in Wire BY DEF TypeOK
<1>1. CASE MediaReady(c)
  BY <1>0, <1>1 DEF MediaReady, QuietStep, Others, Quiet, Ages, Call, TypeOK
<1>2. CASE MediaFailed(c) BY <1>2, UntouchedIsQuiet DEF MediaFailed
<1>3. CASE ResumeProvisional(c)
  BY <1>0, <1>3
  DEF ResumeProvisional, QuietStep, Others, Quiet, Ages, Call, Wire, TypeOK
<1>4. CASE ResumeBadProvisional(c)
  BY <1>0, <1>4 DEF ResumeBadProvisional, QuietStep, Others, Quiet, Ages, Call, TypeOK
<1>5. CASE ResumeAnswer(c)
  BY <1>0, <1>5
  DEF ResumeAnswer, Connected, QuietStep, Others, Quiet, Ages, Call, Wire, TypeOK
<1>6. CASE ResumeReject(c)
  <2>1. Head(queue[c]).tag \in Tags
    BY <1>6, WaitingType DEF ResumeReject, Response
  <2>2. [call[c] EXCEPT !.to = Head(queue[c]).tag] \in Call
    BY <1>0, <2>1 DEF Call
  <2> QED BY <1>0, <1>6, <2>2, FailIsQuiet DEF ResumeReject, Call
<1>7. CASE ResumeError(c) BY <1>0, <1>7, FailIsQuiet DEF ResumeError
<1>8. CASE ResumeTimeout(c) BY <1>8, GiveUpIsQuiet DEF ResumeTimeout
<1>9. CASE WaitTimeout(c) BY <1>9, UntouchedIsQuiet DEF WaitTimeout
<1>10. CASE HandleTimeout(c) BY <1>10, GiveUpIsQuiet DEF HandleTimeout
<1> QED BY <1>1, <1>2, <1>3, <1>4, <1>5, <1>6, <1>7, <1>8, <1>9, <1>10 DEF Task

LEMMA CallerIsQuiet ==
  ASSUME TypeOK, NEW c \in Calls, Caller(c) PROVE QuietStep(c)
<1>0. call[c] \in Call /\ wire[c] \in Wire BY DEF TypeOK
<1>1. CASE InviteRejected(c)
  BY <1>0, <1>1 DEF InviteRejected, QuietStep, Others, Quiet, Ages, Wire, TypeOK
<1>2. CASE InviteAdmitted(c) BY <1>2, UntouchedIsQuiet DEF InviteAdmitted
<1>3. CASE Ack(c)
  BY <1>0, <1>3 DEF Ack, QuietStep, Others, Quiet, Ages, Wire, TypeOK
<1>4. CASE CancelAccepted(c)
  BY <1>0, <1>4 DEF CancelAccepted, QuietStep, Others, Quiet, Ages, Wire, TypeOK
<1>5. CASE CancelRejected(c)
  BY <1>0, <1>5 DEF CancelRejected, QuietStep, Others, Quiet, Ages, Wire, TypeOK
<1>6. CASE CallerHangsUp(c)
  BY <1>0, <1>6
  DEF CallerHangsUp, QuietStep, Others, Quiet, Ages, Call, Wire, TypeOK
<1>7. CASE CallerHangsUpLate(c)
  BY <1>0, <1>7 DEF CallerHangsUpLate, QuietStep, Others, Quiet, Ages, Wire, TypeOK
<1> QED BY <1>1, <1>2, <1>3, <1>4, <1>5, <1>6, <1>7 DEF Caller

LEMMA TimersAreQuiet ==
  ASSUME TypeOK, NEW c \in Calls, Timers(c) PROVE QuietStep(c)
<1>0. call[c] \in Call /\ wire[c] \in Wire BY DEF TypeOK
<1>1. CASE InviteTimeout(c) BY <1>1, UntouchedIsQuiet DEF InviteTimeout
<1>2. CASE TransportError(c) BY <1>2, UntouchedIsQuiet DEF TransportError
<1>3. CASE InviteForgotten(c) BY <1>3, UntouchedIsQuiet DEF InviteForgotten
<1>4. CASE CancelForgotten(c) BY <1>4, UntouchedIsQuiet DEF CancelForgotten
<1>5. CASE FinalizeLater(c)
  <2>1. call' = [call EXCEPT ![c] = Finalized(call[c])] /\ wire' = wire
    BY <1>5 DEF FinalizeLater
  <2> QED BY <1>0, <2>1, FinalizedIsQuiet DEF QuietStep, Others, Quiet, TypeOK
<1>6. CASE SessionExpires(c)
  <2>1. CASE UNCHANGED <<call, wire>> BY <2>1, UntouchedIsQuiet
  <2>2. CASE /\ call' = [call EXCEPT ![c].ibye = TRUE, ![c].obye = TRUE]
             /\ wire' = [wire EXCEPT
                           ![c].expired = TRUE,
                           ![c].byed = IF call[c].obye THEN @
                                       ELSE @ \cup Reached(call[c])]
    BY <1>0, <2>2 DEF QuietStep, Others, Quiet, Ages, Call, Wire, TypeOK
  <2> QED BY <1>6, <2>1, <2>2 DEF SessionExpires
<1>7. CASE TombstoneAges(c)
  BY <1>0, <1>7 DEF TombstoneAges, QuietStep, Others, Quiet, Ages, Call, TypeOK
<1> QED BY <1>1, <1>2, <1>3, <1>4, <1>5, <1>6, <1>7 DEF Timers

\* A response may have ended the call: what matters is the object k it made.
LEMMA ResponseEnds ==
  ASSUME TypeOK, NEW c \in Calls, NEW k \in Call,
         call' = [call EXCEPT ![c] = IF EndsCall(k) THEN Finalized(k) ELSE k],
         k.fin = call[c].fin, k.tomb = call[c].tomb
  PROVE  /\ Ages(call[c], call'[c])
         /\ call'[c].win = k.win /\ call'[c].lost = k.lost
         /\ call'[c].final = k.final
<1>1. call'[c] \in {k, Finalized(k)} BY DEF TypeOK
<1> QED BY <1>1, FinalizedIsQuiet DEF Ages

LEMMA PeerForks ==
  ASSUME TypeOK, ForkInv, NEW c \in Calls, Peer(c) PROVE ForkStep(c)
<1>0. call[c] \in Call /\ wire[c] \in Wire /\ ForkOK(call[c], wire[c])
  BY DEF TypeOK, ForkInv
<1>1. ASSUME NEW t \in Forks, NEW kind \in Provisionals, Provisional(c, t, kind)
      PROVE  ForkStep(c)
  BY <1>0, <1>1 DEF Provisional, ForkStep, Others, Quiet, Ages, Wire, TypeOK
<1>2. ASSUME NEW t \in Forks, WinnerRetransmits(c, t) PROVE ForkStep(c)
  BY <1>0, <1>2 DEF WinnerRetransmits, ForkStep, Others, Quiet, Ages, Wire, TypeOK
<1>3. ASSUME NEW t \in Forks, LoserAnswers(c, t) PROVE ForkStep(c)
  <2>1. t # NoFork BY ForkAssumption
  <2>2. t # call[c].win
    BY <1>0, <1>3, <2>1 DEF LoserAnswers, IsRetransmission, ForkOK
  <2>3. Decided(call[c]) \/ call[c].win # NoFork
    BY <1>3 DEF LoserAnswers, LosesRace, Decided
  <2>4. /\ call' = [call EXCEPT ![c].lost = @ \cup {t}]
        /\ wire' = [wire EXCEPT ![c].heard = @ \cup {t},
                                ![c].acked = @ \cup {t},
                                ![c].byed = IF t \in call[c].lost THEN @
                                            ELSE @ \cup {t}]
    BY <1>3 DEF LoserAnswers
  <2>5. Releases(t, call[c], wire[c], call'[c], wire'[c])
    BY <1>0, <2>2, <2>3, <2>4 DEF Releases, Ages, Call, Wire, TypeOK
  <2>6. Others(c) BY <2>4 DEF Others, TypeOK
  <2> QED BY <2>5, <2>6 DEF ForkStep
<1>4. ASSUME NEW t \in Forks, WinnerAnswers(c, t) PROVE ForkStep(c)
  <2> DEFINE k == Answered(call[c], t)
  <2>1. t # NoFork BY ForkAssumption
  <2>2. ~call[c].fin /\ call[c].final # "fail"
    BY <1>4 DEF WinnerAnswers, LosesRace
  <2>3. call[c].win = NoFork
    BY <1>0, <1>4 DEF WinnerAnswers, LosesRace, IsRetransmission, ForkOK
  <2>4. call[c].reg BY <1>0, <1>4, <2>2 DEF WinnerAnswers, Known, ForkOK
  <2>5. /\ k \in Call /\ k.win = t /\ k.lost = call[c].lost /\ k.final = "2xx"
        /\ k.fin = call[c].fin /\ k.tomb = call[c].tomb
    BY <1>0, <2>3, <2>4, AnsweredType DEF Answered, Call
  <2>6. /\ call' = [call EXCEPT ![c] = IF EndsCall(k) THEN Finalized(k) ELSE k]
        /\ wire' = [wire EXCEPT ![c].heard = @ \cup {t}]
    BY <1>4 DEF WinnerAnswers
  <2> HIDE DEF k
  <2>7. /\ Ages(call[c], call'[c]) /\ call'[c].win = t
        /\ call'[c].lost = call[c].lost /\ call'[c].final = "2xx"
    BY <2>5, <2>6, ResponseEnds
  <2>8. wire'[c].heard = wire[c].heard \cup {t} /\ wire'[c].byed = wire[c].byed
    BY <1>0, <2>6 DEF Wire, TypeOK
  <2>9. Others(c) BY <2>6 DEF Others, TypeOK
  <2> QED BY <2>2, <2>3, <2>7, <2>8, <2>9 DEF ForkStep, Chooses, Decided
<1>5. ASSUME NEW t \in Forks, Fails(c, t) PROVE ForkStep(c)
  <2> DEFINE k == IF ~call[c].reg THEN call[c]
                  ELSE [call[c] EXCEPT !.final = "fail",
                                       !.to = IF ctx[c].inv # "none" THEN t ELSE @]
             u == ctx[c].inv # "none" /\ ~(call[c].reg /\ ctx[c].inv # "none")
  <2>1. /\ k \in Call /\ k.win = call[c].win /\ k.lost = call[c].lost
        /\ k.final \in {call[c].final, "fail"}
        /\ k.fin = call[c].fin /\ k.tomb = call[c].tomb
    BY <1>0 DEF Call, Tags
  <2>2. /\ wire[c].heard = {}
        /\ call' = [call EXCEPT ![c] = IF EndsCall(k) THEN Finalized(k) ELSE k]
        /\ wire' = [wire EXCEPT ![c].unacked = u]
    BY <1>5 DEF Fails
  <2> HIDE DEF k, u
  <2>3. /\ Ages(call[c], call'[c]) /\ call'[c].win = call[c].win
        /\ call'[c].lost = call[c].lost /\ call'[c].final \in {call[c].final, "fail"}
    BY <2>1, <2>2, ResponseEnds
  <2>4. wire'[c].heard = wire[c].heard /\ wire'[c].byed = wire[c].byed
    BY <1>0, <2>2 DEF Wire, TypeOK
  <2>5. Others(c) BY <2>2 DEF Others, TypeOK
  <2> QED BY <2>2, <2>3, <2>4, <2>5 DEF ForkStep, Closes
<1>6. ASSUME NEW t \in Forks, PeerHangsUp(c, t) PROVE ForkStep(c)
  <2>1. wire' = [wire EXCEPT ![c].ended = @ \cup {t}] BY <1>6 DEF PeerHangsUp
  <2>2. CASE call' = [call EXCEPT ![c].ibye = TRUE]
    BY <1>0, <2>1, <2>2 DEF ForkStep, Others, Quiet, Ages, Call, Wire, TypeOK
  <2>3. CASE call' = call
    BY <1>0, <2>1, <2>3 DEF ForkStep, Others, Quiet, Ages, Wire, TypeOK
  <2> QED BY <1>6, <2>2, <2>3 DEF PeerHangsUp
<1>7. CASE ByeResponse(c)
  <2>1. call' = [call EXCEPT ![c] = Finalized(call[c])] /\ wire' = wire
    BY <1>7 DEF ByeResponse
  <2> QED BY <1>0, <2>1, FinalizedIsQuiet DEF ForkStep, Others, Quiet, TypeOK
<1>8. CASE CancelResponse(c)
  BY <1>8, UntouchedIsQuiet DEF CancelResponse, QuietStep, ForkStep
<1> QED BY <1>1, <1>2, <1>3, <1>4, <1>5, <1>6, <1>7, <1>8 DEF Peer

\* Every step is one of the four.
LEMMA NextForks ==
  ASSUME TypeOK, ForkInv, Next PROVE \E c \in Calls : ForkStep(c)
<1>1. PICK c \in Calls : Task(c) \/ Caller(c) \/ Peer(c) \/ Timers(c) BY DEF Next
<1>2. QuietStep(c) => ForkStep(c) BY DEF QuietStep, ForkStep
<1> QED BY <1>1, <1>2, TaskIsQuiet, CallerIsQuiet, TimersAreQuiet, PeerForks

\* The four ways keep ForkOK.
LEMMA ForkStepKeeps ==
  ASSUME TypeOK, ForkInv, NEW c \in Calls, ForkStep(c) PROVE ForkInv'
<1> DEFINE k == call[c]   w == wire[c]   k2 == call'[c]   w2 == wire'[c]
<1>0. k \in Call /\ w \in Wire /\ ForkOK(k, w) BY DEF TypeOK, ForkInv
<1>1. ASSUME Quiet(k, w, k2, w2) PROVE ForkOK(k2, w2)
  BY <1>0, <1>1 DEF Quiet, Ages, ForkOK, Decided
<1>2. ASSUME NEW t \in Forks, Chooses(t, k, w, k2, w2) PROVE ForkOK(k2, w2)
  BY <1>0, <1>2, ForkAssumption DEF Chooses, Ages, ForkOK, Decided, Wire
<1>3. ASSUME NEW t \in Forks, Releases(t, k, w, k2, w2) PROVE ForkOK(k2, w2)
  BY <1>0, <1>3 DEF Releases, Ages, ForkOK, Decided
<1>4. ASSUME Closes(k, w, k2, w2) PROVE ForkOK(k2, w2)
  BY <1>0, <1>4 DEF Closes, Ages, ForkOK, Decided
<1>5. ForkOK(k2, w2) BY <1>1, <1>2, <1>3, <1>4 DEF ForkStep
<1>6. \A d \in Calls \ {c} : ForkOK(call'[d], wire'[d])
  BY DEF ForkStep, Others, ForkInv
<1> QED BY <1>5, <1>6 DEF ForkInv

IInv == TypeOK /\ ForkInv

THEOREM ForksInvariant == Spec => []IInv
<1>1. Init => ForkInv
  BY ForkAssumption DEF Init, NewCall, ForkInv, ForkOK, Decided
<1>2. TypeOK /\ ForkInv /\ [Next]_vars => ForkInv'
  <2> SUFFICES ASSUME TypeOK, ForkInv, [Next]_vars PROVE ForkInv' OBVIOUS
  <2>1. CASE Next BY <2>1, NextForks, ForkStepKeeps
  <2>2. CASE UNCHANGED vars BY <2>2 DEF vars, ForkInv
  <2> QED BY <2>1, <2>2
<1> QED BY <1>1, <1>2, TypeCorrect, PTL DEF Spec, IInv

\* However many forks answer, in whatever order with failures, timeouts and
\* hangups: the winner is never cleaned up as a loser (handle_response).
THEOREM WinnerIsKept == Spec => []WinnerNotLost
<1>1. IInv => WinnerNotLost BY DEF IInv, ForkInv, ForkOK, WinnerNotLost
<1> QED BY <1>1, ForksInvariant, PTL

\* And every fork whose 2xx reached the call is the winner or was sent a BYE.
THEOREM NoAnswerForgotten == Spec => []AnswersAccounted
<1>1. IInv => AnswersAccounted BY DEF IInv, ForkInv, ForkOK, AnswersAccounted
<1> QED BY <1>1, ForksInvariant, PTL

-----------------------------------------------------------------------------
\* A step of the call is a step of ForkSelection, or changes nothing of it.
LEMMA ForkStepSelects ==
  ASSUME TypeOK, ForkInv, NEW c \in Calls, ForkStep(c)
  PROVE  [Selection!Next]_(Selection!vars)
<1> DEFINE winner == [d \in Calls |-> call[d].win]
           released == [d \in Calls |-> call[d].lost]
           closed == {d \in Calls : call[d].fin \/ call[d].final = "fail"}
<1>0. call[c] \in Call /\ wire[c] \in Wire /\ ForkOK(call[c], wire[c])
  BY DEF TypeOK, ForkInv
<1>1. \A d \in Calls \ {c} : call'[d] = call[d] BY DEF ForkStep, Others
<1>2. Decided(call[c]) <=> c \in closed BY DEF Decided
<1>3. ASSUME Decided(call[c]) => Decided(call'[c])
      PROVE  closed' \in {closed, closed \cup {c}}
  BY <1>1, <1>3 DEF Decided
<1>4. ASSUME call'[c].win = call[c].win, call'[c].lost = call[c].lost,
             Decided(call[c]) => Decided(call'[c])
      PROVE  [Selection!Next]_(Selection!vars)
  <2>1. winner' = winner /\ released' = released BY <1>1, <1>4
  <2>2. closed' \in {closed, closed \cup {c}} BY <1>3, <1>4
  <2> QED BY <2>1, <2>2 DEF Selection!Next, Selection!Close, Selection!vars
<1>5. CASE Quiet(call[c], wire[c], call'[c], wire'[c])
  BY <1>4, <1>5 DEF Quiet, Ages, Decided
<1>6. CASE Closes(call[c], wire[c], call'[c], wire'[c])
  BY <1>4, <1>6 DEF Closes, Ages, Decided
<1>7. ASSUME NEW t \in Forks, Chooses(t, call[c], wire[c], call'[c], wire'[c])
      PROVE  [Selection!Next]_(Selection!vars)
  <2>1. winner' = [winner EXCEPT ![c] = t] /\ released' = released
    BY <1>1, <1>7 DEF Chooses
  <2>2. c \notin closed /\ winner[c] = NoFork BY <1>2, <1>7 DEF Chooses
  <2>3. t \notin released[c] BY <1>0, <1>7 DEF Chooses, ForkOK
  <2>4. closed' \in {closed, closed \cup {c}} BY <1>3, <1>7 DEF Chooses
  <2>5. Selection!Choose(c, t) BY <2>1, <2>2, <2>3, <2>4 DEF Selection!Choose
  <2> QED BY <2>5 DEF Selection!Next
<1>8. ASSUME NEW t \in Forks, Releases(t, call[c], wire[c], call'[c], wire'[c])
      PROVE  [Selection!Next]_(Selection!vars)
  <2>1. winner' = winner /\ released' = [released EXCEPT ![c] = @ \cup {t}]
    BY <1>1, <1>8 DEF Releases
  <2>2. c \in closed \/ winner[c] # NoFork BY <1>2, <1>8 DEF Releases
  <2>3. winner[c] # t BY <1>8 DEF Releases
  <2>4. closed' = closed BY <1>1, <1>8 DEF Releases
  <2>5. Selection!Release(c, t) BY <2>1, <2>2, <2>3, <2>4 DEF Selection!Release
  <2> QED BY <2>5 DEF Selection!Next
<1> QED BY <1>5, <1>6, <1>7, <1>8 DEF ForkStep

\* The call implements ForkSelection: the winner of a forked INVITE is chosen
\* once, first, and never released.
THEOREM CallSelectsFork == Spec => ImplementsForkSelection
<1>1. Init => Selection!Init BY DEF Init, NewCall, Selection!Init
<1>2. IInv /\ [Next]_vars => [Selection!Next]_(Selection!vars)
  <2> SUFFICES ASSUME TypeOK, ForkInv, [Next]_vars
               PROVE  [Selection!Next]_(Selection!vars)
    BY DEF IInv
  <2>1. CASE Next BY <2>1, NextForks, ForkStepSelects
  <2>2. CASE UNCHANGED vars BY <2>2 DEF vars, Selection!vars
  <2> QED BY <2>1, <2>2
<1> QED BY <1>1, <1>2, ForksInvariant, PTL
    DEF Spec, ImplementsForkSelection, Selection!Spec

-----------------------------------------------------------------------------
(***************************************************************************)
(* How a call ends, for any calls, forks and limits.                       *)
(*                                                                         *)
(* No call that is over keeps its admission slot (NeverOvercounted): each  *)
(* step of a call keeps its slot, takes one or gives one back, and the     *)
(* counter of RoutingEngine follows at least as far down; that a step      *)
(* which may finalize a call finds it registered, or finalized before, is  *)
(* what SlotOK adds.                                                       *)
(*                                                                         *)
(* An answered call is kept until somebody hangs up or its session         *)
(* expires, and its winning fork hears of it (AnsweredCallKept).  KeptOK   *)
(* adds why: the answers in the queue are the winner's, the dialog of an   *)
(* answered call has the winner's tag, to which every BYE of the SBC       *)
(* goes, and each thing that can finalize the call, its finalizer and its  *)
(* BYE, began with a hangup or the expiry.                                 *)
(***************************************************************************)

(* The slots.                                                              *)

\* Held, for one call.
Holds(p, k) == p = "media" \/ k.reg \/ (p = "dead" /\ ~k.fin)

\* The task p, the object k and the timers tm of one call.
SlotOK(p, k, tm) ==
  /\ k.fin => ~k.reg
  /\ p \in {"idle", "media"} => ~k.reg /\ ~k.fin
  /\ p \in {"wait", "expired"} => k.reg \/ k.fin
  /\ tm.finalizer => k.reg \/ k.fin

SlotInv == \A c \in Calls : SlotOK(pc[c], call[c], timer[c])

\* What a step of call c does to the slots.
Alone(c) ==
  \A d \in Calls \ {c} :
    pc'[d] = pc[d] /\ call'[d] = call[d] /\ timer'[d] = timer[d]

Keeps(c) == /\ Holds(pc[c], call[c]) => Holds(pc'[c], call'[c])
            /\ active' <= active
Frees(c) == active' <= Released(active)
Takes(c) == /\ ~Holds(pc[c], call[c]) /\ Holds(pc'[c], call'[c])
            /\ active' = active + 1

SlotStep(c) ==
  /\ Alone(c)
  /\ SlotOK(pc'[c], call'[c], timer'[c])
  /\ Keeps(c) \/ Frees(c) \/ Takes(c)

\* A finalized call is in no table, if it was in none when it was before.
LEMMA FinalizedEnds ==
  ASSUME NEW k \in Call
  PROVE  /\ Finalized(k).fin
         /\ k.fin => Finalized(k) = k
         /\ ~k.fin => ~Finalized(k).reg
<1>1. CASE k.fin BY <1>1 DEF Finalized
<1>2. CASE ~k.fin
  <2>1. Finalized(k) = [k EXCEPT !.fin = TRUE, !.tomb = "recent", !.reg = FALSE,
                                 !.open = FALSE]
    BY <1>2 DEF Finalized
  <2> QED BY <1>2, <2>1 DEF Call
<1> QED BY <1>1, <1>2

\* Most steps leave the counter, the task and what SlotOK reads alone.
LEMMA SameSlot ==
  ASSUME TypeOK, SlotInv, NEW c \in Calls,
         pc' = pc, active' = active, Alone(c),
         call'[c].reg = call[c].reg, call'[c].fin = call[c].fin,
         timer'[c].finalizer => timer[c].finalizer \/ call[c].reg
  PROVE  SlotStep(c)
<1>1. SlotOK(pc[c], call[c], timer[c]) /\ active \in Nat BY DEF SlotInv, TypeOK
<1> QED BY <1>1 DEF SlotStep, Keeps, Holds, SlotOK

\* Finalizing a call that is registered or finalized already.
LEMMA FinalizeSlotStep ==
  ASSUME TypeOK, SlotInv, NEW c \in Calls, NEW k \in Call,
         k.reg = call[c].reg, k.fin = call[c].fin, k.reg \/ k.fin,
         pc' = pc, call' = [call EXCEPT ![c] = Finalized(k)],
         active' = FinalizeSlot(k), Alone(c)
  PROVE  SlotStep(c)
<1>1. SlotOK(pc[c], call[c], timer[c]) /\ active \in Nat BY DEF SlotInv, TypeOK
<1>2. call'[c] = Finalized(k) BY DEF TypeOK
<1>3. CASE k.fin
  <2>1. call'[c] = k /\ active' = active BY <1>2, <1>3 DEF Finalized, FinalizeSlot
  <2> QED BY <1>1, <1>3, <2>1 DEF SlotStep, Keeps, Holds, SlotOK
<1>4. CASE ~k.fin
  <2>1. call'[c].fin /\ ~call'[c].reg BY <1>2, <1>4, FinalizedEnds
  <2>2. active' = Released(active) /\ Released(active) \in Nat
    BY <1>1, <1>4, SlotType DEF FinalizeSlot
  <2>3. pc[c] \notin {"idle", "media"} BY <1>1 DEF SlotOK
  <2> QED BY <2>1, <2>2, <2>3 DEF SlotStep, Frees, SlotOK
<1> QED BY <1>3, <1>4

\* A failed call gives its slot back at least once.
LEMMA FailSlotStep ==
  ASSUME TypeOK, SlotInv, NEW c \in Calls, NEW k \in Call, FailCall(c, k),
         k.fin = call[c].fin, k.reg = call[c].reg
  PROVE  SlotStep(c)
<1>1. /\ active \in Nat /\ timer[c] \in Timer /\ Finalized(k) \in Call
      /\ SlotOK(pc[c], call[c], timer[c])
  BY FinalizedType DEF TypeOK, Timer, SlotInv
<1>2. /\ call'[c].fin = Finalized(k).fin /\ call'[c].reg = Finalized(k).reg
      /\ pc'[c] = "done" /\ timer'[c].finalizer = timer[c].finalizer
  BY <1>1 DEF FailCall, TypeOK, Call, Timer
<1>3. call'[c].fin /\ ~call'[c].reg BY <1>1, <1>2, FinalizedEnds DEF SlotOK
<1>4. SlotOK(pc'[c], call'[c], timer'[c]) BY <1>2, <1>3 DEF SlotOK
<1>5. active' <= Released(active)
  BY <1>1 DEF FailCall, FinalizeSlot, Released
<1>6. Alone(c) BY DEF FailCall, TypeOK, Alone
<1> QED BY <1>4, <1>5, <1>6 DEF SlotStep, Frees

\* A task that gives up without cleaning up keeps what the call held.
LEMMA GiveUpSlotStep ==
  ASSUME TypeOK, SlotInv, NEW c \in Calls, pc[c] \in {"wait", "expired"}, GiveUp(c)
  PROVE  SlotStep(c)
<1>0. /\ call[c] \in Call /\ active \in Nat /\ SlotOK(pc[c], call[c], timer[c])
  BY DEF TypeOK, SlotInv
<1>1. CASE FailCall(c, call[c]) BY <1>0, <1>1, FailSlotStep
<1>2. CASE /\ pc' = [pc EXCEPT ![c] = "dead"]
           /\ call' = [call EXCEPT ![c].open = FALSE]
           /\ UNCHANGED <<active, timer>>
  BY <1>0, <1>2 DEF SlotStep, Alone, Keeps, Holds, SlotOK, Call, TypeOK
<1> QED BY <1>1, <1>2 DEF GiveUp

LEMMA TaskSlots ==
  ASSUME TypeOK, SlotInv, NEW c \in Calls, Task(c) PROVE SlotStep(c)
<1>0. /\ call[c] \in Call /\ active \in Nat /\ timer[c] \in Timer
      /\ SlotOK(pc[c], call[c], timer[c])
  BY DEF TypeOK, SlotInv, Timer
<1>1. CASE MediaReady(c)
  BY <1>0, <1>1 DEF MediaReady, SlotStep, Alone, Keeps, Holds, SlotOK, Call, TypeOK
<1>2. CASE MediaFailed(c)
  BY <1>0, <1>2 DEF MediaFailed, SlotStep, Alone, Keeps, Holds, SlotOK, TypeOK
<1>3. CASE ResumeProvisional(c)
  BY <1>0, <1>3, SameSlot DEF ResumeProvisional, Alone, Call, TypeOK
<1>4. CASE ResumeBadProvisional(c)
  BY <1>0, <1>4
  DEF ResumeBadProvisional, Waiting, SlotStep, Alone, Keeps, Holds, SlotOK, Call, TypeOK
<1>5. CASE ResumeAnswer(c)
  <2>1. /\ call'[c].reg = call[c].reg /\ call'[c].fin = call[c].fin
        /\ pc[c] = "wait" /\ pc'[c] = "done"
        /\ timer'[c].finalizer = timer[c].finalizer
    BY <1>0, <1>5 DEF ResumeAnswer, Waiting, Connected, Call, Timer, TypeOK
  <2>2. Alone(c) BY <1>5 DEF ResumeAnswer, Alone, TypeOK
  <2>3. active' = IF call[c].reg THEN active ELSE Released(active)
    BY <1>5 DEF ResumeAnswer
  <2> QED BY <1>0, <2>1, <2>2, <2>3, SlotType
          DEF SlotStep, Keeps, Frees, Holds, SlotOK
<1>6. CASE ResumeReject(c)
  <2>1. Head(queue[c]).tag \in Tags
    BY <1>6, WaitingType DEF ResumeReject, Response
  <2>2. [call[c] EXCEPT !.to = Head(queue[c]).tag] \in Call
    BY <1>0, <2>1 DEF Call
  <2> QED BY <1>0, <1>6, <2>2, FailSlotStep DEF ResumeReject, Call
<1>7. CASE ResumeError(c) BY <1>0, <1>7, FailSlotStep DEF ResumeError
<1>8. CASE ResumeTimeout(c) BY <1>8, GiveUpSlotStep DEF ResumeTimeout, Waiting
<1>9. CASE WaitTimeout(c)
  BY <1>0, <1>9 DEF WaitTimeout, SlotStep, Alone, Keeps, Holds, SlotOK, TypeOK
<1>10. CASE HandleTimeout(c) BY <1>10, GiveUpSlotStep DEF HandleTimeout
<1> QED BY <1>1, <1>2, <1>3, <1>4, <1>5, <1>6, <1>7, <1>8, <1>9, <1>10 DEF Task

LEMMA CallerSlots ==
  ASSUME TypeOK, SlotInv, NEW c \in Calls, Caller(c) PROVE SlotStep(c)
<1>0. /\ call[c] \in Call /\ active \in Nat /\ timer[c] \in Timer
      /\ SlotOK(pc[c], call[c], timer[c])
  BY DEF TypeOK, SlotInv, Timer
<1>1. CASE InviteRejected(c)
  BY <1>0, <1>1 DEF InviteRejected, SlotStep, Alone, Keeps, Holds, SlotOK, TypeOK
<1>2. CASE InviteAdmitted(c)
  BY <1>0, <1>2 DEF InviteAdmitted, SlotStep, Alone, Takes, Holds, SlotOK, TypeOK
<1>3. CASE Ack(c) BY <1>3, SameSlot DEF Ack, Alone
<1>4. CASE CancelAccepted(c) BY <1>4, SameSlot DEF CancelAccepted, Alone
<1>5. CASE CancelRejected(c) BY <1>5, SameSlot DEF CancelRejected, Alone
<1>6. CASE CallerHangsUp(c)
  BY <1>0, <1>6, SameSlot DEF CallerHangsUp, FinalizerScheduled, Alone, Call, TypeOK
<1>7. CASE CallerHangsUpLate(c) BY <1>7, SameSlot DEF CallerHangsUpLate, Alone
<1> QED BY <1>1, <1>2, <1>3, <1>4, <1>5, <1>6, <1>7 DEF Caller

\* A response that may have ended the call.
LEMMA EndedSlotStep ==
  ASSUME TypeOK, SlotInv, NEW c \in Calls, NEW k \in Call,
         k.reg = call[c].reg, k.fin = call[c].fin,
         call' = [call EXCEPT ![c] = IF EndsCall(k) THEN Finalized(k) ELSE k],
         active' = IF EndsCall(k) THEN FinalizeSlot(k) ELSE active,
         UNCHANGED <<pc, timer>>
  PROVE  SlotStep(c)
<1>1. Alone(c) BY DEF Alone, TypeOK
<1>2. CASE EndsCall(k)
  BY <1>1, <1>2, FinalizeSlotStep DEF EndsCall
<1>3. CASE ~EndsCall(k)
  <2>1. call'[c] = k BY <1>3 DEF TypeOK
  <2> QED BY <1>1, <1>3, <2>1, SameSlot
<1> QED BY <1>2, <1>3

LEMMA PeerSlots ==
  ASSUME TypeOK, SlotInv, NEW c \in Calls, Peer(c) PROVE SlotStep(c)
<1>0. /\ call[c] \in Call /\ timer[c] \in Timer
      /\ SlotOK(pc[c], call[c], timer[c])
  BY DEF TypeOK, SlotInv, Timer
<1>1. ASSUME NEW t \in Forks, NEW kind \in Provisionals, Provisional(c, t, kind)
      PROVE  SlotStep(c)
  BY <1>1, SameSlot DEF Provisional, Alone
<1>2. ASSUME NEW t \in Forks, WinnerRetransmits(c, t) PROVE SlotStep(c)
  BY <1>2, SameSlot DEF WinnerRetransmits, Alone
<1>3. ASSUME NEW t \in Forks, LoserAnswers(c, t) PROVE SlotStep(c)
  BY <1>0, <1>3, SameSlot DEF LoserAnswers, Alone, Call, TypeOK
<1>4. ASSUME NEW t \in Forks, WinnerAnswers(c, t) PROVE SlotStep(c)
  <2> DEFINE k == Answered(call[c], t)
  <2>1. k \in Call /\ k.reg = call[c].reg /\ k.fin = call[c].fin
    BY <1>0, AnsweredType DEF Answered, Call
  <2>2. /\ call' = [call EXCEPT ![c] = IF EndsCall(k) THEN Finalized(k) ELSE k]
        /\ active' = IF EndsCall(k) THEN FinalizeSlot(k) ELSE active
        /\ UNCHANGED <<pc, timer>>
    BY <1>4 DEF WinnerAnswers
  <2> HIDE DEF k
  <2> QED BY <2>1, <2>2, EndedSlotStep
<1>5. ASSUME NEW t \in Forks, Fails(c, t) PROVE SlotStep(c)
  <2> DEFINE k == IF ~call[c].reg THEN call[c]
                  ELSE [call[c] EXCEPT !.final = "fail",
                                       !.to = IF ctx[c].inv # "none" THEN t ELSE @]
  <2>1. k \in Call /\ k.reg = call[c].reg /\ k.fin = call[c].fin
    BY <1>0 DEF Call, Tags
  <2>2. /\ call' = [call EXCEPT ![c] = IF EndsCall(k) THEN Finalized(k) ELSE k]
        /\ active' = IF EndsCall(k) THEN FinalizeSlot(k) ELSE active
        /\ UNCHANGED <<pc, timer>>
    BY <1>5 DEF Fails
  <2> HIDE DEF k
  <2> QED BY <2>1, <2>2, EndedSlotStep
<1>6. ASSUME NEW t \in Forks, PeerHangsUp(c, t) PROVE SlotStep(c)
  <2>1. CASE /\ call[c].reg /\ call' = [call EXCEPT ![c].ibye = TRUE]
             /\ timer' = [timer EXCEPT ![c].finalizer = TRUE]
             /\ UNCHANGED <<pc, active>>
    BY <1>0, <2>1, SameSlot DEF Alone, Call, TypeOK
  <2>2. CASE UNCHANGED <<pc, active, call, timer>> BY <2>2, SameSlot DEF Alone
  <2> QED BY <1>6, <2>1, <2>2 DEF PeerHangsUp, FinalizerScheduled
<1>7. CASE ByeResponse(c)
  BY <1>0, <1>7, FinalizeSlotStep DEF ByeResponse, Alone, TypeOK
<1>8. CASE CancelResponse(c) BY <1>8, SameSlot DEF CancelResponse, Alone
<1> QED BY <1>1, <1>2, <1>3, <1>4, <1>5, <1>6, <1>7, <1>8 DEF Peer

LEMMA TimersSlots ==
  ASSUME TypeOK, SlotInv, NEW c \in Calls, Timers(c) PROVE SlotStep(c)
<1>0. /\ call[c] \in Call /\ active \in Nat /\ timer[c] \in Timer
      /\ SlotOK(pc[c], call[c], timer[c])
  BY DEF TypeOK, SlotInv, Timer
<1>1. CASE InviteTimeout(c) BY <1>1, SameSlot DEF InviteTimeout, Alone
<1>2. CASE TransportError(c) BY <1>2, SameSlot DEF TransportError, Alone
<1>3. CASE InviteForgotten(c) BY <1>3, SameSlot DEF InviteForgotten, Alone
<1>4. CASE CancelForgotten(c) BY <1>4, SameSlot DEF CancelForgotten, Alone
<1>5. CASE FinalizeLater(c)
  <2>1. Alone(c) BY <1>5 DEF FinalizeLater, Alone, TypeOK
  <2>2. call[c].reg \/ call[c].fin BY <1>0, <1>5 DEF FinalizeLater, SlotOK
  <2> QED BY <1>0, <1>5, <2>1, <2>2, FinalizeSlotStep DEF FinalizeLater
<1>6. CASE SessionExpires(c)
  <2>1. CASE /\ timer' = [timer EXCEPT ![c].session = FALSE]
             /\ UNCHANGED <<pc, active, call>>
    BY <1>0, <2>1, SameSlot DEF Alone, Timer, TypeOK
  <2>2. CASE /\ call[c].reg
             /\ call' = [call EXCEPT ![c].ibye = TRUE, ![c].obye = TRUE]
             /\ timer' = [timer EXCEPT ![c] = [finalizer |-> TRUE, session |-> FALSE]]
             /\ UNCHANGED <<pc, active>>
    BY <1>0, <2>2, SameSlot DEF Alone, Call, TypeOK
  <2> QED BY <1>6, <2>1, <2>2 DEF SessionExpires
<1>7. CASE TombstoneAges(c)
  BY <1>0, <1>7, SameSlot DEF TombstoneAges, Alone, Call, TypeOK
<1> QED BY <1>1, <1>2, <1>3, <1>4, <1>5, <1>6, <1>7 DEF Timers

-----------------------------------------------------------------------------
\* The counter stays at or below the calls that hold a slot.
LEMMA SlotStepCounts ==
  ASSUME TypeOK, active' \in Nat, NEW c \in Calls, SlotStep(c), NeverOvercounted
  PROVE  NeverOvercounted'
<1>0. active \in Nat BY DEF TypeOK
<1>1. Held = {d \in Calls : Holds(pc[d], call[d])} BY DEF Held, Holds
<1>2. Held' = {d \in Calls : Holds(pc'[d], call'[d])} BY DEF Held, Holds
<1>3. \A d \in Calls \ {c} : d \in Held' <=> d \in Held
  BY <1>1, <1>2 DEF SlotStep, Alone
<1>4. IsFiniteSet(Held) /\ IsFiniteSet(Held')
  BY <1>1, <1>2, CallAssumption, FS_Subset
<1>5. Cardinality(Held) \in Nat /\ Cardinality(Held') \in Nat
  BY <1>4, FS_CardinalityType
<1>6. CASE Keeps(c)
  <2>1. Held \subseteq Held' BY <1>1, <1>2, <1>3, <1>6 DEF Keeps
  <2>2. Cardinality(Held) <= Cardinality(Held') BY <1>4, <2>1, FS_Subset
  <2> QED BY <1>0, <1>5, <1>6, <2>2 DEF Keeps, NeverOvercounted
<1>7. CASE Frees(c)
  <2>1. Held \ {c} \subseteq Held' BY <1>1, <1>3
  <2>2. /\ IsFiniteSet(Held \ {c})
        /\ Cardinality(Held \ {c}) >= Cardinality(Held) - 1
    BY <1>4, <1>5, FS_RemoveElement
  <2>3. Cardinality(Held \ {c}) <= Cardinality(Held') BY <1>4, <2>1, FS_Subset
  <2>4. Cardinality(Held \ {c}) \in Nat BY <2>2, FS_CardinalityType
  <2> QED BY <1>0, <1>5, <1>7, <2>2, <2>3, <2>4
          DEF Frees, Released, NeverOvercounted
<1>8. CASE Takes(c)
  <2>1. Held' = Held \cup {c} /\ c \notin Held
    BY <1>1, <1>2, <1>3, <1>8 DEF Takes
  <2>2. Cardinality(Held') = Cardinality(Held) + 1
    BY <1>4, <2>1, FS_AddElement
  <2> QED BY <1>0, <1>5, <1>8, <2>2 DEF Takes, NeverOvercounted
<1> QED BY <1>6, <1>7, <1>8 DEF SlotStep

\* RoutingEngine never counts more calls than hold a slot: whatever ends a
\* call, its slot does not stay with it.
THEOREM NoSlotIsKept == Spec => []NeverOvercounted
<1>1. Init => SlotInv /\ NeverOvercounted
  <2> SUFFICES ASSUME Init PROVE SlotInv /\ NeverOvercounted OBVIOUS
  <2>1. SlotInv BY DEF Init, SlotInv, SlotOK, NewCall
  <2>2. IsFiniteSet(Held) BY CallAssumption, FS_Subset DEF Held
  <2>3. active <= Cardinality(Held) BY <2>2, FS_CardinalityType DEF Init
  <2> QED BY <2>1, <2>3 DEF NeverOvercounted
<1>2. /\ TypeOK /\ TypeOK' /\ SlotInv /\ NeverOvercounted /\ [Next]_vars
      => SlotInv' /\ NeverOvercounted'
  <2> SUFFICES ASSUME TypeOK, TypeOK', SlotInv, NeverOvercounted, [Next]_vars
               PROVE  SlotInv' /\ NeverOvercounted'
    OBVIOUS
  <2>1. CASE Next
    <3>1. PICK c \in Calls : SlotStep(c)
      BY <2>1, TaskSlots, CallerSlots, PeerSlots, TimersSlots DEF Next
    <3>2. SlotInv' BY <3>1 DEF SlotStep, Alone, SlotInv
    <3>3. active' \in Nat BY DEF TypeOK
    <3> QED BY <3>1, <3>2, <3>3, SlotStepCounts
  <2>2. CASE UNCHANGED vars
    BY <2>2 DEF vars, SlotInv, NeverOvercounted, Held
  <2> QED BY <2>1, <2>2
<1> QED BY <1>1, <1>2, TypeCorrect, PTL DEF Spec

-----------------------------------------------------------------------------
(* An answered call is kept.                                               *)

\* Somebody hung up, or the session expired; and the winner knows of it, if the
\* caller got its answer before and no losing fork hung up.
Hung(w) == w.aBye # "no" \/ w.ended # {} \/ w.expired
Told(k, w) ==
  \/ w.aBye = "early" \/ w.ended # {}
  \/ "2xx" \in w.toA /\ k.win \in w.byed

\* The task has not answered the caller; the answers left for it are the
\* winner's.
Busy == {"idle", "media", "wait", "expired"}
OfWinner(q, k) ==
  \A i \in 1 .. Len(q) : q[i].kind = "2xx" => q[i].tag = k.win /\ k.win # NoFork

\* The task p, the object k, the queue q, the timers tm and the history w of one
\* call.  Whatever can finalize it follows a hangup the winner knows of, but for
\* the failure of an INVITE that was not answered.
KeptOK(p, k, q, tm, w) ==
  /\ p \in Busy => "2xx" \notin w.toA
  /\ OfWinner(q, k)
  /\ "2xx" \in w.toA => k.to = k.win /\ k.win # NoFork
  /\ tm.session => "2xx" \in w.toA
  /\ k.obye \/ tm.finalizer => Hung(w) /\ Told(k, w)
  /\ k.fin => \/ Hung(w) /\ Told(k, w)
              \/ p = "done" /\ "2xx" \notin w.toA

KeptInv ==
  \A c \in Calls : KeptOK(pc[c], call[c], queue[c], timer[c], wire[c])

\* What nearly every step does: the history grows, the winner stays, and a
\* finalizer has a reason.
Grows(k, w, k2, w2) ==
  /\ "2xx" \in w2.toA <=> "2xx" \in w.toA
  /\ w.byed \subseteq w2.byed /\ w.ended \subseteq w2.ended
  /\ w.aBye # "no" => w2.aBye = w.aBye
  /\ w.expired => w2.expired
  /\ k2.win = k.win

Reasoned(p, k, tm, w, p2, k2, tm2, w2) ==
  /\ p2 \in Busy => p \in Busy
  /\ p = "done" => p2 = "done"
  /\ "2xx" \in w.toA => k2.to = k.to
  /\ tm2.session => tm.session
  /\ k2.obye \/ tm2.finalizer =>
       k.obye \/ tm.finalizer \/ (Hung(w2) /\ Told(k2, w2))
  /\ k2.fin => \/ k.fin \/ k.obye \/ tm.finalizer
               \/ p2 = "done" /\ "2xx" \notin w2.toA

Apart(c) ==
  \A d \in Calls \ {c} :
    /\ pc'[d] = pc[d] /\ call'[d] = call[d] /\ queue'[d] = queue[d]
    /\ timer'[d] = timer[d] /\ wire'[d] = wire[d]

KeptStep(c) ==
  /\ Apart(c)
  /\ OfWinner(queue'[c], call[c])
  /\ Grows(call[c], wire[c], call'[c], wire'[c])
  /\ Reasoned(pc[c], call[c], timer[c], wire[c], pc'[c], call'[c], timer'[c], wire'[c])

LEMMA KeptStepKeeps ==
  ASSUME KeptInv, NEW c \in Calls, KeptStep(c) PROVE KeptInv'
<1> DEFINE k == call[c]   w == wire[c]   k2 == call'[c]   w2 == wire'[c]
           p == pc[c]   p2 == pc'[c]   tm == timer[c]   tm2 == timer'[c]
           q == queue[c]   q2 == queue'[c]
<1>1. KeptOK(p, k, q, tm, w) BY DEF KeptInv
<1>2. /\ OfWinner(q2, k) /\ Grows(k, w, k2, w2)
      /\ Reasoned(p, k, tm, w, p2, k2, tm2, w2)
  BY DEF KeptStep
<1> HIDE DEF k, w, k2, w2, p, p2, tm, tm2, q, q2
<1>3. /\ Hung(w) => Hung(w2)
      /\ Told(k, w) => Told(k2, w2)
  BY <1>2 DEF Grows, Hung, Told
<1>4. OfWinner(q2, k2) BY <1>2 DEF Grows, OfWinner
<1>5. KeptOK(p2, k2, q2, tm2, w2)
  BY <1>1, <1>2, <1>3, <1>4 DEF KeptOK, Reasoned, Grows
<1>6. \A d \in Calls \ {c} : KeptOK(pc'[d], call'[d], queue'[d], timer'[d], wire'[d])
  BY DEF KeptStep, Apart, KeptInv
<1> QED BY <1>5, <1>6 DEF KeptInv, k2, w2, p2, tm2, q2

\* What is taken from a queue and what is put there.
LEMMA TailOfWinner ==
  ASSUME NEW q \in Seq(Response), q # <<>>, NEW k, OfWinner(q, k)
  PROVE  OfWinner(Tail(q), k)
BY DEF OfWinner

LEMMA AppendOfWinner ==
  ASSUME NEW q \in Seq(Response), NEW k, OfWinner(q, k), NEW m \in Response,
         m.kind = "2xx" => m.tag = k.win /\ k.win # NoFork
  PROVE  OfWinner(Append(q, m), k)
BY DEF OfWinner

LEMMA WaitingOfWinner ==
  ASSUME TypeOK, KeptInv, NEW c \in Calls, NEW kinds, Waiting(c, kinds)
  PROVE  OfWinner(queue'[c], call[c]) /\ \A d \in Calls \ {c} : queue'[d] = queue[d]
<1>1. queue[c] \in Seq(Response) /\ OfWinner(queue[c], call[c])
  BY DEF TypeOK, KeptInv, KeptOK
<1>2. queue'[c] = Tail(queue[c]) /\ queue[c] # <<>> BY DEF Waiting, TypeOK
<1>3. \A d \in Calls \ {c} : queue'[d] = queue[d] BY DEF Waiting, TypeOK
<1> QED BY <1>1, <1>2, <1>3, TailOfWinner

LEMMA EnqueuedOfWinner ==
  ASSUME TypeOK, KeptInv, NEW c \in Calls, NEW k, NEW m \in Response,
         m.kind # "2xx", queue' = [queue EXCEPT ![c] = Enqueued(c, k, m)]
  PROVE  OfWinner(queue'[c], call[c]) /\ \A d \in Calls \ {c} : queue'[d] = queue[d]
<1>1. queue[c] \in Seq(Response) /\ OfWinner(queue[c], call[c])
  BY DEF TypeOK, KeptInv, KeptOK
<1>2. queue'[c] \in {queue[c], Append(queue[c], m)} BY DEF TypeOK, Enqueued
<1>3. \A d \in Calls \ {c} : queue'[d] = queue[d] BY DEF TypeOK
<1> QED BY <1>1, <1>2, <1>3, AppendOfWinner

\* A call that fails is finalized before the caller is answered.
LEMMA FailIsKept ==
  ASSUME TypeOK, KeptInv, NEW c \in Calls, NEW k \in Call, FailCall(c, k),
         pc[c] \in {"wait", "expired"}, k.win = call[c].win, k.obye = call[c].obye,
         OfWinner(queue'[c], call[c]), \A d \in Calls \ {c} : queue'[d] = queue[d]
  PROVE  KeptStep(c)
<1>1. /\ wire[c] \in Wire /\ timer[c] \in Timer /\ Finalized(k) \in Call
      /\ "2xx" \notin wire[c].toA
  BY FinalizedType DEF TypeOK, KeptInv, KeptOK, Busy, Timer
<1>2. call'[c] = [Finalized(k) EXCEPT !.open = FALSE] /\ pc'[c] = "done"
  BY DEF FailCall, TypeOK
<1>3. call'[c].win = call[c].win /\ call'[c].obye = call[c].obye
  BY <1>1, <1>2 DEF Call, Finalized
<1>4. /\ wire'[c].toA = wire[c].toA \cup {"fail"} /\ wire'[c].byed = wire[c].byed
      /\ wire'[c].ended = wire[c].ended /\ wire'[c].aBye = wire[c].aBye
      /\ wire'[c].expired = wire[c].expired
      /\ timer'[c].session = FALSE /\ timer'[c].finalizer = timer[c].finalizer
  BY <1>1 DEF FailCall, TypeOK, Wire, Timer
<1>5. Apart(c) BY DEF FailCall, TypeOK, Apart
<1> QED BY <1>1, <1>2, <1>3, <1>4, <1>5 DEF KeptStep, Grows, Reasoned, Busy

LEMMA GiveUpIsKept ==
  ASSUME TypeOK, KeptInv, NEW c \in Calls, GiveUp(c), pc[c] \in {"wait", "expired"},
         OfWinner(queue'[c], call[c]), \A d \in Calls \ {c} : queue'[d] = queue[d]
  PROVE  KeptStep(c)
<1>0. call[c] \in Call BY DEF TypeOK
<1>1. CASE FailCall(c, call[c]) BY <1>0, <1>1, FailIsKept
<1>2. CASE /\ pc' = [pc EXCEPT ![c] = "dead"]
           /\ call' = [call EXCEPT ![c].open = FALSE]
           /\ UNCHANGED <<timer, wire>>
  BY <1>0, <1>2 DEF KeptStep, Apart, Grows, Reasoned, Busy, Call, TypeOK
<1> QED BY <1>1, <1>2 DEF GiveUp

\* The task takes the answer: it is the winner's, and the caller gets it.
LEMMA AnswerIsKept ==
  ASSUME TypeOK, KeptInv, NEW c \in Calls, ResumeAnswer(c) PROVE KeptInv'
<1> DEFINE k == call[c]   w == wire[c]   k2 == call'[c]   w2 == wire'[c]
           m == Head(queue[c])
<1>0. /\ k \in Call /\ w \in Wire /\ timer[c] \in Timer
      /\ KeptOK(pc[c], k, queue[c], timer[c], w)
  BY DEF TypeOK, Timer, KeptInv
<1>1. m.tag = k.win /\ k.win # NoFork
  <2>1. queue[c] \in Seq(Response) /\ queue[c] # << >> /\ m.kind = "2xx"
    BY DEF TypeOK, ResumeAnswer, Waiting
  <2>2. m = queue[c][1] /\ 1 \in 1 .. Len(queue[c]) BY <2>1
  <2> HIDE DEF m
  <2> QED BY <1>0, <2>1, <2>2 DEF KeptOK, OfWinner
<1>2. /\ pc[c] = "wait" /\ pc'[c] = "done"
      /\ k2.to = m.tag /\ k2.win = k.win /\ k2.obye = k.obye /\ k2.fin = k.fin
  BY <1>0 DEF ResumeAnswer, Waiting, Connected, TypeOK, Call
<1>3. /\ w2.toA = w.toA \cup {"2xx"} /\ w2.byed = w.byed /\ w2.ended = w.ended
      /\ w2.aBye = w.aBye /\ w2.expired = w.expired
      /\ timer'[c].finalizer = timer[c].finalizer
  BY <1>0 DEF ResumeAnswer, TypeOK, Wire, Timer
<1>4. /\ OfWinner(queue'[c], k) /\ \A d \in Calls \ {c} : queue'[d] = queue[d]
  BY WaitingOfWinner DEF ResumeAnswer
<1>5. OfWinner(queue'[c], k2) BY <1>2, <1>4 DEF OfWinner
<1>6. Apart(c) BY <1>4 DEF ResumeAnswer, TypeOK, Apart
<1> HIDE DEF k, w, k2, w2, m
<1>7. Hung(w) => Hung(w2) BY <1>3 DEF Hung
<1>8. Told(k, w) => Told(k2, w2) BY <1>2, <1>3 DEF Told
<1>9. KeptOK(pc'[c], k2, queue'[c], timer'[c], w2)
  BY <1>0, <1>1, <1>2, <1>3, <1>5, <1>7, <1>8 DEF KeptOK, Busy
<1>10. \A d \in Calls \ {c} : KeptOK(pc'[d], call'[d], queue'[d], timer'[d], wire'[d])
  BY <1>6 DEF Apart, KeptInv
<1> QED BY <1>9, <1>10 DEF KeptInv, k2, w2

LEMMA TaskIsKept ==
  ASSUME TypeOK, KeptInv, NEW c \in Calls, Task(c) PROVE KeptInv'
<1>0. /\ call[c] \in Call /\ wire[c] \in Wire /\ timer[c] \in Timer
      /\ KeptOK(pc[c], call[c], queue[c], timer[c], wire[c])
  BY DEF TypeOK, Timer, KeptInv
<1>1. CASE MediaReady(c)
  <2>1. KeptStep(c)
    BY <1>0, <1>1
    DEF MediaReady, KeptStep, Apart, KeptOK, Grows, Reasoned, Busy, Call, TypeOK
  <2> QED BY <2>1, KeptStepKeeps
<1>2. CASE MediaFailed(c)
  <2>1. KeptStep(c)
    BY <1>0, <1>2 DEF MediaFailed, KeptStep, Apart, KeptOK, Grows, Reasoned, Busy, TypeOK
  <2> QED BY <2>1, KeptStepKeeps
<1>3. CASE ResumeProvisional(c)
  <2>1. OfWinner(queue'[c], call[c]) /\ \A d \in Calls \ {c} : queue'[d] = queue[d]
    BY <1>3, WaitingOfWinner DEF ResumeProvisional
  <2>2. pc[c] = "wait" /\ "2xx" \notin wire[c].toA
    BY <1>0, <1>3 DEF ResumeProvisional, Waiting, KeptOK, Busy
  <2>3. KeptStep(c)
    BY <1>0, <1>3, <2>1, <2>2
    DEF ResumeProvisional, KeptStep, Apart, Grows, Reasoned, Call, Wire, TypeOK
  <2> QED BY <2>3, KeptStepKeeps
<1>4. CASE ResumeBadProvisional(c)
  <2>1. OfWinner(queue'[c], call[c]) /\ \A d \in Calls \ {c} : queue'[d] = queue[d]
    BY <1>4, WaitingOfWinner DEF ResumeBadProvisional
  <2>2. pc[c] = "wait" BY <1>4 DEF ResumeBadProvisional, Waiting
  <2>3. KeptStep(c)
    BY <1>0, <1>4, <2>1, <2>2
    DEF ResumeBadProvisional, KeptStep, Apart, Grows, Reasoned, Busy, Call, TypeOK
  <2> QED BY <2>3, KeptStepKeeps
<1>5. CASE ResumeAnswer(c) BY <1>5, AnswerIsKept
<1>6. CASE ResumeReject(c)
  <2>1. OfWinner(queue'[c], call[c]) /\ \A d \in Calls \ {c} : queue'[d] = queue[d]
    BY <1>6, WaitingOfWinner DEF ResumeReject
  <2>2. Head(queue[c]).tag \in Tags
    BY <1>6, WaitingType DEF ResumeReject, Response
  <2> DEFINE k == [call[c] EXCEPT !.to = Head(queue[c]).tag]
  <2>3. k \in Call /\ k.win = call[c].win /\ k.obye = call[c].obye
    BY <1>0, <2>2 DEF Call
  <2>4. FailCall(c, k) /\ pc[c] = "wait" BY <1>6 DEF ResumeReject, Waiting
  <2> HIDE DEF k
  <2>5. KeptStep(c) BY <2>1, <2>3, <2>4, FailIsKept
  <2> QED BY <2>5, KeptStepKeeps
<1>7. CASE ResumeError(c)
  <2>1. OfWinner(queue'[c], call[c]) /\ \A d \in Calls \ {c} : queue'[d] = queue[d]
    BY <1>7, WaitingOfWinner DEF ResumeError
  <2>2. pc[c] = "wait" BY <1>7 DEF ResumeError, Waiting
  <2>3. KeptStep(c) BY <1>0, <1>7, <2>1, <2>2, FailIsKept DEF ResumeError
  <2> QED BY <2>3, KeptStepKeeps
<1>8. CASE ResumeTimeout(c)
  <2>1. OfWinner(queue'[c], call[c]) /\ \A d \in Calls \ {c} : queue'[d] = queue[d]
    BY <1>8, WaitingOfWinner DEF ResumeTimeout
  <2>2. pc[c] = "wait" BY <1>8 DEF ResumeTimeout, Waiting
  <2>3. KeptStep(c) BY <1>8, <2>1, <2>2, GiveUpIsKept DEF ResumeTimeout
  <2> QED BY <2>3, KeptStepKeeps
<1>9. CASE WaitTimeout(c)
  <2>1. KeptStep(c)
    BY <1>0, <1>9 DEF WaitTimeout, KeptStep, Apart, KeptOK, Grows, Reasoned, Busy, TypeOK
  <2> QED BY <2>1, KeptStepKeeps
<1>10. CASE HandleTimeout(c)
  <2>1. KeptStep(c) BY <1>0, <1>10, GiveUpIsKept DEF HandleTimeout, KeptOK
  <2> QED BY <2>1, KeptStepKeeps
<1> QED BY <1>1, <1>2, <1>3, <1>4, <1>5, <1>6, <1>7, <1>8, <1>9, <1>10 DEF Task

LEMMA CallerIsKept ==
  ASSUME TypeOK, KeptInv, NEW c \in Calls, Caller(c) PROVE KeptInv'
<1>0. /\ call[c] \in Call /\ wire[c] \in Wire /\ timer[c] \in Timer
      /\ KeptOK(pc[c], call[c], queue[c], timer[c], wire[c])
  BY DEF TypeOK, Timer, KeptInv
<1>1. CASE InviteRejected(c)
  <2>1. KeptStep(c)
    BY <1>0, <1>1
    DEF InviteRejected, KeptStep, Apart, KeptOK, Grows, Reasoned, Busy, Wire, TypeOK
  <2> QED BY <2>1, KeptStepKeeps
<1>2. CASE InviteAdmitted(c)
  <2>1. KeptStep(c)
    BY <1>0, <1>2
    DEF InviteAdmitted, KeptStep, Apart, KeptOK, Grows, Reasoned, Busy, TypeOK
  <2> QED BY <2>1, KeptStepKeeps
<1>3. CASE Ack(c)
  <2>1. KeptStep(c)
    BY <1>0, <1>3 DEF Ack, KeptStep, Apart, KeptOK, Grows, Reasoned, Wire, TypeOK
  <2> QED BY <2>1, KeptStepKeeps
<1>4. CASE CancelAccepted(c)
  <2>1. KeptStep(c)
    BY <1>0, <1>4
    DEF CancelAccepted, KeptStep, Apart, KeptOK, Grows, Reasoned, Wire, TypeOK
  <2> QED BY <2>1, KeptStepKeeps
<1>5. CASE CancelRejected(c)
  <2>1. KeptStep(c)
    BY <1>0, <1>5
    DEF CancelRejected, KeptStep, Apart, KeptOK, Grows, Reasoned, Wire, TypeOK
  <2> QED BY <2>1, KeptStepKeeps
<1>6. CASE CallerHangsUp(c)
  <2>1. /\ call' = [call EXCEPT ![c].obye = TRUE]
        /\ wire' = [wire EXCEPT
             ![c].aBye = ByeKind(c),
             ![c].byed = IF call[c].obye THEN @ ELSE @ \cup Reached(call[c])]
        /\ timer' = [timer EXCEPT ![c].finalizer = TRUE]
        /\ UNCHANGED <<pc, queue>>
        /\ wire[c].aBye = "no"
    BY <1>6 DEF CallerHangsUp, FinalizerScheduled, MayHangUp
  <2>2. /\ wire'[c].aBye = ByeKind(c) /\ wire'[c].toA = wire[c].toA
        /\ wire'[c].byed = IF call[c].obye THEN wire[c].byed
                           ELSE wire[c].byed \cup Reached(call[c])
        /\ wire'[c].ended = wire[c].ended /\ wire'[c].expired = wire[c].expired
    BY <1>0, <2>1 DEF Wire, TypeOK
  <2>3. /\ call'[c].win = call[c].win /\ call'[c].to = call[c].to
        /\ call'[c].fin = call[c].fin /\ timer'[c].session = timer[c].session
    BY <1>0, <2>1 DEF Call, Timer, TypeOK
  <2>4. Hung(wire'[c]) BY <2>2 DEF Hung, ByeKind
  <2>5. Told(call'[c], wire'[c])
    <3>1. CASE "2xx" \notin wire[c].toA BY <2>2, <3>1 DEF Told, ByeKind
    <3>2. CASE "2xx" \in wire[c].toA /\ ~call[c].obye
      BY <1>0, <2>2, <2>3, <3>2 DEF Told, KeptOK, Reached
    <3>3. CASE "2xx" \in wire[c].toA /\ call[c].obye
      BY <1>0, <2>1, <2>2, <2>3, <3>3 DEF Told, KeptOK
    <3> QED BY <3>1, <3>2, <3>3
  <2>6. Apart(c) BY <2>1 DEF Apart, TypeOK
  <2>7. OfWinner(queue'[c], call[c]) BY <1>0, <2>1 DEF KeptOK
  <2>8. Grows(call[c], wire[c], call'[c], wire'[c])
    <3>1. wire[c].byed \subseteq wire'[c].byed BY <2>2
    <3>2. wire[c].aBye = "no" BY <2>1
    <3> QED BY <2>2, <2>3, <3>1, <3>2 DEF Grows
  <2>9. Reasoned(pc[c], call[c], timer[c], wire[c], pc'[c], call'[c], timer'[c], wire'[c])
    BY <2>1, <2>3, <2>4, <2>5 DEF Reasoned
  <2>10. KeptStep(c) BY <2>6, <2>7, <2>8, <2>9 DEF KeptStep
  <2> QED BY <2>10, KeptStepKeeps
<1>7. CASE CallerHangsUpLate(c)
  <2>1. KeptStep(c)
    BY <1>0, <1>7
    DEF CallerHangsUpLate, MayHangUp, KeptStep, Apart, KeptOK, Grows, Reasoned, Wire,
        TypeOK
  <2> QED BY <2>1, KeptStepKeeps
<1> QED BY <1>1, <1>2, <1>3, <1>4, <1>5, <1>6, <1>7 DEF Caller

\* A response that may end the call ends it after the SBC's BYE.
LEMMA EndedIsReasoned ==
  ASSUME TypeOK, NEW c \in Calls, NEW k \in Call,
         call' = [call EXCEPT ![c] = IF EndsCall(k) THEN Finalized(k) ELSE k],
         k.obye = call[c].obye, k.fin = call[c].fin
  PROVE  /\ call'[c].win = k.win /\ call'[c].to = k.to /\ call'[c].obye = call[c].obye
         /\ call'[c].fin => call[c].fin \/ call[c].obye
         /\ \A d \in Calls \ {c} : call'[d] = call[d]
<1>1. call'[c] = IF EndsCall(k) THEN Finalized(k) ELSE k BY DEF TypeOK
<1>2. CASE EndsCall(k)
  <2>1. k.obye BY <1>2 DEF EndsCall
  <2>2. /\ Finalized(k).win = k.win /\ Finalized(k).to = k.to
        /\ Finalized(k).obye = k.obye
    BY DEF Finalized, Call
  <2>3. call'[c] = Finalized(k) BY <1>1, <1>2
  <2>4. \A d \in Calls \ {c} : call'[d] = call[d] BY DEF TypeOK
  <2> QED BY <2>1, <2>2, <2>3, <2>4
<1>3. CASE ~EndsCall(k) BY <1>1, <1>3
<1>4. \A d \in Calls \ {c} : call'[d] = call[d] BY DEF TypeOK
<1> QED BY <1>2, <1>3, <1>4

\* The first 2xx: the winner's answer is the only one in the queue.
LEMMA FirstAnswerIsKept ==
  ASSUME TypeOK, ForkInv, KeptInv, NEW c \in Calls, NEW t \in Forks,
         WinnerAnswers(c, t)
  PROVE  KeptInv'
<1> DEFINE k == Answered(call[c], t)   m == [kind |-> "2xx", tag |-> t]
<1>0. /\ call[c] \in Call /\ wire[c] \in Wire /\ ForkOK(call[c], wire[c])
      /\ KeptOK(pc[c], call[c], queue[c], timer[c], wire[c])
      /\ queue[c] \in Seq(Response)
  BY DEF TypeOK, KeptInv, ForkInv
<1>1. call[c].win = NoFork /\ t # NoFork
  BY <1>0, ForkAssumption DEF WinnerAnswers, LosesRace, IsRetransmission, ForkOK
<1>2. k \in Call /\ k.win = t /\ k.to = call[c].to /\ k.obye = call[c].obye
        /\ k.fin = call[c].fin
  BY <1>0, <1>1, AnsweredType DEF Answered, Call
<1>3. /\ call' = [call EXCEPT ![c] = IF EndsCall(k) THEN Finalized(k) ELSE k]
      /\ wire' = [wire EXCEPT ![c].heard = @ \cup {t}]
      /\ queue' = [queue EXCEPT ![c] = Enqueued(c, k, m)]
      /\ UNCHANGED <<pc, timer>>
  BY DEF WinnerAnswers
<1>4. m \in Response /\ m.tag = t BY DEF Response, Tags
<1>5. OfWinner(queue[c], k)
  BY <1>0, <1>1 DEF KeptOK, OfWinner
<1> HIDE DEF k, m
<1>6. /\ call'[c].win = t /\ call'[c].to = call[c].to /\ call'[c].obye = call[c].obye
      /\ call'[c].fin => call[c].fin \/ call[c].obye
      /\ \A d \in Calls \ {c} : call'[d] = call[d]
  BY <1>2, <1>3, EndedIsReasoned
<1>7. OfWinner(queue'[c], call'[c])
  <2>1. queue'[c] \in {queue[c], Append(queue[c], m)} BY <1>3 DEF TypeOK, Enqueued
  <2>2. OfWinner(queue'[c], k)
    BY <1>0, <1>1, <1>2, <1>4, <1>5, <2>1, AppendOfWinner
  <2> QED BY <1>2, <1>6, <2>2 DEF OfWinner
<1>8. /\ wire'[c].toA = wire[c].toA /\ wire'[c].byed = wire[c].byed
      /\ wire'[c].ended = wire[c].ended /\ wire'[c].aBye = wire[c].aBye
      /\ wire'[c].expired = wire[c].expired
  BY <1>0, <1>3 DEF Wire, TypeOK
<1>9. "2xx" \notin wire[c].toA BY <1>0, <1>1 DEF KeptOK
<1>10. /\ Hung(wire[c]) => Hung(wire'[c])
       /\ Told(call[c], wire[c]) => Told(call'[c], wire'[c])
  BY <1>8, <1>9 DEF Hung, Told
<1>11. KeptOK(pc'[c], call'[c], queue'[c], timer'[c], wire'[c])
  BY <1>0, <1>3, <1>6, <1>7, <1>8, <1>9, <1>10 DEF KeptOK
<1>12. \A d \in Calls \ {c} : KeptOK(pc'[d], call'[d], queue'[d], timer'[d], wire'[d])
  BY <1>3, <1>6 DEF TypeOK, KeptInv
<1> QED BY <1>11, <1>12 DEF KeptInv

LEMMA PeerIsKept ==
  ASSUME TypeOK, ForkInv, KeptInv, NEW c \in Calls, Peer(c) PROVE KeptInv'
<1>0. /\ call[c] \in Call /\ wire[c] \in Wire /\ timer[c] \in Timer
      /\ KeptOK(pc[c], call[c], queue[c], timer[c], wire[c])
      /\ ForkOK(call[c], wire[c])
  BY DEF TypeOK, Timer, KeptInv, ForkInv
<1>1. ASSUME NEW t \in Forks, NEW kind \in Provisionals, Provisional(c, t, kind)
      PROVE  KeptInv'
  <2> DEFINE m == [kind |-> kind, tag |-> t]
  <2>1. m \in Response /\ m.kind # "2xx"
    BY ProvisionalAssumption DEF Response, Tags
  <2>2. call[c].open /\ queue' = [queue EXCEPT ![c] = Append(queue[c], m)]
    BY <1>1 DEF Provisional
  <2> HIDE DEF m
  <2>3. queue' = [queue EXCEPT ![c] = Enqueued(c, call[c], m)]
    BY <2>2 DEF Enqueued
  <2>4. OfWinner(queue'[c], call[c]) /\ \A d \in Calls \ {c} : queue'[d] = queue[d]
    BY <2>1, <2>3, EnqueuedOfWinner
  <2>5. KeptStep(c)
    BY <1>0, <1>1, <2>4
    DEF Provisional, KeptStep, Apart, Grows, Reasoned, Wire, TypeOK
  <2> QED BY <2>5, KeptStepKeeps
<1>2. ASSUME NEW t \in Forks, WinnerRetransmits(c, t) PROVE KeptInv'
  <2>1. KeptStep(c)
    BY <1>0, <1>2
    DEF WinnerRetransmits, KeptStep, Apart, KeptOK, Grows, Reasoned, Wire, TypeOK
  <2> QED BY <2>1, KeptStepKeeps
<1>3. ASSUME NEW t \in Forks, LoserAnswers(c, t) PROVE KeptInv'
  <2>1. KeptStep(c)
    BY <1>0, <1>3
    DEF LoserAnswers, KeptStep, Apart, KeptOK, Grows, Reasoned, Call, Wire, TypeOK
  <2> QED BY <2>1, KeptStepKeeps
<1>4. ASSUME NEW t \in Forks, WinnerAnswers(c, t) PROVE KeptInv'
  BY <1>4, FirstAnswerIsKept
<1>5. ASSUME NEW t \in Forks, Fails(c, t) PROVE KeptInv'
  <2> DEFINE k == IF ~call[c].reg THEN call[c]
                  ELSE [call[c] EXCEPT !.final = "fail",
                                       !.to = IF ctx[c].inv # "none" THEN t ELSE @]
             u == ctx[c].inv # "none" /\ ~(call[c].reg /\ ctx[c].inv # "none")
             m == [kind |-> "fail", tag |-> t]
  <2>1. /\ k \in Call /\ k.win = call[c].win
        /\ k.fin = call[c].fin /\ k.obye = call[c].obye
    BY <1>0 DEF Call, Tags
  <2>2. m \in Response /\ m.kind # "2xx" BY DEF Response, Tags
  <2>3. /\ wire[c].heard = {}
        /\ call' = [call EXCEPT ![c] = IF EndsCall(k) THEN Finalized(k) ELSE k]
        /\ wire' = [wire EXCEPT ![c].unacked = u]
        /\ queue' = [queue EXCEPT ![c] = Enqueued(c, k, m)]
        /\ UNCHANGED <<pc, timer>>
    BY <1>5 DEF Fails
  <2> HIDE DEF k, u, m
  <2>4. OfWinner(queue'[c], call[c]) /\ \A d \in Calls \ {c} : queue'[d] = queue[d]
    BY <2>2, <2>3, EnqueuedOfWinner
  <2>5. "2xx" \notin wire[c].toA
    BY <1>0, <2>3 DEF KeptOK, ForkOK
  <2>6. /\ call'[c].win = call[c].win /\ call'[c].obye = call[c].obye
        /\ call'[c].fin => call[c].fin \/ call[c].obye
        /\ \A d \in Calls \ {c} : call'[d] = call[d]
    BY <2>1, <2>3, EndedIsReasoned
  <2>7. KeptStep(c)
    BY <1>0, <2>3, <2>4, <2>5, <2>6 DEF KeptStep, Apart, Grows, Reasoned, Wire, TypeOK
  <2> QED BY <2>7, KeptStepKeeps
<1>6. ASSUME NEW t \in Forks, PeerHangsUp(c, t) PROVE KeptInv'
  <2>1. wire' = [wire EXCEPT ![c].ended = @ \cup {t}] /\ UNCHANGED <<pc, queue>>
    BY <1>6 DEF PeerHangsUp
  <2>2. /\ wire'[c].ended = wire[c].ended \cup {t} /\ wire'[c].toA = wire[c].toA
        /\ wire'[c].byed = wire[c].byed /\ wire'[c].aBye = wire[c].aBye
        /\ wire'[c].expired = wire[c].expired
        /\ \A d \in Calls \ {c} : wire'[d] = wire[d]
    BY <1>0, <2>1 DEF Wire, TypeOK
  <2>3. Hung(wire'[c]) /\ Told(call'[c], wire'[c]) BY <2>2 DEF Hung, Told
  <2>4. /\ call'[c].win = call[c].win /\ call'[c].to = call[c].to
        /\ call'[c].fin = call[c].fin /\ timer'[c].session = timer[c].session
        /\ \A d \in Calls \ {c} : call'[d] = call[d] /\ timer'[d] = timer[d]
    BY <1>0, <1>6 DEF PeerHangsUp, FinalizerScheduled, Call, Timer, TypeOK
  <2>5. KeptStep(c)
    BY <1>0, <2>1, <2>2, <2>3, <2>4 DEF KeptStep, Apart, Grows, Reasoned, KeptOK
  <2> QED BY <2>5, KeptStepKeeps
<1>7. CASE ByeResponse(c)
  <2>1. KeptStep(c)
    BY <1>0, <1>7
    DEF ByeResponse, Finalized, KeptStep, Apart, KeptOK, Grows, Reasoned, Call, TypeOK
  <2> QED BY <2>1, KeptStepKeeps
<1>8. CASE CancelResponse(c)
  <2>1. KeptStep(c)
    BY <1>0, <1>8 DEF CancelResponse, KeptStep, Apart, KeptOK, Grows, Reasoned
  <2> QED BY <2>1, KeptStepKeeps
<1> QED BY <1>1, <1>2, <1>3, <1>4, <1>5, <1>6, <1>7, <1>8 DEF Peer

LEMMA TimersAreKept ==
  ASSUME TypeOK, KeptInv, NEW c \in Calls, Timers(c) PROVE KeptInv'
<1>0. /\ call[c] \in Call /\ wire[c] \in Wire /\ timer[c] \in Timer
      /\ KeptOK(pc[c], call[c], queue[c], timer[c], wire[c])
  BY DEF TypeOK, Timer, KeptInv
<1>1. CASE InviteTimeout(c) \/ TransportError(c)
  <2>1. PICK kind \in {"timeout", "error"} :
          queue' = [queue EXCEPT ![c] =
                      Enqueued(c, call[c], [kind |-> kind, tag |-> NoFork])]
    BY <1>1 DEF InviteTimeout, TransportError
  <2> DEFINE m == [kind |-> kind, tag |-> NoFork]
  <2>2. m \in Response /\ m.kind # "2xx" BY DEF Response, Tags
  <2>3. queue' = [queue EXCEPT ![c] = Enqueued(c, call[c], m)] BY <2>1
  <2> HIDE DEF m
  <2>4. OfWinner(queue'[c], call[c]) /\ \A d \in Calls \ {c} : queue'[d] = queue[d]
    BY <2>2, <2>3, EnqueuedOfWinner
  <2>5. UNCHANGED <<pc, call, timer, wire>>
    BY <1>1 DEF InviteTimeout, TransportError
  <2>6. KeptStep(c) BY <2>4, <2>5 DEF KeptStep, Apart, Grows, Reasoned
  <2> QED BY <2>6, KeptStepKeeps
<1>2. CASE InviteForgotten(c) \/ CancelForgotten(c)
  <2>1. UNCHANGED <<pc, call, queue, timer, wire>>
    BY <1>2 DEF InviteForgotten, CancelForgotten
  <2>2. KeptStep(c) BY <1>0, <2>1 DEF KeptStep, Apart, Grows, Reasoned, KeptOK
  <2> QED BY <2>2, KeptStepKeeps
<1>3. CASE FinalizeLater(c)
  <2>1. KeptStep(c)
    BY <1>0, <1>3
    DEF FinalizeLater, Finalized, KeptStep, Apart, KeptOK, Grows, Reasoned, Call, Timer,
        TypeOK
  <2> QED BY <2>1, KeptStepKeeps
<1>4. CASE SessionExpires(c)
  <2>0. UNCHANGED <<pc, queue>> BY <1>4 DEF SessionExpires
  <2>1. CASE timer' = [timer EXCEPT ![c].session = FALSE] /\ UNCHANGED <<call, wire>>
    <3>1. KeptStep(c)
      BY <1>0, <2>0, <2>1
      DEF KeptStep, Apart, Grows, Reasoned, KeptOK, Timer, TypeOK
    <3> QED BY <3>1, KeptStepKeeps
  <2>2. CASE /\ call' = [call EXCEPT ![c].ibye = TRUE, ![c].obye = TRUE]
             /\ wire' = [wire EXCEPT
                           ![c].expired = TRUE,
                           ![c].byed = IF call[c].obye THEN @
                                       ELSE @ \cup Reached(call[c])]
             /\ timer' = [timer EXCEPT ![c] = [finalizer |-> TRUE, session |-> FALSE]]
    <3>1. "2xx" \in wire[c].toA /\ call[c].to = call[c].win /\ call[c].win # NoFork
      BY <1>0, <1>4 DEF SessionExpires, KeptOK
    <3>2. /\ wire'[c].expired /\ wire'[c].toA = wire[c].toA
          /\ wire'[c].byed = IF call[c].obye THEN wire[c].byed
                             ELSE wire[c].byed \cup Reached(call[c])
          /\ wire'[c].ended = wire[c].ended /\ wire'[c].aBye = wire[c].aBye
      BY <1>0, <2>2 DEF Wire, TypeOK
    <3>3. /\ call'[c].win = call[c].win /\ call'[c].to = call[c].to
          /\ call'[c].fin = call[c].fin /\ ~timer'[c].session
      BY <1>0, <2>2 DEF Call, TypeOK
    <3>4. Hung(wire'[c]) BY <3>2 DEF Hung
    <3>5. Told(call'[c], wire'[c])
      BY <1>0, <3>1, <3>2, <3>3 DEF Told, KeptOK, Reached
    <3>6. Apart(c) BY <2>0, <2>2 DEF Apart, TypeOK
    <3>7. KeptStep(c)
      BY <1>0, <2>0, <3>2, <3>3, <3>4, <3>5, <3>6
      DEF KeptStep, Grows, Reasoned, KeptOK
    <3> QED BY <3>7, KeptStepKeeps
  <2> QED BY <1>4, <2>1, <2>2 DEF SessionExpires
<1>5. CASE TombstoneAges(c)
  <2>1. KeptStep(c)
    BY <1>0, <1>5 DEF TombstoneAges, KeptStep, Apart, KeptOK, Grows, Reasoned, Call, TypeOK
  <2> QED BY <2>1, KeptStepKeeps
<1> QED BY <1>1, <1>2, <1>3, <1>4, <1>5 DEF Timers

\* A call whose caller was answered is finalized only after a hangup or the
\* expiry of its session, and then its winning fork was sent a BYE or hung up
\* itself, unless the caller hung up first or a losing fork did: in any order
\* of CANCELs, timeouts, failures and late answers (finalize_b2bua_call and
\* what calls it).
THEOREM AnsweredCallIsKept == Spec => []AnsweredCallKept
<1>1. Init => KeptInv
  BY DEF Init, NewCall, KeptInv, KeptOK, OfWinner
<1>2. TypeOK /\ ForkInv /\ KeptInv /\ [Next]_vars => KeptInv'
  <2> SUFFICES ASSUME TypeOK, ForkInv, KeptInv, [Next]_vars PROVE KeptInv' OBVIOUS
  <2>1. CASE Next
    BY <2>1, TaskIsKept, CallerIsKept, PeerIsKept, TimersAreKept DEF Next
  <2>2. CASE UNCHANGED vars BY <2>2 DEF vars, KeptInv
  <2> QED BY <2>1, <2>2
<1>3. KeptInv => AnsweredCallKept
  <2> SUFFICES ASSUME KeptInv, NEW c \in Calls,
                      call[c].fin, "2xx" \in wire[c].toA
               PROVE  /\ \/ wire[c].aBye # "no" \/ wire[c].ended # {}
                         \/ wire[c].expired
                      /\ wire[c].aBye # "early" /\ wire[c].ended \subseteq {call[c].win}
                           => call[c].win \in wire[c].byed \cup wire[c].ended
    BY DEF AnsweredCallKept, WinnerReleased, AnsweredCallSurvives
  <2>1. Hung(wire[c]) /\ Told(call[c], wire[c]) BY DEF KeptInv, KeptOK
  <2> QED BY <2>1 DEF Hung, Told
<1> QED BY <1>1, <1>2, <1>3, ForksInvariant, PTL DEF Spec, IInv

(***************************************************************************)
(* Proofs about MediaSessions for any callers, rooms and number of ports:  *)
(* media is relayed between the two parties of a bridge and to nobody      *)
(* else; and about RtpRelay for any stream shorter than half a cycle of    *)
(* sequence numbers and any keys.                                          *)
(*                                                                         *)
(* That peers are mutual is not enough to keep them so: who joins is       *)
(* paired with the one that waits, who must be open, alone and in the room *)
(* (WaiterAlone), and a session that is not open must have no peer that    *)
(* its next join would forget (PeerOpen).                                  *)
(*                                                                         *)
(* The loss count is right because the numbers that were counted end where *)
(* the next is expected and all that were seen lie before it (JitterOK):   *)
(* one further on adds as many missing places as it adds to the count, one *)
(* behind closes at most one.  A timestamp is one per press because all    *)
(* packets of a press carry one digit (DigitsOK, StampsOK); an end is      *)
(* recorded once per press because the ends that may still come, those     *)
(* recorded and a key held are at most as many as presses (EndsOK).        *)
(***************************************************************************)

IsSession(s) ==
  /\ s = [state |-> s.state, room |-> s.room, port |-> s.port, peer |-> s.peer]
  /\ s.room \in Rooms \cup {NoRoom} /\ s.peer \in Callers \cup {NoCaller}

Shaped ==
  /\ DOMAIN session = Callers /\ \A c \in Callers : IsSession(session[c])
  /\ session = [c \in Callers |-> session[c]]
  /\ waiting \in [Rooms -> Callers \cup {NoCaller}]

PeerOpen == \A c \in Callers : session[c].peer # NoCaller => session[c].state = "open"
PeerOther == \A c \in Callers : session[c].peer # c

SessionInv == Shaped /\ PeersMutual /\ PeerOpen /\ PeerOther /\ WaiterAlone

-----------------------------------------------------------------------------
(* Sessions that are not open.                                             *)

\* A session that is not open is nobody's peer and waits nowhere.
LEMMA NotOpenAlone ==
  ASSUME SessionInv, NEW c \in Callers, session[c].state # "open"
  PROVE  /\ session[c].peer = NoCaller
         /\ \A d \in Callers : session[d].peer # c
         /\ \A r \in Rooms : waiting[r] # c
BY MediaAssumption DEF SessionInv, Shaped, PeersMutual, PeerOpen, WaiterAlone

\* So it can change as it likes while it stays closed.
LEMMA NotOpenChanges ==
  ASSUME SessionInv, NEW c \in Callers, NEW s, session[c].state # "open",
         IsSession(s), s.state # "open", s.peer = NoCaller,
         session' = [session EXCEPT ![c] = s], waiting' = waiting
  PROVE  SessionInv'
<1>1. /\ session'[c] = s /\ \A d \in Callers \ {c} : session'[d] = session[d]
      /\ DOMAIN session' = Callers /\ session' = [d \in Callers |-> session'[d]]
  BY DEF SessionInv, Shaped
<1>2. /\ \A d \in Callers : session[d].peer # c
      /\ \A r \in Rooms : waiting[r] # c
  BY NotOpenAlone
<1>3. Shaped' BY <1>1 DEF SessionInv, Shaped, IsSession
<1>4. PeersMutual' BY <1>1, <1>2 DEF SessionInv, Shaped, IsSession, PeersMutual
<1>5. PeerOpen' /\ PeerOther'
  BY <1>1, MediaAssumption DEF SessionInv, PeerOpen, PeerOther
<1>6. WaiterAlone' BY <1>1, <1>2 DEF SessionInv, Shaped, WaiterAlone
<1> QED BY <1>3, <1>4, <1>5, <1>6 DEF SessionInv

\* A closed session is a session.
LEMMA NoSessionShape ==
  IsSession(NoSession) /\ NoSession.state # "open" /\ NoSession.peer = NoCaller
BY DEF IsSession, NoSession

-----------------------------------------------------------------------------
(* The steps.                                                              *)

\* A call gets its port, or none.
LEMMA CreateKept ==
  ASSUME SessionInv, NEW c \in Callers, NEW room \in Rooms \cup {NoRoom}, Create(c, room)
  PROVE  SessionInv'
<1> DEFINE p == Allocated(nextPort)
           s == [NoSession EXCEPT !.state = "binding", !.room = room, !.port = p]
<1>1. session[c].state # "open" /\ session' = [session EXCEPT ![c] = s] /\ waiting' = waiting
  BY DEF Create
<1> HIDE DEF p
<1> DEFINE R == [state : {"none", "binding"}, room : Rooms \cup {NoRoom},
                  port : {NoPort, p}, peer : {NoCaller}]
<1>2. NoSession \in R BY DEF NoSession
<1>3. IsSession(s) /\ s.state # "open" /\ s.peer = NoCaller
  <2>1. s \in R /\ s.state = "binding"
    <3> HIDE DEF p
    <3> QED BY <1>2
  <2> HIDE DEF s
  <2> QED BY <2>1 DEF IsSession
<1> QED BY <1>1, <1>3, NotOpenChanges

\* No port is left, or the RTCP port is taken: the task dies.
LEMMA FailsKept ==
  ASSUME SessionInv, NEW c \in Callers, CreateExhausted(c) \/ RtcpTaken(c)
  PROVE  SessionInv'
<1> DEFINE s == [session[c] EXCEPT !.state = "failed"]
<1>1. session[c].state # "open" /\ waiting' = waiting
        /\ session' = [session EXCEPT ![c].state = "failed"]
  BY DEF CreateExhausted, RtcpTaken
<1>2. session' = [session EXCEPT ![c] = s] BY <1>1 DEF SessionInv, Shaped
<1>3. IsSession(s) /\ s.state # "open" /\ s.peer = NoCaller
  BY <1>1, NotOpenAlone DEF SessionInv, Shaped, IsSession
<1> HIDE DEF s
<1> QED BY <1>1, <1>2, <1>3, NotOpenChanges

\* The next call of a caller whose call failed.
LEMMA CallsAgainKept == ASSUME SessionInv, NEW c \in Callers, CallsAgain(c) PROVE SessionInv'
BY NoSessionShape, NotOpenChanges DEF CallsAgain

\* The endpoint is bound: the session opens and joins its room.
LEMMA OpensKept == ASSUME SessionInv, NEW c \in Callers, Opens(c) PROVE SessionInv'
<1> DEFINE room == session[c].room
           w == waiting[room]
           opened == [session EXCEPT ![c].state = "open"]
           s == [session[c] EXCEPT !.state = "open"]
<1>1. session[c].state # "open" /\ session[c].state = "binding" BY DEF Opens
<1>2. /\ session[c].peer = NoCaller
      /\ \A d \in Callers : session[d].peer # c
      /\ \A r \in Rooms : waiting[r] # c
  BY <1>1, NotOpenAlone
<1>3. opened = [session EXCEPT ![c] = s] BY DEF SessionInv, Shaped
<1>4. /\ IsSession(s) /\ s.state = "open" /\ s.peer = NoCaller /\ s.room = room
  BY <1>2 DEF SessionInv, Shaped, IsSession
<1>5. CASE /\ session' = opened
           /\ \/ room = NoRoom /\ waiting' = waiting
              \/ /\ room # NoRoom /\ w = NoCaller
                 /\ waiting' = [waiting EXCEPT ![room] = c]
  <2> HIDE DEF s
  <2>1. /\ session'[c] = s /\ \A d \in Callers \ {c} : session'[d] = session[d]
        /\ DOMAIN session' = Callers /\ session' = [d \in Callers |-> session'[d]]
    BY <1>3, <1>5 DEF SessionInv, Shaped
  <2>2. waiting' \in [Rooms -> Callers \cup {NoCaller}]
    BY <1>5 DEF SessionInv, Shaped
  <2>3. Shaped' BY <1>4, <2>1, <2>2 DEF SessionInv, Shaped, IsSession
  <2>4. PeersMutual'
    BY <1>2, <1>4, <2>1, MediaAssumption DEF SessionInv, PeersMutual, Shaped, IsSession
  <2>5. PeerOpen' /\ PeerOther'
    BY <1>4, <2>1, MediaAssumption DEF SessionInv, PeerOpen, PeerOther
  <2>6. WaiterAlone'
    <3>1. ASSUME NEW r \in Rooms, waiting'[r] # NoCaller
          PROVE  \/ waiting'[r] = waiting[r] /\ waiting[r] # c
                 \/ waiting'[r] = c /\ r = room
      <4> HIDE DEF room
      <4> QED BY <1>2, <1>5, <3>1 DEF SessionInv, Shaped
    <3> HIDE DEF room
    <3> QED BY <1>4, <2>1, <3>1 DEF SessionInv, WaiterAlone, Shaped
  <2> QED BY <2>3, <2>4, <2>5, <2>6 DEF SessionInv
<1>6. CASE /\ room # NoRoom /\ w # NoCaller /\ room \in Rooms
           /\ session' = [opened EXCEPT ![c].peer = w, ![w].peer = c]
           /\ waiting' = [waiting EXCEPT ![room] = NoCaller]
  <2>1. w \in Callers /\ w # c /\ session[w].state = "open" /\ session[w].room = room
          /\ session[w].peer = NoCaller
    BY <1>2, <1>6 DEF SessionInv, Shaped, WaiterAlone
  <2> DEFINE sc == [s EXCEPT !.peer = w]
             sw == [session[w] EXCEPT !.peer = c]
  <2>2. session' = [session EXCEPT ![c] = sc, ![w] = sw]
    <3> HIDE DEF s
    <3> QED BY <1>3, <1>6, <2>1 DEF SessionInv, Shaped
  <2>3. IsSession(sc) /\ sc.state = "open" /\ sc.peer = w /\ sc.room = room
    <3> HIDE DEF s
    <3> QED BY <1>4, <2>1 DEF IsSession
  <2>4. IsSession(sw) /\ sw.state = "open" /\ sw.peer = c /\ sw.room = room
    BY <2>1 DEF SessionInv, Shaped, IsSession
  <2> HIDE DEF sc, sw, s, opened
  <2>5. /\ session'[c] = sc /\ session'[w] = sw
        /\ \A d \in Callers \ {c, w} : session'[d] = session[d]
        /\ DOMAIN session' = Callers /\ session' = [d \in Callers |-> session'[d]]
    BY <2>1, <2>2 DEF SessionInv, Shaped
  <2> HIDE DEF w, room
  <2>6. Shaped' BY <1>6, <2>1, <2>3, <2>4, <2>5 DEF SessionInv, Shaped
  <2>7. PeersMutual'
    <3>1. ASSUME NEW d \in Callers \ {c, w} PROVE session[d].peer \notin {c, w}
      BY <1>2, <2>1, MediaAssumption DEF SessionInv, PeersMutual
    <3>2. ASSUME NEW d \in Callers, session'[d].peer # NoCaller
          PROVE  LET e == session'[d].peer IN
                 /\ session'[d].state = "open" /\ session'[e].state = "open"
                 /\ session'[e].peer = d /\ session'[e].room = session'[d].room
      <4>1. CASE d \in {c, w} BY <2>1, <2>3, <2>4, <2>5, <4>1
      <4>2. CASE d \notin {c, w}
        <5>1. session'[d] = session[d] /\ session[d].peer \in Callers \ {c, w}
          BY <2>5, <3>1, <3>2, <4>2 DEF SessionInv, Shaped, IsSession
        <5> QED BY <2>5, <3>2, <5>1 DEF SessionInv, PeersMutual
      <4> QED BY <4>1, <4>2
    <3> QED BY <3>2 DEF PeersMutual
  <2>8. PeerOpen' /\ PeerOther'
    BY <2>1, <2>3, <2>4, <2>5 DEF SessionInv, PeerOpen, PeerOther
  <2>9. WaiterAlone'
    <3>1. \A r \in Rooms : waiting'[r] # NoCaller =>
            waiting'[r] = waiting[r] /\ r # room /\ waiting[r] # c
      BY <1>2, <1>6 DEF SessionInv, Shaped
    <3>2. \A r \in Rooms : r # room /\ waiting[r] # NoCaller => waiting[r] # w
      BY <2>1 DEF SessionInv, WaiterAlone
    <3> QED BY <2>5, <3>1, <3>2 DEF SessionInv, WaiterAlone, Shaped
  <2> QED BY <2>6, <2>7, <2>8, <2>9 DEF SessionInv
<1>7. room \in Rooms \cup {NoRoom} BY DEF SessionInv, Shaped, IsSession
<1>8. CASE room = NoRoom BY <1>5, <1>8 DEF Opens
<1>9. CASE room # NoRoom /\ w # NoCaller BY <1>6, <1>7, <1>9 DEF Opens
<1>10. CASE room # NoRoom /\ w = NoCaller BY <1>5, <1>10 DEF Opens
<1> QED BY <1>8, <1>9, <1>10

\* A call is hung up: its peer is alone again and its room is free.
LEMMA CloseKept == ASSUME SessionInv, NEW c \in Callers, Close(c) PROVE SessionInv'
<1>1. /\ session' = Closed(c) /\ waiting' = LeftRoom(c) BY DEF Close
<1>2. /\ session'[c] = NoSession
      /\ \A d \in Callers \ {c} :
           session'[d] = IF session[c].peer = d THEN [session[d] EXCEPT !.peer = NoCaller]
                         ELSE session[d]
      /\ DOMAIN session' = Callers /\ session' = [d \in Callers |-> session'[d]]
  BY <1>1 DEF Closed
<1>3. ASSUME NEW d \in Callers \ {c}
      PROVE  /\ IsSession(session'[d]) /\ session'[d].state = session[d].state
             /\ session'[d].room = session[d].room
             /\ session'[d].peer = IF session[c].peer = d THEN NoCaller ELSE session[d].peer
  BY <1>2 DEF SessionInv, Shaped, IsSession
<1>4. IsSession(session'[c]) /\ session'[c].peer = NoCaller /\ session'[c].state = "none"
  BY <1>2, NoSessionShape DEF NoSession
<1>5. \A r \in Rooms : waiting'[r] = IF waiting[r] = c THEN NoCaller ELSE waiting[r]
  BY <1>1 DEF LeftRoom
<1>6. waiting' \in [Rooms -> Callers \cup {NoCaller}]
  BY <1>1 DEF LeftRoom, SessionInv, Shaped
<1>7. Shaped' BY <1>2, <1>3, <1>4, <1>6 DEF Shaped
<1>8. PeersMutual'
  <2>1. ASSUME NEW d \in Callers, session'[d].peer # NoCaller
        PROVE  LET e == session'[d].peer IN
               /\ session'[d].state = "open" /\ session'[e].state = "open"
               /\ session'[e].peer = d /\ session'[e].room = session'[d].room
    <3>1. d # c /\ session[c].peer # d /\ session'[d].peer = session[d].peer
      BY <1>3, <1>4, <2>1
    <3> DEFINE e == session[d].peer
    <3>2. e \in Callers /\ session[d].state = "open" /\ session[e].state = "open"
            /\ session[e].peer = d /\ session[e].room = session[d].room
      BY <2>1, <3>1 DEF SessionInv, Shaped, IsSession, PeersMutual
    <3>3. e # c BY <3>1, <3>2
    <3>4. session[c].peer # e
      BY <3>1, <3>2, MediaAssumption DEF SessionInv, PeersMutual
    <3> QED BY <1>3, <3>1, <3>2, <3>3, <3>4
  <2> QED BY <2>1 DEF PeersMutual
<1>9. PeerOpen' /\ PeerOther'
  BY <1>3, <1>4, MediaAssumption DEF SessionInv, PeerOpen, PeerOther
<1>10. WaiterAlone'
  <2>1. ASSUME NEW r \in Rooms, waiting'[r] # NoCaller
        PROVE  LET s == session'[waiting'[r]] IN
               s.state = "open" /\ s.room = r /\ s.peer = NoCaller
    <3>1. waiting'[r] = waiting[r] /\ waiting[r] \in Callers \ {c}
      BY <1>5, <2>1 DEF SessionInv, Shaped
    <3> QED BY <1>3, <2>1, <3>1 DEF SessionInv, WaiterAlone
  <2> QED BY <2>1 DEF WaiterAlone
<1> QED BY <1>7, <1>8, <1>9, <1>10 DEF SessionInv

-----------------------------------------------------------------------------
(* The allocator.                                                          *)

\* Some turn that finds a port is the first.
LEMMA FirstIsLeast ==
  ASSUME NEW turns \in SUBSET Nat, turns # {}
  PROVE  First(turns) \in turns
<1>1. PICK n \in turns : \A m \in turns : ~ (<<m, n>> \in OpToRel(<, Nat))
  BY NatLessThanWellFounded, WFMin
<1>2. ASSUME NEW m \in turns, m < n PROVE FALSE
  <2>1. <<m, n>> \in Nat \X Nat /\ <<m, n>>[1] < <<m, n>>[2] BY <1>2
  <2>2. <<m, n>> \in OpToRel(<, Nat) BY <2>1, Zenon DEF OpToRel
  <2> QED BY <1>1, <2>2
<1>3. \A m \in turns : n <= m BY <1>2
<1> QED BY <1>3 DEF First

\* _next_port stays in the range.
LEMMA AfterInPorts == ASSUME NEW p \in Ports PROVE After(p) \in Ports
BY MediaAssumption DEF After, Ports

\* What is allocated is a free port.
LEMMA AllocatedIsFree ==
  ASSUME NEW p \in Ports, Allocated(p) # NoPort
  PROVE  Allocated(p) \in Ports /\ IsFree(Allocated(p))
<1>1. GoodTurns(p) # {} BY DEF Allocated
<1>2. GoodTurns(p) \in SUBSET Nat BY DEF GoodTurns
<1>3. First(GoodTurns(p)) \in GoodTurns(p) BY <1>1, <1>2, FirstIsLeast
<1>4. /\ First(GoodTurns(p)) \in 0 .. PortCount - 1
      /\ IsFree(Tried(p, First(GoodTurns(p))))
  BY <1>3 DEF GoodTurns
<1>5. Tried(p, First(GoodTurns(p))) \in Ports
  BY <1>4, MediaAssumption DEF Tried, Ports
<1> QED BY <1>1, <1>4, <1>5 DEF Allocated

\* The loop tries every port, wherever it begins.
LEMMA LoopTriesAll ==
  ASSUME NEW p \in Ports, Allocated(p) = NoPort, NEW q \in Ports
  PROVE  ~IsFree(q)
<1>1. GoodTurns(p) = {}
  <2>1. SUFFICES ASSUME GoodTurns(p) # {} PROVE FALSE OBVIOUS
  <2>2. GoodTurns(p) \in SUBSET Nat BY DEF GoodTurns
  <2>3. First(GoodTurns(p)) \in 0 .. PortCount - 1
    BY <2>1, <2>2, FirstIsLeast DEF GoodTurns
  <2>4. Tried(p, First(GoodTurns(p))) # PortCount
    BY <2>3, MediaAssumption DEF Tried, Ports
  <2> QED BY <2>1, <2>4 DEF Allocated, NoPort
<1> DEFINE n == IF p <= q THEN q - p ELSE q + PortCount - p
<1>2. n \in 0 .. PortCount - 1 /\ Tried(p, n) = q
  BY MediaAssumption DEF Tried, Ports
<1> QED BY <1>1, <1>2 DEF GoodTurns

-----------------------------------------------------------------------------
(* Who holds which port.                                                   *)

HoldsPort(s) == s.state \in {"binding", "open"}

PortInv ==
  /\ DOMAIN session = Callers
  /\ socket \in [Ports -> Callers \cup {NoCaller}] /\ nextPort \in Ports
  /\ \A c \in Callers : HoldsPort(session[c]) =>
       session[c].port \in Ports /\ socket[session[c].port] = c

\* A step that binds nothing and gives nothing back.
LEMMA PortsUnchanged ==
  ASSUME PortInv, DOMAIN session' = Callers, UNCHANGED <<socket, nextPort>>,
         \A d \in Callers : HoldsPort(session'[d]) =>
           HoldsPort(session[d]) /\ session'[d].port = session[d].port
  PROVE  PortInv'
BY DEF PortInv

\* A port that nobody holds is bound to c.
LEMMA CreatePorts ==
  ASSUME PortInv, NEW c \in Callers, NEW room \in Rooms \cup {NoRoom}, Create(c, room)
  PROVE  PortInv'
<1> DEFINE p == Allocated(nextPort)
           s == [NoSession EXCEPT !.state = "binding", !.room = room, !.port = p]
<1>1. p \in Ports /\ socket[p] = NoCaller
  BY AllocatedIsFree DEF PortInv, Create, IsFree
<1>3. s.port = p BY DEF NoSession
<1>4. /\ session' = [session EXCEPT ![c] = s] /\ socket' = [socket EXCEPT ![p] = c]
      /\ nextPort' = After(p)
  BY DEF Create
<1> HIDE DEF p, s
<1>5. /\ session'[c] = s /\ \A d \in Callers \ {c} : session'[d] = session[d]
      /\ DOMAIN session' = Callers
  BY <1>4 DEF PortInv
<1>6. /\ socket'[p] = c /\ \A q \in Ports \ {p} : socket'[q] = socket[q]
      /\ socket' \in [Ports -> Callers \cup {NoCaller}]
  BY <1>1, <1>4 DEF PortInv
<1>7. ASSUME NEW d \in Callers, HoldsPort(session'[d])
      PROVE  session'[d].port \in Ports /\ socket'[session'[d].port] = d
  <2>1. CASE d = c BY <1>1, <1>3, <1>5, <1>6, <2>1
  <2>2. CASE d # c
    BY <1>1, <1>5, <1>6, <1>7, <2>2, MediaAssumption DEF PortInv
  <2> QED BY <2>1, <2>2
<1> QED BY <1>1, <1>4, <1>5, <1>6, <1>7, AfterInPorts DEF PortInv

\* Joining a room changes nobody's port.
LEMMA OpensPorts == ASSUME SessionInv, PortInv, NEW c \in Callers, Opens(c) PROVE PortInv'
<1> DEFINE w == waiting[session[c].room]
           opened == [session EXCEPT ![c].state = "open"]
<1>1. session[c].state = "binding" /\ UNCHANGED <<socket, nextPort>> BY DEF Opens
<1>2. /\ DOMAIN opened = Callers
      /\ \A d \in Callers : /\ opened[d].port = session[d].port
                            /\ IsSession(opened[d])
                            /\ d # c => opened[d] = session[d]
  BY DEF SessionInv, Shaped, IsSession
<1>3. CASE session' = opened
  BY <1>1, <1>2, <1>3, PortsUnchanged DEF HoldsPort
<1>4. CASE /\ session[c].room # NoRoom /\ w # NoCaller
           /\ session' = [opened EXCEPT ![c].peer = w, ![w].peer = c]
  <2>1. session[c].room \in Rooms BY <1>4 DEF SessionInv, Shaped, IsSession
  <2>2. w \in Callers /\ session[w].state = "open"
    BY <1>4, <2>1 DEF SessionInv, WaiterAlone, Shaped
  <2>3. w # c BY <1>1, <2>2
  <2> HIDE DEF w, opened
  <2>4. /\ DOMAIN session' = Callers
        /\ \A d \in Callers : /\ session'[d].port = opened[d].port
                              /\ d \notin {c, w} => session'[d] = opened[d]
    BY <1>2, <1>4, <2>2, <2>3 DEF IsSession
  <2> QED BY <1>1, <1>2, <2>2, <2>4, PortsUnchanged DEF HoldsPort
<1> QED BY <1>3, <1>4 DEF Opens, SessionInv, Shaped, IsSession

\* Nobody else holds the port that is given back.
LEMMA ClosePorts == ASSUME PortInv, NEW c \in Callers, Close(c) PROVE PortInv'
<1> DEFINE q == session[c].port
<1>1. q \in Ports /\ socket[q] = c BY DEF Close, PortInv, HoldsPort
<1>2. /\ socket' = [socket EXCEPT ![q] = NoCaller] /\ nextPort' = nextPort
      /\ session' = Closed(c)
  BY DEF Close
<1>3. /\ DOMAIN session' = Callers /\ ~HoldsPort(session'[c])
      /\ \A d \in Callers \ {c} : HoldsPort(session'[d]) =>
           HoldsPort(session[d]) /\ session'[d].port = session[d].port
  <2>1. DOMAIN session' = Callers /\ session'[c] = NoSession BY <1>2 DEF Closed
  <2>2. ~HoldsPort(NoSession) BY DEF NoSession, HoldsPort
  <2>3. ASSUME NEW d \in Callers \ {c}
        PROVE  session'[d].state = session[d].state /\ session'[d].port = session[d].port
    BY <1>2 DEF Closed
  <2> QED BY <2>1, <2>2, <2>3 DEF HoldsPort
<1>4. socket' \in [Ports -> Callers \cup {NoCaller}]
        /\ \A r \in Ports \ {q} : socket'[r] = socket[r]
  BY <1>1, <1>2 DEF PortInv
<1> QED BY <1>1, <1>2, <1>3, <1>4 DEF PortInv

\* Every step keeps the ports with their holders.
LEMMA NextPorts == SessionInv /\ PortInv /\ [MediaNext]_mediaVars => PortInv'
<1> SUFFICES ASSUME SessionInv, PortInv, [MediaNext]_mediaVars PROVE PortInv' OBVIOUS
<1>1. CASE UNCHANGED mediaVars BY <1>1 DEF mediaVars, PortInv
<1>2. ASSUME NEW c \in Callers, CreateExhausted(c) \/ RtcpTaken(c) \/ CallsAgain(c)
      PROVE  PortInv'
  <2>1. /\ DOMAIN session' = Callers /\ UNCHANGED <<socket, nextPort>>
        /\ \A d \in Callers : d # c => session'[d] = session[d]
    BY <1>2 DEF PortInv, CreateExhausted, RtcpTaken, CallsAgain
  <2>2. ~HoldsPort(session'[c])
    BY <1>2 DEF PortInv, SessionInv, Shaped, IsSession, HoldsPort, CreateExhausted, RtcpTaken,
                CallsAgain, NoSession
  <2> QED BY <2>1, <2>2, PortsUnchanged
<1> QED BY <1>1, <1>2, CreatePorts, OpensPorts, ClosePorts DEF MediaNext

-----------------------------------------------------------------------------
(* The theorem.                                                            *)

\* No call has a session at first.
LEMMA InitInv == MediaInit => SessionInv
BY MediaAssumption, NoSessionShape
   DEF MediaInit, SessionInv, Shaped, PeersMutual, PeerOpen, PeerOther, WaiterAlone, NoSession

\* Every step keeps the invariant.
LEMMA NextInv == SessionInv /\ [MediaNext]_mediaVars => SessionInv'
<1> SUFFICES ASSUME SessionInv, [MediaNext]_mediaVars PROVE SessionInv' OBVIOUS
<1>1. CASE UNCHANGED mediaVars
  BY <1>1 DEF mediaVars, SessionInv, Shaped, PeersMutual, PeerOpen, PeerOther, WaiterAlone
<1>2. CASE MediaNext
  BY <1>2, CreateKept, FailsKept, OpensKept, CloseKept, CallsAgainKept DEF MediaNext
<1> QED BY <1>1, <1>2

\* Only a call that found no free port fails before it has one.
LEMMA NextExhaustion ==
  SessionInv /\ PortInv /\ [MediaNext]_mediaVars =>
    [\A c \in Callers :
       session[c].state = "none" /\ session'[c].state = "failed"
         => \A p \in Ports : ~IsFree(p)]_mediaVars
<1> SUFFICES ASSUME SessionInv, PortInv, MediaNext, NEW d \in Callers,
                    session[d].state = "none", session'[d].state = "failed",
                    NEW p \in Ports
             PROVE  ~IsFree(p)
  OBVIOUS
<1>1. PICK c \in Callers :
        \/ \E room \in Rooms \cup {NoRoom} : Create(c, room)
        \/ CreateExhausted(c) \/ RtcpTaken(c) \/ Opens(c) \/ Close(c) \/ CallsAgain(c)
  BY DEF MediaNext
<1>2. CASE CreateExhausted(c) BY <1>2, LoopTriesAll DEF CreateExhausted, PortInv
<1>3. CASE \E room \in Rooms \cup {NoRoom} : Create(c, room)
  BY <1>3 DEF Create, SessionInv, Shaped, NoSession
<1>4. CASE RtcpTaken(c) \/ CallsAgain(c)
  BY <1>4 DEF RtcpTaken, CallsAgain, SessionInv, Shaped, NoSession
<1>5. CASE Opens(c)
  <2>1. session'[d].state # "failed" BY <1>5 DEF Opens, SessionInv, Shaped, IsSession
  <2> QED BY <2>1
<1>6. CASE Close(c)
  <2>1. session'[d].state # "failed" BY <1>6 DEF Close, Closed, NoSession
  <2> QED BY <2>1
<1> QED BY <1>1, <1>2, <1>3, <1>4, <1>5, <1>6

\* Media is relayed to the other party of the bridge and nobody else, who waits
\* in a room can be joined, a session holds the port it says and no two hold
\* one, and the allocator gives up only when no port is free, in any order of
\* creating, joining and leaving.
THEOREM SessionsAlwaysSafe == MediaSpec => SessionsSafe
<1>1. SessionInv => PeersMutual /\ WaiterAlone BY DEF SessionInv
<1>2. PortInv => PortsHeld
  BY MediaAssumption DEF PortInv, PortsHeld, HoldsPort, Ports, NoPort
<1>3. MediaInit => PortInv
  BY MediaAssumption DEF MediaInit, PortInv, HoldsPort, Ports, NoSession
<1> QED
  BY <1>1, <1>2, <1>3, InitInv, NextInv, NextPorts, NextExhaustion, PTL
  DEF MediaSpec, SessionsSafe, NoFalseExhaustion

-----------------------------------------------------------------------------
(* The relay.  Numbers are compared by their place in the stream, counted  *)
(* from its first number f.                                                *)

Numbers == 0..SeqMod - 1
Place(f, s) == IF s >= f THEN s - f ELSE s - f + SeqMod

LEMMA ModSmall ==
  ASSUME NEW n \in Nat \ {0}, NEW x \in 0..n - 1
  PROVE  x % n = x
OBVIOUS

LEMMA ModOver ==
  ASSUME NEW n \in Nat \ {0}, NEW x \in n..2 * n - 1
  PROVE  x % n = x - n
OBVIOUS

LEMMA ModUnder ==
  ASSUME NEW n \in Nat \ {0}, NEW x \in -n..-1
  PROVE  x % n = x + n
OBVIOUS

\* The streams that the bounds allow are shorter than half a cycle.
LEMMA Ranges ==
  ASSUME RelayAssumption
  PROVE  /\ SeqMod \in Nat \ {0} /\ MaxPackets \in Nat /\ HalfRange \in Nat
         /\ MaxPackets < HalfRange /\ 2 * HalfRange <= SeqMod
BY DEF RelayAssumption, HalfRange

LEMMA Places ==
  ASSUME RelayAssumption, NEW f \in Numbers, NEW s \in Numbers
  PROVE  Place(f, s) \in Numbers
BY Ranges DEF Place, Numbers

LEMMA SamePlace ==
  ASSUME RelayAssumption, NEW f \in Numbers, NEW s \in Numbers, NEW t \in Numbers,
         Place(f, s) = Place(f, t)
  PROVE  s = t
BY Ranges DEF Place, Numbers

LEMMA NumberAt ==
  ASSUME RelayAssumption, NEW f \in Numbers, NEW n \in 0..MaxPackets
  PROVE  (f + n) % SeqMod \in Numbers /\ Place(f, (f + n) % SeqMod) = n
<1>1. CASE f + n < SeqMod
  <2>0. f + n \in 0..SeqMod - 1 BY <1>1, Ranges DEF Numbers
  <2>1. (f + n) % SeqMod = f + n BY <2>0, Ranges, ModSmall
  <2> QED BY <1>1, <2>1, Ranges DEF Place, Numbers
<1>2. CASE f + n >= SeqMod
  <2>0. f + n \in SeqMod..2 * SeqMod - 1 BY <1>2, Ranges DEF Numbers
  <2>1. \A x \in SeqMod..2 * SeqMod - 1 : x % SeqMod = x - SeqMod BY Ranges, ModOver
  <2>2. (f + n) % SeqMod = f + n - SeqMod BY <2>0, <2>1, Ranges DEF Numbers
  <2> QED BY <1>2, <2>2, Ranges DEF Place, Numbers
<1> QED BY <1>1, <1>2, Ranges DEF Numbers

LEMMA NextNumber ==
  ASSUME RelayAssumption, NEW f \in Numbers, NEW s \in Numbers, Place(f, s) < MaxPackets
  PROVE  /\ (s + 1) % SeqMod \in Numbers
         /\ Place(f, (s + 1) % SeqMod) = Place(f, s) + 1
<1>1. CASE s + 1 < SeqMod
  <2>1. (s + 1) % SeqMod = s + 1 BY <1>1, Ranges, ModSmall DEF Numbers
  <2> QED BY <1>1, <2>1, Ranges DEF Place, Numbers
<1>2. CASE s + 1 >= SeqMod
  <2>1. (s + 1) % SeqMod = s + 1 - SeqMod BY <1>2, Ranges, ModOver DEF Numbers
  <2> QED BY <1>2, <2>1, Ranges DEF Place, Numbers
<1> QED BY <1>1, <1>2, Ranges DEF Numbers

Back(x, k) == (x + SeqMod - k) % SeqMod

LEMMA EarlierNumber ==
  ASSUME RelayAssumption, NEW f \in Numbers, NEW x \in Numbers, NEW k \in 1..Place(f, x)
  PROVE  Back(x, k) \in Numbers /\ Place(f, Back(x, k)) = Place(f, x) - k
<1>0. k \in 1..SeqMod - 1 BY Places, Ranges DEF Numbers
<1>1. CASE k > x
  <2>0. x + SeqMod - k \in 0..SeqMod - 1 BY <1>0, <1>1, Ranges DEF Numbers
  <2>1. Back(x, k) = x + SeqMod - k BY <2>0, Ranges, ModSmall DEF Back
  <2> QED BY <1>0, <1>1, <2>1, Ranges DEF Place, Numbers
<1>2. CASE k <= x
  <2>0. x + SeqMod - k \in SeqMod..2 * SeqMod - 1 BY <1>0, <1>2, Ranges DEF Numbers
  <2>1. \A z \in SeqMod..2 * SeqMod - 1 : z % SeqMod = z - SeqMod BY Ranges, ModOver
  <2>2. Back(x, k) = x + SeqMod - k - SeqMod BY <1>0, <2>0, <2>1, Ranges DEF Back, Numbers
  <2> QED BY <1>0, <1>2, <2>2, Ranges DEF Place, Numbers
<1> QED BY <1>0, <1>1, <1>2, Ranges DEF Numbers

LEMMA Distance ==
  ASSUME RelayAssumption, NEW f \in Numbers, NEW x \in Numbers, NEW s \in Numbers,
         Place(f, x) <= MaxPackets, Place(f, s) <= MaxPackets
  PROVE  /\ (s - x) % SeqMod \in Numbers
         /\ (s - x) % SeqMod >= HalfRange <=> Place(f, s) < Place(f, x)
         /\ Place(f, s) >= Place(f, x) => (s - x) % SeqMod = Place(f, s) - Place(f, x)
<1>1. CASE s >= x
  <2>1. (s - x) % SeqMod = s - x BY <1>1, Ranges, ModSmall DEF Numbers
  <2> QED BY <1>1, <2>1, Ranges DEF Place, Numbers
<1>2. CASE s < x
  <2>1. (s - x) % SeqMod = s - x + SeqMod BY <1>2, Ranges, ModUnder DEF Numbers
  <2> QED BY <1>2, <2>1, Ranges DEF Place, Numbers
<1> QED BY <1>1, <1>2, Ranges DEF Numbers

-----------------------------------------------------------------------------
(* The loss count.                                                         *)

MissingOf(j) == {k \in 1..j.counted : Back(j.expected, k) \notin j.seen}

Bounds(j) ==
  /\ Cardinality(MissingOf(j)) <= j.loss
  /\ j.loss <= Cardinality(MissingOf(j)) + j.disordered
  /\ j.gaps <= j.loss

Expected == {None} \cup Numbers
Jitters ==
  [expected : Expected, seen : SUBSET Numbers, packets : Nat, counted : Nat,
   loss : Nat, gaps : Nat, disordered : Nat, late : Nat, duplicates : Nat]

\* What is counted lies between the first number that came and the next one
\* expected, and everything that was seen lies before that.
JitterOK(f, j) ==
  /\ j \in Jitters
  /\ j.expected = None => j.seen = {} /\ j.counted = 0
  /\ j.expected # None =>
       /\ j.counted \in 1..Place(f, j.expected) /\ Place(f, j.expected) <= MaxPackets
       /\ \A s \in j.seen : Place(f, s) < Place(f, j.expected)
  /\ Bounds(j)

LEMMA MissingFinite ==
  ASSUME NEW j \in Jitters
  PROVE  /\ IsFiniteSet(MissingOf(j)) /\ Cardinality(MissingOf(j)) \in Nat
         /\ MissingOf(j) \in SUBSET (1..j.counted)
<1>1. j.counted \in Nat BY DEF Jitters
<1>2. IsFiniteSet(1..j.counted) BY <1>1, FS_Interval
<1>3. MissingOf(j) \in SUBSET (1..j.counted) BY DEF MissingOf
<1> QED BY <1>2, <1>3, FS_Subset, FS_CardinalityType

\* Numbers skipped by one that is further on are missing.
LEMMA SkippedAreMissing ==
  ASSUME RelayAssumption, NEW f \in Numbers, NEW j, JitterOK(f, j), j.expected # None,
         NEW s \in Numbers, s \notin j.seen, Place(f, s) < MaxPackets,
         NEW d \in Nat, d = Place(f, s) - Place(f, j.expected),
         NEW i \in Jitters, i.expected = (s + 1) % SeqMod, i.counted = j.counted + d + 1,
         i.seen = j.seen \cup {s}
  PROVE  Cardinality(MissingOf(i)) = Cardinality(MissingOf(j)) + d
<1> DEFINE M == MissingOf(j)
           Shifted == {k + (d + 1) : k \in M}
           Skipped == 2..d + 1
<1>0. /\ j \in Jitters /\ j.expected \in Numbers /\ j.counted \in Nat
      /\ j.counted \in 1..Place(f, j.expected) /\ Place(f, j.expected) \in Numbers
      /\ \A t \in j.seen : t \in Numbers /\ Place(f, t) < Place(f, j.expected)
  BY Places DEF JitterOK, Jitters, Expected
<1>1. /\ i.expected \in Numbers /\ Place(f, i.expected) = Place(f, s) + 1
      /\ Place(f, s) \in Numbers
  BY NextNumber, Places
<1>2. ASSUME NEW k \in 1..i.counted
      PROVE  Back(i.expected, k) \in Numbers /\ Place(f, Back(i.expected, k)) = Place(f, s) + 1 - k
  <2>1. k \in 1..Place(f, i.expected) BY <1>0, <1>1, Ranges DEF Numbers
  <2>2. /\ Back(i.expected, k) \in Numbers
        /\ Place(f, Back(i.expected, k)) = Place(f, i.expected) - k
    BY <1>1, <2>1, EarlierNumber
  <2> QED BY <2>2, <1>1, Ranges DEF Numbers
<1>3. ASSUME NEW k \in 1..j.counted
      PROVE  Back(j.expected, k) \in Numbers /\ Place(f, Back(j.expected, k)) = Place(f, j.expected) - k
  <2>1. k \in 1..Place(f, j.expected) BY <1>0, Ranges DEF Numbers
  <2> QED BY <1>0, <2>1, EarlierNumber
<1>4. 1 \notin MissingOf(i)
  <2>1. 1 \in 1..i.counted BY <1>0
  <2>2. Place(f, Back(i.expected, 1)) = Place(f, s) BY <1>2, <2>1, <1>1, Ranges DEF Numbers
  <2>3. Back(i.expected, 1) = s BY <1>2, <2>1, <2>2, SamePlace
  <2> QED BY <2>3 DEF MissingOf
<1>5. ASSUME NEW k \in Skipped PROVE k \in MissingOf(i)
  <2>1. k \in 1..i.counted BY <1>0
  <2>2. Place(f, Back(i.expected, k)) = Place(f, s) + 1 - k BY <1>2, <2>1
  <2>3. Back(i.expected, k) # s BY <2>2, <1>1, <1>0, Ranges DEF Numbers
  <2>4. Back(i.expected, k) \notin j.seen BY <2>2, <1>0, <1>1, Ranges DEF Numbers
  <2> QED BY <2>1, <2>3, <2>4 DEF MissingOf
<1>6. ASSUME NEW k \in 1..j.counted PROVE k \in M <=> k + (d + 1) \in MissingOf(i)
  <2>1. k + (d + 1) \in 1..i.counted BY <1>0
  <2>2. Place(f, Back(i.expected, k + (d + 1))) = Place(f, s) + 1 - (k + (d + 1)) BY <1>2, <2>1
  <2>3. Place(f, Back(j.expected, k)) = Place(f, j.expected) - k BY <1>3
  <2>4. Place(f, Back(i.expected, k + (d + 1))) = Place(f, Back(j.expected, k))
    BY <2>2, <2>3, <1>0, <1>1, Ranges DEF Numbers
  <2>5. Back(i.expected, k + (d + 1)) = Back(j.expected, k)
    BY <2>1, <2>4, <1>2, <1>3, SamePlace
  <2>6. Back(j.expected, k) # s BY <2>3, <1>0, <1>1, Ranges DEF Numbers
  <2> QED BY <2>1, <2>5, <2>6 DEF MissingOf
<1>7. MissingOf(i) = Shifted \cup Skipped
  <2>1. ASSUME NEW k \in MissingOf(i) PROVE k \in Shifted \cup Skipped
    <3>1. k \in 1..i.counted /\ k # 1 BY <1>4 DEF MissingOf
    <3>2. CASE k > d + 1
      <4>1. k - (d + 1) \in 1..j.counted /\ (k - (d + 1)) + (d + 1) = k BY <3>1, <3>2, <1>0
      <4>2. k - (d + 1) \in M BY <4>1, <1>6
      <4> QED BY <4>1, <4>2
    <3> QED BY <3>1, <3>2, <1>0
  <2>2. ASSUME NEW k \in M PROVE k + (d + 1) \in MissingOf(i)
    BY <1>6 DEF MissingOf
  <2> QED BY <2>1, <2>2, <1>5
<1>8. IsFiniteSet(M) /\ Cardinality(M) \in Nat /\ M \in SUBSET (1..j.counted) BY <1>0, MissingFinite
<1>9. IsFiniteSet(Shifted) /\ Cardinality(Shifted) = Cardinality(M)
  <2> DEFINE g == [k \in M |-> k + (d + 1)]
  <2>1. g \in [M -> Shifted] OBVIOUS
  <2>2. \A a, b \in M : g[a] = g[b] => a = b BY <1>8
  <2>3. \A t \in Shifted : \E a \in M : g[a] = t OBVIOUS
  <2>4. g \in Bijection(M, Shifted)
    <3> HIDE DEF g, Shifted, M
    <3> QED BY <2>1, <2>2, <2>3 DEF Bijection, Injection, Surjection, IsInjective
  <2>5. ExistsBijection(M, Shifted) BY <2>4, Zenon DEF ExistsBijection
  <2> QED BY <2>5, <1>8, FS_Bijection
<1>10. IsFiniteSet(Skipped) /\ Cardinality(Skipped) = d
  <2>1. 2 \in Int /\ d + 1 \in Int OBVIOUS
  <2>2. /\ IsFiniteSet(2..d + 1)
        /\ Cardinality(2..d + 1) = IF 2 > d + 1 THEN 0 ELSE (d + 1) - 2 + 1
    <3> DEFINE e == d + 1
    <3> HIDE DEF e
    <3> QED BY <2>1, FS_Interval DEF e
  <2>3. (IF 2 > d + 1 THEN 0 ELSE (d + 1) - 2 + 1) = d OBVIOUS
  <2> QED BY <2>2, <2>3
<1>11. Shifted \cap Skipped = {} BY <1>8
<1>12. Cardinality(Shifted \cup Skipped) = Cardinality(M) + d
  <2> HIDE DEF Shifted, Skipped, M
  <2>1. Cardinality(Shifted \cup Skipped)
          = Cardinality(Shifted) + Cardinality(Skipped) - Cardinality(Shifted \cap Skipped)
    BY <1>9, <1>10, FS_Union
  <2>2. Cardinality(Shifted \cap Skipped) = 0 BY <1>11, FS_EmptySet
  <2> QED BY <2>1, <2>2, <1>8, <1>9, <1>10
<1> QED BY <1>7, <1>12, <1>8

\* A number that comes behind the others closes one place at most.
LEMMA LateClosesOne ==
  ASSUME RelayAssumption, NEW f \in Numbers, NEW j, JitterOK(f, j), j.expected # None,
         NEW s \in Numbers,
         NEW i \in Jitters, i.expected = j.expected, i.counted = j.counted,
         i.seen = j.seen \cup {s}
  PROVE  /\ Cardinality(MissingOf(i)) <= Cardinality(MissingOf(j))
         /\ Cardinality(MissingOf(j)) <= Cardinality(MissingOf(i)) + 1
<1> DEFINE p == Place(f, j.expected) - Place(f, s)
<1>0. /\ j \in Jitters /\ j.expected \in Numbers /\ j.counted \in Nat
      /\ j.counted \in 1..Place(f, j.expected) /\ Place(f, j.expected) \in Numbers
      /\ Place(f, s) \in Numbers
  BY Places DEF JitterOK, Jitters, Expected
<1>1. MissingOf(i) \in SUBSET MissingOf(j) BY DEF MissingOf
<1>2. MissingOf(j) \in SUBSET (MissingOf(i) \cup {p})
  <2>1. ASSUME NEW k \in MissingOf(j), k \notin MissingOf(i) PROVE k = p
    <3>1. k \in 1..j.counted /\ Back(j.expected, k) = s BY <2>1 DEF MissingOf
    <3>2. Place(f, s) = Place(f, j.expected) - k BY <3>1, <1>0, EarlierNumber, Ranges DEF Numbers
    <3> QED BY <3>1, <3>2, <1>0, Ranges DEF Numbers
  <2> QED BY <2>1
<1>3. /\ IsFiniteSet(MissingOf(j)) /\ IsFiniteSet(MissingOf(i))
      /\ Cardinality(MissingOf(j)) \in Nat /\ Cardinality(MissingOf(i)) \in Nat
  BY <1>0, MissingFinite
<1>4. Cardinality(MissingOf(i)) <= Cardinality(MissingOf(j)) BY <1>1, <1>3, FS_Subset
<1>5. /\ IsFiniteSet(MissingOf(i) \cup {p})
      /\ Cardinality(MissingOf(i) \cup {p}) <= Cardinality(MissingOf(i)) + 1
  <2> HIDE DEF p
  <2>1. /\ IsFiniteSet(MissingOf(i) \cup {p})
        /\ Cardinality(MissingOf(i) \cup {p})
             = IF p \in MissingOf(i) THEN Cardinality(MissingOf(i)) ELSE Cardinality(MissingOf(i)) + 1
    BY <1>3, FS_AddElement
  <2> QED BY <2>1, <1>3
<1>6. Cardinality(MissingOf(j)) <= Cardinality(MissingOf(i) \cup {p}) BY <1>2, <1>5, FS_Subset
<1>7. Cardinality(MissingOf(i) \cup {p}) \in Nat BY <1>5, FS_CardinalityType
<1> QED BY <1>3, <1>4, <1>5, <1>6, <1>7

\* RtpJitterBuffer takes a number of the stream: a copy, the first, a late
\* one, or one further on.
LEMMA TakesCopy ==
  ASSUME NEW f, NEW j, JitterOK(f, j),
         NEW i, i = [j EXCEPT !.packets = @ + 1, !.duplicates = @ + 1]
  PROVE  JitterOK(f, i)
<1>1. j \in Jitters BY DEF JitterOK
<1>2. j.packets + 1 \in Nat /\ j.duplicates + 1 \in Nat BY <1>1 DEF Jitters
<1>3. i \in Jitters BY <1>1, <1>2 DEF Jitters
<1>4. /\ i.expected = j.expected /\ i.seen = j.seen /\ i.counted = j.counted
      /\ i.loss = j.loss /\ i.gaps = j.gaps /\ i.disordered = j.disordered
  BY <1>1 DEF Jitters
<1>5. MissingOf(i) = MissingOf(j) BY <1>4 DEF MissingOf
<1> QED BY <1>3, <1>4, <1>5 DEF JitterOK, Bounds

LEMMA TakesFirst ==
  ASSUME RelayAssumption, NEW f \in Numbers, NEW j, JitterOK(f, j), j.expected = None,
         NEW s \in Numbers, Place(f, s) < MaxPackets,
         NEW i, i = [[j EXCEPT !.packets = @ + 1, !.seen = @ \cup {s}]
                       EXCEPT !.expected = (s + 1) % SeqMod, !.counted = 1]
  PROVE  JitterOK(f, i)
<1>1. j \in Jitters /\ j.seen = {} /\ j.counted = 0 BY DEF JitterOK
<1>2. (s + 1) % SeqMod \in Numbers /\ Place(f, (s + 1) % SeqMod) = Place(f, s) + 1
  BY NextNumber
<1>3. Place(f, s) \in Numbers BY Places
<1>4. None \notin Numbers BY Ranges DEF None, Numbers
<1>5. i \in Jitters
  <2>1. j.packets + 1 \in Nat /\ j.seen \cup {s} \in SUBSET Numbers BY <1>1 DEF Jitters
  <2>2. (s + 1) % SeqMod \in Expected BY <1>2 DEF Expected
  <2>3. 1 \in Nat OBVIOUS
  <2> QED BY <1>1, <2>1, <2>2, <2>3 DEF Jitters
<1>6. /\ i.expected = (s + 1) % SeqMod /\ i.seen = {s} /\ i.counted = 1
      /\ i.loss = j.loss /\ i.gaps = j.gaps /\ i.disordered = j.disordered
  BY <1>1 DEF Jitters
<1>7. Back(i.expected, 1) = s
  <2>1. 1 \in 1..Place(f, i.expected) BY <1>6, <1>2, <1>3, Ranges DEF Numbers
  <2>2. /\ Back(i.expected, 1) \in Numbers
        /\ Place(f, Back(i.expected, 1)) = Place(f, i.expected) - 1
    BY <2>1, <1>2, <1>6, EarlierNumber
  <2>3. Place(f, Back(i.expected, 1)) = Place(f, s)
    BY <2>2, <1>6, <1>2, <1>3, Ranges DEF Numbers
  <2> QED BY <2>2, <2>3, SamePlace
<1>8. Bounds(i)
  <2>1. MissingOf(i) = {} BY <1>6, <1>7 DEF MissingOf
  <2>2. MissingOf(j) = {} BY <1>1 DEF MissingOf
  <2> QED BY <1>6, <2>1, <2>2 DEF JitterOK, Bounds
<1>9. i.counted \in 1..Place(f, i.expected) /\ Place(f, i.expected) <= MaxPackets
  BY <1>6, <1>2, <1>3, Ranges DEF Numbers
<1>10. \A t \in i.seen : Place(f, t) < Place(f, i.expected)
  BY <1>6, <1>2, <1>3, Ranges DEF Numbers
<1> QED BY <1>5, <1>6, <1>8, <1>9, <1>10, <1>2, <1>4 DEF JitterOK

LEMMA TakesLate ==
  ASSUME RelayAssumption, NEW f \in Numbers, NEW j, JitterOK(f, j), j.expected # None,
         NEW s \in Numbers, Place(f, s) < Place(f, j.expected), NEW late \in Nat,
         NEW i, i = [[j EXCEPT !.packets = @ + 1, !.seen = @ \cup {s}]
                       EXCEPT !.disordered = @ + 1, !.late = late]
  PROVE  JitterOK(f, i)
<1>1. j \in Jitters BY DEF JitterOK
<1>2. i \in Jitters
  <2>1. /\ j.packets + 1 \in Nat /\ j.seen \cup {s} \in SUBSET Numbers
        /\ j.disordered + 1 \in Nat
    BY <1>1 DEF Jitters
  <2> QED BY <1>1, <2>1 DEF Jitters
<1>3. /\ i.expected = j.expected /\ i.seen = j.seen \cup {s} /\ i.counted = j.counted
      /\ i.loss = j.loss /\ i.gaps = j.gaps /\ i.disordered = j.disordered + 1
  BY <1>1 DEF Jitters
<1>4. /\ Cardinality(MissingOf(i)) <= Cardinality(MissingOf(j))
      /\ Cardinality(MissingOf(j)) <= Cardinality(MissingOf(i)) + 1
  BY <1>2, <1>3, LateClosesOne
<1>5. Cardinality(MissingOf(i)) \in Nat /\ Cardinality(MissingOf(j)) \in Nat
  BY <1>1, <1>2, MissingFinite
<1>6. j.loss \in Nat /\ j.gaps \in Nat /\ j.disordered \in Nat BY <1>1 DEF Jitters
<1>7. Bounds(i) BY <1>3, <1>4, <1>5, <1>6 DEF JitterOK, Bounds
<1>8. \A t \in i.seen : Place(f, t) < Place(f, i.expected) BY <1>3 DEF JitterOK
<1> QED BY <1>2, <1>3, <1>7, <1>8 DEF JitterOK

LEMMA TakesNext ==
  ASSUME RelayAssumption, NEW f \in Numbers, NEW j, JitterOK(f, j), j.expected # None,
         NEW s \in Numbers, s \notin j.seen, Place(f, s) < MaxPackets,
         NEW d \in Nat, d = Place(f, s) - Place(f, j.expected),
         NEW i, i = [j EXCEPT !.expected = (s + 1) % SeqMod, !.loss = @ + d,
                              !.gaps = IF d > 0 THEN @ + 1 ELSE @, !.counted = @ + d + 1,
                              !.packets = @ + 1, !.seen = @ \cup {s}]
  PROVE  JitterOK(f, i)
<1>1. j \in Jitters BY DEF JitterOK
<1>2. /\ j.expected \in Numbers /\ Place(f, j.expected) \in Numbers
      /\ j.counted \in 1..Place(f, j.expected)
      /\ \A t \in j.seen : t \in Numbers /\ Place(f, t) < Place(f, j.expected)
  BY <1>1, Places DEF JitterOK, Jitters, Expected
<1>3. (s + 1) % SeqMod \in Numbers /\ Place(f, (s + 1) % SeqMod) = Place(f, s) + 1
  BY NextNumber
<1>4. Place(f, s) \in Numbers BY Places
<1>5. None \notin Numbers BY Ranges DEF None, Numbers
<1>6. j.loss \in Nat /\ j.gaps \in Nat /\ j.disordered \in Nat /\ j.packets \in Nat /\ j.counted \in Nat
  BY <1>1 DEF Jitters
<1>7. i \in Jitters
  <2>1. /\ j.packets + 1 \in Nat /\ j.seen \cup {s} \in SUBSET Numbers /\ j.loss + d \in Nat
        /\ (IF d > 0 THEN j.gaps + 1 ELSE j.gaps) \in Nat /\ j.counted + d + 1 \in Nat
    BY <1>1, <1>6 DEF Jitters
  <2>2. (s + 1) % SeqMod \in Expected BY <1>3 DEF Expected
  <2> QED BY <1>1, <2>1, <2>2 DEF Jitters
<1>8. /\ i.expected = (s + 1) % SeqMod /\ i.seen = j.seen \cup {s}
      /\ i.counted = j.counted + d + 1 /\ i.loss = j.loss + d /\ i.disordered = j.disordered
      /\ i.gaps = IF d > 0 THEN j.gaps + 1 ELSE j.gaps
  BY <1>1 DEF Jitters
<1>9. Cardinality(MissingOf(i)) = Cardinality(MissingOf(j)) + d
  <2>1. \A x \in Jitters :
          /\ x.expected = (s + 1) % SeqMod /\ x.counted = j.counted + d + 1
          /\ x.seen = j.seen \cup {s}
          => Cardinality(MissingOf(x)) = Cardinality(MissingOf(j)) + d
    BY SkippedAreMissing
  <2> QED BY <1>7, <1>8, <2>1, Zenon
<1>10. Bounds(i)
  <2>1. Cardinality(MissingOf(j)) \in Nat BY <1>1, MissingFinite
  <2> QED BY <2>1, <1>6, <1>8, <1>9 DEF JitterOK, Bounds
<1>11. i.counted \in 1..Place(f, i.expected) /\ Place(f, i.expected) <= MaxPackets
  <2>1. Place(f, i.expected) = Place(f, s) + 1 BY <1>8, <1>3
  <2>2. j.counted + d + 1 \in 1..Place(f, s) + 1 BY <1>2, <1>4, Ranges DEF Numbers
  <2> QED BY <2>1, <2>2, <1>4, <1>8, Ranges DEF Numbers
<1>12. \A t \in i.seen : Place(f, t) < Place(f, i.expected)
  <2>1. \A t \in j.seen : Place(f, t) \in Numbers BY <1>2, Places
  <2> QED BY <2>1, <1>2, <1>3, <1>4, <1>8, Ranges DEF Numbers
<1> QED BY <1>7, <1>8, <1>10, <1>11, <1>12, <1>3, <1>5 DEF JitterOK

LEMMA Observes ==
  ASSUME RelayAssumption, NEW f \in Numbers, JitterOK(f, jitter),
         NEW s \in Numbers, Place(f, s) < MaxPackets
  PROVE  JitterOK(f, Observed(s))
<1>1. CASE s \in jitter.seen
  <2>1. Observed(s) = [jitter EXCEPT !.packets = @ + 1, !.duplicates = @ + 1]
    BY <1>1 DEF Observed
  <2> QED BY <2>1, TakesCopy
<1>2. CASE s \notin jitter.seen /\ jitter.expected = None
  <2>1. Observed(s) = [[jitter EXCEPT !.packets = @ + 1, !.seen = @ \cup {s}]
                         EXCEPT !.expected = (s + 1) % SeqMod, !.counted = 1]
    BY <1>2 DEF Observed, Noted
  <2> QED BY <1>2, <2>1, TakesFirst
<1>3. CASE s \notin jitter.seen /\ jitter.expected # None
  <2>0. /\ jitter \in Jitters /\ jitter.expected \in Numbers
        /\ Place(f, jitter.expected) \in Numbers /\ Place(f, jitter.expected) <= MaxPackets
        /\ Place(f, s) \in Numbers /\ jitter.late \in Nat
    BY <1>3, Places DEF JitterOK, Jitters, Expected
  <2>1. /\ Delta(s) \in Numbers /\ (Behind(s) <=> Place(f, s) < Place(f, jitter.expected))
        /\ Place(f, s) >= Place(f, jitter.expected)
             => Delta(s) = Place(f, s) - Place(f, jitter.expected)
    <3>1. Place(f, s) <= MaxPackets BY <2>0, Ranges DEF Numbers
    <3> QED BY <3>1, <2>0, Distance DEF Delta, Behind
  <2>2. CASE Behind(s)
    <3> DEFINE late == IF (jitter.expected - s) % SeqMod <= MaxLate
                       THEN jitter.late + 1 ELSE jitter.late
    <3>1. late \in Nat BY <2>0
    <3>2. Observed(s) = [[jitter EXCEPT !.packets = @ + 1, !.seen = @ \cup {s}]
                           EXCEPT !.disordered = @ + 1, !.late = late]
      BY <1>3, <2>0, <2>2 DEF Observed, Noted, Jitters
    <3> HIDE DEF late
    <3> QED BY <1>3, <2>1, <2>2, <3>1, <3>2, TakesLate
  <2>3. CASE ~Behind(s)
    <3>1. Delta(s) \in Nat /\ Delta(s) = Place(f, s) - Place(f, jitter.expected)
      BY <2>0, <2>1, <2>3, Ranges DEF Numbers
    <3>2. Observed(s) = [jitter EXCEPT !.expected = (s + 1) % SeqMod, !.loss = @ + Delta(s),
                                       !.gaps = IF Delta(s) > 0 THEN @ + 1 ELSE @,
                                       !.counted = @ + Delta(s) + 1,
                                       !.packets = @ + 1, !.seen = @ \cup {s}]
      BY <1>3, <2>0, <2>3 DEF Observed, Noted, Ahead, Jitters
    <3> QED BY <1>3, <3>1, <3>2, TakesNext
  <2> QED BY <2>2, <2>3
<1> QED BY <1>1, <1>2, <1>3

-----------------------------------------------------------------------------
(* Presses, their timestamps and their ends.                               *)

Sources ==
  [first : Numbers, sent : Nat, presses : 0..MaxPresses, key : {"none", "down", "up"},
   digit : Digits, duration : 0..2, pressed : [Digits -> Nat]]
Dtmfs == [completed : SUBSET (Digits \X (0..2)), recorded : [Digits -> Nat],
          stamp : [Digits -> Int]]

PhoneOK ==
  /\ source \in Sources /\ net \in SUBSET Packet
  /\ \A p \in net : p.nr < MaxPackets /\ p.press <= source.presses

\* All packets of one press carry one digit.
DigitsOK ==
  /\ \A p \in net : p.press > 0 /\ p.press = source.presses => p.digit = source.digit
  /\ \A p, q \in net : p.press > 0 /\ p.press = q.press => p.digit = q.digit

\* The timestamp of a press is that of the digit that its packets carry.
StampsOK == \A a \in stamps :
  /\ a.press \in 1..source.presses /\ a.stamp # None
  /\ \E d \in Digits :
       /\ dtmf.stamp[d] = a.stamp
       /\ \A p \in net : p.press = a.press => p.digit = d
       /\ a.press = source.presses => source.digit = d

\* The ends of a digit that were recorded, and those that still may be: in the
\* network, or repeated by the phone.  A key that is held will add one more.
Ended(d) == {n \in 0..2 : <<d, n>> \in dtmf.completed}
Ends(d) == {n \in 0..2 :
  \/ <<d, n>> \in dtmf.completed
  \/ \E p \in net : p.digit = d /\ p.end = TRUE /\ p.duration = n
  \/ source.key = "up" /\ source.digit = d /\ source.duration = n}
KeyHeld(d) == IF source.key = "down" /\ source.digit = d THEN 1 ELSE 0

EndsOK == \A d \in Digits :
  /\ dtmf.recorded[d] = Cardinality(Ended(d))
  /\ Cardinality(Ends(d)) + KeyHeld(d) <= source.pressed[d]

OutOK == out.timestamp \in Int

RelayInv ==
  /\ JitterOK(source.first, jitter) /\ dtmf \in Dtmfs /\ OutOK
  /\ PhoneOK /\ DigitsOK /\ StampsOK /\ OneStamp /\ EndsOK

LEMMA SomeEnds ==
  ASSUME NEW d
  PROVE  /\ IsFiniteSet(Ends(d)) /\ Cardinality(Ends(d)) \in Nat
         /\ IsFiniteSet(Ended(d)) /\ Cardinality(Ended(d)) \in Nat
         /\ Ended(d) \in SUBSET Ends(d) /\ KeyHeld(d) \in 0..1
<1>1. IsFiniteSet(0..2)
  <2>1. \A n \in Nat : IsFiniteSet(0..n) BY FS_Interval
  <2> QED BY <2>1
<1>2. Ends(d) \in SUBSET (0..2) /\ Ended(d) \in SUBSET Ends(d) BY DEF Ends, Ended
<1>3. KeyHeld(d) \in 0..1 BY DEF KeyHeld
<1> QED BY <1>1, <1>2, <1>3, FS_Subset, FS_CardinalityType

\* Fewer ends are open, and no key more is held.
LEMMA FewerEnds ==
  ASSUME RelayInv, dtmf' = dtmf, source' \in Sources,
         NEW d \in Digits, Ends(d)' \in SUBSET Ends(d), KeyHeld(d)' <= KeyHeld(d),
         source'.pressed[d] = source.pressed[d]
  PROVE  /\ dtmf'.recorded[d] = Cardinality(Ended(d)')
         /\ Cardinality(Ends(d)') + KeyHeld(d)' <= source'.pressed[d]
<1>1. Ended(d)' = Ended(d) BY DEF Ended
<1>2. /\ Cardinality(Ends(d)') \in Nat /\ Cardinality(Ends(d)') <= Cardinality(Ends(d))
  BY SomeEnds, FS_Subset, FS_CardinalityType
<1>3. KeyHeld(d) \in 0..1 /\ KeyHeld(d)' \in 0..1 /\ Cardinality(Ends(d)) \in Nat
  BY SomeEnds DEF KeyHeld
<1>4. source.pressed[d] \in Nat BY DEF RelayInv, PhoneOK, Sources
<1> QED BY <1>1, <1>2, <1>3, <1>4 DEF RelayInv, EndsOK

\* The phone sends a packet of the press that it is in, or of none.
LEMMA EmitsKept ==
  ASSUME RelayAssumption, RelayInv, NEW to \in Sources, NEW press \in 0..MaxPresses,
         NEW end \in BOOLEAN, Emits(to, press, end),
         to.first = source.first, to.sent = source.sent,
         source.presses <= to.presses, press \in {0, to.presses},
         to.presses = source.presses => to.digit = source.digit
  PROVE  /\ JitterOK(source.first, jitter)' /\ dtmf' \in Dtmfs /\ OutOK'
         /\ PhoneOK' /\ DigitsOK' /\ StampsOK' /\ OneStamp'
<1> DEFINE new == [nr |-> source.sent, press |-> press, digit |-> to.digit, end |-> end,
                   duration |-> IF end THEN to.duration ELSE 0]
<1>1. /\ source' = [to EXCEPT !.sent = @ + 1] /\ net' = net \cup {new}
      /\ source.sent < MaxPackets /\ UNCHANGED <<jitter, dtmf, out, stamps>>
  BY DEF Emits
<1>2. /\ source \in Sources /\ net \in SUBSET Packet
      /\ \A p \in net : p.nr < MaxPackets /\ p.press <= source.presses
      /\ source.presses \in 0..MaxPresses
  BY DEF RelayInv, PhoneOK, Sources
<1>3. /\ source' \in Sources /\ source'.first = source.first
      /\ source'.presses = to.presses /\ source'.digit = to.digit /\ to.presses \in 0..MaxPresses
  <2>1. to.sent + 1 \in Nat BY DEF Sources
  <2> QED BY <1>1, <2>1 DEF Sources
<1>4. new \in Packet /\ new.nr < MaxPackets /\ new.press = press /\ new.digit = to.digit
  <2>1. /\ source.sent \in 0..MaxPackets /\ to.digit \in Digits
        /\ (IF end THEN to.duration ELSE 0) \in 0..2
    BY <1>1, <1>2, Ranges DEF Sources
  <2> QED BY <1>1, <2>1 DEF Packet
<1> HIDE DEF new
<1>5. \A p \in net : p.press \in 0..MaxPresses BY <1>2 DEF Packet
<1>6. press <= to.presses BY <1>3
<1>7. PhoneOK'
  <2>1. ASSUME NEW p \in net' PROVE p.nr < MaxPackets /\ p.press <= to.presses
    BY <1>1, <1>2, <1>3, <1>4, <1>5, <1>6
  <2> QED BY <2>1, <1>1, <1>2, <1>3, <1>4 DEF PhoneOK
<1>8. ASSUME NEW p \in net, p.press > 0, p.press = to.presses PROVE p.digit = to.digit
  <2>1. to.presses = source.presses BY <1>2, <1>3, <1>5, <1>8
  <2> QED BY <2>1, <1>8 DEF RelayInv, DigitsOK
<1>9. DigitsOK'
  <2>1. ASSUME NEW p \in net', p.press > 0, p.press = source'.presses
        PROVE p.digit = source'.digit
    BY <2>1, <1>1, <1>3, <1>4, <1>8
  <2>2. ASSUME NEW p \in net', NEW q \in net', p.press > 0, p.press = q.press
        PROVE p.digit = q.digit
    <3>1. CASE p \in net /\ q \in net BY <2>2, <3>1 DEF RelayInv, DigitsOK
    <3>2. CASE p = new \/ q = new
      <4>1. p.press = to.presses BY <2>2, <3>2, <1>4
      <4> QED BY <4>1, <2>1, <2>2, <1>3
    <3> QED BY <3>1, <3>2, <1>1
  <2> QED BY <2>1, <2>2 DEF DigitsOK
<1>10. StampsOK'
  <2> SUFFICES ASSUME NEW a \in stamps
               PROVE  /\ a.press \in 1..to.presses /\ a.stamp # None
                      /\ \E d \in Digits :
                           /\ dtmf.stamp[d] = a.stamp
                           /\ \A p \in net' : p.press = a.press => p.digit = d
                           /\ a.press = to.presses => to.digit = d
    BY <1>1, <1>3 DEF StampsOK
  <2>1. a.press \in 1..source.presses /\ a.stamp # None BY DEF RelayInv, StampsOK
  <2>2. PICK d \in Digits : /\ dtmf.stamp[d] = a.stamp
                            /\ \A p \in net : p.press = a.press => p.digit = d
                            /\ a.press = source.presses => source.digit = d
    BY DEF RelayInv, StampsOK
  <2>3. a.press = to.presses => to.digit = d BY <2>1, <2>2, <1>2, <1>3
  <2>4. ASSUME new.press = a.press PROVE new.digit = d
    BY <2>1, <2>3, <2>4, <1>3, <1>4
  <2>5. a.press \in 1..to.presses BY <2>1, <1>2, <1>3
  <2> QED BY <2>1, <2>2, <2>3, <2>4, <2>5, <1>1
<1> QED BY <1>1, <1>3, <1>7, <1>9, <1>10 DEF RelayInv, OneStamp, OutOK

LEMMA TalkKept == ASSUME RelayAssumption, RelayInv, Talk PROVE RelayInv'
<1> DEFINE to == [source EXCEPT !.key = "none"]
<1>1. source.key # "down" /\ Emits(to, 0, FALSE) BY DEF Talk
<1>2. source \in Sources BY DEF RelayInv, PhoneOK
<1>3. /\ to \in Sources /\ to.first = source.first /\ to.sent = source.sent
      /\ to.presses = source.presses /\ to.digit = source.digit
      /\ to.key = "none" /\ to.pressed = source.pressed
  BY <1>2 DEF Sources
<1> HIDE DEF to
<1>4. /\ JitterOK(source.first, jitter)' /\ dtmf' \in Dtmfs /\ OutOK'
      /\ PhoneOK' /\ DigitsOK' /\ StampsOK' /\ OneStamp'
  <2>1. /\ 0 \in 0..MaxPresses /\ FALSE \in BOOLEAN /\ source.presses <= to.presses
        /\ 0 \in {0, to.presses}
    BY <1>2, <1>3, RelayAssumption DEF Sources, RelayAssumption
  <2> QED BY <1>1, <1>3, <2>1, EmitsKept
<1>5. /\ dtmf' = dtmf /\ source'.key = "none" /\ source'.pressed = source.pressed
      /\ source' \in Sources
  BY <1>1, <1>3, <1>4 DEF Emits, Sources, PhoneOK
<1>6. \A p \in net' : p \in net \/ p.end = FALSE BY <1>1 DEF Emits
<1>7. ASSUME NEW d \in Digits
      PROVE  /\ dtmf'.recorded[d] = Cardinality(Ended(d)')
             /\ Cardinality(Ends(d)') + KeyHeld(d)' <= source'.pressed[d]
  <2>1. Ends(d)' \in SUBSET Ends(d) BY <1>5, <1>6 DEF Ends
  <2>2. KeyHeld(d)' <= KeyHeld(d) BY <1>5 DEF KeyHeld
  <2> QED BY <1>5, <2>1, <2>2, FewerEnds
<1> QED BY <1>4, <1>7 DEF RelayInv, EndsOK

LEMMA PressKept ==
  ASSUME RelayAssumption, RelayInv, NEW k \in Digits, Press(k) PROVE RelayInv'
<1> DEFINE to == [source EXCEPT !.presses = @ + 1, !.key = "down", !.digit = k,
                                !.pressed[k] = @ + 1]
<1>1. /\ source.presses < MaxPresses /\ source.key # "down"
      /\ Emits(to, source.presses + 1, FALSE)
  BY DEF Press
<1>2. /\ source \in Sources /\ source.presses \in 0..MaxPresses
      /\ source.pressed \in [Digits -> Nat]
  BY DEF RelayInv, PhoneOK, Sources
<1>3. /\ to \in Sources /\ to.first = source.first /\ to.sent = source.sent
      /\ to.presses = source.presses + 1 /\ to.digit = k /\ to.key = "down"
      /\ to.pressed = [source.pressed EXCEPT ![k] = @ + 1]
  <2>1. source.presses + 1 \in 0..MaxPresses BY <1>1, <1>2, RelayAssumption DEF RelayAssumption
  <2>2. [source.pressed EXCEPT ![k] = @ + 1] \in [Digits -> Nat] BY <1>2
  <2>3. to = [source EXCEPT !.presses = @ + 1, !.key = "down", !.digit = k,
                            !.pressed = [source.pressed EXCEPT ![k] = @ + 1]]
    BY <1>2 DEF Sources
  <2> HIDE DEF to
  <2> QED BY <1>2, <2>1, <2>2, <2>3 DEF Sources
<1> HIDE DEF to
<1>4. /\ JitterOK(source.first, jitter)' /\ dtmf' \in Dtmfs /\ OutOK'
      /\ PhoneOK' /\ DigitsOK' /\ StampsOK' /\ OneStamp'
  <2>1. /\ source.presses + 1 \in 0..MaxPresses /\ FALSE \in BOOLEAN
        /\ source.presses <= to.presses /\ to.presses # source.presses
        /\ source.presses + 1 \in {0, to.presses}
    BY <1>1, <1>2, <1>3, RelayAssumption DEF RelayAssumption
  <2> QED BY <1>1, <1>3, <2>1, EmitsKept
<1>5. /\ dtmf' = dtmf /\ source'.key = "down" /\ source'.pressed = to.pressed
      /\ source'.digit = k /\ source' \in Sources
  BY <1>1, <1>3, <1>4 DEF Emits, Sources, PhoneOK
<1>6. \A p \in net' : p \in net \/ p.end = FALSE BY <1>1 DEF Emits
<1>7. ASSUME NEW d \in Digits
      PROVE  /\ dtmf'.recorded[d] = Cardinality(Ended(d)')
             /\ Cardinality(Ends(d)') + KeyHeld(d)' <= source'.pressed[d]
  <2>1. Ends(d)' \in SUBSET Ends(d) BY <1>5, <1>6 DEF Ends
  <2>2. CASE d # k
    <3>1. KeyHeld(d)' <= KeyHeld(d) BY <1>5, <2>2 DEF KeyHeld
    <3>2. source'.pressed[d] = source.pressed[d] BY <1>2, <1>3, <1>5, <2>2
    <3> QED BY <1>5, <2>1, <3>1, <3>2, FewerEnds
  <2>3. CASE d = k
    <3>1. Ended(d)' = Ended(d) BY <1>5 DEF Ended
    <3>2. /\ Cardinality(Ends(d)') \in Nat /\ Cardinality(Ends(d)') <= Cardinality(Ends(d))
      BY <2>1, SomeEnds, FS_Subset, FS_CardinalityType
    <3>3. KeyHeld(d) = 0 /\ KeyHeld(d)' = 1 BY <1>1, <1>5, <2>3 DEF KeyHeld
    <3>4. source'.pressed[d] = source.pressed[d] + 1 /\ source.pressed[d] \in Nat
      BY <1>2, <1>3, <1>5, <2>3
    <3>5. dtmf.recorded[d] = Cardinality(Ended(d)) /\ Cardinality(Ends(d)) + KeyHeld(d) <= source.pressed[d]
      BY DEF RelayInv, EndsOK
    <3>6. Cardinality(Ends(d)) \in Nat BY SomeEnds
    <3> QED BY <1>5, <3>1, <3>2, <3>3, <3>4, <3>5, <3>6
  <2> QED BY <2>2, <2>3
<1> QED BY <1>4, <1>7 DEF RelayInv, EndsOK

LEMMA ReleaseKept == ASSUME RelayAssumption, RelayInv, Release PROVE RelayInv'
<1>1. /\ source \in Sources /\ source.presses \in 0..MaxPresses BY DEF RelayInv, PhoneOK, Sources
<1>2. ASSUME NEW to \in Sources, Emits(to, source.presses, TRUE),
             to.first = source.first, to.sent = source.sent, to.presses = source.presses,
             to.digit = source.digit
      PROVE  /\ JitterOK(source.first, jitter)' /\ dtmf' \in Dtmfs /\ OutOK'
             /\ PhoneOK' /\ DigitsOK' /\ StampsOK' /\ OneStamp'
             /\ source'.key = to.key /\ source'.pressed = to.pressed
             /\ source'.digit = to.digit /\ source'.duration = to.duration
             /\ source' \in Sources /\ dtmf' = dtmf
             /\ \A p \in net' : p \in net \/ (p.digit = to.digit /\ p.duration = to.duration)
  <2>1. TRUE \in BOOLEAN /\ source.presses <= to.presses /\ source.presses \in {0, to.presses}
    BY <1>1, <1>2
  <2>2. /\ JitterOK(source.first, jitter)' /\ dtmf' \in Dtmfs /\ OutOK'
        /\ PhoneOK' /\ DigitsOK' /\ StampsOK' /\ OneStamp'
    BY <1>1, <1>2, <2>1, EmitsKept
  <2>3. /\ source'.key = to.key /\ source'.pressed = to.pressed
        /\ source'.digit = to.digit /\ source'.duration = to.duration
        /\ dtmf' = dtmf
    BY <1>2 DEF Emits, Sources
  <2>4. \A p \in net' : p \in net \/ (p.digit = to.digit /\ p.duration = to.duration)
    <3> DEFINE new == [nr |-> source.sent, press |-> source.presses, digit |-> to.digit,
                       end |-> TRUE, duration |-> IF TRUE THEN to.duration ELSE 0]
    <3>1. net' = net \cup {new} BY <1>2 DEF Emits
    <3>2. new.digit = to.digit /\ new.duration = to.duration OBVIOUS
    <3> HIDE DEF new
    <3> QED BY <3>1, <3>2
  <2> QED BY <2>2, <2>3, <2>4 DEF PhoneOK
<1>3. CASE source.key = "up"
  <2>1. Emits(source, source.presses, TRUE) BY <1>3 DEF Release
  <2>2. /\ JitterOK(source.first, jitter)' /\ dtmf' \in Dtmfs /\ OutOK'
        /\ PhoneOK' /\ DigitsOK' /\ StampsOK' /\ OneStamp'
        /\ source'.key = source.key /\ source'.pressed = source.pressed
        /\ source'.digit = source.digit /\ source'.duration = source.duration
        /\ source' \in Sources /\ dtmf' = dtmf
        /\ \A p \in net' : p \in net \/ (p.digit = source.digit /\ p.duration = source.duration)
    BY <1>1, <1>2, <2>1
  <2>3. ASSUME NEW d \in Digits
        PROVE  /\ dtmf'.recorded[d] = Cardinality(Ended(d)')
               /\ Cardinality(Ends(d)') + KeyHeld(d)' <= source'.pressed[d]
    <3>1. Ends(d)' \in SUBSET Ends(d) BY <1>3, <2>2 DEF Ends
    <3>2. KeyHeld(d)' <= KeyHeld(d) BY <1>3, <2>2 DEF KeyHeld
    <3> QED BY <2>2, <3>1, <3>2, FewerEnds
  <2> QED BY <2>2, <2>3 DEF RelayInv, EndsOK
<1>4. CASE source.key = "down"
  <2>1. PICK n \in 1..2 : Emits([source EXCEPT !.key = "up", !.duration = n], source.presses, TRUE)
    BY <1>4 DEF Release
  <2> DEFINE to == [source EXCEPT !.key = "up", !.duration = n]
  <2>2. /\ to \in Sources /\ to.first = source.first /\ to.sent = source.sent
        /\ to.presses = source.presses /\ to.digit = source.digit
        /\ to.key = "up" /\ to.pressed = source.pressed /\ to.duration = n
    <3>1. n \in 0..2 /\ "up" \in {"none", "down", "up"} OBVIOUS
    <3> QED BY <1>1, <3>1 DEF Sources
  <2>3. Emits(to, source.presses, TRUE) BY <2>1
  <2> HIDE DEF to
  <2>4. /\ JitterOK(source.first, jitter)' /\ dtmf' \in Dtmfs /\ OutOK'
        /\ PhoneOK' /\ DigitsOK' /\ StampsOK' /\ OneStamp'
        /\ source'.key = "up" /\ source'.pressed = source.pressed
        /\ source'.digit = source.digit /\ source'.duration = n
        /\ source' \in Sources /\ dtmf' = dtmf
        /\ \A p \in net' : p \in net \/ (p.digit = source.digit /\ p.duration = n)
    BY <1>2, <2>2, <2>3
  <2>5. ASSUME NEW d \in Digits
        PROVE  /\ dtmf'.recorded[d] = Cardinality(Ended(d)')
               /\ Cardinality(Ends(d)') + KeyHeld(d)' <= source'.pressed[d]
    <3>1. CASE d # source.digit
      <4>1. Ends(d)' \in SUBSET Ends(d) BY <1>4, <2>4, <3>1 DEF Ends
      <4>2. KeyHeld(d)' <= KeyHeld(d) BY <2>4 DEF KeyHeld
      <4> QED BY <2>4, <4>1, <4>2, FewerEnds
    <3>2. CASE d = source.digit
      <4>1. Ended(d)' = Ended(d) BY <2>4 DEF Ended
      <4>2. Ends(d)' \in SUBSET (Ends(d) \cup {n}) BY <1>4, <2>4, <3>2 DEF Ends
      <4>3. /\ IsFiniteSet(Ends(d) \cup {n})
            /\ Cardinality(Ends(d) \cup {n})
                 = IF n \in Ends(d) THEN Cardinality(Ends(d)) ELSE Cardinality(Ends(d)) + 1
        BY SomeEnds, FS_AddElement
      <4>4. /\ Cardinality(Ends(d)') \in Nat
            /\ Cardinality(Ends(d)') <= Cardinality(Ends(d) \cup {n})
        BY <4>2, <4>3, FS_Subset, FS_CardinalityType
      <4>5. KeyHeld(d) = 1 /\ KeyHeld(d)' = 0 BY <1>4, <2>4, <3>2 DEF KeyHeld
      <4>6. dtmf.recorded[d] = Cardinality(Ended(d)) /\ Cardinality(Ends(d)) + KeyHeld(d) <= source.pressed[d]
        BY DEF RelayInv, EndsOK
      <4>7. Cardinality(Ends(d)) \in Nat /\ source.pressed[d] \in Nat
        BY <1>1, SomeEnds DEF Sources
      <4>8. Cardinality(Ends(d) \cup {n}) <= Cardinality(Ends(d)) + 1 BY <4>3, <4>7
      <4>9. Cardinality(Ends(d) \cup {n}) \in Nat BY <4>3, <4>7
      <4> QED BY <2>4, <4>1, <4>4, <4>5, <4>6, <4>7, <4>8, <4>9
    <3> QED BY <3>1, <3>2
  <2> QED BY <2>4, <2>5 DEF RelayInv, EndsOK
<1> QED BY <1>3, <1>4 DEF Release

\* Fewer packets, and nothing recorded.
LEMMA LoseKept ==
  ASSUME RelayInv, NEW q, net' = net \ {q}, UNCHANGED <<source, jitter, dtmf, out, stamps>>
  PROVE  RelayInv'
<1>1. net' \in SUBSET net OBVIOUS
<1>2. PhoneOK' /\ DigitsOK' BY <1>1 DEF RelayInv, PhoneOK, DigitsOK
<1>3. StampsOK' BY <1>1 DEF RelayInv, StampsOK
<1>4. ASSUME NEW d \in Digits
      PROVE  /\ dtmf'.recorded[d] = Cardinality(Ended(d)')
             /\ Cardinality(Ends(d)') + KeyHeld(d)' <= source'.pressed[d]
  <2>1. Ends(d)' \in SUBSET Ends(d) BY <1>1 DEF Ends
  <2>2. KeyHeld(d)' = KeyHeld(d) /\ KeyHeld(d) \in 0..1 BY SomeEnds DEF KeyHeld
  <2>3. source' \in Sources BY DEF RelayInv, PhoneOK
  <2> QED BY <2>1, <2>2, <2>3, FewerEnds
<1> QED BY <1>2, <1>3, <1>4 DEF RelayInv, OneStamp, OutOK, EndsOK

\* handle_dtmf_payload records an end of a press, or has it already.
LEMMA RecordedKept ==
  ASSUME RelayInv, NEW p \in net, net' \in SUBSET net, source' = source,
         dtmf'.completed = Recorded(p).completed, dtmf'.recorded = Recorded(p).recorded
  PROVE  EndsOK'
<1>1. dtmf \in Dtmfs /\ source \in Sources /\ p \in Packet BY DEF RelayInv, PhoneOK
<1>2. p.digit \in Digits /\ p.duration \in 0..2 /\ p.end \in BOOLEAN BY <1>1 DEF Packet
<1> SUFFICES ASSUME NEW d \in Digits
             PROVE  /\ dtmf'.recorded[d] = Cardinality(Ended(d)')
                    /\ Cardinality(Ends(d)') + KeyHeld(d)' <= source'.pressed[d]
  BY DEF EndsOK
<1>3. /\ Cardinality(Ends(d)) + KeyHeld(d) <= source.pressed[d]
      /\ dtmf.recorded[d] = Cardinality(Ended(d))
  BY DEF RelayInv, EndsOK
<1>4. KeyHeld(d)' = KeyHeld(d) /\ KeyHeld(d) \in 0..1 BY SomeEnds DEF KeyHeld
<1>5. source.pressed[d] \in Nat BY <1>1 DEF Sources
<1>6. ASSUME Ends(d)' \in SUBSET Ends(d)
      PROVE  Cardinality(Ends(d)') + KeyHeld(d)' <= source'.pressed[d]
  <2>1. /\ Cardinality(Ends(d)') \in Nat /\ Cardinality(Ends(d)') <= Cardinality(Ends(d))
        /\ Cardinality(Ends(d)) \in Nat
    BY <1>6, SomeEnds, FS_Subset, FS_CardinalityType
  <2> QED BY <2>1, <1>3, <1>4, <1>5
<1>7. CASE p.end = FALSE \/ <<p.digit, p.duration>> \in dtmf.completed
  <2>1. Recorded(p) = dtmf BY <1>2, <1>7 DEF Recorded, Completed
  <2>2. Ended(d)' = Ended(d) BY <2>1 DEF Ended
  <2>3. Ends(d)' \in SUBSET Ends(d) BY <2>1 DEF Ends
  <2> QED BY <1>3, <1>6, <2>1, <2>2, <2>3
<1>8. CASE p.end = TRUE /\ <<p.digit, p.duration>> \notin dtmf.completed
  <2>1. /\ dtmf'.completed = dtmf.completed \cup {<<p.digit, p.duration>>}
        /\ dtmf'.recorded = [dtmf.recorded EXCEPT ![p.digit] = @ + 1]
    BY <1>1, <1>8 DEF Recorded, Completed, Dtmfs
  <2>2. Ends(d)' \in SUBSET Ends(d)
    <3>1. p.digit = d => p.duration \in Ends(d) BY <1>2, <1>8 DEF Ends
    <3> QED BY <2>1, <3>1 DEF Ends
  <2>3. CASE d # p.digit
    <3>1. Ended(d)' = Ended(d) BY <2>1, <2>3 DEF Ended
    <3>2. dtmf'.recorded[d] = dtmf.recorded[d] BY <1>1, <2>1, <2>3 DEF Dtmfs
    <3> QED BY <1>3, <1>6, <2>2, <3>1, <3>2
  <2>4. CASE d = p.digit
    <3> DEFINE n == p.duration
    <3>1. Ended(d)' = Ended(d) \cup {n} /\ n \notin Ended(d) BY <1>2, <1>8, <2>1, <2>4 DEF Ended
    <3>2. dtmf'.recorded[d] = dtmf.recorded[d] + 1 BY <1>1, <2>1, <2>4 DEF Dtmfs
    <3> HIDE DEF n
    <3>3. Cardinality(Ended(d) \cup {n})
            = IF n \in Ended(d) THEN Cardinality(Ended(d)) ELSE Cardinality(Ended(d)) + 1
      BY SomeEnds, FS_AddElement
    <3> QED BY <1>3, <1>6, <2>2, <3>1, <3>2, <3>3
  <2> QED BY <2>3, <2>4
<1> QED BY <1>2, <1>7, <1>8

\* _relay_packet sends an event under the timestamp of its digit.
LEMMA StampedKept ==
  ASSUME RelayAssumption, RelayInv, NEW p \in net, p.press > 0,
         net' \in SUBSET net, source' = source,
         dtmf'.stamp = [dtmf.stamp EXCEPT ![p.digit] = Stamp(p.digit)],
         stamps' = stamps \cup {[press |-> p.press, stamp |-> Stamp(p.digit)]}
  PROVE  StampsOK' /\ OneStamp' /\ Stamp(p.digit) \in Int
<1> DEFINE st == Stamp(p.digit)
           new == [press |-> p.press, stamp |-> st]
<1>1. /\ p.digit \in Digits /\ p.press \in 1..source.presses
      /\ source.presses \in 0..MaxPresses /\ dtmf.stamp \in [Digits -> Int]
  BY DEF RelayInv, PhoneOK, Packet, Sources, Dtmfs
<1>2. st \in Int /\ st # None
  <2>1. TsMod \in Nat \ {0} /\ Lead \in Nat /\ out.timestamp \in Int
    BY DEF RelayAssumption, RelayInv, OutOK
  <2>2. (out.timestamp + Lead) % TsMod \in 0..TsMod - 1 BY <2>1
  <2> QED BY <1>1, <2>1, <2>2 DEF Stamp, None
<1>3. new.press = p.press /\ new.stamp = st OBVIOUS
<1>4. stamps' = stamps \cup {new} OBVIOUS
<1>5. dtmf.stamp[p.digit] # None => st = dtmf.stamp[p.digit] BY DEF Stamp
<1> HIDE DEF st
<1>6. dtmf'.stamp = [dtmf.stamp EXCEPT ![p.digit] = st] BY DEF st
<1> HIDE DEF new
<1>7. ASSUME NEW a \in stamps, a.press = p.press PROVE a.stamp = st
  <2>1. PICK d \in Digits : /\ dtmf.stamp[d] = a.stamp
                            /\ \A q \in net : q.press = a.press => q.digit = d
    BY DEF RelayInv, StampsOK
  <2>2. d = p.digit /\ a.stamp # None BY <1>7, <2>1 DEF RelayInv, StampsOK
  <2> QED BY <2>1, <2>2, <1>5
<1>8. OneStamp'
  <2>1. ASSUME NEW a \in stamps', NEW b \in stamps', a.press = b.press PROVE a.stamp = b.stamp
    <3>1. CASE a \in stamps /\ b \in stamps BY <2>1, <3>1 DEF RelayInv, OneStamp
    <3>2. CASE a = new \/ b = new BY <2>1, <3>2, <1>3, <1>4, <1>7
    <3> QED BY <3>1, <3>2, <1>4
  <2> QED BY <2>1 DEF OneStamp
<1>9. StampsOK'
  <2> SUFFICES ASSUME NEW a \in stamps'
               PROVE  /\ a.press \in 1..source.presses /\ a.stamp # None
                      /\ \E d \in Digits :
                           /\ dtmf'.stamp[d] = a.stamp
                           /\ \A q \in net' : q.press = a.press => q.digit = d
                           /\ a.press = source.presses => source.digit = d
    BY DEF StampsOK
  <2>1. CASE a \in stamps
    <3>1. a.press \in 1..source.presses /\ a.stamp # None BY <2>1 DEF RelayInv, StampsOK
    <3>2. PICK d \in Digits : /\ dtmf.stamp[d] = a.stamp
                              /\ \A q \in net : q.press = a.press => q.digit = d
                              /\ a.press = source.presses => source.digit = d
      BY <2>1 DEF RelayInv, StampsOK
    <3>3. dtmf'.stamp[d] = a.stamp BY <1>1, <1>5, <1>6, <3>1, <3>2
    <3> QED BY <3>1, <3>2, <3>3
  <2>2. CASE a = new
    <3>1. dtmf'.stamp[p.digit] = st BY <1>1, <1>6
    <3>2. \A q \in net' : q.press = p.press => q.digit = p.digit BY DEF RelayInv, DigitsOK
    <3>3. p.press = source.presses => source.digit = p.digit BY DEF RelayInv, DigitsOK
    <3> QED BY <1>1, <1>2, <1>3, <2>2, <3>1, <3>2, <3>3
  <2> QED BY <1>4, <2>1, <2>2
<1> QED BY <1>2, <1>8, <1>9 DEF st

LEMMA ReceiveKept ==
  ASSUME RelayAssumption, RelayInv, NEW p \in net, NEW kept \in BOOLEAN, Receive(p, kept)
  PROVE  RelayInv'
<1>1. /\ net' \in SUBSET net /\ source' = source /\ jitter' = Observed(SeqOf(p))
  BY DEF Receive
<1>2. /\ p \in Packet /\ p.nr \in 0..MaxPackets /\ p.nr < MaxPackets /\ p.press \in Nat
      /\ source \in Sources /\ source.first \in Numbers /\ p.digit \in Digits
      /\ p.duration \in 0..2
  BY Ranges DEF RelayInv, PhoneOK, Packet, Sources
<1>3. JitterOK(source.first, jitter)'
  <2>1. SeqOf(p) \in Numbers /\ Place(source.first, SeqOf(p)) = p.nr
    BY <1>2, NumberAt DEF SeqOf
  <2>2. JitterOK(source.first, jitter) BY DEF RelayInv
  <2>3. JitterOK(source.first, Observed(SeqOf(p))) BY <1>2, <2>1, <2>2, Observes
  <2> QED BY <1>1, <2>3
<1>4. PhoneOK' /\ DigitsOK' BY <1>1 DEF RelayInv, PhoneOK, DigitsOK
<1>5. dtmf \in Dtmfs /\ OutOK BY DEF RelayInv
<1>6. /\ Recorded(p) \in Dtmfs /\ Recorded(p).stamp = dtmf.stamp
  <2>1. CASE Recorded(p) = dtmf BY <1>5, <2>1
  <2>2. CASE Recorded(p) # dtmf
    <3>1. /\ dtmf.completed \cup {<<p.digit, p.duration>>} \in SUBSET (Digits \X (0..2))
          /\ [dtmf.recorded EXCEPT ![p.digit] = @ + 1] \in [Digits -> Nat]
      BY <1>2, <1>5 DEF Dtmfs
    <3>2. Recorded(p) = [dtmf EXCEPT !.completed = dtmf.completed \cup {<<p.digit, p.duration>>},
                                     !.recorded = [dtmf.recorded EXCEPT ![p.digit] = @ + 1]]
      BY <1>5, <2>2 DEF Recorded, Dtmfs
    <3> QED BY <1>5, <3>1, <3>2 DEF Dtmfs
  <2> QED BY <2>1, <2>2
<1>7. ASSUME dtmf' = dtmf \/ dtmf' = Recorded(p), stamps' = stamps
      PROVE  /\ dtmf' \in Dtmfs /\ StampsOK' /\ OneStamp'
             /\ dtmf' = Recorded(p) => EndsOK'
             /\ dtmf' = dtmf => EndsOK'
  <2>1. dtmf' \in Dtmfs /\ dtmf'.stamp = dtmf.stamp BY <1>5, <1>6, <1>7
  <2>2. StampsOK' /\ OneStamp' BY <1>1, <1>7, <2>1 DEF RelayInv, StampsOK, OneStamp
  <2>3. dtmf' = Recorded(p) => EndsOK' BY <1>1, RecordedKept
  <2>4. ASSUME dtmf' = dtmf PROVE EndsOK'
    <3>1. ASSUME NEW d \in Digits
          PROVE  /\ dtmf'.recorded[d] = Cardinality(Ended(d)')
                 /\ Cardinality(Ends(d)') + KeyHeld(d)' <= source'.pressed[d]
      <4>1. Ends(d)' \in SUBSET Ends(d) BY <1>1, <2>4 DEF Ends
      <4>2. KeyHeld(d)' = KeyHeld(d) /\ KeyHeld(d) \in 0..1 BY <1>1, SomeEnds DEF KeyHeld
      <4> QED BY <1>1, <1>2, <2>4, <4>1, <4>2, FewerEnds
    <3> QED BY <3>1 DEF EndsOK
  <2> QED BY <2>1, <2>2, <2>3, <2>4
<1>8. CASE NotRelayed(p)
  <2>1. (dtmf' = dtmf \/ dtmf' = Recorded(p)) /\ stamps' = stamps /\ out' = out
    BY <1>8 DEF NotRelayed
  <2>2. dtmf' \in Dtmfs /\ StampsOK' /\ OneStamp' /\ EndsOK' BY <1>7, <2>1
  <2> QED BY <1>3, <1>4, <1>5, <2>1, <2>2 DEF RelayInv, OutOK
<1>9. CASE RelayAudio
  <2>1. dtmf' = dtmf /\ stamps' = stamps BY <1>9 DEF RelayAudio
  <2>2. dtmf' \in Dtmfs /\ StampsOK' /\ OneStamp' /\ EndsOK' BY <1>7, <2>1
  <2>3. OutOK'
    <3>1. (out.timestamp + 1) % TsMod \in Int BY <1>5, RelayAssumption DEF OutOK, RelayAssumption
    <3> QED BY <1>9, <3>1 DEF RelayAudio, OutOK
  <2> QED BY <1>3, <1>4, <2>2, <2>3 DEF RelayInv
<1>10. CASE IsEvent(p) /\ RelayEvent(p)
  <2> DEFINE st == Stamp(p.digit)
  <2>1. /\ dtmf' = [Recorded(p) EXCEPT !.stamp[p.digit] = st]
        /\ out'.timestamp = IF p.end THEN (st + p.duration) % TsMod ELSE st
        /\ stamps' = stamps \cup {[press |-> p.press, stamp |-> st]}
    BY <1>10 DEF RelayEvent
  <2>2. dtmf' = [Recorded(p) EXCEPT !.stamp = [dtmf.stamp EXCEPT ![p.digit] = st]]
    <3> HIDE DEF st
    <3> QED BY <1>6, <2>1 DEF Dtmfs
  <2>3. /\ dtmf'.completed = Recorded(p).completed /\ dtmf'.recorded = Recorded(p).recorded
        /\ dtmf'.stamp = [dtmf.stamp EXCEPT ![p.digit] = st]
    <3> HIDE DEF st
    <3> QED BY <1>6, <2>2 DEF Dtmfs
  <2>4. StampsOK' /\ OneStamp' /\ st \in Int
    BY <1>1, <1>2, <1>10, <2>1, <2>3, StampedKept DEF IsEvent
  <2>5. EndsOK' BY <1>1, <2>3, RecordedKept
  <2>6. dtmf' \in Dtmfs
    <3> HIDE DEF st
    <3>1. [dtmf.stamp EXCEPT ![p.digit] = st] \in [Digits -> Int] BY <1>2, <1>5, <2>4 DEF Dtmfs
    <3> QED BY <1>6, <2>2, <3>1 DEF Dtmfs
  <2>7. OutOK'
    <3> HIDE DEF st
    <3>1. (st + p.duration) % TsMod \in Int
      BY <1>2, <2>4, RelayAssumption DEF RelayAssumption
    <3> QED BY <2>1, <2>4, <3>1 DEF OutOK
  <2> QED BY <1>3, <1>4, <2>4, <2>5, <2>6, <2>7 DEF RelayInv
<1> QED BY <1>8, <1>9, <1>10 DEF Receive

LEMMA RelayInitInv == RelayAssumption /\ RelayInit => RelayInv
<1> SUFFICES ASSUME RelayAssumption, RelayInit PROVE RelayInv
  OBVIOUS
<1>1. /\ source \in Sources /\ source.key = "none" /\ source.pressed = [d \in Digits |-> 0]
      /\ source.first \in Numbers
  <2>1. {0, SeqMod - 2} \in SUBSET Numbers BY Ranges DEF Numbers
  <2>2. (CHOOSE d \in Digits : TRUE) \in Digits BY DEF RelayAssumption
  <2>3. 0 \in 0..MaxPresses BY DEF RelayAssumption
  <2>4. [d \in Digits |-> 0] \in [Digits -> Nat] OBVIOUS
  <2>5. source \in [first : {0, SeqMod - 2}, sent : {0}, presses : {0}, key : {"none"},
                    digit : {CHOOSE d \in Digits : TRUE}, duration : {0},
                    pressed : {[d \in Digits |-> 0]}]
    BY DEF RelayInit
  <2> QED BY <2>1, <2>2, <2>3, <2>4, <2>5 DEF Sources
<1>2. /\ net = {} /\ stamps = {} /\ dtmf.completed = {} /\ dtmf \in Dtmfs
      /\ dtmf.recorded = [d \in Digits |-> 0]
  <2>1. [d \in Digits |-> None] \in [Digits -> Int] BY DEF None
  <2> QED BY <2>1 DEF RelayInit, Dtmfs
<1>3. JitterOK(source.first, jitter)
  <2>1. jitter \in Jitters
    <3>1. None \in Expected BY DEF Expected
    <3> QED BY <3>1 DEF RelayInit, Jitters
  <2>2. jitter.seen = {} /\ jitter.counted = 0 /\ jitter.expected = None
        /\ jitter.loss = 0 /\ jitter.gaps = 0 /\ jitter.disordered = 0
    BY DEF RelayInit
  <2>3. MissingOf(jitter) = {} BY <2>2 DEF MissingOf
  <2>4. Cardinality(MissingOf(jitter)) = 0 BY <2>3, FS_EmptySet
  <2> QED BY <2>1, <2>2, <2>4 DEF JitterOK, Bounds
<1>4. ASSUME NEW d \in Digits
      PROVE  /\ dtmf.recorded[d] = Cardinality(Ended(d))
             /\ Cardinality(Ends(d)) + KeyHeld(d) <= source.pressed[d]
  <2>1. Ended(d) = {} /\ Ends(d) = {} /\ KeyHeld(d) = 0 BY <1>1, <1>2 DEF Ended, Ends, KeyHeld
  <2>2. Cardinality({}) = 0 BY FS_EmptySet
  <2> QED BY <1>1, <1>2, <2>1, <2>2
<1>5. PhoneOK /\ DigitsOK /\ StampsOK /\ OneStamp
  BY <1>1, <1>2 DEF PhoneOK, DigitsOK, StampsOK, OneStamp
<1>6. OutOK BY DEF RelayInit, OutOK, RelayAssumption
<1> QED BY <1>2, <1>3, <1>4, <1>5, <1>6 DEF RelayInv, EndsOK

LEMMA RelayNextInv == RelayAssumption /\ RelayInv /\ [RelayNext]_relayVars => RelayInv'
<1> SUFFICES ASSUME RelayAssumption, RelayInv, [RelayNext]_relayVars PROVE RelayInv'
  OBVIOUS
<1>1. CASE Talk BY <1>1, TalkKept
<1>2. ASSUME NEW d \in Digits, Press(d) PROVE RelayInv' BY <1>2, PressKept
<1>3. CASE Release BY <1>3, ReleaseKept
<1>4. ASSUME NEW p \in net, Lose(p) PROVE RelayInv' BY <1>4, LoseKept DEF Lose
<1>5. ASSUME NEW p \in net, NEW kept \in BOOLEAN, Receive(p, kept) PROVE RelayInv'
  BY <1>5, ReceiveKept
<1>6. CASE UNCHANGED relayVars
  <2>1. UNCHANGED <<source, net, jitter, dtmf, out, stamps>> BY <1>6 DEF relayVars
  <2>2. PhoneOK' /\ DigitsOK' /\ StampsOK' /\ OneStamp'
    BY <2>1 DEF RelayInv, PhoneOK, DigitsOK, StampsOK, OneStamp
  <2>3. EndsOK' BY <2>1 DEF RelayInv, EndsOK, Ended, Ends, KeyHeld
  <2> QED BY <2>1, <2>2, <2>3 DEF RelayInv, OutOK
<1> QED BY <1>1, <1>2, <1>3, <1>4, <1>5, <1>6 DEF RelayNext

LEMMA RelayInvSafe == RelayInv => LossBounds /\ DigitOnce /\ OneStamp
<1> SUFFICES ASSUME RelayInv PROVE LossBounds /\ DigitOnce /\ OneStamp
  OBVIOUS
<1>1. Missing = MissingOf(jitter) BY DEF Missing, MissingOf, Back
<1>2. LossBounds BY <1>1 DEF RelayInv, JitterOK, Bounds, LossBounds
<1>3. ASSUME NEW d \in Digits PROVE dtmf.recorded[d] <= source.pressed[d]
  <2>1. /\ dtmf.recorded[d] = Cardinality(Ended(d))
        /\ Cardinality(Ends(d)) + KeyHeld(d) <= source.pressed[d]
    BY DEF RelayInv, EndsOK
  <2>2. /\ Cardinality(Ended(d)) \in Nat /\ Cardinality(Ends(d)) \in Nat /\ KeyHeld(d) \in 0..1
        /\ Cardinality(Ended(d)) <= Cardinality(Ends(d))
    BY SomeEnds, FS_Subset
  <2>3. source.pressed[d] \in Nat BY DEF RelayInv, PhoneOK, Sources
  <2> QED BY <2>1, <2>2, <2>3
<1> QED BY <1>2, <1>3 DEF RelayInv, DigitOnce

\* Whatever the network loses, repeats and reorders, and wherever the numbers
\* start and wrap: all that was lost is counted and nothing but it and what came
\* late, a press of a key is recorded at most once, and all packets of a press
\* that are relayed leave under one timestamp.
THEOREM RelayAlwaysSafe == RelaySpec => []RelaySafe
<1>1. RelayInit => RelayInv BY RelayAssumption, RelayInitInv
<1>2. RelayInv /\ [RelayNext]_relayVars => RelayInv' BY RelayAssumption, RelayNextInv
<1>3. RelayInv => RelaySafe BY RelayInvSafe DEF RelaySafe
<1> QED BY <1>1, <1>2, <1>3, PTL DEF RelaySpec
=============================================================================
