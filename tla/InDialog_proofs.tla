-------------------------- MODULE InDialog_proofs --------------------------
(***************************************************************************)
(* Proofs about InDialog for any number of requests and any bounds.        *)
(*                                                                         *)
(* After the types, that no request is answered twice needs to know which  *)
(* requests are still open: the one the task serves and the pending UPDATE *)
(* (OpenUnanswered), and that the two are never served by two handlers     *)
(* (ExclusiveExchange).  That requests are accepted in order rests on      *)
(* Ordered, which is proved after these.                                   *)
(***************************************************************************)
EXTENDS InDialog, SequenceTheorems, TLAPS

\* The operators on the call object keep its type.
LEMMA CallTypes ==
  ASSUME NEW k \in Call
  PROVE  /\ Released(k) \in Call
         /\ Finalized(k) \in Call
         /\ Relayed(k) \in Call
         /\ Cleaned(k) \in Call
         /\ \A n \in Requests : /\ Refreshed(k, n) \in Call
                                /\ [Refreshed(k, n) EXCEPT !.inCseq = n]
                                     \in Call
<1>1. Released(k) \in Call /\ Finalized(k) \in Call
  BY DEF Released, Finalized, Call
<1>2. Relayed(k) \in Call BY DEF Relayed, Call
<1>4. [k EXCEPT !.lost = TRUE] \in Call BY DEF Call
<1>5. Cleaned(k) \in Call BY <1>4 DEF Cleaned
<1>3. ASSUME NEW n \in Requests
      PROVE  /\ Refreshed(k, n) \in Call
             /\ [Refreshed(k, n) EXCEPT !.inCseq = n] \in Call
  <2>1. n \in Nat BY RequestAssumption DEF Requests
  <2> QED BY <2>1 DEF Refreshed, Call
<1> QED BY <1>1, <1>2, <1>3, <1>5

LEMMA SentTypes ==
  ASSUME TypeOK, NEW n \in Requests, NEW offer \in BOOLEAN,
         NEW method \in {"INVITE", "UPDATE"}
  PROVE  WithRequest(sent, method, n, offer) \in Seq(Sent)
<1>1. [ method |-> method, for |-> n, offer |-> offer,
        reply |-> "none", gone |-> FALSE ] \in Sent
  BY DEF Sent
<1> QED BY <1>1 DEF WithRequest, TypeOK

LEMMA ToldTypes ==
  ASSUME TypeOK, NEW n \in Requests, NEW status \in {"2xx", "refused"},
         Tell(n, status)
  PROVE  told' \in [Requests -> Seq({"2xx", "refused"})]
BY DEF Tell, TypeOK

\* A response of B keeps the types of what it always touches.
LEMMA AnswerTypes ==
  ASSUME TypeOK, NEW i \in DOMAIN sent, NEW status \in Reply,
         Answers(i, status), sent' = Received(i, status)
  PROVE  /\ wire' \in Wire
         /\ sent' \in Seq(Sent)
         /\ [status |-> status, by |-> i] \in Message
<1>1. sent[i] \in Sent /\ i \in Nat /\ i \in 1..Len(sent) BY DEF TypeOK
<1>2. [sent[i] EXCEPT !.reply = status] \in Sent BY <1>1 DEF Sent, Reply
<1>3. sent' \in Seq(Sent)
  <2>1. sent' = [sent EXCEPT ![i] = [sent[i] EXCEPT !.reply = status]]
    BY DEF Received
  <2> QED BY <1>1, <1>2, <2>1, ExceptSeq DEF TypeOK
<1>4. wire' \in Wire
  <2>0. wire \in Wire BY DEF TypeOK
  <2>1. CASE wire' = [wire EXCEPT
                        !.bSession = IF status = "2xx" /\ sent[i].offer
                                     THEN sent[i].for ELSE @]
    <3>1. sent[i].for \in Requests BY <1>1 DEF Sent
    <3> QED BY <2>0, <2>1, <3>1 DEF Wire
  <2>2. CASE /\ wire.repeats < MaxRepeats
             /\ wire' = [wire EXCEPT !.repeats = @ + 1, !.disturbed = TRUE]
    <3>1. wire.repeats \in 0..MaxRepeats BY <2>0 DEF Wire
    <3>2. wire.repeats + 1 \in 0..MaxRepeats BY <2>2, <3>1, RequestAssumption
    <3> QED BY <2>0, <2>2, <3>2 DEF Wire
  <2> QED BY <2>1, <2>2 DEF Answers
<1>5. [status |-> status, by |-> i] \in Message BY <1>1 DEF Message
<1> QED BY <1>3, <1>4, <1>5

-----------------------------------------------------------------------------
\* What a task serves and an UPDATE that is pending are requests that came
\* and were not answered yet; a request that did not come was not answered.
OpenUnanswered ==
  /\ task.pc # "idle" => /\ task.cur \in Requests
                         /\ told[task.cur] = <<>>
                         /\ kind[task.cur] # "none"
  /\ call.update # None => /\ told[call.update] = <<>>
                           /\ kind[call.update] # "none"
  /\ \A n \in Requests : kind[n] = "none" => told[n] = <<>>

Inv == TypeOK /\ ExclusiveExchange /\ OpenUnanswered /\ AnsweredOnce

THEOREM InvInitially == Init => Inv
<1> SUFFICES ASSUME Init PROVE Inv OBVIOUS
<1>1. call \in Call
  <2>1. PICK b \in Backends :
          call = [ backend |-> b, reg |-> TRUE, obye |-> FALSE,
                   ibye |-> FALSE, reinvite |-> FALSE, invites |-> FALSE,
                   update |-> None, updates |-> FALSE, retried |-> FALSE,
                   final |-> "2xx", inCseq |-> 0, target |-> None,
                   inTarget |-> None, lost |-> FALSE ]
    BY DEF Init
  <2>2. b \in {"internal", "rtpengine"} BY RequestAssumption
  <2> QED BY <2>1, <2>2 DEF Call
<1>2. wire \in Wire BY RequestAssumption DEF Init, Wire, None
<1>3. task \in Task /\ queue \in Seq(Message) /\ sent \in Seq(Sent)
  BY DEF Init, Idle, Task
<1>4. TypeOK BY <1>1, <1>2, <1>3 DEF Init, TypeOK
<1>5. ExclusiveExchange BY DEF Init, Idle, ExclusiveExchange
<1>6. OpenUnanswered BY DEF Init, Idle, OpenUnanswered
<1>7. AnsweredOnce BY DEF Init, AnsweredOnce
<1> QED BY <1>4, <1>5, <1>6, <1>7 DEF Inv

\* An answer to a request that was open keeps every request answered once.
LEMMA FirstAnswer ==
  ASSUME Inv, NEW n \in Requests, NEW status \in {"2xx", "refused"},
         Tell(n, status), told[n] = <<>>
  PROVE  /\ AnsweredOnce'
         /\ told' \in [Requests -> Seq({"2xx", "refused"})]
         /\ \A m \in Requests : m # n => told'[m] = told[m]
<1>0. told \in [Requests -> Seq({"2xx", "refused"})] BY DEF Inv, TypeOK
<1>1. \A m \in Requests : m # n => told'[m] = told[m]
  BY <1>0 DEF Tell
<1>2. told'[n] = Append(<<>>, status) BY DEF Tell, Inv, TypeOK
<1>3. Len(told'[n]) <= 1 BY <1>2
<1>4. AnsweredOnce'
  <2> SUFFICES ASSUME NEW m \in Requests PROVE Len(told'[m]) <= 1
    BY DEF AnsweredOnce
  <2>1. CASE m = n BY <1>3, <2>1
  <2>2. CASE m # n
    <3>1. Len(told[m]) <= 1 BY DEF AnsweredOnce, Inv
    <3>2. told'[m] = told[m] BY <1>1, <2>2
    <3> QED BY <3>1, <3>2
  <2> QED BY <2>1, <2>2
<1>5. told' \in [Requests -> Seq({"2xx", "refused"})]
  <2>1. TypeOK BY DEF Inv
  <2> QED BY <2>1, ToldTypes
<1> QED BY <1>1, <1>4, <1>5

\* The task answers its request and its pending flags are cleared.
LEMMA TaskEnds ==
  ASSUME Inv, task.pc # "idle", NEW status \in {"2xx", "refused"},
         EndTask(status), NEW k \in Call, call' = k,
         ~k.reinvite, ~k.updates, k.update = None,
         wire' \in Wire, UNCHANGED <<sleepers, sent, kind>>
  PROVE  Inv'
<1>1. task.cur \in Requests /\ told[task.cur] = <<>> /\ kind[task.cur] # "none"
  BY DEF Inv, OpenUnanswered
<1>2. /\ AnsweredOnce'
      /\ told' \in [Requests -> Seq({"2xx", "refused"})]
      /\ \A m \in Requests : m # task.cur => told'[m] = told[m]
  BY <1>1, FirstAnswer DEF EndTask
<1>3. TypeOK' BY <1>2 DEF EndTask, Idle, Task, Inv, TypeOK
<1>4. ExclusiveExchange' BY DEF EndTask, Idle, ExclusiveExchange
<1>5. OpenUnanswered'
  BY <1>1, <1>2 DEF EndTask, Idle, Inv, OpenUnanswered
<1> QED BY <1>2, <1>3, <1>4, <1>5 DEF Inv

\* What Released leaves of a call whose task is active.
LEMMA ReleasedIsFree ==
  ASSUME Inv, task.pc # "idle"
  PROVE  /\ Released(call) \in Call
         /\ ~Released(call).reinvite
         /\ ~Released(call).updates
         /\ Released(call).update = None
<1>1. call \in Call BY DEF Inv, TypeOK
<1>2. Released(call) \in Call BY <1>1, CallTypes
<1>3. /\ call.reinvite => call.update = None /\ ~call.updates
      /\ call.reinvite \/ call.updates
  BY DEF Inv, ExclusiveExchange
<1>4. CASE call.reinvite BY <1>1, <1>2, <1>3, <1>4 DEF Released, Call
<1>5. CASE ~call.reinvite BY <1>1, <1>2, <1>5 DEF Released, Call
<1> QED BY <1>4, <1>5

-----------------------------------------------------------------------------
\* A step that neither starts nor ends an exchange, and answers nobody.
LEMMA Frame ==
  ASSUME Inv, TypeOK',
         task'.cur = task.cur, task'.pc = "idle" <=> task.pc = "idle",
         call'.reinvite = call.reinvite, call'.update = call.update,
         call'.updates = call.updates, UNCHANGED <<told, kind>>
  PROVE  Inv'
<1>1. ExclusiveExchange' BY DEF Inv, ExclusiveExchange
<1>2. OpenUnanswered' BY DEF Inv, OpenUnanswered
<1>3. AnsweredOnce' BY DEF Inv, AnsweredOnce
<1> QED BY <1>1, <1>2, <1>3 DEF Inv

\* A request that is refused at once disturbs no exchange.
LEMMA RefusedAtOnce ==
  ASSUME Inv, NEW n \in Requests, NEW what \in Kinds,
         Receive(n, what), Refused(n)
  PROVE  Inv'
<1>1. kind[n] = "none" /\ kind' = [kind EXCEPT ![n] = what] BY DEF Receive
<1>2. told[n] = <<>> BY <1>1 DEF Inv, OpenUnanswered
<1>3. /\ AnsweredOnce'
      /\ told' \in [Requests -> Seq({"2xx", "refused"})]
      /\ \A m \in Requests : m # n => told'[m] = told[m]
  BY <1>2, FirstAnswer DEF Refused
<1>4. kind' \in [Requests -> Kinds \cup {"none"}] /\ kind'[n] # "none"
      /\ \A m \in Requests : m # n => kind'[m] = kind[m]
  BY <1>1, RequestAssumption DEF Inv, TypeOK
<1>5. TypeOK' BY <1>3, <1>4 DEF Refused, Inv, TypeOK
<1>6. ExclusiveExchange' BY DEF Refused, Inv, ExclusiveExchange
<1>7. OpenUnanswered'
  <2>1. task.pc # "idle" => task.cur # n BY <1>1 DEF Inv, OpenUnanswered
  <2>2. call.update # None => call.update \in Requests /\ call.update # n
    BY <1>1 DEF Inv, OpenUnanswered, TypeOK, Call
  <2> QED BY <1>3, <1>4, <2>1, <2>2 DEF Refused, Inv, OpenUnanswered
<1> QED BY <1>3, <1>5, <1>6, <1>7 DEF Inv

\* A request that is begun: every other one keeps its answers and its kind.
LEMMA Begun ==
  ASSUME Inv, NEW n \in Requests, NEW what \in Kinds,
         Receive(n, what), UNCHANGED told
  PROVE  /\ kind' \in [Requests -> Kinds \cup {"none"}]
         /\ \A m \in Requests : kind[m] # "none" => kind'[m] # "none"
         /\ kind'[n] # "none" /\ told'[n] = <<>>
         /\ \A m \in Requests : kind'[m] = "none" => told'[m] = <<>>
         /\ AnsweredOnce'
<1>1. kind[n] = "none" /\ kind' = [kind EXCEPT ![n] = what] BY DEF Receive
<1>2. kind' \in [Requests -> Kinds \cup {"none"}] /\ kind'[n] # "none"
      /\ \A m \in Requests : m # n => kind'[m] = kind[m]
  BY <1>1, RequestAssumption DEF Inv, TypeOK
<1>3. told[n] = <<>> BY <1>1 DEF Inv, OpenUnanswered
<1>4. AnsweredOnce' BY DEF Inv, AnsweredOnce
<1> QED BY <1>2, <1>3, <1>4 DEF Inv, OpenUnanswered

-----------------------------------------------------------------------------
(* The requests of the caller.                                             *)

LEMMA RealRequest == \A n \in Requests : n # None
BY RequestAssumption DEF Requests, None

\* Without a pending request no task runs and no queue is open.
LEMMA NothingPending ==
  ASSUME Inv, ~call.reinvite, call.update = None
  PROVE  ~call.updates /\ task.pc = "idle"
<1>1. call.updates => FALSE
  <2> SUFFICES ASSUME call.updates PROVE FALSE OBVIOUS
  <2>1. call.update = task.cur /\ task.pc # "idle"
    BY DEF Inv, ExclusiveExchange
  <2>2. task.cur \in Requests BY <2>1 DEF Inv, OpenUnanswered
  <2> QED BY <2>1, <2>2, RealRequest
<1> QED BY <1>1 DEF Inv, ExclusiveExchange

LEMMA StartOfferKeeps ==
  ASSUME Inv, NEW n \in Requests, StartOffer(n)
  PROVE  Inv'
<1>1. PICK what \in Kinds \ {"target"} :
        /\ Receive(n, what)
        /\ call' = IF what = "reinvite"
                   THEN [call EXCEPT !.reinvite = TRUE, !.invites = TRUE]
                   ELSE [call EXCEPT !.update = n, !.updates = TRUE]
        /\ IF call.backend = "rtpengine"
           THEN /\ task' = [Idle EXCEPT !.pc = "offer", !.cur = n]
                /\ UNCHANGED sent
           ELSE /\ task' = [Idle EXCEPT !.pc = "wait", !.cur = n]
                /\ sent' = WithRequest(sent, IF what = "reinvite" THEN "INVITE"
                                             ELSE "UPDATE", n, TRUE)
  BY DEF StartOffer
<1>2. /\ kind' \in [Requests -> Kinds \cup {"none"}]
      /\ \A m \in Requests : kind[m] # "none" => kind'[m] # "none"
      /\ kind'[n] # "none" /\ told'[n] = <<>>
      /\ \A m \in Requests : kind'[m] = "none" => told'[m] = <<>>
      /\ AnsweredOnce'
  BY <1>1, Begun DEF StartOffer
<1>3. ~call.reinvite /\ call.update = None
  BY DEF StartOffer, Admissible, Busy
<1>4. ~call.updates /\ task.pc = "idle"
  BY <1>3, NothingPending
<1>5. n # None BY RealRequest
<1>6. TypeOK'
  <2>1. call' \in Call BY <1>1 DEF Inv, TypeOK, Call
  <2>2. task' \in Task BY <1>1 DEF Idle, Task
  <2>3. sent' \in Seq(Sent)
    BY <1>1, SentTypes DEF Inv, TypeOK
  <2> QED BY <1>2, <2>1, <2>2, <2>3 DEF StartOffer, Inv, TypeOK
<1>7. /\ task'.cur = n /\ task'.pc # "idle"
  BY <1>1 DEF Idle
<1>8. \/ call'.reinvite /\ call'.update = None /\ ~call'.updates
      \/ ~call'.reinvite /\ call'.update = n /\ call'.updates
  BY <1>1, <1>3, <1>4 DEF Inv, TypeOK, Call
<1>9. ExclusiveExchange' BY <1>7, <1>8 DEF ExclusiveExchange
<1>10. OpenUnanswered' BY <1>2, <1>7, <1>8 DEF OpenUnanswered
<1> QED BY <1>2, <1>6, <1>9, <1>10 DEF Inv

LEMMA UpdateTargetKeeps ==
  ASSUME Inv, NEW n \in Requests, UpdateTarget(n)
  PROVE  Inv'
<1>1. /\ kind' \in [Requests -> Kinds \cup {"none"}]
      /\ \A m \in Requests : kind[m] # "none" => kind'[m] # "none"
      /\ kind'[n] # "none" /\ told'[n] = <<>>
      /\ \A m \in Requests : kind'[m] = "none" => told'[m] = <<>>
      /\ AnsweredOnce'
  BY Begun DEF UpdateTarget
<1>2. ~call.reinvite /\ call.update = None
  BY DEF UpdateTarget, Admissible, Busy
<1>3. ~call.updates /\ task.pc = "idle"
  BY <1>2, NothingPending
<1>4. TypeOK'
  <2>1. n \in Nat BY RequestAssumption DEF Requests
  <2>2. call' \in Call BY <2>1 DEF UpdateTarget, Inv, TypeOK, Call
  <2>3. sent' \in Seq(Sent) BY SentTypes DEF UpdateTarget, Inv
  <2> QED BY <1>1, <2>2, <2>3 DEF UpdateTarget, Inv, TypeOK
<1>5. ~call'.reinvite /\ call'.update = n /\ ~call'.updates /\ task' = task
  BY <1>2, <1>3 DEF UpdateTarget, Inv, TypeOK, Call
<1>6. ExclusiveExchange' BY <1>3, <1>5 DEF ExclusiveExchange
<1>7. OpenUnanswered' BY <1>1, <1>3, <1>5 DEF OpenUnanswered
<1> QED BY <1>1, <1>4, <1>6, <1>7 DEF Inv

LEMMA CallerKeeps ==
  ASSUME Inv, Caller
  PROVE  Inv'
<1>1. ASSUME NEW n \in Requests,
             NoDialog(n) \/ OutOfOrder(n) \/ Glare(n) \/ NoAudio(n)
      PROVE  Inv'
  <2>1. \E what \in Kinds : Receive(n, what)
    BY <1>1 DEF NoDialog, OutOfOrder, Glare, NoAudio
  <2>2. Refused(n)
    BY <1>1 DEF NoDialog, OutOfOrder, Glare, NoAudio
  <2> QED BY <2>1, <2>2, RefusedAtOnce
<1>2. CASE CallerHangsUp
  <2>1. TypeOK' BY <1>2 DEF CallerHangsUp, Inv, TypeOK, Call
  <2> QED BY <1>2, <2>1, Frame DEF CallerHangsUp, Inv, TypeOK, Call
<1> QED BY <1>1, <1>2, StartOfferKeeps, UpdateTargetKeeps DEF Caller

-----------------------------------------------------------------------------
(* The steps of the task.                                                  *)

LEMMA RequestSent ==
  ASSUME Inv, task.pc # "idle", SendOffer(task.cur)
  PROVE  sent' \in Seq(Sent)
<1>1. task.cur \in Requests BY DEF Inv, OpenUnanswered
<1>2. MethodOf(task.cur) \in {"INVITE", "UPDATE"} BY DEF MethodOf
<1> QED BY <1>1, <1>2, SentTypes DEF SendOffer, Inv

LEMMA TaskGoesOn ==
  ASSUME Inv, Offered \/ Retry \/ TakeRing \/ TakeGlare \/ WaitTimeout
  PROVE  Inv'
<1>1. task \in Task BY DEF Inv, TypeOK
<1>2. CASE Offered \/ Retry
  <2>1. sent' \in Seq(Sent) BY <1>2, RequestSent DEF Offered, Retry
  <2>2. task' = [task EXCEPT !.pc = "wait"] /\ task.pc # "idle"
    BY <1>2 DEF Offered, Retry
  <2>3. TypeOK' BY <1>1, <1>2, <2>1, <2>2 DEF Offered, Retry, Inv, TypeOK, Task
  <2> QED BY <1>1, <1>2, <2>2, <2>3, Frame DEF Offered, Retry, Task
<1>3. CASE TakeGlare
  <2>1. queue' \in Seq(Message)
    BY <1>3 DEF TakeGlare, Take, Inv, TypeOK
  <2>2. TypeOK' BY <1>1, <1>3, <2>1 DEF TakeGlare, Inv, TypeOK, Task
  <2> QED BY <1>1, <1>3, <2>2, Frame DEF TakeGlare, Take, Task
<1>4. CASE WaitTimeout
  <2>1. TypeOK' BY <1>1, <1>4 DEF WaitTimeout, Inv, TypeOK, Task, Wire
  <2> QED BY <1>1, <1>4, <2>1, Frame DEF WaitTimeout, Task
<1>5. CASE TakeRing
  <2>1. queue' \in Seq(Message)
    BY <1>5 DEF TakeRing, Take, Inv, TypeOK
  <2>2. call \in Call /\ call' \in {call, [call EXCEPT !.target = Unagreed]}
    BY <1>5 DEF TakeRing, Inv, TypeOK
  <2>3. /\ call' \in Call /\ call'.reinvite = call.reinvite
        /\ call'.update = call.update /\ call'.updates = call.updates
    BY <2>2 DEF Call
  <2>4. TypeOK' BY <1>5, <2>1, <2>3 DEF TakeRing, Inv, TypeOK
  <2> QED BY <1>5, <2>3, <2>4, Frame DEF TakeRing
<1> QED BY <1>2, <1>3, <1>4, <1>5

\* An exception ends the task: its flags are cleared and nobody is answered.
LEMMA TaskDrops ==
  ASSUME Inv, TakeBroken
  PROVE  Inv'
<1>1. /\ task.pc # "idle" /\ task' = Idle /\ queue' = <<>>
      /\ call' = Released(call) /\ UNCHANGED <<sleepers, sent, told, kind>>
      /\ wire' = [wire EXCEPT !.dropped = @ \cup {task.cur}, !.disturbed = TRUE]
  BY DEF TakeBroken, Take
<1>2. /\ Released(call) \in Call
      /\ ~Released(call).reinvite
      /\ ~Released(call).updates
      /\ Released(call).update = None
  BY <1>1, ReleasedIsFree
<1>3. wire' \in Wire
  <2>1. task.cur \in Requests BY <1>1 DEF Inv, OpenUnanswered
  <2>2. wire \in Wire /\ wire.dropped \cup {task.cur} \in SUBSET Requests
    BY <2>1 DEF Inv, TypeOK, Wire
  <2> QED BY <1>1, <2>2 DEF Wire
<1>4. TypeOK' BY <1>1, <1>2, <1>3 DEF Idle, Task, Inv, TypeOK
<1>5. ExclusiveExchange' BY <1>1, <1>2 DEF Idle, ExclusiveExchange
<1>6. OpenUnanswered' BY <1>1, <1>2 DEF Idle, Inv, OpenUnanswered
<1>7. AnsweredOnce' BY <1>1 DEF Inv, AnsweredOnce
<1> QED BY <1>4, <1>5, <1>6, <1>7 DEF Inv

LEMMA TaskFails ==
  ASSUME Inv, MediaFails \/ TakeRefusal \/ TakeFailure \/ HandleTimeout
  PROVE  Inv'
<1>1. task.pc # "idle" /\ EndTask("refused") /\ call' = Released(call)
      /\ UNCHANGED <<sleepers, sent, kind>>
  BY DEF MediaFails, TakeRefusal, TakeFailure, Take, HandleTimeout
<1>2. wire' \in Wire
  BY DEF MediaFails, TakeRefusal, TakeFailure, HandleTimeout, Inv, TypeOK, Wire
<1>3. /\ Released(call) \in Call
      /\ ~Released(call).reinvite
      /\ ~Released(call).updates
      /\ Released(call).update = None
  BY <1>1, ReleasedIsFree
<1> QED BY <1>1, <1>2, <1>3, TaskEnds

LEMMA AcceptKeeps ==
  ASSUME Inv, task.pc # "idle", Accept(task.cur),
         UNCHANGED <<sleepers, sent, kind>>
  PROVE  Inv'
<1> DEFINE k == Released(call)
           new == [Refreshed(k, task.cur) EXCEPT !.inCseq = task.cur]
<1>1. task.cur \in Requests BY DEF Inv, OpenUnanswered
<1>2. k \in Call /\ ~k.reinvite /\ ~k.updates /\ k.update = None
  BY ReleasedIsFree
<1>3. new \in Call BY <1>1, <1>2, CallTypes
<1>4. ~new.reinvite /\ ~new.updates /\ new.update = None
  BY <1>2 DEF Refreshed, Call
<1>5. wire' \in Wire BY <1>1 DEF Accept, Inv, TypeOK, Wire
<1>6. EndTask("2xx") /\ call' = new BY DEF Accept
<1> QED BY <1>3, <1>4, <1>5, <1>6, TaskEnds

LEMMA TaskAnswers ==
  ASSUME Inv, TakeAnswer \/ MediaAnswered
  PROVE  Inv'
<1>1. CASE MediaAnswered BY <1>1, AcceptKeeps DEF MediaAnswered
<1>2. CASE TakeAnswer /\ call.backend = "internal"
  BY <1>2, AcceptKeeps DEF TakeAnswer, Take
<1>3. CASE TakeAnswer /\ call.backend # "internal"
  <2>1. /\ task' = [task EXCEPT !.pc = "answer"] /\ task.pc # "idle"
        /\ call' = IF kind[task.cur] = "reinvite"
                   THEN Refreshed(call, task.cur) ELSE call
        /\ queue # <<>> /\ queue' = Tail(queue)
        /\ UNCHANGED <<told, wire, sleepers, sent, kind>>
    BY <1>3 DEF TakeAnswer, Take
  <2>2. task.cur \in Requests BY <2>1 DEF Inv, OpenUnanswered
  <2>3. call \in Call /\ task \in Task BY DEF Inv, TypeOK
  <2>4. call' \in Call BY <2>1, <2>2, <2>3, CallTypes
  <2>5. queue' \in Seq(Message) BY <2>1 DEF Inv, TypeOK
  <2>6. TypeOK' BY <2>1, <2>3, <2>4, <2>5 DEF Inv, TypeOK, Task
  <2>7. /\ call'.reinvite = call.reinvite /\ call'.update = call.update
        /\ call'.updates = call.updates
    BY <2>1, <2>3 DEF Refreshed, Call
  <2> QED BY <2>1, <2>3, <2>6, <2>7, Frame DEF Task
<1> QED BY <1>1, <1>2, <1>3

LEMMA TaskStepKeeps ==
  ASSUME Inv, TaskStep
  PROVE  Inv'
BY TaskGoesOn, TaskDrops, TaskFails, TaskAnswers DEF TaskStep

-----------------------------------------------------------------------------
(* The responses of B and the timers.                                      *)

\* A call object with the flags of another one.
SameFlags(c, k) ==
  /\ c \in Call
  /\ c.reinvite = k.reinvite /\ c.update = k.update /\ c.updates = k.updates

\* What a response that is relayed to nobody leaves as it is.
LEMMA ResponseFrame ==
  ASSUME Inv, NEW i \in DOMAIN sent, NEW status \in Reply,
         Answers(i, status), sent' = Received(i, status),
         queue' \in {queue, Append(queue, [status |-> status, by |-> i])},
         SameFlags(call', call), sleepers' \in Nat,
         UNCHANGED <<task, told, kind>>
  PROVE  Inv'
<1>1. /\ wire' \in Wire
      /\ sent' \in Seq(Sent)
      /\ [status |-> status, by |-> i] \in Message
  BY AnswerTypes DEF Inv
<1>2. queue' \in Seq(Message)
  <2>1. queue \in Seq(Message) BY DEF Inv, TypeOK
  <2>2. Append(queue, [status |-> status, by |-> i]) \in Seq(Message)
    BY <1>1, <2>1
  <2> QED BY <2>1, <2>2
<1>3. TypeOK' BY <1>1, <1>2 DEF Inv, TypeOK, SameFlags
<1> QED BY <1>3, Frame DEF SameFlags

LEMMA CallKept ==
  ASSUME NEW k \in Call
  PROVE  /\ SameFlags(k, k)
         /\ SameFlags(Finalized(k), k)
         /\ SameFlags(Cleaned(k), k)
         /\ SameFlags([k EXCEPT !.final = "2xx"], k)
         /\ SameFlags([k EXCEPT !.retried = TRUE], k)
         /\ SameFlags([k EXCEPT !.final = "fail"], k)
         /\ SameFlags([k EXCEPT !.final = "fail", !.target = Unagreed], k)
<1>1. SameFlags(Finalized(k), k) BY DEF Finalized, SameFlags, Call
<1>3. SameFlags(k, k) BY DEF SameFlags
<1>2. SameFlags(Cleaned(k), k)
  <2>1. SameFlags([k EXCEPT !.lost = TRUE], k) BY DEF SameFlags, Call
  <2> QED BY <1>3, <2>1 DEF Cleaned
<1>4. SameFlags([k EXCEPT !.final = "2xx"], k) BY DEF SameFlags, Call
<1>5. SameFlags([k EXCEPT !.retried = TRUE], k) BY DEF SameFlags, Call
<1>6. SameFlags([k EXCEPT !.final = "fail"], k) BY DEF SameFlags, Call
<1>7. SameFlags([k EXCEPT !.final = "fail", !.target = Unagreed], k)
  BY DEF SameFlags, Call
<1> QED BY <1>1, <1>2, <1>3, <1>4, <1>5, <1>6, <1>7

LEMMA InviteResponses ==
  ASSUME Inv, NEW i \in DOMAIN sent, NEW status \in Reply,
         InviteAnsweredLate(i) \/ InviteAnswered(i) \/ InviteFailed(i, status)
  PROVE  Inv'
<1>1. call \in Call BY DEF Inv, TypeOK
<1>2. sleepers \in Nat BY DEF Inv, TypeOK
<1>3. CASE InviteAnsweredLate(i)
  BY <1>1, <1>2, <1>3, CallKept, ResponseFrame DEF InviteAnsweredLate, Reply
<1>4. CASE InviteAnswered(i)
  <2>1. SameFlags(call', call) BY <1>1, <1>4, CallKept DEF InviteAnswered
  <2> QED BY <1>2, <1>4, <2>1, ResponseFrame DEF InviteAnswered, Reply
<1>5. CASE InviteFailed(i, status)
  <2> DEFINE k == IF ~call.reg THEN call
                  ELSE [call EXCEPT !.final = "fail",
                          !.target = IF ~sent[i].gone THEN Unagreed ELSE @]
  <2>1. SameFlags(k, call)
    <3>1. k \in {call, [call EXCEPT !.final = "fail"],
                 [call EXCEPT !.final = "fail", !.target = Unagreed]}
      BY <1>1 DEF Call
    <3> QED BY <1>1, <3>1, CallKept
  <2>3. call' = k \/ call' = Finalized(k) BY <1>5 DEF InviteFailed
  <2> HIDE DEF k
  <2>4. k \in Call BY <2>1 DEF SameFlags
  <2>2. SameFlags(Finalized(k), k) BY <2>4, CallKept
  <2>5. SameFlags(call', call)
    <3> QED BY <2>1, <2>2, <2>3 DEF SameFlags
  <2> QED BY <1>2, <1>5, <2>5, ResponseFrame DEF InviteFailed
<1> QED BY <1>3, <1>4, <1>5

LEMMA UpdateResponses ==
  ASSUME Inv, NEW i \in DOMAIN sent, NEW status \in Reply,
         UpdateGlare(i) \/ UpdateQueued(i, status) \/ UpdateIgnored(i, status)
  PROVE  Inv'
<1>1. call \in Call /\ sleepers \in Nat BY DEF Inv, TypeOK
<1>2. CASE UpdateGlare(i)
  <2>1. SameFlags(call', call) BY <1>1, <1>2, CallKept DEF UpdateGlare
  <2>2. sleepers' \in Nat BY <1>1, <1>2 DEF UpdateGlare
  <2> QED BY <1>2, <2>1, <2>2, ResponseFrame DEF UpdateGlare, Reply
<1>3. CASE UpdateQueued(i, status)
  BY <1>1, <1>3, CallKept, ResponseFrame DEF UpdateQueued
<1>4. CASE UpdateIgnored(i, status)
  BY <1>1, <1>4, CallKept, ResponseFrame DEF UpdateIgnored
<1> QED BY <1>2, <1>3, <1>4

LEMMA UpdateAnsweredKeeps ==
  ASSUME Inv, NEW i \in DOMAIN sent, NEW status \in Reply,
         UpdateAnswered(i, status)
  PROVE  Inv'
<1> DEFINE n == call.update
           k == IF status = "2xx" THEN Refreshed(call, n) ELSE call
<1>1. n \in Requests /\ told[n] = <<>> /\ kind[n] # "none"
  BY DEF UpdateAnswered, Pending, StillPending, Inv, TypeOK, Call,
         OpenUnanswered
<1>2. call \in Call BY DEF Inv, TypeOK
<1>3. k \in Call /\ k.reinvite = call.reinvite /\ k.updates = call.updates
  <2>1. Refreshed(call, n) \in Call BY <1>1, <1>2, CallTypes
  <2>2. /\ Refreshed(call, n).reinvite = call.reinvite
        /\ Refreshed(call, n).updates = call.updates
    BY <1>2 DEF Refreshed, Call
  <2> QED BY <1>2, <2>1, <2>2
<1>4. call' = Relayed(k) BY DEF UpdateAnswered
<1>5. /\ call' \in Call /\ call'.update = None
      /\ call'.reinvite = call.reinvite /\ call'.updates = call.updates
  BY <1>3, <1>4, CallTypes DEF Relayed, Call
<1>6. ~call.updates /\ ~call.reinvite /\ task.pc = "idle" /\ task' = task
  BY <1>1, RealRequest
  DEF UpdateAnswered, Inv, ExclusiveExchange
<1>7. /\ AnsweredOnce'
      /\ told' \in [Requests -> Seq({"2xx", "refused"})]
      /\ \A m \in Requests : m # n => told'[m] = told[m]
  BY <1>1, FirstAnswer DEF UpdateAnswered
<1>8. wire' \in Wire /\ sent' \in Seq(Sent)
  BY AnswerTypes DEF UpdateAnswered, Inv
<1>9. TypeOK' BY <1>5, <1>7, <1>8 DEF UpdateAnswered, Inv, TypeOK
<1>10. ExclusiveExchange' BY <1>5, <1>6 DEF ExclusiveExchange
<1>11. OpenUnanswered'
  <2>1. kind' = kind BY DEF UpdateAnswered
  <2> QED BY <1>1, <1>5, <1>6, <1>7, <2>1 DEF Inv, OpenUnanswered
<1> QED BY <1>7, <1>9, <1>10, <1>11 DEF Inv

LEMMA PeerKeeps ==
  ASSUME Inv, Peer
  PROVE  Inv'
<1>1. call \in Call BY DEF Inv, TypeOK
<1>2. CASE FirstAnswerAgain
  <2>1. SameFlags(call', call)
    BY <1>1, <1>2, CallKept DEF FirstAnswerAgain
  <2>2. wire.repeats \in 0..MaxRepeats /\ wire \in Wire
    BY DEF Inv, TypeOK, Wire
  <2>3. wire.repeats + 1 \in 0..MaxRepeats
    BY <1>2, <2>2, RequestAssumption DEF FirstAnswerAgain
  <2>4. wire' \in Wire BY <1>2, <2>2, <2>3 DEF FirstAnswerAgain, Wire
  <2>5. TypeOK'
    BY <1>2, <2>1, <2>4 DEF FirstAnswerAgain, Inv, TypeOK, SameFlags
  <2> QED BY <1>2, <2>1, <2>5, Frame DEF FirstAnswerAgain, SameFlags
<1>3. CASE ByeAnswered
  <2>1. SameFlags(call', call)
    BY <1>1, <1>3, CallKept DEF ByeAnswered
  <2>2. TypeOK' BY <1>3, <2>1 DEF ByeAnswered, Inv, TypeOK, SameFlags
  <2> QED BY <1>3, <2>1, <2>2, Frame DEF ByeAnswered, SameFlags
<1>4. CASE PeerHangsUp
  <2>1. call' \in Call
    <3>1. call.inCseq + 1 \in Nat BY <1>1 DEF Call
    <3> QED BY <1>1, <1>4, <3>1 DEF PeerHangsUp, Call
  <2>2. TypeOK' BY <1>4, <2>1 DEF PeerHangsUp, Inv, TypeOK
  <2> QED BY <1>1, <1>4, <2>2, Frame DEF PeerHangsUp, Call
<1>5. CASE RelayToCaller
  <2>1. wire.relays \in 0..MaxRelays /\ wire \in Wire
    BY DEF Inv, TypeOK, Wire
  <2>2. wire.relays + 1 \in 0..MaxRelays
    BY <1>5, <2>1, RequestAssumption DEF RelayToCaller
  <2>3. wire' \in Wire BY <1>5, <2>1, <2>2 DEF RelayToCaller, Wire
  <2>4. call' \in Call BY <1>1, <1>5 DEF RelayToCaller, Call
  <2>5. TypeOK' BY <1>5, <2>3, <2>4 DEF RelayToCaller, Inv, TypeOK
  <2> QED BY <1>1, <1>5, <2>5, Frame DEF RelayToCaller, Call
<1>6. ASSUME NEW what \in Provisional, Rings(what)
      PROVE  Inv'
  <2>1. [status |-> what, by |-> None] \in Message BY DEF Message, None
  <2>2. queue' \in Seq(Message)
    BY <1>6, <2>1 DEF Rings, Inv, TypeOK
  <2>3. TypeOK' BY <1>6, <2>2 DEF Rings, Inv, TypeOK
  <2> QED BY <1>6, <2>3, Frame DEF Rings
<1> QED
  BY <1>2, <1>3, <1>4, <1>5, <1>6, InviteResponses, UpdateResponses,
     UpdateAnsweredKeeps
  DEF Peer, Reply

LEMMA TimersKeep ==
  ASSUME Inv, Timers
  PROVE  Inv'
<1>1. call \in Call BY DEF Inv, TypeOK
<1>2. CASE RetryUpdate
  <2>1. sent' \in Seq(Sent)
    <3>1. CASE StillPending(call)
      <4>1. call.update \in Requests BY <1>1, <3>1 DEF StillPending, Call
      <4> QED BY <1>2, <3>1, <4>1, SentTypes DEF RetryUpdate, Inv
    <3>2. CASE ~StillPending(call)
      BY <1>2, <3>2 DEF RetryUpdate, Inv, TypeOK
    <3> QED BY <3>1, <3>2
  <2>2. sleepers' \in Nat BY <1>2 DEF RetryUpdate, Inv, TypeOK
  <2>3. TypeOK' BY <1>2, <2>1, <2>2 DEF RetryUpdate, Inv, TypeOK
  <2> QED BY <1>2, <2>3, Frame DEF RetryUpdate
<1>3. CASE FinalizeLater
  <2>1. SameFlags(call', call)
    BY <1>1, <1>3, CallKept DEF FinalizeLater
  <2>2. TypeOK' BY <1>3, <2>1 DEF FinalizeLater, Inv, TypeOK, SameFlags
  <2> QED BY <1>3, <2>1, <2>2, Frame DEF FinalizeLater, SameFlags
<1>4. ASSUME NEW i \in DOMAIN sent, InviteTimeout(i)
      PROVE  Inv'
  <2>1. sent[i] \in Sent /\ i \in Nat /\ i \in 1..Len(sent) BY DEF Inv, TypeOK
  <2>2. [sent[i] EXCEPT !.gone = TRUE] \in Sent BY <2>1 DEF Sent
  <2>3. sent' = [sent EXCEPT ![i] = [sent[i] EXCEPT !.gone = TRUE]]
    BY <1>4 DEF InviteTimeout
  <2>4. sent' \in Seq(Sent) BY <2>1, <2>2, <2>3, ExceptSeq DEF Inv, TypeOK
  <2>5. [status |-> "timeout", by |-> i] \in Message BY <2>1 DEF Message
  <2>6. queue' \in Seq(Message)
    BY <1>4, <2>5 DEF InviteTimeout, Inv, TypeOK
  <2>7. wire' \in Wire BY <1>4 DEF InviteTimeout, Inv, TypeOK, Wire
  <2>8. TypeOK' BY <1>4, <2>4, <2>6, <2>7 DEF InviteTimeout, Inv, TypeOK
  <2> QED BY <1>4, <2>8, Frame DEF InviteTimeout
<1> QED BY <1>2, <1>3, <1>4 DEF Timers

-----------------------------------------------------------------------------
LEMMA InvPreserved == Inv /\ [Next]_vars => Inv'
<1> SUFFICES ASSUME Inv, [Next]_vars PROVE Inv' OBVIOUS
<1>1. CASE UNCHANGED vars
  <2>1. TypeOK' BY <1>1 DEF vars, Inv, TypeOK
  <2> QED BY <1>1, <2>1, Frame DEF vars
<1>2. CASE Next
  BY <1>2, CallerKeeps, TaskStepKeeps, PeerKeeps, TimersKeep DEF Next
<1> QED BY <1>1, <1>2

\* In every reachable state the call, the tasks, the queue and the answers
\* have their types, for any number of requests and any bounds.
THEOREM TypeCorrect == Spec => []TypeOK
<1>1. Inv => TypeOK BY DEF Inv
<1> QED BY <1>1, InvInitially, InvPreserved, PTL DEF Spec

\* The handlers of re-INVITE and UPDATE and handle_response never leave two
\* exchanges open, whatever finalizers, timers and responses run in between.
THEOREM ExchangesExclude == Spec => []ExclusiveExchange
<1>1. Inv => ExclusiveExchange BY DEF Inv
<1> QED BY <1>1, InvInitially, InvPreserved, PTL DEF Spec

\* No request of the caller gets two final responses: neither from its task
\* and the relay of handle_response, nor from a timeout and a late answer.
THEOREM RequestsAnsweredOnce == Spec => []AnsweredOnce
<1>1. Inv => AnsweredOnce BY DEF Inv
<1> QED BY <1>1, InvInitially, InvPreserved, PTL DEF Spec

-----------------------------------------------------------------------------
(* The order in which requests are accepted.  inbound_cseq bounds the      *)
(* requests accepted so far from above although a re-INVITE or an offer    *)
(* raises it only at its end and relayed requests raise it in between:     *)
(* what is served came with a higher number than every accepted request.   *)

Accepted(m) == told[m] = <<"2xx">>

Ordered ==
  /\ \A m \in Requests : Accepted(m) => m <= call.inCseq
  /\ task.pc # "idle" =>
       \A m \in Requests : Accepted(m) => m < task.cur
  /\ call.update # None =>
       /\ \A m \in Requests : Accepted(m) => m < call.update
       /\ ~call.updates => call.update <= call.inCseq

InOrder ==
  \A n \in Requests :
    (told[n] = <<>> /\ told'[n] = <<"2xx">>)
      => \A m \in Requests : told[m] = <<"2xx">> => m < n

LEMMA Unanswered == <<>> # <<"2xx">>
<1>1. Len(<<>>) # Len(<<"2xx">>) OBVIOUS
<1> QED BY <1>1

LEMMA Numbers == Requests \subseteq Nat
BY RequestAssumption DEF Requests

\* A step that begins and accepts nothing.
LEMMA QuietOrder ==
  ASSUME Inv, Inv', Ordered,
         \A m \in Requests : Accepted(m)' => Accepted(m),
         task'.pc # "idle" => task.pc # "idle" /\ task'.cur = task.cur,
         call'.update # None => /\ call'.update = call.update
                                /\ call'.updates = call.updates,
         call.inCseq <= call'.inCseq
  PROVE  Ordered' /\ InOrder
<1>1. call.inCseq \in Nat /\ call'.inCseq \in Nat
  BY DEF Inv, TypeOK, Call
<1>2. \A m \in Requests : Accepted(m)' => m <= call'.inCseq
  BY <1>1, Numbers DEF Ordered
<1>3. task'.pc # "idle" => \A m \in Requests : Accepted(m)' => m < task'.cur
  BY DEF Ordered
<1>4. ASSUME call'.update # None
      PROVE  /\ \A m \in Requests : Accepted(m)' => m < call'.update
             /\ ~call'.updates => call'.update <= call'.inCseq
  <2>1. call.update \in Requests /\ call.update \in Nat
    BY <1>4, Numbers DEF Inv, TypeOK, Call
  <2> QED BY <1>1, <1>4, <2>1 DEF Ordered
<1>5. InOrder
  <2> SUFFICES ASSUME NEW n \in Requests, told[n] = <<>>, Accepted(n)'
               PROVE  FALSE
    BY DEF InOrder, Accepted
  <2>1. told[n] = <<"2xx">> BY DEF Accepted
  <2> QED BY <2>1
<1> QED BY <1>2, <1>3, <1>4, <1>5 DEF Ordered

\* A refusal accepts nothing.
LEMMA RefusalOrder ==
  ASSUME Inv, NEW n \in Requests, told[n] = <<>>, Tell(n, "refused")
  PROVE  \A m \in Requests : Accepted(m)' => Accepted(m)
<1>1. told'[n] = <<"refused">>
      /\ \A m \in Requests : m # n => told'[m] = told[m]
  BY DEF Tell, Inv, TypeOK
<1> QED BY <1>1 DEF Accepted

LEMMA BeginningOrder ==
  ASSUME Inv, Inv', Ordered, NEW n \in Requests,
         StartOffer(n) \/ UpdateTarget(n)
  PROVE  Ordered' /\ InOrder
<1>0. call \in Call /\ call.inCseq \in Nat /\ n \in Nat
  BY Numbers DEF Inv, TypeOK, Call
<1>1. /\ told' = told /\ n > call.inCseq
      /\ ~call.reinvite /\ call.update = None
  <2>1. told' = told /\ Admissible(n) BY DEF StartOffer, UpdateTarget
  <2>2. ~(n <= call.inCseq) BY <2>1 DEF Admissible, Stale
  <2>3. n > call.inCseq BY <1>0, <2>2
  <2> QED BY <2>1, <2>3 DEF Admissible, Busy
<1>2. ~call.updates /\ task.pc = "idle" BY <1>1, NothingPending
<1>3. \A m \in Requests : Accepted(m) => m <= call.inCseq /\ m < n
  BY <1>0, <1>1, Numbers DEF Ordered
<1>4. InOrder BY <1>1, Unanswered DEF InOrder
<1>5. CASE StartOffer(n)
  <2>1. /\ task'.pc # "idle" /\ task'.cur = n
        /\ call'.inCseq = call.inCseq
        /\ call'.update # None => call'.update = n /\ call'.updates
    BY <1>0, <1>1, <1>2, <1>5 DEF StartOffer, Idle, Call
  <2> QED BY <1>0, <1>1, <1>3, <1>4, <2>1 DEF Ordered, Accepted
<1>6. CASE UpdateTarget(n)
  <2>1. task' = task /\ call'.inCseq = n /\ call'.update = n
    BY <1>0, <1>1, <1>6 DEF UpdateTarget, Call
  <2> QED BY <1>0, <1>1, <1>2, <1>3, <1>4, <2>1 DEF Ordered, Accepted
<1> QED BY <1>5, <1>6

\* The request that is accepted came with a higher number than the others.
LEMMA AcceptanceOrder ==
  ASSUME Inv, Inv', Ordered, NEW n \in Requests, told[n] = <<>>,
         Tell(n, "2xx"), \A m \in Requests : Accepted(m) => m < n,
         task'.pc = "idle", call'.update = None, n <= call'.inCseq
  PROVE  Ordered' /\ InOrder
<1>1. \A m \in Requests : Accepted(m)' => m = n \/ Accepted(m)
  BY DEF Tell, Inv, TypeOK, Accepted
<1>2. call'.inCseq \in Nat /\ n \in Nat BY Numbers DEF Inv, TypeOK, Call
<1>3. \A m \in Requests : Accepted(m)' => m <= call'.inCseq
  BY <1>1, <1>2, Numbers
<1>4. InOrder
  <2> SUFFICES ASSUME NEW k \in Requests, told[k] = <<>>, Accepted(k)',
                      NEW m \in Requests, Accepted(m)
               PROVE  m < k
    BY DEF InOrder, Accepted
  <2>1. k = n
    <3>1. ~Accepted(k) BY Unanswered DEF Accepted
    <3> QED BY <1>1, <3>1
  <2> QED BY <2>1
<1> QED BY <1>3, <1>4 DEF Ordered

LEMMA AcceptOrder ==
  ASSUME Inv, Inv', Ordered, task.pc # "idle", Accept(task.cur)
  PROVE  Ordered' /\ InOrder
<1> DEFINE n == task.cur
<1>1. n \in Requests /\ told[n] = <<>> BY DEF Inv, OpenUnanswered
<1>2. \A m \in Requests : Accepted(m) => m < n BY DEF Ordered
<1>3. Tell(n, "2xx") /\ task'.pc = "idle" BY DEF Accept, EndTask, Idle
<1>4. call'.inCseq = n /\ call'.update = None
  <2>1. Released(call) \in Call /\ Released(call).update = None
    BY ReleasedIsFree
  <2> QED BY <2>1 DEF Accept, Refreshed, Call
<1>5. n <= call'.inCseq
  <2>1. n \in Nat BY <1>1, Numbers
  <2> QED BY <1>4, <2>1
<1> QED BY <1>1, <1>2, <1>3, <1>4, <1>5, AcceptanceOrder

LEMMA CallerOrder ==
  ASSUME Inv, Inv', Ordered, Caller
  PROVE  Ordered' /\ InOrder
<1>0. call.inCseq \in Nat /\ call \in Call BY DEF Inv, TypeOK, Call
<1>1. ASSUME NEW n \in Requests,
             NoDialog(n) \/ OutOfOrder(n) \/ Glare(n) \/ NoAudio(n)
      PROVE  Ordered' /\ InOrder
  <2>1. kind[n] = "none" /\ Refused(n)
    BY <1>1 DEF NoDialog, OutOfOrder, Glare, NoAudio, Receive
  <2>2. told[n] = <<>> BY <2>1 DEF Inv, OpenUnanswered
  <2>3. \A m \in Requests : Accepted(m)' => Accepted(m)
    BY <2>1, <2>2, RefusalOrder DEF Refused
  <2> QED BY <1>0, <2>1, <2>3, QuietOrder DEF Refused
<1>2. CASE CallerHangsUp
  BY <1>0, <1>2, QuietOrder DEF CallerHangsUp, Accepted, Call
<1> QED BY <1>1, <1>2, BeginningOrder DEF Caller

LEMMA TaskOrder ==
  ASSUME Inv, Inv', Ordered, TaskStep
  PROVE  Ordered' /\ InOrder
<1>0. call.inCseq \in Nat /\ call \in Call /\ task \in Task
  BY DEF Inv, TypeOK, Call
<1>1. task.pc # "idle"
  BY DEF TaskStep, Offered, MediaFails, TakeRing, TakeBroken, TakeGlare,
         Retry, TakeRefusal, TakeFailure, TakeAnswer, MediaAnswered, WaitTimeout, HandleTimeout,
         Take
<1>2. task.cur \in Requests /\ told[task.cur] = <<>>
  BY <1>1 DEF Inv, OpenUnanswered
<1>3. CASE Offered \/ Retry \/ TakeRing \/ TakeGlare \/ WaitTimeout
  <2>1. /\ call' \in {call, [call EXCEPT !.target = Unagreed]}
        /\ UNCHANGED told /\ task'.cur = task.cur
    BY <1>0, <1>3 DEF Offered, Retry, TakeRing, TakeGlare, WaitTimeout, Task
  <2>2. /\ call'.inCseq = call.inCseq /\ call'.update = call.update
        /\ call'.updates = call.updates
    BY <1>0, <2>1 DEF Call
  <2> QED BY <1>0, <1>1, <2>1, <2>2, QuietOrder DEF Accepted
<1>7. CASE TakeBroken
  <2>1. task' = Idle /\ call' = Released(call) /\ UNCHANGED told
    BY <1>7 DEF TakeBroken
  <2>2. call'.update = None BY <1>1, <2>1, ReleasedIsFree
  <2>3. call'.inCseq = call.inCseq BY <1>0, <2>1 DEF Released, Call
  <2> QED BY <1>0, <2>1, <2>2, <2>3, QuietOrder DEF Accepted, Idle
<1>4. CASE MediaFails \/ TakeRefusal \/ TakeFailure \/ HandleTimeout
  <2>1. EndTask("refused") /\ call' = Released(call)
    BY <1>4 DEF MediaFails, TakeRefusal, TakeFailure, HandleTimeout
  <2>2. task'.pc = "idle" /\ Tell(task.cur, "refused")
    BY <2>1 DEF EndTask, Idle
  <2>3. call'.update = None BY <1>1, <2>1, ReleasedIsFree
  <2>4. call'.inCseq = call.inCseq BY <1>0, <2>1 DEF Released, Call
  <2>5. \A m \in Requests : Accepted(m)' => Accepted(m)
    BY <1>2, <2>2, RefusalOrder
  <2> QED BY <1>0, <2>2, <2>3, <2>4, <2>5, QuietOrder
<1>5. CASE MediaAnswered \/ (TakeAnswer /\ call.backend = "internal")
  BY <1>1, <1>5, AcceptOrder DEF MediaAnswered, TakeAnswer
<1>6. CASE TakeAnswer /\ call.backend # "internal"
  <2>1. /\ call' \in {call, Refreshed(call, task.cur)}
        /\ UNCHANGED told /\ task' = [task EXCEPT !.pc = "answer"]
    BY <1>6 DEF TakeAnswer
  <2>2. /\ call'.inCseq = call.inCseq /\ call'.update = call.update
        /\ call'.updates = call.updates
    BY <1>0, <2>1 DEF Refreshed, Call
  <2> QED BY <1>0, <1>1, <2>1, <2>2, QuietOrder DEF Accepted, Task
<1> QED BY <1>3, <1>4, <1>5, <1>6, <1>7 DEF TaskStep

LEMMA UpdateAnsweredOrder ==
  ASSUME Inv, Inv', Ordered, NEW i \in DOMAIN sent, NEW status \in Reply,
         UpdateAnswered(i, status)
  PROVE  Ordered' /\ InOrder
<1> DEFINE n == call.update
           k == IF status = "2xx" THEN Refreshed(call, n) ELSE call
<1>1. /\ n # None /\ n \in Requests /\ told[n] = <<>>
      /\ call \in Call /\ call.inCseq \in Nat /\ ~call.updates
  BY DEF UpdateAnswered, Pending, StillPending, Inv, TypeOK, Call,
         OpenUnanswered
<1>2. task.pc = "idle" /\ task' = task
  BY <1>1, RealRequest DEF UpdateAnswered, Inv, ExclusiveExchange
<1>3. call'.update = None /\ call'.inCseq = call.inCseq
  BY <1>1 DEF UpdateAnswered, Relayed, Refreshed, Call
<1>4. CASE status = "2xx"
  <2>1. Tell(n, "2xx") BY <1>4 DEF UpdateAnswered
  <2>2. (\A m \in Requests : Accepted(m) => m < n) /\ n <= call.inCseq
    BY <1>1 DEF Ordered
  <2> QED BY <1>1, <1>2, <1>3, <2>1, <2>2, AcceptanceOrder
<1>5. CASE status # "2xx"
  <2>1. Tell(n, "refused") BY <1>5 DEF UpdateAnswered
  <2>2. \A m \in Requests : Accepted(m)' => Accepted(m)
    BY <1>1, <2>1, RefusalOrder
  <2> QED BY <1>1, <1>2, <1>3, <2>2, QuietOrder
<1> QED BY <1>4, <1>5

\* The other responses and the timers: nobody is answered.
LEMMA SilentOrder ==
  ASSUME Inv, Inv', Ordered, UNCHANGED <<task, told>>,
         call'.update = call.update, call'.updates = call.updates,
         call'.inCseq \in {call.inCseq, call.inCseq + 1}
  PROVE  Ordered' /\ InOrder
<1>1. call.inCseq \in Nat BY DEF Inv, TypeOK, Call
<1>2. call.inCseq <= call'.inCseq BY <1>1
<1> QED BY <1>2, QuietOrder DEF Accepted

LEMMA PeerOrder ==
  ASSUME Inv, Inv', Ordered, Peer
  PROVE  Ordered' /\ InOrder
<1>0. call \in Call BY DEF Inv, TypeOK
<1>1. ASSUME NEW i \in DOMAIN sent, NEW status \in Reply,
             \/ InviteAnsweredLate(i) \/ InviteAnswered(i)
             \/ InviteFailed(i, status)
             \/ UpdateGlare(i) \/ UpdateQueued(i, status)
             \/ UpdateIgnored(i, status)
      PROVE  Ordered' /\ InOrder
  <2>1. UNCHANGED <<task, told>>
    BY <1>1 DEF InviteAnsweredLate, InviteAnswered, InviteFailed,
                UpdateGlare, UpdateQueued, UpdateIgnored
  <2>2. /\ call'.update = call.update /\ call'.updates = call.updates
        /\ call'.inCseq = call.inCseq
    <3>1. CASE InviteAnsweredLate(i) \/ InviteAnswered(i)
      BY <1>0, <3>1 DEF InviteAnsweredLate, InviteAnswered, Cleaned, Call
    <3>2. CASE InviteFailed(i, status)
      BY <1>0, <3>2 DEF InviteFailed, Finalized, Call
    <3>3. CASE UpdateGlare(i) \/ UpdateQueued(i, status)
      BY <1>0, <3>3 DEF UpdateGlare, UpdateQueued, Call
    <3>4. CASE UpdateIgnored(i, status)
      BY <1>0, <3>4 DEF UpdateIgnored, Finalized, Call
    <3> QED BY <1>1, <3>1, <3>2, <3>3, <3>4
  <2> QED BY <2>1, <2>2, SilentOrder
<1>2. CASE FirstAnswerAgain \/ ByeAnswered
  <2>1. UNCHANGED <<task, told>> BY <1>2 DEF FirstAnswerAgain, ByeAnswered
  <2>2. /\ call'.update = call.update /\ call'.updates = call.updates
        /\ call'.inCseq = call.inCseq
    BY <1>0, <1>2 DEF FirstAnswerAgain, ByeAnswered, Cleaned, Finalized, Call
  <2> QED BY <2>1, <2>2, SilentOrder
<1>3. CASE PeerHangsUp \/ RelayToCaller
  <2>1. UNCHANGED <<task, told>> BY <1>3 DEF PeerHangsUp, RelayToCaller
  <2>2. /\ call'.update = call.update /\ call'.updates = call.updates
        /\ call'.inCseq = call.inCseq + 1
    BY <1>0, <1>3 DEF PeerHangsUp, RelayToCaller, Call
  <2> QED BY <2>1, <2>2, SilentOrder
<1>4. ASSUME NEW what \in Provisional, Rings(what)
      PROVE  Ordered' /\ InOrder
  BY <1>4, SilentOrder DEF Rings
<1> QED BY <1>1, <1>2, <1>3, <1>4, UpdateAnsweredOrder DEF Peer, Reply

LEMMA TimersOrder ==
  ASSUME Inv, Inv', Ordered, Timers
  PROVE  Ordered' /\ InOrder
<1>1. call \in Call BY DEF Inv, TypeOK
<1>2. UNCHANGED <<task, told>>
  BY DEF Timers, RetryUpdate, FinalizeLater, InviteTimeout
<1>3. call' \in {call, Finalized(call)}
  BY DEF Timers, RetryUpdate, FinalizeLater, InviteTimeout
<1>4. /\ call'.update = call.update /\ call'.updates = call.updates
      /\ call'.inCseq = call.inCseq
  BY <1>1, <1>3 DEF Finalized, Call
<1> QED BY <1>2, <1>4, SilentOrder

\* Whatever overtakes what, a request of the caller is accepted only after
\* every request accepted before it had a lower CSeq number.
THEOREM AcceptanceInOrder == Spec => AcceptedInOrder
<1>1. Init => Ordered
  BY Unanswered DEF Init, Ordered, Accepted, Idle
<1>2. Inv /\ Inv' /\ Ordered /\ [Next]_vars => Ordered' /\ [InOrder]_vars
  <2> SUFFICES ASSUME Inv, Inv', Ordered, [Next]_vars
               PROVE  Ordered' /\ [InOrder]_vars
    OBVIOUS
  <2>1. CASE UNCHANGED vars BY <2>1, SilentOrder DEF vars
  <2>2. CASE Next
    BY <2>2, CallerOrder, TaskOrder, PeerOrder, TimersOrder DEF Next
  <2> QED BY <2>1, <2>2
<1> QED
  BY <1>1, <1>2, InvInitially, InvPreserved, PTL
  DEF Spec, AcceptedInOrder, InOrder

-----------------------------------------------------------------------------
(* The session the two sides agree on.  While nothing was late, repeated   *)
(* or wasted, at most one offer to B is open and it is the one the task    *)
(* waits for; an open UPDATE without a body, or the sleeper that will      *)
(* repeat it, excludes a task as long as the call is registered; and among *)
(* the queued responses one at most is not provisional, and it is the last *)
(* thing B said of the offer in progress.                                  *)

OpenOffer(i) == sent[i].reply = "none" /\ sent[i].offer
OpenUpdate(i) == sent[i].reply = "none" /\ ~sent[i].offer

Even == wire.aSession = wire.bSession
Fresh == wire.bSession = task.cur  \* B accepted the offer in progress

FinalAt(j) == queue[j].status \notin Provisional
NoFinal == \A j \in DOMAIN queue : ~FinalAt(j)

OffersOpen ==
  /\ \A i \in DOMAIN sent : OpenOffer(i) =>
       task.pc = "wait" /\ NoFinal /\ sent[i].for = task.cur /\ Even
  /\ \A i, j \in DOMAIN sent : OpenOffer(i) /\ OpenOffer(j) => i = j

UpdatesOpen ==
  /\ \A i \in DOMAIN sent : OpenUpdate(i) =>
       call.update # None /\ ~call.updates /\ sleepers = 0
  /\ \A i, j \in DOMAIN sent : OpenUpdate(i) /\ OpenUpdate(j) => i = j
  /\ sleepers > 0 => call.update # None /\ ~call.updates /\ sleepers = 1

Queued ==
  /\ \A j \in DOMAIN queue : FinalAt(j) =>
       task.pc = "wait" /\ IF queue[j].status = "2xx" THEN Fresh ELSE Even
  /\ \A j, k \in DOMAIN queue : FinalAt(j) /\ FinalAt(k) => j = k

Settled ==
  /\ task.pc \in {"idle", "offer", "sleep"} => Even
  /\ task.pc = "answer" => Fresh
  /\ task.pc # "expired"

InvitesOffer == \A i \in DOMAIN sent : sent[i].method = "INVITE" => sent[i].offer

Undisturbed == OffersOpen /\ (call.reg => UpdatesOpen) /\ Queued /\ Settled

AgreeInv == InvitesOffer /\ (~wire.disturbed => Undisturbed)

\* What the queue is after one more response.
LEMMA QueueGrows ==
  ASSUME TypeOK, NEW m \in Message, queue' = Append(queue, m)
  PROVE  /\ DOMAIN queue' = DOMAIN queue \cup {Len(queue) + 1}
         /\ \A j \in DOMAIN queue : queue'[j] = queue[j]
         /\ queue'[Len(queue) + 1] = m
<1>1. queue \in Seq(Message) BY DEF TypeOK
<1>2. Len(queue) \in Nat /\ DOMAIN queue = 1..Len(queue) BY <1>1
<1>3. /\ Len(queue') = Len(queue) + 1 /\ queue' \in Seq(Message)
      /\ \A j \in 1..Len(queue) : queue'[j] = queue[j]
      /\ queue'[Len(queue) + 1] = m
  BY <1>1
<1>4. DOMAIN queue' = 1..(Len(queue) + 1) BY <1>3
<1>5. DOMAIN queue' = DOMAIN queue \cup {Len(queue) + 1} BY <1>2, <1>4
<1> QED BY <1>2, <1>3, <1>5

\* What it is once the task took its head.
LEMMA QueueShrinks ==
  ASSUME TypeOK, queue # <<>>
  PROVE  /\ 1 \in DOMAIN queue /\ Head(queue) = queue[1]
         /\ queue' = Tail(queue) =>
              \A j \in DOMAIN queue' : /\ j + 1 \in DOMAIN queue
                                        /\ j \in Nat /\ j + 1 # 1
                                        /\ queue'[j] = queue[j + 1]
<1>1. queue \in Seq(Message) BY DEF TypeOK
<1>2. Len(queue) \in Nat \ {0} /\ DOMAIN queue = 1..Len(queue) BY <1>1
<1>3. 1 \in DOMAIN queue /\ Head(queue) = queue[1] BY <1>1, <1>2
<1>4. ASSUME queue' = Tail(queue), NEW j \in DOMAIN queue'
      PROVE  /\ j + 1 \in DOMAIN queue
             /\ j \in Nat /\ j + 1 # 1
             /\ queue'[j] = queue[j + 1]
  <2>1. /\ queue' \in Seq(Message) /\ Len(queue') = Len(queue) - 1
        /\ \A l \in 1..(Len(queue) - 1) : queue'[l] = queue[l + 1]
    BY <1>1, <1>2, <1>4
  <2>2. j \in 1..(Len(queue) - 1) BY <1>4, <2>1
  <2> QED BY <1>2, <2>1, <2>2
<1> QED BY <1>3, <1>4

\* What the requests sent to B are after one more.
LEMMA Added ==
  ASSUME TypeOK, NEW n \in Requests, NEW offer \in BOOLEAN,
         NEW method \in {"INVITE", "UPDATE"},
         sent' = WithRequest(sent, method, n, offer)
  PROVE  /\ DOMAIN sent' = DOMAIN sent \cup {Len(sent) + 1}
         /\ \A j \in DOMAIN sent : sent'[j] = sent[j]
         /\ sent'[Len(sent) + 1].reply = "none"
         /\ sent'[Len(sent) + 1].for = n
         /\ sent'[Len(sent) + 1].method = method
         /\ sent'[Len(sent) + 1].offer = offer
<1> DEFINE r == [ method |-> method, for |-> n, offer |-> offer,
                  reply |-> "none", gone |-> FALSE ]
<1>1. sent \in Seq(Sent) /\ sent' = Append(sent, r)
  BY DEF TypeOK, WithRequest
<1>2. r \in Sent BY DEF Sent
<1>3. Len(sent) \in Nat /\ DOMAIN sent = 1..Len(sent) BY <1>1
<1>4. /\ Len(sent') = Len(sent) + 1 /\ sent' \in Seq(Sent)
      /\ \A j \in 1..Len(sent) : sent'[j] = sent[j]
      /\ sent'[Len(sent) + 1] = r
  <2> HIDE DEF r
  <2> QED BY <1>1, <1>2
<1>5. DOMAIN sent' = 1..(Len(sent) + 1) BY <1>4
<1>6. DOMAIN sent' = DOMAIN sent \cup {Len(sent) + 1} BY <1>3, <1>5
<1> QED BY <1>3, <1>4, <1>6

LEMMA AddedOpen ==
  ASSUME TypeOK, InvitesOffer, NEW n \in Requests, NEW offer \in BOOLEAN,
         NEW method \in {"INVITE", "UPDATE"}, method = "INVITE" => offer,
         sent' = WithRequest(sent, method, n, offer)
  PROVE  /\ InvitesOffer'
         /\ \A j \in DOMAIN sent' :
              \/ /\ j \in DOMAIN sent /\ sent'[j] = sent[j]
                 /\ OpenOffer(j)' <=> OpenOffer(j)
                 /\ OpenUpdate(j)' <=> OpenUpdate(j)
              \/ /\ j = Len(sent) + 1 /\ sent'[j].for = n
                 /\ OpenOffer(j)' <=> offer
                 /\ OpenUpdate(j)' <=> ~offer
<1>1. /\ DOMAIN sent' = DOMAIN sent \cup {Len(sent) + 1}
      /\ \A j \in DOMAIN sent : sent'[j] = sent[j]
      /\ sent'[Len(sent) + 1].reply = "none"
      /\ sent'[Len(sent) + 1].for = n
      /\ sent'[Len(sent) + 1].method = method
      /\ sent'[Len(sent) + 1].offer = offer
  BY Added
<1> QED BY <1>1 DEF InvitesOffer, OpenOffer, OpenUpdate

\* An answer of B that disturbs nothing is the first one to an open request.
LEMMA FirstReply ==
  ASSUME TypeOK, InvitesOffer, NEW i \in DOMAIN sent, NEW status \in Reply,
         Answers(i, status), sent' = Received(i, status)
  PROVE  /\ InvitesOffer'
         /\ wire.disturbed => wire'.disturbed
         /\ ~wire'.disturbed =>
              /\ OpenOffer(i) \/ OpenUpdate(i)
              /\ DOMAIN sent' = DOMAIN sent
              /\ \A j \in DOMAIN sent :
                   /\ sent'[j].for = sent[j].for
                   /\ OpenOffer(j)' <=> OpenOffer(j) /\ j # i
                   /\ OpenUpdate(j)' <=> OpenUpdate(j) /\ j # i
              /\ wire'.aSession = wire.aSession
              /\ wire'.bSession = IF status = "2xx" /\ sent[i].offer
                                  THEN sent[i].for ELSE wire.bSession
<1>1. /\ sent \in Seq(Sent) /\ i \in 1..Len(sent) /\ sent[i] \in Sent
      /\ wire \in Wire /\ status # "none"
  BY DEF TypeOK, Reply
<1>2. /\ DOMAIN sent' = DOMAIN sent
      /\ \A j \in DOMAIN sent : j # i => sent'[j] = sent[j]
      /\ sent'[i] = [sent[i] EXCEPT !.reply = status]
  BY <1>1 DEF Received
<1>3. /\ sent'[i].reply = status /\ sent'[i].offer = sent[i].offer
      /\ sent'[i].for = sent[i].for /\ sent'[i].method = sent[i].method
  BY <1>1, <1>2 DEF Sent
<1>4. InvitesOffer'
  <2> SUFFICES ASSUME NEW j \in DOMAIN sent', sent'[j].method = "INVITE"
               PROVE  sent'[j].offer
    BY DEF InvitesOffer
  <2>1. CASE j = i BY <1>3, <2>1 DEF InvitesOffer
  <2>2. CASE j # i BY <1>2, <2>2 DEF InvitesOffer
  <2> QED BY <2>1, <2>2
<1>5. CASE /\ sent[i].reply = "none"
           /\ wire' = [wire EXCEPT
                        !.bSession = IF status = "2xx" /\ sent[i].offer
                                     THEN sent[i].for ELSE @]
  <2>1. /\ wire'.disturbed = wire.disturbed
        /\ wire'.aSession = wire.aSession
        /\ wire'.bSession = IF status = "2xx" /\ sent[i].offer
                            THEN sent[i].for ELSE wire.bSession
    BY <1>1, <1>5 DEF Wire
  <2>2. OpenOffer(i) \/ OpenUpdate(i) BY <1>1, <1>5 DEF OpenOffer, OpenUpdate
  <2>3. \A j \in DOMAIN sent : /\ sent'[j].for = sent[j].for
                               /\ OpenOffer(j)' <=> OpenOffer(j) /\ j # i
                               /\ OpenUpdate(j)' <=> OpenUpdate(j) /\ j # i
    BY <1>1, <1>2, <1>3 DEF OpenOffer, OpenUpdate
  <2> QED BY <1>2, <1>4, <2>1, <2>2, <2>3
<1>6. CASE /\ sent[i].reply = status
           /\ wire' = [wire EXCEPT !.repeats = @ + 1, !.disturbed = TRUE]
  <2>1. wire'.disturbed = TRUE BY <1>1, <1>6 DEF Wire
  <2> QED BY <1>4, <2>1
<1> QED BY <1>5, <1>6 DEF Answers

\* A step that touches neither the exchange nor what B answered.
LEMMA QuietAgree ==
  ASSUME AgreeInv, UNCHANGED <<task, queue, sleepers, sent>>,
         wire'.disturbed = wire.disturbed,
         wire'.aSession = wire.aSession, wire'.bSession = wire.bSession,
         call'.reg => /\ call.reg
                      /\ call'.update = call.update
                      /\ call'.updates = call.updates
  PROVE  AgreeInv'
<1>1. InvitesOffer' BY DEF AgreeInv, InvitesOffer
<1>2. ASSUME ~wire'.disturbed PROVE Undisturbed'
  <2>1. Undisturbed BY <1>2 DEF AgreeInv
  <2>2. OffersOpen'
    BY <2>1 DEF Undisturbed, OffersOpen, OpenOffer, Even, NoFinal, FinalAt
  <2>3. call'.reg => UpdatesOpen'
    BY <2>1 DEF Undisturbed, UpdatesOpen, OpenUpdate
  <2>4. Queued' BY <2>1 DEF Undisturbed, Queued, Fresh, Even, FinalAt
  <2>5. Settled' BY <2>1 DEF Undisturbed, Settled, Fresh, Even
  <2> QED BY <2>2, <2>3, <2>4, <2>5 DEF Undisturbed
<1> QED BY <1>1, <1>2 DEF AgreeInv

\* B's first answer to the open offer: it reaches the queue or nobody.
LEMMA OfferAnswered ==
  ASSUME Inv, AgreeInv, NEW i \in DOMAIN sent, NEW status \in Reply,
         Answers(i, status), sent' = Received(i, status), sent[i].offer,
         queue' \in {queue, Append(queue, [status |-> status, by |-> i])},
         UNCHANGED <<task, sleepers>>,
         call'.reg => /\ call.reg
                      /\ call'.update = call.update
                      /\ call'.updates = call.updates
  PROVE  AgreeInv'
<1>1. TypeOK /\ InvitesOffer BY DEF Inv, AgreeInv
<1>2. InvitesOffer' BY <1>1, FirstReply
<1>3. ASSUME ~wire'.disturbed PROVE Undisturbed'
  <2>1. /\ ~wire.disturbed
        /\ OpenOffer(i) \/ OpenUpdate(i)
        /\ DOMAIN sent' = DOMAIN sent
        /\ \A j \in DOMAIN sent :
             /\ sent'[j].for = sent[j].for
             /\ OpenOffer(j)' <=> OpenOffer(j) /\ j # i
             /\ OpenUpdate(j)' <=> OpenUpdate(j) /\ j # i
        /\ wire'.aSession = wire.aSession
        /\ wire'.bSession = IF status = "2xx" /\ sent[i].offer
                            THEN sent[i].for ELSE wire.bSession
    BY <1>1, <1>3, FirstReply
  <2>2. Undisturbed BY <2>1 DEF AgreeInv
  <2>3. OpenOffer(i) BY <2>1 DEF OpenUpdate
  <2>4. /\ task.pc = "wait" /\ NoFinal /\ sent[i].for = task.cur /\ Even
        /\ \A j \in DOMAIN sent : OpenOffer(j) => j = i
    BY <2>2, <2>3 DEF Undisturbed, OffersOpen
  <2>5. OffersOpen' BY <2>1, <2>4 DEF OffersOpen
  <2>6. call'.reg => UpdatesOpen'
    BY <2>1, <2>2 DEF Undisturbed, UpdatesOpen
  <2>7. IF status = "2xx" THEN Fresh' ELSE Even'
    BY <2>1, <2>4 DEF Fresh, Even
  <2>8. Queued'
    <3>1. CASE queue' = queue BY <2>4, <3>1 DEF Queued, NoFinal, FinalAt
    <3>2. CASE queue' = Append(queue, [status |-> status, by |-> i])
      <4> DEFINE m == [status |-> status, by |-> i]
      <4>1. m \in Message /\ m.status = status BY <1>1, AnswerTypes
      <4>2. queue' = Append(queue, m) BY <3>2
      <4> HIDE DEF m
      <4>3. /\ DOMAIN queue' = DOMAIN queue \cup {Len(queue) + 1}
            /\ \A j \in DOMAIN queue : queue'[j] = queue[j]
            /\ queue'[Len(queue) + 1] = m
        BY <1>1, <4>1, <4>2, QueueGrows
      <4>4. \A j \in DOMAIN queue' : FinalAt(j)' =>
              j = Len(queue) + 1 /\ queue'[j].status = status
        BY <2>4, <4>1, <4>3 DEF NoFinal, FinalAt
      <4> QED BY <2>4, <2>7, <4>4 DEF Queued
    <3> QED BY <3>1, <3>2
  <2>9. Settled' BY <2>4 DEF Settled
  <2> QED BY <2>5, <2>6, <2>8, <2>9 DEF Undisturbed
<1> QED BY <1>2, <1>3 DEF AgreeInv

\* A task that ends leaves no open request and no sleeper behind it.
LEMMA TaskEndsEven ==
  ASSUME Inv, AgreeInv, task.pc # "idle", NEW status, EndTask(status),
         UNCHANGED <<sleepers, sent>>,
         ~wire'.disturbed => ~wire.disturbed /\ Even',
         task.pc = "wait" => ~NoFinal,
         call'.reg => call.reg
  PROVE  AgreeInv'
<1>1. InvitesOffer' BY DEF AgreeInv, InvitesOffer
<1>2. ASSUME ~wire'.disturbed PROVE Undisturbed'
  <2>1. Undisturbed /\ Even' BY <1>2 DEF AgreeInv
  <2>2. \A i \in DOMAIN sent : ~OpenOffer(i)
    BY <2>1 DEF Undisturbed, OffersOpen
  <2>3. call.update = None \/ call.updates
    BY DEF Inv, ExclusiveExchange
  <2>4. call.reg => sleepers <= 0 /\ \A i \in DOMAIN sent : ~OpenUpdate(i)
    <3>1. sleepers \in Nat BY DEF Inv, TypeOK
    <3> QED BY <2>1, <2>3, <3>1 DEF Undisturbed, UpdatesOpen
  <2>5. OffersOpen' BY <2>2 DEF OffersOpen, OpenOffer
  <2>6. call'.reg => UpdatesOpen'
    <3>1. sleepers \in Nat BY DEF Inv, TypeOK
    <3> QED BY <2>4, <3>1 DEF UpdatesOpen, OpenUpdate
  <2>7. Queued' /\ Settled'
    <3>1. DOMAIN queue' = {} BY DEF EndTask
    <3> QED BY <2>1, <3>1 DEF EndTask, Idle, Queued, Settled
  <2> QED BY <2>5, <2>6, <2>7 DEF Undisturbed
<1> QED BY <1>1, <1>2 DEF AgreeInv

\* The task sends the offer in progress, for the first time or again.
LEMMA OfferSent ==
  ASSUME Inv, AgreeInv, task.pc \in {"offer", "sleep"}, SendOffer(task.cur),
         task' = [task EXCEPT !.pc = "wait"],
         UNCHANGED <<call, queue, sleepers, wire>>
  PROVE  AgreeInv'
<1>1. /\ TypeOK /\ InvitesOffer /\ task.cur \in Requests /\ task \in Task
      /\ MethodOf(task.cur) \in {"INVITE", "UPDATE"}
  BY DEF Inv, TypeOK, AgreeInv, OpenUnanswered, MethodOf
<1>2. /\ InvitesOffer'
      /\ \A j \in DOMAIN sent' :
           \/ /\ j \in DOMAIN sent /\ sent'[j] = sent[j]
              /\ OpenOffer(j)' <=> OpenOffer(j)
              /\ OpenUpdate(j)' <=> OpenUpdate(j)
           \/ /\ j = Len(sent) + 1 /\ sent'[j].for = task.cur
              /\ OpenOffer(j)' <=> TRUE
              /\ OpenUpdate(j)' <=> ~TRUE
  <2>1. sent' = WithRequest(sent, MethodOf(task.cur), task.cur, TRUE)
    BY DEF SendOffer
  <2> QED BY <1>1, <2>1, AddedOpen
<1>3. task'.pc = "wait" /\ task'.cur = task.cur BY <1>1 DEF Task
<1>4. ASSUME ~wire'.disturbed PROVE Undisturbed'
  <2>1. Undisturbed BY <1>4 DEF AgreeInv
  <2>2. Even /\ NoFinal /\ \A i \in DOMAIN sent : ~OpenOffer(i)
    BY <2>1 DEF Undisturbed, Settled, Queued, OffersOpen, NoFinal
  <2>6. NoFinal' BY <2>2 DEF NoFinal, FinalAt
  <2>3. OffersOpen' BY <1>2, <1>3, <2>2, <2>6 DEF OffersOpen, Even
  <2>4. call'.reg => UpdatesOpen' BY <1>2, <2>1 DEF Undisturbed, UpdatesOpen
  <2>5. Queued' /\ Settled' BY <1>3, <2>6 DEF Queued, Settled, NoFinal
  <2> QED BY <2>3, <2>4, <2>5 DEF Undisturbed
<1> QED BY <1>2, <1>4 DEF AgreeInv

\* Before a request is begun nothing is open and no sleeper is left.
LEMMA BeforeBeginning ==
  ASSUME Inv, AgreeInv, NEW n \in Requests, Admissible(n), ~wire.disturbed
  PROVE  /\ Even /\ NoFinal /\ sleepers = 0 /\ task.pc = "idle"
         /\ call.update = None /\ ~call.updates /\ ~call.reinvite
         /\ \A i \in DOMAIN sent : ~OpenOffer(i) /\ ~OpenUpdate(i)
<1>1. call.reg /\ ~call.reinvite /\ call.update = None
  BY DEF Admissible, Busy
<1>2. ~call.updates /\ task.pc = "idle" BY <1>1, NothingPending
<1>3. Undisturbed /\ sleepers \in Nat BY DEF AgreeInv, Inv, TypeOK
<1>4. Even /\ NoFinal /\ \A i \in DOMAIN sent : ~OpenOffer(i)
  BY <1>2, <1>3 DEF Undisturbed, Settled, Queued, OffersOpen, NoFinal
<1>5. ~(sleepers > 0) /\ \A i \in DOMAIN sent : ~OpenUpdate(i)
  BY <1>1, <1>3 DEF Undisturbed, UpdatesOpen
<1>6. sleepers = 0 BY <1>3, <1>5
<1> QED BY <1>1, <1>2, <1>4, <1>5, <1>6

LEMMA StartOfferAgree ==
  ASSUME Inv, AgreeInv, NEW n \in Requests, StartOffer(n)
  PROVE  AgreeInv'
<1>1. /\ Admissible(n) /\ UNCHANGED <<queue, sleepers, told, wire>>
      /\ TypeOK /\ InvitesOffer
  BY DEF StartOffer, Inv, AgreeInv
<1>2. /\ task'.cur = n /\ task'.pc \in {"offer", "wait"}
      /\ InvitesOffer'
      /\ \/ sent' = sent
         \/ /\ task'.pc = "wait"
            /\ \A j \in DOMAIN sent' :
                 \/ /\ j \in DOMAIN sent /\ sent'[j] = sent[j]
                    /\ OpenOffer(j)' <=> OpenOffer(j)
                    /\ OpenUpdate(j)' <=> OpenUpdate(j)
                 \/ /\ j = Len(sent) + 1 /\ sent'[j].for = n
                    /\ OpenOffer(j)' <=> TRUE
                    /\ OpenUpdate(j)' <=> ~TRUE
  <2>1. PICK what \in Kinds \ {"target"} :
          IF call.backend = "rtpengine"
          THEN /\ task' = [Idle EXCEPT !.pc = "offer", !.cur = n]
               /\ UNCHANGED sent
          ELSE /\ task' = [Idle EXCEPT !.pc = "wait", !.cur = n]
               /\ sent' = WithRequest(sent, IF what = "reinvite" THEN "INVITE"
                                            ELSE "UPDATE", n, TRUE)
    BY DEF StartOffer
  <2>2. CASE call.backend = "rtpengine"
    BY <1>1, <2>1, <2>2 DEF Idle, InvitesOffer
  <2>3. CASE call.backend # "rtpengine"
    <3>1. task'.cur = n /\ task'.pc = "wait" BY <2>1, <2>3 DEF Idle
    <3>2. PICK method \in {"INVITE", "UPDATE"} :
            sent' = WithRequest(sent, method, n, TRUE)
      BY <2>1, <2>3
    <3> QED BY <1>1, <3>1, <3>2, AddedOpen
  <2> QED BY <2>2, <2>3
<1>3. ASSUME ~wire'.disturbed PROVE Undisturbed'
  <2>1. /\ Even /\ NoFinal /\ sleepers = 0
        /\ \A i \in DOMAIN sent : ~OpenOffer(i) /\ ~OpenUpdate(i)
    BY <1>1, <1>3, BeforeBeginning
  <2>6. NoFinal' BY <1>1, <2>1 DEF NoFinal, FinalAt
  <2>2. OffersOpen'
    BY <1>1, <1>2, <2>1, <2>6 DEF OffersOpen, Even, OpenOffer
  <2>3. \A i \in DOMAIN sent' : ~OpenUpdate(i)'
    BY <1>2, <2>1 DEF OpenUpdate
  <2>4. UpdatesOpen' BY <1>1, <2>1, <2>3 DEF UpdatesOpen
  <2>5. Queued' /\ Settled'
    BY <1>1, <1>2, <2>1, <2>6 DEF Queued, Settled, Even, NoFinal
  <2> QED BY <2>2, <2>4, <2>5 DEF Undisturbed
<1> QED BY <1>2, <1>3 DEF AgreeInv

LEMMA UpdateTargetAgree ==
  ASSUME Inv, AgreeInv, NEW n \in Requests, UpdateTarget(n)
  PROVE  AgreeInv'
<1>1. /\ Admissible(n) /\ UNCHANGED <<task, queue, sleepers, wire>>
      /\ sent' = WithRequest(sent, "UPDATE", n, FALSE)
      /\ TypeOK /\ InvitesOffer /\ call \in Call
  BY DEF UpdateTarget, Inv, TypeOK, AgreeInv
<1>2. /\ InvitesOffer'
      /\ \A j \in DOMAIN sent' :
           \/ /\ j \in DOMAIN sent /\ sent'[j] = sent[j]
              /\ OpenOffer(j)' <=> OpenOffer(j)
              /\ OpenUpdate(j)' <=> OpenUpdate(j)
           \/ /\ j = Len(sent) + 1 /\ sent'[j].for = n
              /\ OpenOffer(j)' <=> FALSE
              /\ OpenUpdate(j)' <=> ~FALSE
  BY <1>1, AddedOpen
<1>3. call'.update = n /\ call'.updates = call.updates /\ n # None
  BY <1>1, RealRequest DEF UpdateTarget, Call
<1>4. ASSUME ~wire'.disturbed PROVE Undisturbed'
  <2>1. /\ Even /\ NoFinal /\ sleepers = 0 /\ task.pc = "idle"
        /\ ~call.updates
        /\ \A i \in DOMAIN sent : ~OpenOffer(i) /\ ~OpenUpdate(i)
    BY <1>1, <1>4, BeforeBeginning
  <2>2. OffersOpen' BY <1>2, <2>1 DEF OffersOpen
  <2>3. \A j \in DOMAIN sent' : OpenUpdate(j)' => j = Len(sent) + 1
    BY <1>2, <2>1
  <2>4. call'.update # None /\ ~call'.updates /\ sleepers' = 0
    BY <1>1, <1>3, <2>1
  <2>5. ~(sleepers' > 0) BY <2>4
  <2>6. UpdatesOpen' BY <2>3, <2>4, <2>5, Zenon DEF UpdatesOpen
  <2>8. NoFinal' BY <1>1, <2>1 DEF NoFinal, FinalAt
  <2>7. Queued' /\ Settled'
    BY <1>1, <2>1, <2>8 DEF Queued, Settled, Even, NoFinal
  <2> QED BY <2>2, <2>6, <2>7 DEF Undisturbed
<1> QED BY <1>2, <1>4 DEF AgreeInv

\* The final answer the task takes is the only one in its queue.
LEMMA Taken ==
  ASSUME TypeOK, AgreeInv, NEW statuses, Take(statuses), ~wire.disturbed,
         Head(queue).status \notin Provisional
  PROVE  /\ queue' = Tail(queue) => NoFinal'
         /\ \A i \in DOMAIN sent : ~OpenOffer(i)
         /\ IF Head(queue).status = "2xx" THEN Fresh ELSE Even
<1>1. Undisturbed /\ queue # <<>> BY DEF AgreeInv, Take
<1>2. FinalAt(1) /\ 1 \in DOMAIN queue BY <1>1, QueueShrinks DEF FinalAt
<1>3. IF Head(queue).status = "2xx" THEN Fresh ELSE Even
  BY <1>1, <1>2, QueueShrinks DEF Undisturbed, Queued
<1>4. ASSUME queue' = Tail(queue) PROVE NoFinal'
  <2> SUFFICES ASSUME NEW j \in DOMAIN queue', FinalAt(j)' PROVE FALSE
    BY DEF NoFinal
  <2>1. FinalAt(j + 1) /\ j + 1 \in DOMAIN queue /\ j + 1 # 1
    BY <1>1, <1>4, QueueShrinks DEF FinalAt
  <2> QED BY <1>1, <1>2, <2>1 DEF Undisturbed, Queued
<1> QED BY <1>1, <1>2, <1>3, <1>4 DEF Undisturbed, OffersOpen, NoFinal

\* A provisional response is not the answer to anything.
LEMMA RingTaken ==
  ASSUME Inv, AgreeInv, TakeRing
  PROVE  AgreeInv'
<1>1. /\ queue # <<>> /\ queue' = Tail(queue) /\ TypeOK /\ call \in Call
      /\ UNCHANGED <<task, sleepers, sent, wire>>
      /\ call' \in {call, [call EXCEPT !.target = Unagreed]}
  BY DEF TakeRing, Take, Inv, TypeOK
<1>2. /\ call'.reg = call.reg /\ call'.update = call.update
      /\ call'.updates = call.updates
  BY <1>1 DEF Call
<1>3. \A j \in DOMAIN queue' : /\ j + 1 \in DOMAIN queue /\ j \in Nat
                               /\ queue'[j] = queue[j + 1]
                               /\ FinalAt(j)' <=> FinalAt(j + 1)
  BY <1>1, QueueShrinks DEF FinalAt
<1>4. InvitesOffer' BY <1>1 DEF AgreeInv, InvitesOffer
<1>5. ASSUME ~wire'.disturbed PROVE Undisturbed'
  <2>1. Undisturbed BY <1>1, <1>5 DEF AgreeInv
  <2>2. NoFinal => NoFinal' BY <1>3 DEF NoFinal
  <2>3. OffersOpen'
    BY <1>1, <2>1, <2>2 DEF Undisturbed, OffersOpen, OpenOffer, Even
  <2>4. call'.reg => UpdatesOpen'
    BY <1>1, <1>2, <2>1 DEF Undisturbed, UpdatesOpen, OpenUpdate
  <2>5. Queued'
    <3>1. \A j \in DOMAIN queue' : FinalAt(j)' =>
            /\ task'.pc = "wait"
            /\ IF queue'[j].status = "2xx" THEN Fresh' ELSE Even'
      BY <1>1, <1>3, <2>1 DEF Undisturbed, Queued, Fresh, Even
    <3>2. ASSUME NEW j \in DOMAIN queue', NEW k \in DOMAIN queue',
                 FinalAt(j)', FinalAt(k)'
          PROVE  j = k
      <4>1. j + 1 = k + 1 BY <1>3, <2>1, <3>2 DEF Undisturbed, Queued
      <4> QED BY <1>3, <4>1
    <3> QED BY <3>1, <3>2 DEF Queued
  <2>6. Settled' BY <1>1, <2>1 DEF Undisturbed, Settled, Fresh, Even
  <2> QED BY <2>3, <2>4, <2>5, <2>6 DEF Undisturbed
<1> QED BY <1>4, <1>5 DEF AgreeInv

LEMMA RingQueued ==
  ASSUME Inv, AgreeInv, NEW what \in Provisional, Rings(what)
  PROVE  AgreeInv'
<1> DEFINE m == [status |-> what, by |-> None]
<1>1. /\ m \in Message /\ m.status \in Provisional /\ TypeOK
      /\ queue' = Append(queue, m)
      /\ UNCHANGED <<call, task, sleepers, sent, wire>>
  BY DEF Rings, Inv, Message, None
<1> HIDE DEF m
<1>2. \A j \in DOMAIN queue' : FinalAt(j)' =>
        j \in DOMAIN queue /\ FinalAt(j) /\ queue'[j] = queue[j]
  BY <1>1, QueueGrows DEF FinalAt
<1>3. InvitesOffer' BY <1>1 DEF AgreeInv, InvitesOffer
<1>4. ASSUME ~wire'.disturbed PROVE Undisturbed'
  <2>1. Undisturbed BY <1>1, <1>4 DEF AgreeInv
  <2>2. NoFinal => NoFinal' BY <1>2 DEF NoFinal
  <2>3. OffersOpen'
    BY <1>1, <2>1, <2>2 DEF Undisturbed, OffersOpen, OpenOffer, Even
  <2>4. call'.reg => UpdatesOpen'
    BY <1>1, <2>1 DEF Undisturbed, UpdatesOpen, OpenUpdate
  <2>5. Queued' BY <1>1, <1>2, <2>1 DEF Undisturbed, Queued, Fresh, Even
  <2>6. Settled' BY <1>1, <2>1 DEF Undisturbed, Settled, Fresh, Even
  <2> QED BY <2>3, <2>4, <2>5, <2>6 DEF Undisturbed
<1> QED BY <1>3, <1>4 DEF AgreeInv

LEMMA TaskStepAgree ==
  ASSUME Inv, AgreeInv, TaskStep
  PROVE  AgreeInv'
<1>0. /\ call \in Call /\ task \in Task /\ wire \in Wire
      /\ call.reg \in BOOLEAN /\ TypeOK
  BY DEF Inv, TypeOK, Call
<1>1. CASE Offered \/ Retry
  BY <1>1, OfferSent DEF Offered, Retry
<1>2. CASE MediaFails
  <2>1. /\ task.pc \in {"offer", "answer"} /\ EndTask("refused")
        /\ call' = Released(call) /\ UNCHANGED <<sleepers, sent>>
    BY <1>2 DEF MediaFails
  <2>2. /\ wire'.disturbed = (wire.disturbed \/ task.pc = "answer")
        /\ wire'.aSession = wire.aSession /\ wire'.bSession = wire.bSession
    BY <1>0, <1>2 DEF MediaFails, Wire
  <2>3. ~wire'.disturbed => ~wire.disturbed /\ task.pc = "offer"
    BY <2>1, <2>2
  <2>4. ~wire'.disturbed => Even'
    BY <2>2, <2>3 DEF AgreeInv, Undisturbed, Settled, Even
  <2>5. call'.reg = call.reg BY <1>0, <2>1 DEF Released, Call
  <2> QED BY <2>1, <2>3, <2>4, <2>5, TaskEndsEven
<1>3. CASE TakeRefusal \/ TakeFailure
  <2>1. PICK statuses \in {{"491", "fail"}, {"timeout"}} : Take(statuses)
    BY <1>3 DEF TakeRefusal, TakeFailure
  <2>2. /\ task.pc = "wait" /\ queue # <<>> /\ Head(queue).status # "2xx"
        /\ EndTask("refused") /\ call' = Released(call)
        /\ UNCHANGED <<sleepers, sent, wire>>
        /\ Head(queue).status \notin Provisional
    BY <1>3, <2>1 DEF TakeRefusal, TakeFailure, Take, Provisional
  <2>6. ~NoFinal BY <1>0, <2>2, QueueShrinks DEF NoFinal, FinalAt
  <2>3. ~wire.disturbed => Even BY <1>0, <2>1, <2>2, Taken
  <2>4. ~wire'.disturbed => ~wire.disturbed /\ Even'
    BY <2>2, <2>3 DEF Even
  <2>5. call'.reg = call.reg BY <1>0, <2>2 DEF Released, Call
  <2> QED BY <2>2, <2>4, <2>5, <2>6, TaskEndsEven
<1>4. CASE TakeGlare
  <2>1. /\ Take({"491"}) /\ queue' = Tail(queue)
        /\ task' = [task EXCEPT !.pc = "sleep", !.again = TRUE]
        /\ UNCHANGED <<call, sleepers, sent, wire>>
        /\ Head(queue).status # "2xx"
        /\ Head(queue).status \notin Provisional
    BY <1>4 DEF TakeGlare, Take, Provisional
  <2>2. task'.pc = "sleep" BY <1>0, <2>1 DEF Task
  <2>3. InvitesOffer' BY <2>1 DEF AgreeInv, InvitesOffer
  <2>4. ASSUME ~wire'.disturbed PROVE Undisturbed'
    <3>1. /\ NoFinal' /\ Even
          /\ \A i \in DOMAIN sent : ~OpenOffer(i)
      BY <1>0, <2>1, <2>4, Taken
    <3>2. OffersOpen' BY <2>1, <3>1 DEF OffersOpen, OpenOffer
    <3>3. call'.reg => UpdatesOpen'
      BY <2>1, <2>4 DEF AgreeInv, Undisturbed, UpdatesOpen, OpenUpdate
    <3>4. Queued' /\ Settled'
      BY <2>1, <2>2, <3>1 DEF Queued, Settled, Even, NoFinal
    <3> QED BY <3>2, <3>3, <3>4 DEF Undisturbed
  <2> QED BY <2>3, <2>4 DEF AgreeInv
<1>5. CASE /\ MediaAnswered \/ (TakeAnswer /\ call.backend = "internal")
  <2>0. TakeAnswer => /\ Take({"2xx"}) /\ Head(queue).status = "2xx"
                      /\ Head(queue).status \notin Provisional /\ ~NoFinal
    <3> SUFFICES ASSUME TakeAnswer
                 PROVE  /\ Take({"2xx"}) /\ Head(queue).status = "2xx"
                        /\ Head(queue).status \notin Provisional /\ ~NoFinal
      OBVIOUS
    <3>1. /\ Take({"2xx"}) /\ Head(queue).status = "2xx" /\ queue # <<>>
          /\ Head(queue).status \notin Provisional
      BY DEF TakeAnswer, Take, Provisional
    <3> QED BY <1>0, <3>1, QueueShrinks DEF NoFinal, FinalAt
  <2>1. /\ Accept(task.cur) /\ task.pc \in {"answer", "wait"}
        /\ task.pc = "wait" => ~NoFinal
        /\ UNCHANGED <<sleepers, sent>>
    BY <1>5, <2>0 DEF MediaAnswered, TakeAnswer, Take
  <2>2. ~wire.disturbed => Fresh
    <3>1. CASE MediaAnswered
      BY <3>1 DEF MediaAnswered, AgreeInv, Undisturbed, Settled
    <3>2. CASE TakeAnswer
      BY <1>0, <2>0, <3>2, Taken
    <3> QED BY <1>5, <3>1, <3>2
  <2>3. /\ EndTask("2xx") /\ wire' = [wire EXCEPT !.aSession = task.cur]
        /\ call' = [Refreshed(Released(call), task.cur)
                      EXCEPT !.inCseq = task.cur]
    BY <2>1 DEF Accept
  <2>4. wire'.disturbed = wire.disturbed /\ wire'.aSession = task.cur
        /\ wire'.bSession = wire.bSession
    BY <1>0, <2>3 DEF Wire
  <2>5. ~wire'.disturbed => ~wire.disturbed /\ Even'
    BY <2>2, <2>4 DEF Fresh, Even
  <2>6. call'.reg = call.reg
    BY <1>0, <2>3 DEF Released, Refreshed, Call
  <2> QED BY <2>1, <2>3, <2>5, <2>6, TaskEndsEven
<1>6. CASE TakeAnswer /\ call.backend # "internal"
  <2>1. /\ Take({"2xx"}) /\ queue' = Tail(queue)
        /\ Head(queue).status = "2xx"
        /\ Head(queue).status \notin Provisional
        /\ task' = [task EXCEPT !.pc = "answer"]
        /\ call' \in {call, Refreshed(call, task.cur)}
        /\ UNCHANGED <<sleepers, sent, wire>>
    BY <1>6 DEF TakeAnswer, Take, Provisional
  <2>2. task'.pc = "answer" /\ task'.cur = task.cur BY <1>0, <2>1 DEF Task
  <2>3. /\ call'.reg = call.reg /\ call'.update = call.update
        /\ call'.updates = call.updates
    BY <1>0, <2>1 DEF Refreshed, Call
  <2>4. InvitesOffer' BY <2>1 DEF AgreeInv, InvitesOffer
  <2>5. ASSUME ~wire'.disturbed PROVE Undisturbed'
    <3>1. /\ NoFinal' /\ Fresh
          /\ \A i \in DOMAIN sent : ~OpenOffer(i)
      BY <1>0, <2>1, <2>5, Taken
    <3>2. OffersOpen' BY <2>1, <3>1 DEF OffersOpen, OpenOffer
    <3>3. call'.reg => UpdatesOpen'
      BY <2>1, <2>3, <2>5 DEF AgreeInv, Undisturbed, UpdatesOpen, OpenUpdate
    <3>4. Queued' /\ Settled'
      BY <2>1, <2>2, <3>1 DEF Queued, Settled, Fresh, NoFinal
    <3> QED BY <3>2, <3>3, <3>4 DEF Undisturbed
  <2> QED BY <2>4, <2>5 DEF AgreeInv
<1>7. CASE WaitTimeout
  <2>1. wire'.disturbed = TRUE BY <1>0, <1>7 DEF WaitTimeout, Wire
  <2> QED BY <1>7, <2>1 DEF WaitTimeout, AgreeInv, InvitesOffer
<1>8. CASE HandleTimeout
  <2>1. wire'.disturbed
    BY <1>8 DEF HandleTimeout, AgreeInv, Undisturbed, Settled
  <2> QED BY <1>8, <2>1 DEF HandleTimeout, AgreeInv, InvitesOffer
<1>9. CASE TakeBroken
  <2>1. wire'.disturbed = TRUE BY <1>0, <1>9 DEF TakeBroken, Wire
  <2> QED BY <1>9, <2>1 DEF TakeBroken, AgreeInv, InvitesOffer
<1> QED
  BY <1>1, <1>2, <1>3, <1>4, <1>5, <1>6, <1>7, <1>8, <1>9, RingTaken
  DEF TaskStep

\* B's first answer to an UPDATE without a body.
LEMMA UpdateReply ==
  ASSUME Inv, AgreeInv, NEW i \in DOMAIN sent, NEW status \in Reply,
         Pending, ~call.updates, Answers(i, status),
         sent' = Received(i, status), UNCHANGED <<task, queue>>
  PROVE  /\ InvitesOffer'
         /\ ~wire'.disturbed =>
              /\ OffersOpen' /\ Queued' /\ Settled'
              /\ sleepers = 0 /\ \A j \in DOMAIN sent' : ~OpenUpdate(j)'
<1>1. TypeOK /\ InvitesOffer BY DEF Inv, AgreeInv
<1>2. InvitesOffer' BY <1>1, FirstReply
<1>3. task.pc = "idle"
  BY RealRequest DEF Pending, StillPending, Inv, ExclusiveExchange
<1>4. ASSUME ~wire'.disturbed
      PROVE  /\ OffersOpen' /\ Queued' /\ Settled'
             /\ sleepers = 0 /\ \A j \in DOMAIN sent' : ~OpenUpdate(j)'
  <2>1. /\ ~wire.disturbed
        /\ OpenOffer(i) \/ OpenUpdate(i)
        /\ DOMAIN sent' = DOMAIN sent
        /\ \A j \in DOMAIN sent :
             /\ sent'[j].for = sent[j].for
             /\ OpenOffer(j)' <=> OpenOffer(j) /\ j # i
             /\ OpenUpdate(j)' <=> OpenUpdate(j) /\ j # i
        /\ wire'.aSession = wire.aSession
        /\ wire'.bSession = IF status = "2xx" /\ sent[i].offer
                            THEN sent[i].for ELSE wire.bSession
    BY <1>1, <1>4, FirstReply
  <2>2. Undisturbed /\ call.reg BY <2>1 DEF AgreeInv, Pending, StillPending
  <2>3. /\ Even /\ NoFinal /\ \A j \in DOMAIN sent : ~OpenOffer(j)
    BY <1>3, <2>2 DEF Undisturbed, Settled, Queued, OffersOpen, NoFinal
  <2>4. OpenUpdate(i) /\ ~sent[i].offer BY <2>1, <2>3 DEF OpenUpdate
  <2>5. sleepers = 0 /\ \A j \in DOMAIN sent : OpenUpdate(j) => j = i
    BY <2>2, <2>4 DEF Undisturbed, UpdatesOpen
  <2>6. OffersOpen' BY <2>1, <2>3 DEF OffersOpen
  <2>7. Even' BY <2>1, <2>3, <2>4 DEF Even
  <2>9. NoFinal' BY <2>3 DEF NoFinal, FinalAt
  <2>8. Queued' /\ Settled' BY <1>3, <2>7, <2>9 DEF Queued, Settled, NoFinal
  <2> QED BY <2>1, <2>5, <2>6, <2>8
<1> QED BY <1>2, <1>4

LEMMA PeerAgree ==
  ASSUME Inv, AgreeInv, Peer
  PROVE  AgreeInv'
<1>0. /\ call \in Call /\ wire \in Wire /\ sleepers \in Nat
      /\ TypeOK /\ InvitesOffer
  BY DEF Inv, TypeOK, AgreeInv
<1>1. ASSUME NEW i \in DOMAIN sent, NEW status \in Reply,
             \/ InviteAnsweredLate(i) \/ InviteAnswered(i)
             \/ InviteFailed(i, status)
      PROVE  AgreeInv'
  <2>1. PICK s \in Reply :
          /\ Answers(i, s) /\ sent' = Received(i, s)
          /\ queue' \in {queue, Append(queue, [status |-> s, by |-> i])}
    BY <1>1 DEF InviteAnsweredLate, InviteAnswered, InviteFailed, Reply
  <2>2. sent[i].offer /\ UNCHANGED <<task, sleepers>>
    BY <1>0, <1>1 DEF InviteAnsweredLate, InviteAnswered, InviteFailed,
                      InvitesOffer
  <2>3. call'.reg => /\ call.reg
                     /\ call'.update = call.update
                     /\ call'.updates = call.updates
    <3>1. CASE InviteAnsweredLate(i) \/ InviteAnswered(i)
      BY <1>0, <3>1 DEF InviteAnsweredLate, InviteAnswered, Cleaned, Call
    <3>2. CASE InviteFailed(i, status)
      BY <1>0, <3>2 DEF InviteFailed, Finalized, Call
    <3> QED BY <1>1, <3>1, <3>2
  <2> QED BY <2>1, <2>2, <2>3, OfferAnswered
<1>2. ASSUME NEW i \in DOMAIN sent, NEW status \in Reply,
             UpdateQueued(i, status)
      PROVE  AgreeInv'
  <2>1. /\ Pending /\ call.updates /\ Answers(i, status)
        /\ sent' = Received(i, status)
        /\ queue' = Append(queue, [status |-> status, by |-> i])
        /\ UNCHANGED <<call, task, sleepers>>
    BY <1>2 DEF UpdateQueued
  <2>2. CASE sent[i].offer BY <2>1, <2>2, OfferAnswered
  <2>3. CASE ~sent[i].offer
    <3>1. call.reg /\ ~OpenOffer(i)
      BY <2>1, <2>3 DEF OpenOffer, Pending, StillPending
    <3>2. InvitesOffer' /\ (~wire'.disturbed => ~wire.disturbed /\ OpenUpdate(i))
      BY <1>0, <2>1, <3>1, FirstReply
    <3>3. wire'.disturbed
      BY <2>1, <3>1, <3>2 DEF AgreeInv, Undisturbed, UpdatesOpen
    <3> QED BY <3>2, <3>3 DEF AgreeInv
  <2> QED BY <2>2, <2>3
<1>3. ASSUME NEW i \in DOMAIN sent, UpdateGlare(i)
      PROVE  AgreeInv'
  <2>1. /\ Pending /\ ~call.updates /\ Answers(i, "491")
        /\ sent' = Received(i, "491") /\ UNCHANGED <<task, queue>>
        /\ call' = [call EXCEPT !.retried = TRUE] /\ sleepers' = sleepers + 1
        /\ "491" \in Reply
    BY <1>3 DEF UpdateGlare, Reply
  <2>2. /\ InvitesOffer'
        /\ ~wire'.disturbed =>
             /\ OffersOpen' /\ Queued' /\ Settled'
             /\ sleepers = 0 /\ \A j \in DOMAIN sent' : ~OpenUpdate(j)'
    BY <2>1, UpdateReply
  <2>3. call'.update # None /\ ~call'.updates
    BY <1>0, <2>1 DEF Pending, StillPending, Call
  <2>4. ~wire'.disturbed => UpdatesOpen'
    BY <2>1, <2>2, <2>3 DEF UpdatesOpen
  <2> QED BY <2>2, <2>4 DEF AgreeInv, Undisturbed
<1>4. ASSUME NEW i \in DOMAIN sent, NEW status \in Reply,
             UpdateAnswered(i, status)
      PROVE  AgreeInv'
  <2>1. /\ Pending /\ ~call.updates /\ Answers(i, status)
        /\ sent' = Received(i, status) /\ UNCHANGED <<task, queue, sleepers>>
    BY <1>4 DEF UpdateAnswered
  <2>2. /\ InvitesOffer'
        /\ ~wire'.disturbed =>
             /\ OffersOpen' /\ Queued' /\ Settled'
             /\ sleepers = 0 /\ \A j \in DOMAIN sent' : ~OpenUpdate(j)'
    BY <2>1, UpdateReply
  <2>3. ~wire'.disturbed => UpdatesOpen'
    BY <2>1, <2>2 DEF UpdatesOpen
  <2> QED BY <2>2, <2>3 DEF AgreeInv, Undisturbed
<1>5. ASSUME NEW i \in DOMAIN sent, NEW status \in Reply,
             UpdateIgnored(i, status)
      PROVE  AgreeInv'
  <2>1. /\ ~Pending /\ Answers(i, status) /\ sent' = Received(i, status)
        /\ UNCHANGED <<task, queue, sleepers>>
    BY <1>5 DEF UpdateIgnored
  <2>2. call'.reg => /\ call.reg
                     /\ call'.update = call.update
                     /\ call'.updates = call.updates
    BY <1>0, <1>5 DEF UpdateIgnored, Finalized, Call
  <2>3. CASE sent[i].offer BY <2>1, <2>2, <2>3, OfferAnswered
  <2>4. CASE ~sent[i].offer
    <3>1. InvitesOffer' BY <1>0, <2>1, FirstReply
    <3>2. ASSUME ~wire'.disturbed PROVE Undisturbed'
      <4>1. /\ ~wire.disturbed
            /\ OpenOffer(i) \/ OpenUpdate(i)
            /\ DOMAIN sent' = DOMAIN sent
            /\ \A j \in DOMAIN sent :
                 /\ sent'[j].for = sent[j].for
                 /\ OpenOffer(j)' <=> OpenOffer(j) /\ j # i
                 /\ OpenUpdate(j)' <=> OpenUpdate(j) /\ j # i
            /\ wire'.aSession = wire.aSession
            /\ wire'.bSession = IF status = "2xx" /\ sent[i].offer
                                THEN sent[i].for ELSE wire.bSession
        BY <1>0, <2>1, <3>2, FirstReply
      <4>2. Undisturbed /\ OpenUpdate(i)
        BY <2>4, <4>1 DEF AgreeInv, OpenOffer
      <4>3. (Even' <=> Even) /\ (Fresh' <=> Fresh)
        BY <2>1, <2>4, <4>1 DEF Even, Fresh
      <4>7. (NoFinal' <=> NoFinal) /\ \A j \in DOMAIN queue : FinalAt(j)' <=> FinalAt(j)
        BY <2>1 DEF NoFinal, FinalAt
      <4>4. OffersOpen'
        BY <2>1, <4>1, <4>2, <4>3, <4>7 DEF Undisturbed, OffersOpen
      <4>5. ~call'.reg
        BY <2>1, <2>2, <4>2
        DEF Undisturbed, UpdatesOpen, Pending, StillPending
      <4>6. Queued' /\ Settled'
        BY <2>1, <4>2, <4>3, <4>7 DEF Undisturbed, Queued, Settled
      <4> QED BY <4>4, <4>5, <4>6 DEF Undisturbed
    <3> QED BY <3>1, <3>2 DEF AgreeInv
  <2> QED BY <2>3, <2>4
<1>6. CASE FirstAnswerAgain
  <2>1. wire'.disturbed = TRUE BY <1>0, <1>6 DEF FirstAnswerAgain, Wire
  <2> QED BY <1>6, <2>1 DEF FirstAnswerAgain, AgreeInv, InvitesOffer
<1>7. CASE ByeAnswered
  BY <1>0, <1>7, QuietAgree DEF ByeAnswered, Finalized, Call
<1>8. CASE PeerHangsUp
  BY <1>0, <1>8, QuietAgree DEF PeerHangsUp, Call
<1>9. CASE RelayToCaller
  <2>1. /\ wire'.disturbed = wire.disturbed
        /\ wire'.aSession = wire.aSession /\ wire'.bSession = wire.bSession
    BY <1>0, <1>9 DEF RelayToCaller, Wire
  <2>2. /\ call'.reg = call.reg /\ call'.update = call.update
        /\ call'.updates = call.updates
    BY <1>0, <1>9 DEF RelayToCaller, Call
  <2> QED BY <1>9, <2>1, <2>2, QuietAgree DEF RelayToCaller
<1> QED
  BY <1>1, <1>2, <1>3, <1>4, <1>5, <1>6, <1>7, <1>8, <1>9, RingQueued
  DEF Peer, Reply

LEMMA CallerAgree ==
  ASSUME Inv, AgreeInv, Caller
  PROVE  AgreeInv'
<1>0. call \in Call BY DEF Inv, TypeOK
<1>1. ASSUME NEW n \in Requests,
             NoDialog(n) \/ OutOfOrder(n) \/ Glare(n) \/ NoAudio(n)
      PROVE  AgreeInv'
  <2>1. Refused(n) BY <1>1 DEF NoDialog, OutOfOrder, Glare, NoAudio
  <2> QED BY <2>1, QuietAgree DEF Refused
<1>2. CASE CallerHangsUp
  BY <1>0, <1>2, QuietAgree DEF CallerHangsUp, Call
<1> QED BY <1>1, <1>2, StartOfferAgree, UpdateTargetAgree DEF Caller

LEMMA TimersAgree ==
  ASSUME Inv, AgreeInv, Timers
  PROVE  AgreeInv'
<1>0. /\ call \in Call /\ wire \in Wire /\ sleepers \in Nat
      /\ TypeOK /\ InvitesOffer
  BY DEF Inv, TypeOK, AgreeInv
<1>1. CASE FinalizeLater
  BY <1>0, <1>1, QuietAgree DEF FinalizeLater, Finalized, Call
<1>2. ASSUME NEW i \in DOMAIN sent, InviteTimeout(i)
      PROVE  AgreeInv'
  <2>1. wire'.disturbed = TRUE BY <1>0, <1>2 DEF InviteTimeout, Wire
  <2>2. sent[i] \in Sent /\ i \in 1..Len(sent) /\ sent \in Seq(Sent)
    BY <1>0 DEF TypeOK
  <2>3. /\ DOMAIN sent' = DOMAIN sent
        /\ \A j \in DOMAIN sent : /\ sent'[j].method = sent[j].method
                                  /\ sent'[j].offer = sent[j].offer
    BY <1>2, <2>2 DEF InviteTimeout, Sent
  <2>4. InvitesOffer' BY <1>0, <2>3 DEF InvitesOffer
  <2> QED BY <2>1, <2>4 DEF AgreeInv
<1>3. CASE RetryUpdate
  <2>1. /\ sleepers > 0 /\ sleepers' = sleepers - 1
        /\ UNCHANGED <<call, task, queue, wire>>
        /\ sent' = IF StillPending(call)
                   THEN WithRequest(sent, "UPDATE", call.update, FALSE)
                   ELSE sent
    BY <1>3 DEF RetryUpdate
  <2>2. CASE StillPending(call)
    <3>1. call.reg /\ call.update \in Requests
      BY <1>0, <2>2 DEF StillPending, Call
    <3>2. /\ InvitesOffer'
          /\ \A j \in DOMAIN sent' :
               \/ /\ j \in DOMAIN sent /\ sent'[j] = sent[j]
                  /\ OpenOffer(j)' <=> OpenOffer(j)
                  /\ OpenUpdate(j)' <=> OpenUpdate(j)
               \/ /\ j = Len(sent) + 1 /\ sent'[j].for = call.update
                  /\ OpenOffer(j)' <=> FALSE
                  /\ OpenUpdate(j)' <=> ~FALSE
      BY <1>0, <2>1, <2>2, <3>1, AddedOpen
    <3>3. ASSUME ~wire'.disturbed PROVE Undisturbed'
      <4>1. Undisturbed BY <2>1, <3>3 DEF AgreeInv
      <4>2. /\ call.update # None /\ ~call.updates /\ sleepers = 1
            /\ \A j \in DOMAIN sent : ~OpenUpdate(j)
        BY <2>1, <3>1, <4>1 DEF Undisturbed, UpdatesOpen
      <4>3. \A j \in DOMAIN sent' : OpenUpdate(j)' => j = Len(sent) + 1
        BY <3>2, <4>2
      <4>4. call'.update # None /\ ~call'.updates /\ sleepers' = 0
        BY <2>1, <4>2
      <4>5. ~(sleepers' > 0) BY <4>4
      <4>6. UpdatesOpen' BY <4>3, <4>4, <4>5, Zenon DEF UpdatesOpen
      <4>7. OffersOpen'
        BY <2>1, <3>2, <4>1
        DEF Undisturbed, OffersOpen, Even, NoFinal, FinalAt
      <4>8. Queued' /\ Settled'
        BY <2>1, <4>1 DEF Undisturbed, Queued, Settled, Even, Fresh, FinalAt
      <4> QED BY <4>6, <4>7, <4>8 DEF Undisturbed
    <3> QED BY <3>2, <3>3 DEF AgreeInv
  <2>3. CASE ~StillPending(call)
    <3>1. sent' = sent BY <2>1, <2>3
    <3>2. InvitesOffer' BY <1>0, <3>1 DEF InvitesOffer
    <3>3. ASSUME ~wire'.disturbed PROVE Undisturbed'
      <4>1. Undisturbed BY <2>1, <3>3 DEF AgreeInv
      <4>2. ~call'.reg
        BY <2>1, <2>3, <4>1 DEF Undisturbed, UpdatesOpen, StillPending
      <4>3. OffersOpen'
        BY <2>1, <3>1, <4>1
        DEF Undisturbed, OffersOpen, OpenOffer, Even, NoFinal, FinalAt
      <4>4. Queued' /\ Settled'
        BY <2>1, <4>1 DEF Undisturbed, Queued, Settled, Even, Fresh, FinalAt
      <4> QED BY <4>2, <4>3, <4>4 DEF Undisturbed
    <3> QED BY <3>2, <3>3 DEF AgreeInv
  <2> QED BY <2>2, <2>3
<1> QED BY <1>1, <1>2, <1>3 DEF Timers

\* Refusals, retries after a 491, provisional responses, hangups, finalizers and
\* requests of B leave the caller and B with the same session whenever nothing is
\* in progress, as long as no wait timed out, RTPengine did not fail after B's
\* answer, no response of B came twice and none without a valid RSeq ended a task.
THEOREM SessionsAlwaysAgree == Spec => []SessionsAgree
<1>1. Init => AgreeInv
  BY DEF Init, Idle, AgreeInv, InvitesOffer, Undisturbed, OffersOpen,
         UpdatesOpen, Queued, Settled, Even
<1>2. Inv /\ AgreeInv /\ [Next]_vars => AgreeInv'
  <2> SUFFICES ASSUME Inv, AgreeInv, [Next]_vars PROVE AgreeInv' OBVIOUS
  <2>1. CASE UNCHANGED vars BY <2>1, QuietAgree DEF vars
  <2>2. CASE Next
    BY <2>2, CallerAgree, TaskStepAgree, PeerAgree, TimersAgree DEF Next
  <2> QED BY <2>1, <2>2
<1>3. AgreeInv => SessionsAgree
  BY DEF AgreeInv, Undisturbed, Settled, Even, SessionsAgree
<1> QED BY <1>1, <1>2, <1>3, InvInitially, InvPreserved, PTL DEF Spec

=============================================================================
