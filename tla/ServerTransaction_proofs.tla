---------------------- MODULE ServerTransaction_proofs ----------------------
(***************************************************************************)
(* Proofs about ServerTransaction for any set of requests, any relation of *)
(* merged copies, any timers, with and without the overload gate.          *)
(*                                                                         *)
(* A request at work that the gate left alone has a transaction without a  *)
(* deadline (AtWork), so that no lookup and no expiry removes it; it still *)
(* carries its merge_id, so that a copy is recognised.  Its Timer G task   *)
(* was never started (NoTimerYet): the failure that comes will start one.  *)
(* Conversely a request that waits for its response has its handler at     *)
(* work (HandlerWorks), so its transaction takes the steps that call       *)
(* control has for it (AsCallSees).                                        *)
(***************************************************************************)
EXTENDS ServerTransaction, TLAPS

Pending(x) == x.state \in {"TRYING", "PROCEEDING"}

AtWork(k) ==
  tu[k] = "working" /\ ~Shedded(k) => Pending(txn[k]) /\ txn[k].expires = NoTime /\ txn[k].merging
NoTimerYet(k) == ~Shedded(k) /\ Pending(txn[k]) => txn[k].task = "none"
TimerG(k) ==
  k \in Invites \ Reliable /\ txn[k].state = "COMPLETED" /\ ~Shedded(k) => txn[k].task = "running"
Served(k) == AtWork(k) /\ NoTimerYet(k) /\ TimerG(k)

IInv == TypeOK /\ (\A k \in Keys : Served(k)) /\ MergedOnce

-----------------------------------------------------------------------------
(* The table's operators.                                                  *)

\* The absent transaction has the type of a transaction.
LEMMA AbsentType == Absent \in Txn /\ NoTime \notin 0..TimerH
BY TimerAssumption, SMT DEF Absent, Txn, NoTime, NoResponse

\* cleanup_expired leaves a table.
LEMMA CleanedType ==
  ASSUME NEW t \in [Keys -> Txn]
  PROVE  Cleaned(t) \in [Keys -> Txn]
BY AbsentType DEF Cleaned

\* A new transaction is in its table.
LEMMA StartedType ==
  ASSUME NEW t \in [Keys -> Txn], NEW k \in Keys, NEW m \in BOOLEAN
  PROVE  Started(t, k, m) \in [Keys -> Txn]
<1>1. [Absent EXCEPT !.state = "TRYING", !.merging = m] \in Txn
  BY AbsentType DEF Txn, Absent
<1> QED BY <1>1 DEF Started

\* Timer G's pauses stay below T2.
LEMMA BackOffType == ASSUME NEW i \in 0..T2 PROVE BackOff(i) \in 0..T2
BY TimerAssumption DEF BackOff

Statuses == {"1xx", "2xx", "fail", "482", "503"}

\* A transaction that a failure completes is a transaction.
LEMMA CompletedType ==
  ASSUME NEW y \in Txn
  PROVE  [y EXCEPT !.state = "COMPLETED", !.expires = TimerH] \in Txn
<1>1. TimerH \in {NoTime} \cup 0..TimerH BY TimerAssumption
<1> QED BY <1>1 DEF Txn

\* A response leaves a transaction, of an INVITE or of another request.
LEMMA CachedType ==
  ASSUME NEW k \in Keys, NEW x \in Txn, NEW status \in Statuses
  PROVE  Cached(k, x, status) \in Txn
<1> DEFINE y == [x EXCEPT !.cached = status]
           c == [y EXCEPT !.state = "COMPLETED", !.expires = TimerH]
<1>1. y \in Txn BY DEF Txn, Statuses
<1>2. c \in Txn BY <1>1, CompletedType
<1>3. Retransmitting(c) \in Txn
  <2>1. T1 \in 0..T2 BY TimerAssumption
  <2> HIDE DEF c
  <2> QED BY <1>2, <2>1 DEF Retransmitting, Txn
<1>4. CASE status = "1xx"
  BY <1>1, <1>4 DEF Cached, Txn
<1>5. CASE status = "2xx" /\ k \in Invites
  <2>1. Cached(k, x, status) = [y EXCEPT !.state = "ACCEPTED", !.expires = TimerH]
    BY <1>5 DEF Cached
  <2>2. TimerH \in {NoTime} \cup 0..TimerH BY TimerAssumption
  <2> HIDE DEF y
  <2> QED BY <1>1, <2>1, <2>2 DEF Txn
<1>6. CASE status \notin {"1xx", "2xx"} /\ k \in Invites
  BY <1>2, <1>3, <1>6 DEF Cached
<1>7. CASE status # "1xx" /\ k \notin Invites
  BY <1>2, <1>7, AbsentType DEF Cached
<1> QED BY <1>4, <1>5, <1>6, <1>7

\* What a response does to the transactions of the table.
LEMMA CacheResponseIs ==
  ASSUME NEW t \in [Keys -> Txn], NEW k \in Keys, NEW status \in Statuses
  PROVE  LET u == IF Has(t, k) THEN t ELSE Started(Cleaned(t), k, FALSE)
         IN /\ u \in [Keys -> Txn]
            /\ CacheResponse(t, k, status) = [u EXCEPT ![k] = Cached(k, u[k], status)]
            /\ CacheResponse(t, k, status) \in [Keys -> Txn]
<1> DEFINE u == IF Has(t, k) THEN t ELSE Started(Cleaned(t), k, FALSE)
<1>1. u \in [Keys -> Txn] BY CleanedType, StartedType
<1>2. Cached(k, u[k], status) \in Txn BY <1>1, CachedType
<1>3. CacheResponse(t, k, status) = [u EXCEPT ![k] = Cached(k, u[k], status)]
  BY DEF CacheResponse
<1> QED BY <1>1, <1>2, <1>3

-----------------------------------------------------------------------------
(* What a step leaves alone.                                               *)

\* A request that a step touches at most by a clean-up stays served.
LEMMA Untouched ==
  ASSUME TypeOK, NEW j \in Keys, Served(j),
         txn'[j] \in {txn[j], Cleaned(txn)[j]}, tu'[j] = tu[j],
         finals'[j] = finals[j]
  PROVE  Served(j)'
<1>1. txn'[j] = txn[j] \/ (txn[j].expires = 0 /\ txn'[j] = Absent)
  BY DEF Cleaned
<1>2. CASE txn'[j] = txn[j]
  BY <1>2 DEF Served, AtWork, NoTimerYet, TimerG, Shedded
<1>3. CASE txn[j].expires = 0 /\ txn'[j] = Absent
  BY <1>3 DEF Served, AtWork, NoTimerYet, TimerG, Shedded, Absent, Pending, NoTime
<1> QED BY <1>1, <1>2, <1>3

\* No new copy is at work when no request starts to be and no shedding is undone.
LEMMA NoNewCopy ==
  ASSUME MergedOnce,
         \A k \in Keys : tu'[k] = "working" => tu[k] = "working",
         \A k \in Keys : finals[k] \subseteq finals'[k]
  PROVE  MergedOnce'
BY KeyAssumption DEF MergedOnce, Shedded

\* Sending keeps the type, leaves the other requests but for a clean-up, and
\* forgets nothing that was sent.
LEMMA SendsIs ==
  ASSUME TypeOK, NEW t \in {txn, Cleaned(txn)}, NEW k \in Keys,
         NEW status \in Statuses, Sends(t, k, status)
  PROVE  /\ txn' \in [Keys -> Txn]
         /\ txn' = CacheResponse(t, k, status)
         /\ finals' \in [Keys -> SUBSET {"2xx", "fail", "482", "503"}]
         /\ \A j \in Keys : finals[j] \subseteq finals'[j]
         /\ \A j \in Keys \ {k} :
              finals'[j] = finals[j] /\ txn'[j] \in {txn[j], Cleaned(txn)[j]}
         /\ status # "1xx" => status \in finals'[k]
         /\ finals'[k] \subseteq finals[k] \cup {status}
<1>1. t \in [Keys -> Txn] BY CleanedType DEF TypeOK
<1>2. txn' \in [Keys -> Txn] /\ txn' = CacheResponse(t, k, status)
  BY <1>1, CacheResponseIs DEF Sends
<1>3. ASSUME NEW j \in Keys \ {k}
      PROVE  txn'[j] \in {txn[j], Cleaned(txn)[j]}
  <2> DEFINE u == IF Has(t, k) THEN t ELSE Started(Cleaned(t), k, FALSE)
  <2>1. u \in [Keys -> Txn] /\ txn' = [u EXCEPT ![k] = Cached(k, u[k], status)]
    BY <1>1, <1>2, CacheResponseIs
  <2>2. txn'[j] = u[j]
    <3> HIDE DEF u
    <3> QED BY <2>1
  <2>3. u[j] \in {t[j], Cleaned(t)[j]}
    BY CleanedType, <1>1 DEF Started
  <2>4. {t[j], Cleaned(t)[j]} \subseteq {txn[j], Cleaned(txn)[j]}
    BY DEF Cleaned, Absent
  <2> QED BY <2>2, <2>3, <2>4
<1>4. /\ finals' \in [Keys -> SUBSET {"2xx", "fail", "482", "503"}]
      /\ \A j \in Keys : finals[j] \subseteq finals'[j]
      /\ \A j \in Keys \ {k} : finals'[j] = finals[j]
      /\ status # "1xx" => status \in finals'[k]
      /\ finals'[k] \subseteq finals[k] \cup {status}
  BY DEF TypeOK, Sends, Statuses
<1> QED BY <1>2, <1>3, <1>4

-----------------------------------------------------------------------------
(* The steps.                                                              *)

\* What a response makes of the transaction x that it answers.
Outcome(k, x, status, z) ==
  /\ status = "1xx" =>
       z.state = "PROCEEDING" /\ z.task = x.task /\ z.expires = x.expires
         /\ z.merging = x.merging
  /\ status # "1xx" => ~Pending(z)
  /\ z.state # "CONFIRMED"
  /\ status = "2xx" /\ k \in Invites => z.state # "COMPLETED"
  /\ status \notin {"1xx", "2xx"} /\ k \in Invites \ Reliable /\ x.task = "none" =>
       z.task = "running"

\* A response has that outcome.
LEMMA CachedIs ==
  ASSUME NEW k \in Keys, NEW x \in Txn, NEW status \in Statuses
  PROVE  Outcome(k, x, status, Cached(k, x, status))
<1> DEFINE y == [x EXCEPT !.cached = status]
           c == [y EXCEPT !.state = "COMPLETED", !.expires = TimerH]
           z == Cached(k, x, status)
<1> SUFFICES Outcome(k, x, status, z) OBVIOUS
<1>0. y \in Txn /\ y.state = x.state /\ y.task = x.task /\ y.expires = x.expires
        /\ y.merging = x.merging
  BY DEF Txn, Statuses
<1>1. c.state = "COMPLETED" /\ c.task = x.task
  <2> HIDE DEF y
  <2> QED BY <1>0 DEF Txn
<1>2. CASE status = "1xx"
  <2>1. z = [y EXCEPT !.state = "PROCEEDING"] BY <1>2 DEF Cached
  <2> HIDE DEF y, z
  <2> QED BY <1>0, <1>2, <2>1 DEF Txn, Pending, Outcome
<1>3. CASE status = "2xx" /\ k \in Invites
  <2>1. z = [y EXCEPT !.state = "ACCEPTED", !.expires = TimerH] BY <1>3 DEF Cached
  <2> HIDE DEF y, z
  <2> QED BY <1>0, <1>3, <2>1 DEF Txn, Pending, Outcome
<1>4. CASE status \notin {"1xx", "2xx"} /\ k \in Invites
  <2>1. z = IF k \in Reliable THEN c ELSE Retransmitting(c) BY <1>4 DEF Cached
  <2>2. c \in Txn BY <1>0, CompletedType
  <2> HIDE DEF c, z
  <2>3. /\ Retransmitting(c).state = "COMPLETED"
        /\ c.task = "none" => Retransmitting(c).task = "running"
    BY <1>1, <2>2 DEF Retransmitting, Txn
  <2> QED BY <1>1, <1>4, <2>1, <2>3 DEF Pending, Outcome
<1>5. CASE status # "1xx" /\ k \notin Invites
  <2>1. z = IF k \in Reliable THEN Absent ELSE c BY <1>5 DEF Cached
  <2> HIDE DEF c, z
  <2> QED BY <1>1, <1>5, <2>1 DEF Pending, Outcome, Absent
<1> QED BY <1>2, <1>3, <1>4, <1>5

\* The transaction that a response answers, found or made.
LEMMA SendsAt ==
  ASSUME TypeOK, NEW t \in {txn, Cleaned(txn)}, NEW k \in Keys,
         NEW status \in Statuses, Sends(t, k, status)
  PROVE  \E x \in Txn :
           /\ txn'[k] = Cached(k, x, status)
           /\ IF Has(t, k) THEN x = t[k]
              ELSE x = [Absent EXCEPT !.state = "TRYING", !.merging = FALSE]
<1> DEFINE u == IF Has(t, k) THEN t ELSE Started(Cleaned(t), k, FALSE)
<1>1. t \in [Keys -> Txn] BY CleanedType DEF TypeOK
<1>2. u \in [Keys -> Txn] /\ txn' = [u EXCEPT ![k] = Cached(k, u[k], status)]
  <2>1. txn' = CacheResponse(t, k, status) BY SendsIs
  <2> QED BY <1>1, <2>1, CacheResponseIs
<1>3. u[k] \in Txn /\ txn'[k] = Cached(k, u[k], status)
  <2> HIDE DEF u
  <2> QED BY <1>2
<1>4. IF Has(t, k) THEN u[k] = t[k]
      ELSE u[k] = [Absent EXCEPT !.state = "TRYING", !.merging = FALSE]
  BY <1>1, CleanedType DEF Started
<1> QED BY <1>3, <1>4

-----------------------------------------------------------------------------
(* The steps.  Each keeps the type and every request served; only the      *)
(* start of a handler can put a copy to work.                              *)

StepKept == TypeOK' /\ (\A j \in Keys : Served(j)') /\ MergedOnce'

\* A request is looked up: replayed, answered 482 or handed to its handler.
LEMMA ReceiveKept == ASSUME IInv, NEW k \in Keys, Receive(k) PROVE StepKept
<1> DEFINE t == Cleaned(txn)
<1>0. TypeOK /\ MergedOnce /\ t \in [Keys -> Txn] /\ (\A j \in Keys : Served(j))
  BY CleanedType DEF IInv, TypeOK
<1>1. CASE Has(t, k)
  <2>1. txn' = t /\ tu' = tu /\ finals' = finals /\ acked' = acked
    BY <1>1 DEF Receive
  <2>2. TypeOK' BY <1>0, <2>1 DEF TypeOK
  <2>3. ASSUME NEW j \in Keys PROVE Served(j)'
    BY <1>0, <2>1, Untouched
  <2>4. MergedOnce' BY <1>0, <2>1 DEF MergedOnce, Shedded
  <2> QED BY <2>2, <2>3, <2>4 DEF StepKept
<1>2. CASE ~Has(t, k) /\ Merged(t, k)
  <2>1. Sends(t, k, "482") /\ tu' = tu /\ acked' = acked
    BY <1>2 DEF Receive
  <2>2. "482" \in Statuses /\ t \in {txn, Cleaned(txn)} BY DEF Statuses
  <2> HIDE DEF t
  <2>3. TypeOK' BY <1>0, <2>1, <2>2, SendsIs DEF TypeOK
  <2>4. ASSUME NEW j \in Keys \ {k} PROVE Served(j)'
    BY <1>0, <2>1, <2>2, SendsIs, Untouched
  <2>5. Served(k)'
    <3>1. PICK x \in Txn : /\ txn'[k] = Cached(k, x, "482")
                           /\ x = [Absent EXCEPT !.state = "TRYING", !.merging = FALSE]
      BY <1>0, <1>2, <2>1, <2>2, SendsAt
    <3>2. x.task = "none" BY <3>1 DEF Absent
    <3>3. ~Pending(txn'[k]) /\ (k \in Invites \ Reliable => txn'[k].task = "running")
      <4>1. Outcome(k, x, "482", txn'[k]) BY <2>2, <3>1, CachedIs
      <4> QED BY <3>2, <4>1 DEF Outcome
    <3>4. tu[k] # "working" \/ Shedded(k)
      BY <1>0, <1>2 DEF Served, AtWork, Pending, Has, t, Cleaned, NoTime
    <3>5. finals[k] \subseteq finals'[k] BY <1>0, <2>1, <2>2, SendsIs
    <3> QED BY <2>1, <3>3, <3>4, <3>5 DEF Served, AtWork, NoTimerYet, TimerG, Shedded
  <2>6. MergedOnce' BY <1>0, <2>1, <2>2, SendsIs, NoNewCopy
  <2> QED BY <2>3, <2>4, <2>5, <2>6 DEF StepKept
<1>3. CASE ~Has(t, k) /\ ~Merged(t, k)
  <2>1. /\ txn' = Started(t, k, TRUE) /\ tu' = [tu EXCEPT ![k] = "working"]
        /\ finals' = finals /\ acked' = acked
    BY <1>3 DEF Receive
  <2>2. TypeOK' BY <1>0, <2>1, StartedType DEF TypeOK
  <2>3. ASSUME NEW j \in Keys \ {k} PROVE Served(j)'
    <3>1. txn'[j] = t[j] /\ tu'[j] = tu[j] /\ finals'[j] = finals[j]
      BY <1>0, <2>1 DEF Started, TypeOK
    <3> QED BY <1>0, <3>1, Untouched
  <2>4. Served(k)'
    <3>1. txn'[k] = [Absent EXCEPT !.state = "TRYING", !.merging = TRUE]
      BY <1>0, <2>1 DEF Started
    <3> QED BY <3>1 DEF Served, AtWork, NoTimerYet, TimerG, Pending, Absent
  <2>5. ASSUME NEW j \in SameCall[k] PROVE tu[j] # "working" \/ Shedded(j)
    <3>1. j \in Keys BY KeyAssumption
    <3>2. ~(Has(t, j) /\ t[j].merging) BY <1>3 DEF Merged
    <3> QED BY <1>0, <3>1, <3>2 DEF Served, AtWork, Pending, Has, Cleaned, NoTime
  <2>6. MergedOnce'
    <3> SUFFICES ASSUME NEW i \in Keys, NEW j \in SameCall[i],
                        tu'[i] = "working", tu'[j] = "working"
                 PROVE  Shedded(i) \/ Shedded(j)
      BY <2>1 DEF MergedOnce, Shedded
    <3>1. j \in Keys /\ j # i /\ i \in SameCall[j] BY KeyAssumption
    <3>2. CASE i = k BY <1>0, <2>1, <2>5, <3>1, <3>2 DEF TypeOK
    <3>3. CASE j = k BY <1>0, <2>1, <2>5, <3>1, <3>3 DEF TypeOK
    <3>4. CASE i # k /\ j # k BY <1>0, <2>1, <3>1, <3>4 DEF TypeOK, MergedOnce
    <3> QED BY <3>2, <3>3, <3>4
  <2> QED BY <2>2, <2>3, <2>4, <2>6 DEF StepKept
<1> QED BY <1>1, <1>2, <1>3

\* The gate answers a request: that request is shed, the others are served.
LEMMA ShedKept == ASSUME IInv, NEW k \in Keys, Shed(k) PROVE StepKept
<1>0. TypeOK /\ MergedOnce /\ (\A j \in Keys : Served(j)) BY DEF IInv
<1>1. Sends(txn, k, "503") /\ tu' = tu /\ acked' = acked /\ "503" \in Statuses
  BY DEF Shed, Statuses
<1>2. TypeOK' BY <1>0, <1>1, SendsIs DEF TypeOK
<1>3. ASSUME NEW j \in Keys \ {k} PROVE Served(j)'
  BY <1>0, <1>1, SendsIs, Untouched
<1>4. Served(k)'
  BY <1>0, <1>1, SendsIs DEF Served, AtWork, NoTimerYet, TimerG, Shedded
<1>5. MergedOnce' BY <1>0, <1>1, SendsIs, NoNewCopy
<1> QED BY <1>2, <1>3, <1>4, <1>5 DEF StepKept

\* The handler of a request responds.
LEMMA RespondKept ==
  ASSUME IInv, NEW k \in Keys, NEW status \in {"1xx", "2xx", "fail"}, Respond(k, status)
  PROVE  StepKept
<1>0. TypeOK /\ MergedOnce /\ (\A j \in Keys : Served(j)) BY DEF IInv
<1>1. /\ Sends(txn, k, status) /\ acked' = acked /\ status \in Statuses
      /\ tu' = IF status = "1xx" THEN tu ELSE [tu EXCEPT ![k] = "idle"]
      /\ tu[k] = "working"
  BY DEF Respond, Statuses
<1>2. TypeOK' BY <1>0, <1>1, SendsIs DEF TypeOK
<1>3. \A j \in Keys : tu'[j] = IF j = k /\ status # "1xx" THEN "idle" ELSE tu[j]
  BY <1>0, <1>1 DEF TypeOK
<1>4. ASSUME NEW j \in Keys \ {k} PROVE Served(j)'
  BY <1>0, <1>1, <1>3, SendsIs, Untouched
<1>5. Served(k)'
  <2>1. finals[k] \subseteq finals'[k] BY <1>0, <1>1, SendsIs
  <2>2. CASE Shedded(k)
    BY <2>1, <2>2 DEF Served, AtWork, NoTimerYet, TimerG, Shedded
  <2>3. CASE ~Shedded(k)
    <3>1. Pending(txn[k]) /\ txn[k].expires = NoTime /\ txn[k].merging /\ txn[k].task = "none"
      BY <1>0, <1>1, <2>3 DEF Served, AtWork, NoTimerYet
    <3>2. txn[k] \in Txn /\ Has(txn, k) BY <1>0, <3>1 DEF TypeOK, Has, Pending
    <3>3. txn'[k] = Cached(k, txn[k], status) BY <1>0, <1>1, <3>2, SendsAt
    <3>4. CASE status = "1xx"
      BY <1>1, <3>1, <3>2, <3>3, <3>4, CachedIs
         DEF Outcome, Served, AtWork, NoTimerYet, TimerG, Pending
    <3>5. CASE status # "1xx"
      <4>1. tu'[k] # "working" BY <1>3, <3>5
      <4>2. ~Pending(txn'[k]) BY <1>1, <3>2, <3>3, <3>5, CachedIs DEF Outcome
      <4>3. k \in Invites \ Reliable /\ txn'[k].state = "COMPLETED" => txn'[k].task = "running"
        BY <1>1, <3>1, <3>2, <3>3, <3>5, CachedIs DEF Outcome
      <4> QED BY <4>1, <4>2, <4>3 DEF Served, AtWork, NoTimerYet, TimerG
    <3> QED BY <3>4, <3>5
  <2> QED BY <2>2, <2>3
<1>6. MergedOnce' BY <1>0, <1>1, <1>3, SendsIs, NoNewCopy
<1> QED BY <1>2, <1>4, <1>5, <1>6 DEF StepKept

\* An ACK confirms a transaction that was completed.
LEMMA ConfirmedType == ASSUME NEW k \in Keys, NEW x \in Txn PROVE Confirmed(k, x) \in Txn
<1>1. T4 \in {NoTime} \cup 0..TimerH /\ 0 \in 0..T2 BY TimerAssumption
<1>2. CASE k \in Reliable BY <1>2, AbsentType DEF Confirmed
<1>3. CASE k \notin Reliable BY <1>1, <1>3 DEF Confirmed, Txn
<1> QED BY <1>2, <1>3

\* A request is acknowledged: what its handler does is over.
LEMMA AckKept == ASSUME IInv, NEW k \in Keys, Ack(k) PROVE StepKept
<1>0. TypeOK /\ MergedOnce /\ (\A j \in Keys : Served(j)) BY DEF IInv
<1>1. tu' = tu /\ finals' = finals /\ acked' = acked \cup {k} BY DEF Ack
<1>2. CASE txn' = txn
  <2>1. TypeOK' BY <1>0, <1>1, <1>2 DEF TypeOK
  <2>2. \A j \in Keys : Served(j)' BY <1>0, <1>1, <1>2, Untouched
  <2>3. MergedOnce' BY <1>0, <1>1 DEF MergedOnce, Shedded
  <2> QED BY <2>1, <2>2, <2>3 DEF StepKept
<1>3. ASSUME NEW i \in Keys, txn[i].state = "COMPLETED",
             txn' = [txn EXCEPT ![i] = Confirmed(i, @)]
      PROVE  StepKept
  <2>1. Confirmed(i, txn[i]) \in Txn BY <1>0, ConfirmedType DEF TypeOK
  <2>2. /\ txn'[i] = Confirmed(i, txn[i])
        /\ \A j \in Keys \ {i} : txn'[j] = txn[j]
        /\ txn' \in [Keys -> Txn]
    BY <1>0, <1>3, <2>1 DEF TypeOK
  <2>3. TypeOK' BY <1>0, <1>1, <2>2 DEF TypeOK
  <2>4. ASSUME NEW j \in Keys \ {i} PROVE Served(j)'
    BY <1>0, <1>1, <2>2, Untouched
  <2>5. txn'[i].state \in {"CONFIRMED", "ABSENT"}
    BY <1>0, <2>2 DEF Confirmed, Absent, TypeOK, Txn
  <2>6. Served(i)'
    BY <1>0, <1>1, <1>3, <2>5 DEF Served, AtWork, NoTimerYet, TimerG, Pending, Shedded
  <2>7. MergedOnce' BY <1>0, <1>1 DEF MergedOnce, Shedded
  <2> QED BY <2>3, <2>4, <2>6, <2>7 DEF StepKept
<1> QED BY <1>2, <1>3 DEF Ack

\* A turn of Timer G.
LEMMA RetransmitKept == ASSUME IInv, NEW k \in Keys, Retransmit(k) PROVE StepKept
<1>0. TypeOK /\ MergedOnce /\ (\A j \in Keys : Served(j)) BY DEF IInv
<1>1. /\ tu' = tu /\ finals' = finals /\ acked' = acked
      /\ txn[k].task = "running" /\ txn[k] \in Txn
  BY <1>0 DEF Retransmit, TypeOK
<1>2. MergedOnce' BY <1>0, <1>1 DEF MergedOnce, Shedded
<1>3. CASE txn' = Cleaned(txn)
  <2>1. TypeOK' BY <1>0, <1>1, <1>3, CleanedType DEF TypeOK
  <2>2. \A j \in Keys : Served(j)' BY <1>0, <1>1, <1>3, Untouched
  <2> QED BY <1>2, <2>1, <2>2 DEF StepKept
<1>4. ASSUME NEW z \in Txn, txn' = [txn EXCEPT ![k] = z], z.state = txn[k].state,
             \/ z.task = "ended" /\ txn[k].state # "COMPLETED"
             \/ z.task = "running",
             z.expires = txn[k].expires, z.merging = txn[k].merging
      PROVE  StepKept
  <2>1. /\ txn' \in [Keys -> Txn] /\ txn'[k] = z
        /\ \A j \in Keys \ {k} : txn'[j] = txn[j]
    BY <1>0, <1>4 DEF TypeOK
  <2>2. TypeOK' BY <1>0, <1>1, <2>1 DEF TypeOK
  <2>3. ASSUME NEW j \in Keys \ {k} PROVE Served(j)'
    BY <1>0, <1>1, <2>1, Untouched
  <2>4. Served(k)'
    BY <1>0, <1>1, <1>4, <2>1 DEF Served, AtWork, NoTimerYet, TimerG, Pending, Shedded
  <2> QED BY <1>2, <2>2, <2>3, <2>4 DEF StepKept
<1>5. CASE txn[k].state # "COMPLETED"
  <2> DEFINE z == [txn[k] EXCEPT !.task = "ended", !.interval = 0]
  <2>1. txn' = [txn EXCEPT ![k].task = "ended", ![k].interval = 0]
    BY <1>5 DEF Retransmit
  <2>2. txn' = [txn EXCEPT ![k] = z] BY <1>0, <2>1 DEF TypeOK
  <2>3. z \in Txn /\ z.state = txn[k].state /\ z.task = "ended"
          /\ z.expires = txn[k].expires /\ z.merging = txn[k].merging
    <3>1. 0 \in 0..T2 BY TimerAssumption
    <3> QED BY <1>1, <3>1 DEF Txn
  <2> HIDE DEF z
  <2> QED BY <1>4, <1>5, <2>2, <2>3
<1>6. CASE txn[k].state = "COMPLETED" /\ txn[k].expires # 0
  <2> DEFINE b == BackOff(txn[k].interval)
             z == [txn[k] EXCEPT !.wake = b, !.interval = b]
  <2>1. txn' = [txn EXCEPT ![k].wake = b, ![k].interval = b]
    BY <1>0, <1>6 DEF Retransmit, TypeOK
  <2>2. txn' = [txn EXCEPT ![k] = z] BY <1>0, <2>1 DEF TypeOK
  <2>3. b \in 0..T2 BY <1>1, BackOffType DEF Txn
  <2> HIDE DEF b
  <2>4. z \in Txn /\ z.state = txn[k].state /\ z.task = "running"
          /\ z.expires = txn[k].expires /\ z.merging = txn[k].merging
    BY <1>1, <2>3 DEF Txn
  <2> HIDE DEF z
  <2> QED BY <1>4, <2>2, <2>4
<1>7. CASE txn[k].state = "COMPLETED" /\ txn[k].expires = 0
  BY <1>3, <1>7 DEF Retransmit
<1> QED BY <1>5, <1>6, <1>7

\* A transaction expires: none of a request at work, which has no deadline.
LEMMA ExpireKept == ASSUME IInv, NEW k \in Keys, Expire(k) PROVE StepKept
<1>0. TypeOK /\ MergedOnce /\ (\A j \in Keys : Served(j)) BY DEF IInv
<1>1. tu' = tu /\ finals' = finals /\ acked' = acked /\ txn' = [txn EXCEPT ![k] = Absent]
  BY DEF Expire
<1>2. \A j \in Keys : txn'[j] \in {txn[j], Cleaned(txn)[j]}
  BY <1>0, <1>1 DEF Expire, Cleaned, TypeOK
<1>3. TypeOK' BY <1>0, <1>1, AbsentType DEF TypeOK
<1>4. \A j \in Keys : Served(j)' BY <1>0, <1>1, <1>2, Untouched
<1>5. MergedOnce' BY <1>0, <1>1 DEF MergedOnce, Shedded
<1> QED BY <1>3, <1>4, <1>5 DEF StepKept

\* Time passes.
LEMMA TickKept == ASSUME IInv, Tick PROVE StepKept
<1>0. TypeOK /\ MergedOnce /\ (\A j \in Keys : Served(j)) BY DEF IInv
<1>1. tu' = tu /\ finals' = finals /\ acked' = acked
        /\ txn' = [k \in Keys |-> [txn[k] EXCEPT !.expires = Less(@), !.wake = Less(@)]]
  BY DEF Tick
<1>2. ASSUME NEW j \in Keys
      PROVE  /\ txn'[j] \in Txn /\ txn'[j].state = txn[j].state
             /\ txn'[j].task = txn[j].task /\ txn'[j].merging = txn[j].merging
             /\ txn[j].expires = NoTime => txn'[j].expires = NoTime
  <2>1. txn'[j] = [txn[j] EXCEPT !.expires = Less(@), !.wake = Less(@)] /\ txn[j] \in Txn
    BY <1>0, <1>1 DEF TypeOK
  <2>2. Less(txn[j].expires) \in {NoTime} \cup 0..TimerH
          /\ (txn[j].expires = NoTime => Less(txn[j].expires) = NoTime)
    BY <2>1, TimerAssumption DEF Less, Txn, NoTime
  <2>3. Less(txn[j].wake) \in 0..T2
    BY <2>1, TimerAssumption DEF Less, Txn
  <2> QED BY <2>1, <2>2, <2>3 DEF Txn
<1>3. TypeOK'
  <2>1. txn' \in [Keys -> Txn] BY <1>1, <1>2
  <2> QED BY <1>0, <1>1, <2>1 DEF TypeOK
<1>4. ASSUME NEW j \in Keys PROVE Served(j)'
  BY <1>0, <1>1, <1>2 DEF Served, AtWork, NoTimerYet, TimerG, Pending, Shedded
<1>5. MergedOnce' BY <1>0, <1>1 DEF MergedOnce, Shedded
<1> QED BY <1>3, <1>4, <1>5 DEF StepKept

-----------------------------------------------------------------------------
(* What confirms a transaction.                                            *)

Confirms(k) == txn[k].state # "CONFIRMED" /\ txn'[k].state = "CONFIRMED"

\* No response confirms.
LEMMA SendsConfirmsNone ==
  ASSUME TypeOK, NEW t \in {txn, Cleaned(txn)}, NEW k \in Keys,
         NEW status \in Statuses, Sends(t, k, status), NEW j \in Keys
  PROVE  ~Confirms(j)
<1>1. CASE j # k
  <2>1. txn'[j] \in {txn[j], Cleaned(txn)[j]} BY <1>1, SendsIs
  <2> QED BY <2>1 DEF Confirms, Cleaned, Absent
<1>2. CASE j = k
  <2>1. PICK x \in Txn : txn'[k] = Cached(k, x, status) BY SendsAt
  <2>2. Outcome(k, x, status, txn'[k]) BY <2>1, CachedIs
  <2> QED BY <1>2, <2>2 DEF Outcome, Confirms
<1> QED BY <1>1, <1>2

\* An ACK confirms the transaction of its branch.
LEMMA OnlyAckConfirms ==
  ASSUME TypeOK, Next, NEW j \in Keys, Confirms(j)
  PROVE  j \in acked'
<1>1. CASE Tick
  BY <1>1 DEF Tick, Confirms, TypeOK, Txn
<1>2. ASSUME NEW k \in Keys, Receive(k) PROVE FALSE
  <2> DEFINE t == Cleaned(txn)
  <2>1. CASE txn' = t BY <2>1 DEF Confirms, Cleaned, Absent
  <2>2. CASE Sends(t, k, "482")
    <3>1. "482" \in Statuses BY DEF Statuses
    <3> HIDE DEF t
    <3>2. t \in {txn, Cleaned(txn)} BY DEF t
    <3> QED BY <2>2, <3>1, <3>2, SendsConfirmsNone
  <2>3. CASE txn' = Started(t, k, TRUE)
    BY <2>3, CleanedType DEF Started, Confirms, Cleaned, Absent, TypeOK
  <2> QED BY <1>2, <2>1, <2>2, <2>3 DEF Receive
<1>3. ASSUME NEW k \in Keys, Shed(k) PROVE FALSE
  BY <1>3, SendsConfirmsNone DEF Shed, Statuses
<1>4. ASSUME NEW k \in Keys, NEW status \in {"1xx", "2xx", "fail"}, Respond(k, status)
      PROVE  FALSE
  BY <1>4, SendsConfirmsNone DEF Respond, Statuses
<1>5. ASSUME NEW k \in Keys, Ack(k) PROVE j \in acked'
  <2>1. CASE j = k BY <1>5, <2>1 DEF Ack
  <2>2. CASE j # k BY <1>5, <2>2 DEF Ack, Matches, Confirms, TypeOK
  <2> QED BY <2>1, <2>2
<1>6. ASSUME NEW k \in Keys, Retransmit(k) PROVE FALSE
  <2>1. CASE txn' = Cleaned(txn) BY <2>1 DEF Confirms, Cleaned, Absent
  <2>2. CASE txn'[j].state = txn[j].state BY <2>2 DEF Confirms
  <2>3. txn' = Cleaned(txn) \/ txn'[j].state = txn[j].state
    BY <1>6 DEF Retransmit, TypeOK, Txn
  <2> QED BY <2>1, <2>2, <2>3
<1>7. ASSUME NEW k \in Keys, Expire(k) PROVE FALSE
  BY <1>7 DEF Expire, Confirms, Absent, TypeOK
<1> QED BY <1>1, <1>2, <1>3, <1>4, <1>5, <1>6, <1>7 DEF Next

-----------------------------------------------------------------------------
(* The theorems.                                                           *)

\* The empty table is served.
LEMMA InitServed == Init => IInv
<1> SUFFICES ASSUME Init PROVE IInv OBVIOUS
<1>1. TypeOK BY AbsentType DEF Init, TypeOK
<1>2. \A k \in Keys : Served(k)
  BY DEF Init, Served, AtWork, NoTimerYet, TimerG, Pending, Absent
<1>3. MergedOnce BY KeyAssumption DEF Init, MergedOnce
<1> QED BY <1>1, <1>2, <1>3 DEF IInv

\* Every step keeps the invariant.
LEMMA NextServed == IInv /\ [Next]_vars => IInv'
<1> SUFFICES ASSUME IInv, [Next]_vars PROVE IInv' OBVIOUS
<1>1. CASE UNCHANGED vars
  BY <1>1 DEF vars, IInv, TypeOK, Served, AtWork, NoTimerYet, TimerG, Shedded, MergedOnce
<1>2. CASE Next
  <2>1. StepKept
    BY <1>2, TickKept, ReceiveKept, ShedKept, AckKept, RespondKept, RetransmitKept, ExpireKept
       DEF Next
  <2> QED BY <2>1 DEF StepKept, IInv
<1> QED BY <1>1, <1>2

\* The table, the handlers, what was sent and acknowledged keep their types.
THEOREM TypeCorrect == Spec => []TypeOK
<1>1. IInv => TypeOK BY DEF IInv
<1> QED BY <1>1, InitServed, NextServed, PTL DEF Spec

\* A request that the overload gate left alone keeps its transaction while its
\* handler works, is handled once among its copies, and has a running Timer G
\* while its failure waits for the ACK.
THEOREM RequestServedOnce == Spec => []ServedOnce
<1>1. IInv => ServedOnce
  BY KeyAssumption
     DEF IInv, Served, AtWork, TimerG, ServedOnce, PendingKept, MergedOnce, TimerGRuns,
         Pending, Has
<1> QED BY <1>1, InitServed, NextServed, PTL DEF Spec

\* An ACK confirms the transaction of its own branch and no other, whatever
\* copies, retransmissions and shed requests surround it.
THEOREM AckConfirmsItsOwn == Spec => AckPrecise
<1>1. TypeOK /\ [Next]_vars => [\A k \in Keys : Confirms(k) => k \in acked']_vars
  BY OnlyAckConfirms
<1>2. TypeOK /\ [Next]_vars
        => [\A k \in Keys : (txn[k].state # "CONFIRMED" /\ txn'[k].state = "CONFIRMED")
                              => k \in acked']_vars
  BY <1>1 DEF Confirms
<1> QED BY <1>2, TypeCorrect, PTL DEF Spec, AckPrecise

-----------------------------------------------------------------------------
(* What call control sees of a server transaction, stx in B2BUACall.       *)

\* The steps of a transaction that the gate left alone: it begins with its
\* handler; only the handler's response takes it out of Trying and Proceeding,
\* and no response of anyone changes it after that; its ACK confirms it; and only
\* an answered one is forgotten.  A copy gets its 482 without a handler.
AsCallSees(k) ==
  LET now == txn[k].state
      then == txn'[k].state
  IN
  \/ "503" \in finals'[k]
  \/ then = now /\ tu'[k] = tu[k]
  \/ now \notin {"TRYING", "PROCEEDING"} /\ then = "TRYING" /\ tu[k] = "idle" /\ tu'[k] = "working"
  \/ now \in {"TRYING", "PROCEEDING"} /\ tu[k] = "working" /\
       \/ then = "PROCEEDING" /\ tu'[k] = "working" /\ finals'[k] = finals[k]
       \/ then = "ACCEPTED" /\ k \in Invites /\ tu'[k] = "idle" /\ "2xx" \in finals'[k]
       \/ then = "COMPLETED" /\ tu'[k] = "idle" /\ "fail" \in finals'[k]
       \/ then = "COMPLETED" /\ k \notin Invites /\ tu'[k] = "idle" /\ "2xx" \in finals'[k]
       \/ then = "ABSENT" /\ k \in Reliable \ Invites /\ tu'[k] = "idle" /\ finals'[k] # {}
  \/ now = "COMPLETED" /\ then = "CONFIRMED" /\ k \in acked' /\ tu'[k] = tu[k]
  \/ now \in {"ACCEPTED", "COMPLETED", "CONFIRMED"} /\ then = "ABSENT" /\ tu'[k] = tu[k]
  \/ now \notin {"TRYING", "PROCEEDING"} /\ then = "COMPLETED" /\ tu'[k] = tu[k] /\ "482" \in finals'[k]

\* A transaction that waits for its response has a handler at work.
HandlerWorks(k) == ~Shedded(k) /\ Pending(txn[k]) => tu[k] = "working"
SeenInv == IInv /\ \A k \in Keys : HandlerWorks(k)

\* The steps of AsCallSees keep that.
LEMMA HandlerStays ==
  ASSUME NEW k \in Keys, HandlerWorks(k), AsCallSees(k), finals[k] \subseteq finals'[k]
  PROVE  HandlerWorks(k)'
BY DEF HandlerWorks, AsCallSees, Pending, Shedded

\* The state that a final response leaves.
LEMMA FinalIs ==
  ASSUME NEW k \in Keys, NEW x \in Txn, NEW status \in Statuses \ {"1xx"}
  PROVE  Cached(k, x, status).state =
           IF k \in Invites THEN (IF status = "2xx" THEN "ACCEPTED" ELSE "COMPLETED")
           ELSE IF k \in Reliable THEN "ABSENT" ELSE "COMPLETED"
<1> DEFINE y == [x EXCEPT !.cached = status]
           c == [y EXCEPT !.state = "COMPLETED", !.expires = TimerH]
           z == Cached(k, x, status)
<1> SUFFICES z.state = IF k \in Invites THEN (IF status = "2xx" THEN "ACCEPTED" ELSE "COMPLETED")
                       ELSE IF k \in Reliable THEN "ABSENT" ELSE "COMPLETED"
  OBVIOUS
<1>0. y \in Txn BY DEF Txn, Statuses
<1>1. c \in Txn BY <1>0, CompletedType
<1>2. c.state = "COMPLETED"
  <2> HIDE DEF y
  <2> QED BY <1>0 DEF Txn
<1>3. CASE status = "2xx" /\ k \in Invites
  <2>1. z = [y EXCEPT !.state = "ACCEPTED", !.expires = TimerH] BY <1>3 DEF Cached
  <2> HIDE DEF y, z
  <2> QED BY <1>0, <1>3, <2>1 DEF Txn
<1>4. CASE status # "2xx" /\ k \in Invites
  <2>1. z = IF k \in Reliable THEN c ELSE Retransmitting(c) BY <1>4 DEF Cached
  <2> HIDE DEF c, z
  <2>2. Retransmitting(c).state = "COMPLETED" BY <1>1, <1>2 DEF Retransmitting, Txn
  <2> QED BY <1>2, <1>4, <2>1, <2>2
<1>5. CASE k \notin Invites
  <2>1. z = IF k \in Reliable THEN Absent ELSE c BY <1>5 DEF Cached
  <2> HIDE DEF c, z
  <2> QED BY <1>2, <1>5, <2>1 DEF Absent
<1> QED BY <1>3, <1>4, <1>5

\* A request that a step leaves alone, or cleans up.
LEMMA LeftAlone ==
  ASSUME SeenInv, NEW j \in Keys, txn'[j] \in {txn[j], Cleaned(txn)[j]}, tu'[j] = tu[j], finals'[j] = finals[j]
  PROVE  AsCallSees(j)
<1>1. txn'[j] = txn[j] \/ (txn[j].expires = 0 /\ txn'[j].state = "ABSENT") BY DEF Cleaned, Absent
<1>2. CASE txn'[j] = txn[j] BY <1>2 DEF AsCallSees
<1>3. CASE txn[j].expires = 0 /\ txn'[j].state = "ABSENT" /\ ~Shedded(j)
  <2>1. ~Pending(txn[j])
    BY <1>3 DEF SeenInv, IInv, HandlerWorks, Served, AtWork, NoTime
  <2>2. txn[j].state \in {"ABSENT", "ACCEPTED", "COMPLETED", "CONFIRMED"}
    BY <2>1 DEF SeenInv, IInv, TypeOK, Txn, Pending
  <2> QED BY <1>3, <2>2 DEF AsCallSees
<1>4. CASE Shedded(j) BY <1>4 DEF AsCallSees, Shedded
<1> QED BY <1>1, <1>2, <1>3, <1>4

\* A request that is handed to its handler, or answered for a copy, was over.
LEMMA WasOver ==
  ASSUME SeenInv, NEW k \in Keys, ~Has(Cleaned(txn), k), ~Shedded(k)
  PROVE  tu[k] = "idle" /\ txn[k].state \in {"ABSENT", "ACCEPTED", "COMPLETED", "CONFIRMED"}
<1>1. ~Pending(txn[k]) \/ txn[k].expires = 0 BY DEF Has, Cleaned, Pending
<1>2. tu[k] # "working"
  BY <1>1 DEF SeenInv, IInv, Served, AtWork, NoTime
<1>3. ~Pending(txn[k]) BY <1>2 DEF SeenInv, HandlerWorks
<1> QED BY <1>2, <1>3 DEF SeenInv, IInv, TypeOK, Txn, Pending

LEMMA ReceiveSeen == ASSUME SeenInv, NEW k \in Keys, Receive(k) PROVE \A j \in Keys : AsCallSees(j)
<1> DEFINE t == Cleaned(txn)
<1>0. TypeOK /\ t \in [Keys -> Txn] BY CleanedType DEF SeenInv, IInv, TypeOK
<1>1. CASE Has(t, k) BY <1>0, <1>1, LeftAlone DEF Receive
<1>2. CASE ~Has(t, k) /\ Merged(t, k)
  <2>1. Sends(t, k, "482") /\ tu' = tu BY <1>2 DEF Receive
  <2>2. "482" \in Statuses \ {"1xx"} /\ t \in {txn, Cleaned(txn)} BY DEF Statuses
  <2> HIDE DEF t
  <2>3. \A j \in Keys \ {k} : AsCallSees(j) BY <1>0, <2>1, <2>2, SendsIs, LeftAlone
  <2>4. AsCallSees(k)
    <3>1. CASE Shedded(k)
      <4>1. finals[k] \subseteq finals'[k] BY <1>0, <2>1, <2>2, SendsIs
      <4> QED BY <3>1, <4>1 DEF AsCallSees, Shedded
    <3>2. CASE ~Shedded(k)
      <4>1. txn[k].state \in {"ABSENT", "ACCEPTED", "COMPLETED", "CONFIRMED"} BY <1>2, <3>2, WasOver DEF t
      <4>2. PICK x \in Txn : txn'[k] = Cached(k, x, "482") BY <1>0, <2>1, <2>2, SendsAt
      <4>3. txn'[k].state \in {"COMPLETED", "ABSENT"} BY <2>2, <4>2, FinalIs
      <4>4. "482" \in finals'[k] BY <1>0, <2>1, <2>2, SendsIs
      <4> QED BY <2>1, <4>1, <4>3, <4>4 DEF AsCallSees
    <3> QED BY <3>1, <3>2
  <2> QED BY <2>3, <2>4
<1>3. CASE ~Has(t, k) /\ ~Merged(t, k)
  <2>1. txn' = Started(t, k, TRUE) /\ tu' = [tu EXCEPT ![k] = "working"] /\ finals' = finals
    BY <1>3 DEF Receive
  <2>2. ASSUME NEW j \in Keys \ {k} PROVE AsCallSees(j)
    <3>1. txn'[j] = t[j] /\ tu'[j] = tu[j] /\ finals'[j] = finals[j]
      BY <1>0, <2>1 DEF Started, TypeOK
    <3> QED BY <3>1, LeftAlone
  <2>3. AsCallSees(k)
    <3>1. txn'[k].state = "TRYING" BY <1>0, <2>1 DEF Started, Absent
    <3>2. tu'[k] = "working" BY <1>0, <2>1 DEF TypeOK
    <3> HIDE DEF t
    <3>3. CASE ~Shedded(k)
      <4>1. tu[k] = "idle" /\ txn[k].state \notin {"TRYING", "PROCEEDING"} BY <1>3, <3>3, WasOver DEF t
      <4> QED BY <3>1, <3>2, <4>1 DEF AsCallSees
    <3>4. CASE Shedded(k) BY <2>1, <3>4 DEF AsCallSees, Shedded
    <3> QED BY <3>3, <3>4
  <2> QED BY <2>2, <2>3
<1> QED BY <1>1, <1>2, <1>3

LEMMA ShedSeen == ASSUME SeenInv, NEW k \in Keys, Shed(k) PROVE \A j \in Keys : AsCallSees(j)
<1>0. TypeOK BY DEF SeenInv, IInv
<1>1. Sends(txn, k, "503") /\ tu' = tu /\ "503" \in Statuses BY DEF Shed, Statuses
<1>2. \A j \in Keys \ {k} : AsCallSees(j) BY <1>0, <1>1, SendsIs, LeftAlone
<1>3. "503" \in finals'[k] BY <1>0, <1>1, SendsIs
<1> QED BY <1>2, <1>3 DEF AsCallSees

LEMMA RespondSeen ==
  ASSUME SeenInv, NEW k \in Keys, NEW status \in {"1xx", "2xx", "fail"}, Respond(k, status)
  PROVE  \A j \in Keys : AsCallSees(j)
<1>0. TypeOK /\ Served(k) BY DEF SeenInv, IInv
<1>1. /\ Sends(txn, k, status) /\ status \in Statuses /\ tu[k] = "working"
      /\ tu' = IF status = "1xx" THEN tu ELSE [tu EXCEPT ![k] = "idle"]
  BY DEF Respond, Statuses
<1>2. \A j \in Keys \ {k} : tu'[j] = tu[j] BY <1>0, <1>1 DEF TypeOK
<1>3. \A j \in Keys \ {k} : AsCallSees(j) BY <1>0, <1>1, <1>2, SendsIs, LeftAlone
<1>4. finals[k] \subseteq finals'[k] BY <1>0, <1>1, SendsIs
<1>5. CASE Shedded(k) BY <1>3, <1>4, <1>5 DEF AsCallSees, Shedded
<1>6. CASE ~Shedded(k)
  <2>1. txn[k].state \in {"TRYING", "PROCEEDING"} /\ Has(txn, k) /\ txn[k] \in Txn
    BY <1>0, <1>1, <1>6 DEF Served, AtWork, Pending, Has, TypeOK
  <2>2. txn'[k] = Cached(k, txn[k], status) BY <1>0, <1>1, <2>1, SendsAt
  <2>3. CASE status = "1xx"
    <3>1. txn'[k].state = "PROCEEDING" BY <1>1, <2>1, <2>2, <2>3, CachedIs DEF Outcome
    <3>2. finals' = finals /\ tu' = tu BY <1>1, <2>3 DEF Sends
    <3> QED BY <1>1, <1>3, <2>1, <3>1, <3>2 DEF AsCallSees
  <2>4. CASE status # "1xx"
    <3>1. status \in finals'[k] BY <1>0, <1>1, <2>4, SendsIs
    <3>2. tu'[k] = "idle" BY <1>0, <1>1, <2>4 DEF TypeOK
    <3>3. txn'[k].state =
            IF k \in Invites THEN (IF status = "2xx" THEN "ACCEPTED" ELSE "COMPLETED")
            ELSE IF k \in Reliable THEN "ABSENT" ELSE "COMPLETED"
      BY <1>1, <2>1, <2>2, <2>4, FinalIs
    <3> QED BY <1>1, <1>3, <2>1, <2>4, <3>1, <3>2, <3>3 DEF AsCallSees
  <2> QED BY <2>3, <2>4
<1> QED BY <1>5, <1>6

LEMMA AckSeen == ASSUME SeenInv, NEW k \in Keys, Ack(k) PROVE \A j \in Keys : AsCallSees(j)
<1>0. TypeOK BY DEF SeenInv, IInv
<1>1. tu' = tu /\ finals' = finals /\ acked' = acked \cup {k} BY DEF Ack
<1>2. CASE txn' = txn BY <1>1, <1>2, LeftAlone
<1>3. CASE txn[k].state = "COMPLETED" /\ txn' = [txn EXCEPT ![k] = Confirmed(k, @)]
  <2>1. \A j \in Keys \ {k} : txn'[j] = txn[j] BY <1>3
  <2>2. \A j \in Keys \ {k} : AsCallSees(j) BY <1>1, <2>1, LeftAlone
  <2>3. txn'[k] = Confirmed(k, txn[k]) /\ txn[k] \in Txn BY <1>0, <1>3 DEF TypeOK
  <2>4. txn'[k].state \in {"CONFIRMED", "ABSENT"} BY <2>3 DEF Confirmed, Absent, Txn
  <2>5. AsCallSees(k) BY <1>1, <1>3, <2>4 DEF AsCallSees
  <2> QED BY <2>2, <2>5
<1> QED BY <1>2, <1>3 DEF Ack, Matches

LEMMA RetransmitSeen == ASSUME SeenInv, NEW k \in Keys, Retransmit(k) PROVE \A j \in Keys : AsCallSees(j)
<1>0. TypeOK BY DEF SeenInv, IInv
<1>1. tu' = tu /\ finals' = finals BY DEF Retransmit
<1>2. CASE txn' = Cleaned(txn) BY <1>1, <1>2, LeftAlone
<1>3. CASE \A j \in Keys : txn'[j].state = txn[j].state BY <1>1, <1>3 DEF AsCallSees
<1>4. txn' = Cleaned(txn) \/ \A j \in Keys : txn'[j].state = txn[j].state
  BY <1>0 DEF Retransmit, TypeOK, Txn
<1> QED BY <1>2, <1>3, <1>4

LEMMA ExpireSeen == ASSUME SeenInv, NEW k \in Keys, Expire(k) PROVE \A j \in Keys : AsCallSees(j)
<1>0. TypeOK BY DEF SeenInv, IInv
<1>1. tu' = tu /\ finals' = finals /\ txn' = [txn EXCEPT ![k] = Absent] BY DEF Expire
<1>2. \A j \in Keys : txn'[j] \in {txn[j], Cleaned(txn)[j]} BY <1>0, <1>1 DEF Expire, Cleaned, TypeOK
<1> QED BY <1>1, <1>2, LeftAlone

LEMMA TickSeen == ASSUME SeenInv, Tick PROVE \A j \in Keys : AsCallSees(j)
<1>1. ASSUME NEW j \in Keys PROVE txn'[j].state = txn[j].state BY <1>1 DEF Tick, SeenInv, IInv, TypeOK, Txn
<1> QED BY <1>1 DEF AsCallSees, Tick

LEMMA FinalsGrow == ASSUME TypeOK, [Next]_vars PROVE \A j \in Keys : finals[j] \subseteq finals'[j]
<1>1. ASSUME NEW t \in {txn, Cleaned(txn)}, NEW k \in Keys, NEW status \in Statuses, Sends(t, k, status)
      PROVE  \A j \in Keys : finals[j] \subseteq finals'[j]
  BY <1>1, SendsIs
<1>2. "482" \in Statuses /\ "503" \in Statuses /\ {"1xx", "2xx", "fail"} \subseteq Statuses BY DEF Statuses
<1>3. ASSUME NEW k \in Keys, Receive(k) PROVE \A j \in Keys : finals[j] \subseteq finals'[j]
  BY <1>1, <1>2, <1>3 DEF Receive
<1>4. ASSUME NEW k \in Keys, Shed(k) PROVE \A j \in Keys : finals[j] \subseteq finals'[j]
  BY <1>1, <1>2, <1>4 DEF Shed
<1>5. ASSUME NEW k \in Keys, NEW status \in {"1xx", "2xx", "fail"}, Respond(k, status)
      PROVE  \A j \in Keys : finals[j] \subseteq finals'[j]
  BY <1>1, <1>2, <1>5 DEF Respond
<1> QED BY <1>3, <1>4, <1>5 DEF Next, vars, Tick, Ack, Retransmit, Expire

LEMMA StepSeen == SeenInv /\ [Next]_vars => SeenInv' /\ \A k \in Keys : AsCallSees(k)
<1> SUFFICES ASSUME SeenInv, [Next]_vars PROVE SeenInv' /\ \A k \in Keys : AsCallSees(k) OBVIOUS
<1>1. \A k \in Keys : AsCallSees(k)
  <2>1. CASE UNCHANGED vars BY <2>1, LeftAlone DEF vars
  <2>2. CASE Next
    BY <2>2, TickSeen, ReceiveSeen, ShedSeen, AckSeen, RespondSeen, RetransmitSeen, ExpireSeen DEF Next
  <2> QED BY <2>1, <2>2
<1>2. IInv' BY NextServed DEF SeenInv
<1>3. \A k \in Keys : finals[k] \subseteq finals'[k] BY FinalsGrow DEF SeenInv, IInv
<1>4. \A k \in Keys : HandlerWorks(k)' BY <1>1, <1>3, HandlerStays DEF SeenInv
<1> QED BY <1>1, <1>2, <1>4 DEF SeenInv

\* A server transaction that the gate left alone takes the steps that B2BUACall
\* has for it: nothing but the handler's own response ends the wait for one, and
\* nothing but its own ACK confirms a failure.
THEOREM ServerAsCallSees == Spec => [][\A k \in Keys : AsCallSees(k)]_vars
<1>1. Init => SeenInv
  <2>1. Init => \A k \in Keys : HandlerWorks(k) BY DEF Init, HandlerWorks, Pending, Absent
  <2> QED BY <2>1, InitServed DEF SeenInv
<1>2. SeenInv /\ [Next]_vars => SeenInv' BY StepSeen
<1>3. SeenInv /\ [Next]_vars => [\A k \in Keys : AsCallSees(k)]_vars BY StepSeen
<1> QED BY <1>1, <1>2, <1>3, PTL DEF Spec
=============================================================================
