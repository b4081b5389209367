--------------------------- MODULE Transport_proofs ---------------------------
(***************************************************************************)
(* Proofs about ClientTransaction for any set of requests and any timers,  *)
(* and about StreamPool with ServerLocation for any senders, connections,  *)
(* zones and bounds; about Framing for any streams and limits.             *)
(*                                                                         *)
(* The pauses of an INVITE double without a limit of their own: that they  *)
(* stay below MaxPause holds because they add up.  When a pause of i ticks *)
(* has r ticks left, 2 * i - T1 - r ticks have passed since the first      *)
(* copy, which Timer B counts too (Paced).  The rest of the invariant says *)
(* which timers a transaction has in each state (Timers).                  *)
(*                                                                         *)
(* The pool: connections and keys each have a shape of their own (ConnsOK, *)
(* KeysOK); a task that made a connection holds an object (SendsOK), and   *)
(* one that is open is in the pool, so the key it writes leads there.      *)
(* Lookups (IsLookup): what is left of one that asked DNS and its age add  *)
(* up to at most cache_ttl, so what it stores is never older; what it has  *)
(* found comes before all it has still to expand, because a record that is *)
(* drawn does, and the loop adds targets with that record's priority and   *)
(* weight only (ExpandedIs).                                               *)
(*                                                                         *)
(* Framing: where a message ends is decided by the units up to there       *)
(* (PrefixDecides), so what is cut out of the buffer is whole by itself    *)
(* (PoppedWhole) and what was refused stays refused (BrokenStays).         *)
(*                                                                         *)
(* At the end: the certificate of Node (NodeInv), and that a client        *)
(* transaction takes the steps that call control has for it (AsCallSees).  *)
(***************************************************************************)
EXTENDS ClientTransaction, MCStreamPool, FiniteSetTheorems, SequenceTheorems,
        WellFoundedInduction, TLAPS

\* The timers of a transaction, and that it was not answered twice.
Timers(k, x, outcomes) ==
  /\ x.state = "ABSENT" => x = Absent
  /\ x.state \in Unanswered => x.timeout # NoTimer /\ x.cleanup = NoTimer /\ outcomes = {}
  /\ x.state \in Answered => x.timeout = NoTimer /\ x.cleanup # NoTimer
  /\ x.retransmit # NoTimer =>
       /\ k \notin Reliable
       /\ x.state \in (IF k \in Invites THEN {"CALLING"} ELSE {"TRYING", "PROCEEDING"})

\* The copies of an INVITE and its Timer B tell the same time.
Paced(k, x) ==
  k \in Invites /\ x.retransmit # NoTimer =>
    2 * x.interval = TimerB - x.timeout + T1 + x.retransmit /\ x.timeout <= TimerB

AtMostOne(outcomes) == outcomes = {} \/ \E o \in outcomes : outcomes = {o}

Sound(k) == Timers(k, txn[k], told[k]) /\ Paced(k, txn[k]) /\ AtMostOne(told[k])
ClientInv == TypeOK /\ \A k \in Keys : Sound(k)

FinalOutcomes == {"success", "failure", "timeout", "error"}

\* What a step leaves at each request.
Good(k, x, outcomes) ==
  /\ x \in Txn(k) /\ outcomes \in SUBSET FinalOutcomes
  /\ Timers(k, x, outcomes) /\ Paced(k, x) /\ AtMostOne(outcomes)

-----------------------------------------------------------------------------
(* The invariant, request by request.                                      *)

\* The invariant says of every request that it is good.
LEMMA InvariantIs ==
  ClientInv <=> /\ DOMAIN txn = Keys /\ told \in [Keys -> SUBSET FinalOutcomes]
           /\ \A k \in Keys : Good(k, txn[k], told[k])
BY DEF ClientInv, TypeOK, Sound, Good, FinalOutcomes

\* The same of the state after a step.
LEMMA InvariantNextIs ==
  ClientInv' <=> /\ DOMAIN txn' = Keys /\ told' \in [Keys -> SUBSET FinalOutcomes]
            /\ \A k \in Keys : Good(k, txn'[k], told'[k])
BY DEF ClientInv, TypeOK, Sound, Good, FinalOutcomes

\* An absent transaction is good whatever its owner was told.
LEMMA AbsentGood ==
  ASSUME NEW k \in Keys, NEW outcomes \in SUBSET FinalOutcomes, AtMostOne(outcomes)
  PROVE  Good(k, Absent, outcomes)
<1>1. Absent \in Txn(k)
  <2>1. 0 \in 0..MaxPause(k) BY TimerAssumption DEF MaxPause
  <2> QED BY <2>1 DEF Absent, Txn, Upto
<1>2. Timers(k, Absent, outcomes) /\ Paced(k, Absent)
  BY DEF Timers, Paced, Absent, Unanswered, Answered
<1> QED BY <1>1, <1>2 DEF Good

\* A step that changes one request keeps the invariant if that one is good.
LEMMA OneChanged ==
  ASSUME ClientInv, NEW k \in Keys, NEW x, NEW outcomes, Good(k, x, outcomes),
         txn' = [txn EXCEPT ![k] = x], told' = [told EXCEPT ![k] = outcomes]
  PROVE  ClientInv'
<1>1. /\ DOMAIN txn = Keys /\ told \in [Keys -> SUBSET FinalOutcomes]
      /\ \A j \in Keys : Good(j, txn[j], told[j])
  BY InvariantIs
<1>2. outcomes \in SUBSET FinalOutcomes BY DEF Good
<1>3. DOMAIN txn' = Keys /\ told' \in [Keys -> SUBSET FinalOutcomes] BY <1>1, <1>2
<1>4. ASSUME NEW j \in Keys PROVE Good(j, txn'[j], told'[j])
  <2>1. CASE j = k
    <3>1. txn'[k] = x /\ told'[k] = outcomes BY <1>1
    <3> QED BY <2>1, <3>1
  <2>2. CASE j # k
    <3>1. txn'[j] = txn[j] /\ told'[j] = told[j] BY <1>1, <2>2
    <3> QED BY <1>1, <3>1
  <2> QED BY <2>1, <2>2
<1> QED BY <1>3, <1>4, InvariantNextIs

\* The first outcome.
LEMMA FirstOutcome ==
  ASSUME NEW k \in Keys, ClientInv, txn[k].state \in Unanswered, NEW o \in FinalOutcomes
  PROVE  told[k] = {} /\ told[k] \cup {o} \in SUBSET FinalOutcomes /\ AtMostOne(told[k] \cup {o})
BY InvariantIs DEF Good, Timers, AtMostOne

\* A timer's range.
LEMMA UptoHas == ASSUME NEW S \in SUBSET Nat, NEW d \in S PROVE d \in Upto(S) /\ NoTimer \in Upto(S)
BY DEF Upto

-----------------------------------------------------------------------------
(* The steps.                                                              *)

\* A new request is unanswered and, over UDP, paced from its first copy.
LEMMA StartKept == ASSUME ClientInv, NEW k \in Keys, Start(k) PROVE ClientInv'
<1> DEFINE x == [ state |-> IF k \in Invites THEN "CALLING" ELSE "TRYING",
                  retransmit |-> IF k \in Reliable THEN NoTimer ELSE T1,
                  interval |-> IF k \in Reliable THEN 0 ELSE T1,
                  timeout |-> IF k \in Invites THEN TimerB ELSE TimerF,
                  cleanup |-> NoTimer ]
<1>1. txn' = [txn EXCEPT ![k] = x] /\ told' = [told EXCEPT ![k] = {}] BY DEF Start
<1>2. x \in Txn(k)
  <2>1. MaxPause(k) \in Nat /\ T1 <= MaxPause(k) BY TimerAssumption DEF MaxPause
  <2>2. x.retransmit \in Upto({MaxPause(k)}) /\ x.interval \in 0..MaxPause(k)
    BY <2>1, TimerAssumption DEF Upto
  <2>3. x.timeout \in Upto({TimerB, TimerC, TimerF}) /\ x.cleanup \in Upto({TimerD, T4, Linger})
    BY TimerAssumption DEF Upto
  <2> QED BY <2>2, <2>3 DEF Txn, Unanswered
<1>3. Timers(k, x, {}) /\ Paced(k, x) /\ AtMostOne({})
  BY TimerAssumption DEF Timers, Paced, AtMostOne, Unanswered, Answered, NoTimer
<1> HIDE DEF x
<1>4. Good(k, x, {}) BY <1>2, <1>3 DEF Good
<1> QED BY <1>1, <1>4, OneChanged

\* A provisional response silences an INVITE and restarts its timeout.
LEMMA ProvisionalKept == ASSUME ClientInv, NEW k \in Keys, Provisional(k) PROVE ClientInv'
<1> DEFINE x == txn[k]
           y == ProvisionalOf(k, x)
<1>1. Good(k, x, told[k]) /\ DOMAIN txn = Keys /\ told \in [Keys -> SUBSET FinalOutcomes]
  BY InvariantIs
<1>2. x.state \in Unanswered /\ txn' = [txn EXCEPT ![k] = y] /\ told' = told
  BY DEF Provisional
<1>3. told' = [told EXCEPT ![k] = told[k]] BY <1>1, <1>2
<1>4. y \in Txn(k) /\ y.state = "PROCEEDING" /\ y.timeout # NoTimer /\ y.cleanup = x.cleanup
        /\ IF k \in Invites THEN y.retransmit = NoTimer
           ELSE y.retransmit = x.retransmit
  <2>1. TimerC \in Upto({TimerB, TimerC, TimerF}) /\ NoTimer \in Upto({MaxPause(k)})
          /\ 0 \in 0..MaxPause(k) /\ TimerC # NoTimer
    BY TimerAssumption DEF Upto, MaxPause, NoTimer
  <2>2. x \in Txn(k) /\ x.timeout # NoTimer BY <1>1, <1>2 DEF Good, Timers
  <2> HIDE DEF x
  <2>3. CASE k \in Invites
    BY <2>1, <2>2, <2>3 DEF ProvisionalOf, Quiet, Txn, Unanswered
  <2>4. CASE k \notin Invites
    BY <2>2, <2>4 DEF ProvisionalOf, Txn, Unanswered
  <2> QED BY <2>3, <2>4
<1> HIDE DEF y
<1>5. Good(k, y, told[k])
  BY <1>1, <1>2, <1>4 DEF Good, Timers, Paced, Unanswered, Answered
<1> QED BY <1>2, <1>3, <1>5, OneChanged

\* A final response leaves a transaction with a lifetime, or none.
LEMMA FinalGood ==
  ASSUME NEW k \in Keys, NEW x \in Txn(k), NEW status \in {"success", "failure"},
         NEW outcomes \in SUBSET FinalOutcomes, AtMostOne(outcomes)
  PROVE  Good(k, FinalOf(k, x, status), outcomes)
<1>1. ASSUME NEW state \in Answered, NEW delay \in {TimerD, T4, Linger}
      PROVE  Good(k, Kept(x, state, delay), outcomes)
  <2> DEFINE z == [Quiet(x) EXCEPT !.state = state, !.timeout = NoTimer, !.cleanup = delay]
  <2>1. delay # 0 /\ delay # NoTimer /\ delay \in Upto({TimerD, T4, Linger})
          /\ NoTimer \in Upto({MaxPause(k)}) /\ 0 \in 0..MaxPause(k)
          /\ NoTimer \in Upto({TimerB, TimerC, TimerF})
    BY TimerAssumption DEF Upto, MaxPause, NoTimer
  <2>2. Kept(x, state, delay) = z BY <2>1 DEF Kept
  <2>3. z \in Txn(k) /\ z.state = state /\ z.timeout = NoTimer /\ z.cleanup = delay
          /\ z.retransmit = NoTimer
    BY <2>1 DEF Quiet, Txn
  <2> HIDE DEF z
  <2>4. Timers(k, z, outcomes) /\ Paced(k, z)
    BY <2>1, <2>3 DEF Timers, Paced, Unanswered, Answered
  <2> QED BY <2>2, <2>3, <2>4 DEF Good
<1>2. Kept(x, "COMPLETED", 0) = Absent BY DEF Kept
<1>3. Good(k, Absent, outcomes) BY AbsentGood
<1> QED BY <1>1, <1>2, <1>3 DEF FinalOf, Answered

\* The first final response ends the request.
LEMMA FinalKept ==
  ASSUME ClientInv, NEW k \in Keys, NEW status \in {"success", "failure"}, Final(k, status)
  PROVE  ClientInv'
<1>1. txn[k].state \in Unanswered /\ txn' = [txn EXCEPT ![k] = FinalOf(k, txn[k], status)]
        /\ told' = [told EXCEPT ![k] = told[k] \cup {status}] /\ status \in FinalOutcomes
  BY DEF Final, Tell, FinalOutcomes
<1>2. txn[k] \in Txn(k) BY InvariantIs DEF Good
<1>3. Good(k, FinalOf(k, txn[k], status), told[k] \cup {status})
  BY <1>1, <1>2, FirstOutcome, FinalGood
<1> QED BY <1>1, <1>3, OneChanged

\* A broken stream ends the requests sent over it.
LEMMA TransportErrorKept ==
  ASSUME ClientInv, NEW keys \in SUBSET Reliable, TransportError(keys)
  PROVE  ClientInv'
<1> DEFINE failed == {k \in keys : txn[k].state \in Unanswered}
<1>1. /\ txn' = [k \in Keys |-> IF k \in failed THEN Absent ELSE txn[k]]
      /\ told' = [k \in Keys |-> IF k \in failed THEN told[k] \cup {"error"} ELSE told[k]]
  BY DEF TransportError
<1>2. told \in [Keys -> SUBSET FinalOutcomes] /\ \A k \in Keys : Good(k, txn[k], told[k])
  BY InvariantIs
<1>3. ASSUME NEW k \in Keys PROVE Good(k, txn'[k], told'[k]) /\ told'[k] \in SUBSET FinalOutcomes
  <2>1. CASE k \in failed
    <3>1. txn[k].state \in Unanswered /\ txn'[k] = Absent /\ told'[k] = told[k] \cup {"error"}
      BY <1>1, <2>1
    <3>2. told'[k] \in SUBSET FinalOutcomes /\ AtMostOne(told'[k])
      BY <3>1, FirstOutcome DEF FinalOutcomes
    <3> QED BY <3>1, <3>2, AbsentGood
  <2>2. CASE k \notin failed
    BY <1>1, <1>2, <2>2
  <2> QED BY <2>1, <2>2
<1>4. DOMAIN txn' = Keys /\ told' \in [Keys -> SUBSET FinalOutcomes] BY <1>1, <1>3
<1> QED BY <1>3, <1>4, InvariantNextIs

\* The next pause of a request that is still resent: of an INVITE it cannot be
\* longer than what Timer B has counted.
LEMMA PauseBounded ==
  ASSUME NEW k \in Keys, NEW x \in Txn(k), NEW outcomes, Timers(k, x, outcomes),
         Paced(k, x), x.retransmit = 0
  PROVE  /\ BackOff(k, x) \in 0..MaxPause(k)
         /\ k \in Invites => BackOff(k, x) = 2 * x.interval
<1>1. x.interval \in Nat /\ x.retransmit # NoTimer BY DEF Txn, NoTimer
<1>2. CASE k \in Invites
  <2>1. BackOff(k, x) = 2 * x.interval /\ MaxPause(k) = TimerB + T1
    BY <1>2 DEF BackOff, MaxPause
  <2>2. x.state = "CALLING" /\ x.timeout # NoTimer
    BY <1>1, <1>2 DEF Timers, Unanswered
  <2>3. x.timeout \in Nat
    BY <2>2, TimerAssumption DEF Txn, Upto, NoTimer
  <2>4. 2 * x.interval = TimerB - x.timeout + T1 /\ x.timeout <= TimerB
    BY <1>1, <1>2, <2>3, TimerAssumption DEF Paced
  <2> QED BY <1>1, <2>1, <2>3, <2>4, TimerAssumption
<1>3. CASE k \notin Invites
  <2>1. BackOff(k, x) = T2 \/ (BackOff(k, x) = 2 * x.interval /\ 2 * x.interval < T2)
    BY <1>3 DEF BackOff
  <2> QED BY <1>1, <1>3, <2>1, TimerAssumption DEF MaxPause
<1> QED BY <1>2, <1>3

\* A request is resent and the next pause starts.
LEMMA RetransmitKept == ASSUME ClientInv, NEW k \in Keys, Retransmit(k) PROVE ClientInv'
<1> DEFINE x == txn[k]
           b == BackOff(k, x)
           y == [x EXCEPT !.retransmit = b, !.interval = b]
<1>1. Good(k, x, told[k]) /\ DOMAIN txn = Keys /\ told \in [Keys -> SUBSET FinalOutcomes]
  BY InvariantIs
<1>2. x.retransmit = 0 /\ told' = told
        /\ txn' = [txn EXCEPT ![k].retransmit = b, ![k].interval = b]
  BY DEF Retransmit
<1>3. txn' = [txn EXCEPT ![k] = y] /\ told' = [told EXCEPT ![k] = told[k]] BY <1>1, <1>2
<1>4. b \in 0..MaxPause(k) /\ (k \in Invites => b = 2 * x.interval)
  BY <1>1, <1>2, PauseBounded DEF Good
<1> HIDE DEF b
<1>5. y \in Txn(k) /\ y.retransmit = b /\ y.interval = b /\ y.state = x.state
        /\ y.timeout = x.timeout /\ y.cleanup = x.cleanup
  <2>1. x \in Txn(k) /\ b \in Upto({MaxPause(k)}) BY <1>1, <1>4 DEF Good, Upto
  <2> HIDE DEF x
  <2> QED BY <1>4, <2>1 DEF Txn
<1> HIDE DEF y
<1>6. Timers(k, y, told[k])
  <2>1. Timers(k, x, told[k]) /\ x.retransmit # NoTimer BY <1>1, <1>2 DEF Good, NoTimer
  <2> QED BY <1>5, <2>1 DEF Timers, Unanswered, Answered
<1>7. Paced(k, y)
  <2>1. x \in Txn(k) /\ Paced(k, x) /\ x.retransmit # NoTimer
    BY <1>1, <1>2 DEF Good, NoTimer
  <2>2. x.interval \in Nat /\ x.timeout \in Int
    BY <2>1, TimerAssumption DEF Txn, Upto, NoTimer
  <2> QED BY <1>2, <1>4, <1>5, <2>1, <2>2, TimerAssumption DEF Paced
<1>8. Good(k, y, told[k]) BY <1>1, <1>5, <1>6, <1>7 DEF Good
<1> QED BY <1>3, <1>8, OneChanged

\* Timers B, C and F end the request.
LEMMA TimeoutKept == ASSUME ClientInv, NEW k \in Keys, Timeout(k) PROVE ClientInv'
<1>1. Good(k, txn[k], told[k]) BY InvariantIs
<1>2. txn[k].state \in Unanswered
  BY <1>1 DEF Timeout, Good, Timers, Txn, Unanswered, Answered, Absent, NoTimer
<1>3. txn' = [txn EXCEPT ![k] = Absent] /\ told' = [told EXCEPT ![k] = told[k] \cup {"timeout"}]
  BY DEF Timeout, Tell
<1>4. Good(k, Absent, told[k] \cup {"timeout"})
  BY <1>2, FirstOutcome, AbsentGood DEF FinalOutcomes
<1> QED BY <1>3, <1>4, OneChanged

\* An answered transaction is forgotten.
LEMMA CleanupKept == ASSUME ClientInv, NEW k \in Keys, Cleanup(k) PROVE ClientInv'
<1>1. Good(k, txn[k], told[k]) /\ told \in [Keys -> SUBSET FinalOutcomes] BY InvariantIs
<1>2. txn' = [txn EXCEPT ![k] = Absent] /\ told' = [told EXCEPT ![k] = told[k]]
  BY <1>1 DEF Cleanup
<1>3. Good(k, Absent, told[k]) BY <1>1, AbsentGood DEF Good
<1> QED BY <1>2, <1>3, OneChanged

\* Time passes for every timer alike; none was due.
LEMMA TickKept == ASSUME ClientInv, Tick PROVE ClientInv'
<1>1. told' = told /\ txn' = [k \in Keys |-> [txn[k] EXCEPT !.retransmit = Less(@),
                                                            !.timeout = Less(@),
                                                            !.cleanup = Less(@)]]
  BY DEF Tick
<1>2. told \in [Keys -> SUBSET FinalOutcomes] /\ \A k \in Keys : Good(k, txn[k], told[k])
  BY InvariantIs
<1>3. ASSUME NEW k \in Keys PROVE Good(k, txn'[k], told'[k])
  <2> DEFINE x == txn[k]
             r == Less(x.retransmit)
             t == Less(x.timeout)
             c == Less(x.cleanup)
             y == [x EXCEPT !.retransmit = r, !.timeout = t, !.cleanup = c]
  <2>1. txn'[k] = y /\ told'[k] = told[k] BY <1>1
  <2>2. x \in Txn(k) /\ Timers(k, x, told[k]) /\ Paced(k, x) /\ AtMostOne(told[k])
    BY <1>2 DEF Good
  <2>3. 0 \notin {x.retransmit, x.timeout, x.cleanup} BY DEF Tick, Due
  <2> HIDE DEF x
  <2>4. ASSUME NEW S \in SUBSET Nat, NEW n \in Upto(S), n # 0
        PROVE  /\ Less(n) \in Upto(S) /\ (n = NoTimer <=> Less(n) = NoTimer)
               /\ n # NoTimer => Less(n) = n - 1 /\ n \in Nat
    BY <2>4 DEF Upto, Less, NoTimer
  <2>5. MaxPause(k) \in Nat BY TimerAssumption DEF MaxPause
  <2>6. /\ r \in Upto({MaxPause(k)}) /\ (x.retransmit = NoTimer <=> r = NoTimer)
        /\ x.retransmit # NoTimer => r = x.retransmit - 1 /\ x.retransmit \in Nat
    BY <2>2, <2>3, <2>4, <2>5 DEF Txn
  <2>7. /\ t \in Upto({TimerB, TimerC, TimerF}) /\ (x.timeout = NoTimer <=> t = NoTimer)
        /\ x.timeout # NoTimer => t = x.timeout - 1 /\ x.timeout \in Nat
    BY <2>2, <2>3, <2>4, TimerAssumption DEF Txn
  <2>8. c \in Upto({TimerD, T4, Linger}) /\ (x.cleanup = NoTimer <=> c = NoTimer)
    BY <2>2, <2>3, <2>4, TimerAssumption DEF Txn
  <2> HIDE DEF r, t, c
  <2>9. y \in Txn(k) /\ y.state = x.state /\ y.retransmit = r /\ y.timeout = t
          /\ y.cleanup = c /\ y.interval = x.interval /\ x.interval \in Nat
    <3>1. y \in Txn(k) BY <2>2, <2>6, <2>7, <2>8 DEF Txn
    <3>2. /\ y.state = x.state /\ y.retransmit = r /\ y.timeout = t
          /\ y.cleanup = c /\ y.interval = x.interval
      BY <2>2 DEF Txn
    <3>3. x.interval \in Nat BY <2>2, <2>5 DEF Txn
    <3> QED BY <3>1, <3>2, <3>3
  <2>10. x = Absent => y = Absent
    <3> SUFFICES ASSUME x = Absent PROVE y = Absent OBVIOUS
    <3>1. r = x.retransmit /\ t = x.timeout /\ c = x.cleanup
      BY <2>6, <2>7, <2>8 DEF Absent
    <3>2. y \in Txn(k) BY <2>9
    <3> HIDE DEF y
    <3>3. y.state = x.state /\ y.retransmit = x.retransmit /\ y.timeout = x.timeout
            /\ y.cleanup = x.cleanup /\ y.interval = x.interval
      BY <2>9, <3>1
    <3> QED BY <2>2, <3>2, <3>3 DEF Txn
  <2> HIDE DEF y
  <2>11. Timers(k, y, told[k])
    BY <2>2, <2>6, <2>7, <2>8, <2>9, <2>10 DEF Timers
  <2>12. Paced(k, y)
    <3> SUFFICES ASSUME k \in Invites, y.retransmit # NoTimer
                 PROVE  2 * y.interval = TimerB - y.timeout + T1 + y.retransmit
                          /\ y.timeout <= TimerB
      BY DEF Paced
    <3>1. x.retransmit # NoTimer BY <2>6, <2>9
    <3>2. x.timeout # NoTimer BY <2>2, <3>1 DEF Timers, Unanswered
    <3>3. 2 * x.interval = TimerB - x.timeout + T1 + x.retransmit /\ x.timeout <= TimerB
      BY <2>2, <3>1 DEF Paced
    <3> QED BY <2>6, <2>7, <2>9, <3>1, <3>2, <3>3, TimerAssumption
  <2>13. Good(k, y, told[k])
    <3>1. told[k] \in SUBSET FinalOutcomes BY <1>2
    <3> QED BY <2>2, <2>9, <2>11, <2>12, <3>1 DEF Good
  <2> QED BY <2>1, <2>13
<1>4. DOMAIN txn' = Keys /\ told' \in [Keys -> SUBSET FinalOutcomes] BY <1>1, <1>2
<1> QED BY <1>3, <1>4, InvariantNextIs

-----------------------------------------------------------------------------
(* The theorems.                                                           *)

\* The empty table is good.
LEMMA InitGood == Init => ClientInv
<1> SUFFICES ASSUME Init PROVE ClientInv OBVIOUS
<1>1. AtMostOne({}) BY DEF AtMostOne
<1>2. \A k \in Keys : Good(k, txn[k], told[k]) BY <1>1, AbsentGood DEF Init
<1> QED BY <1>2, InvariantIs DEF Init

\* Every step keeps the invariant.
LEMMA NextGood == ClientInv /\ [Next]_vars => ClientInv'
<1> SUFFICES ASSUME ClientInv, [Next]_vars PROVE ClientInv' OBVIOUS
<1>1. CASE UNCHANGED vars BY <1>1, InvariantIs, InvariantNextIs DEF vars
<1>2. CASE Next
  BY <1>2, TickKept, TransportErrorKept, StartKept, ProvisionalKept, FinalKept,
     RetransmitKept, TimeoutKept, CleanupKept
     DEF Next
<1> QED BY <1>1, <1>2

\* The table and the outcomes keep their types: the doubling pause of an
\* INVITE never passes TimerB + T1.
THEOREM TypeCorrect == Spec => []TypeOK
<1>1. ClientInv => TypeOK BY DEF ClientInv
<1> QED BY <1>1, InitGood, NextGood, PTL DEF Spec

\* One outcome for each request, silence after the answer, and a deadline for
\* every transaction.
THEOREM ClientAlwaysSafe == Spec => []ClientSafe
<1>1. ASSUME ClientInv PROVE OutcomeOnce
  <2>1. \A k \in Keys : AtMostOne(told[k]) BY <1>1 DEF ClientInv, Sound
  <2>2. ASSUME NEW k \in Keys PROVE Cardinality(told[k]) <= 1
    <3>1. CASE told[k] = {} BY <3>1, FS_EmptySet
    <3>2. CASE \E o \in told[k] : told[k] = {o}
      <4>1. PICK o \in told[k] : told[k] = {o} BY <3>2
      <4>2. Cardinality({o}) = 1 BY FS_Singleton
      <4> QED BY <4>1, <4>2
    <3> QED BY <2>1, <3>1, <3>2 DEF AtMostOne
  <2> QED BY <2>2 DEF OutcomeOnce
<1>2. ASSUME ClientInv PROVE QuietAfterAnswer
  BY <1>2 DEF ClientInv, Sound, Timers, QuietAfterAnswer
<1>3. ASSUME ClientInv PROVE DeadlineArmed
  <2>1. ASSUME NEW k \in Keys, txn[k] # Absent
        PROVE  (txn[k].timeout # NoTimer) # (txn[k].cleanup # NoTimer)
    <3>1. Timers(k, txn[k], told[k]) /\ txn[k].state \in {"ABSENT"} \cup Unanswered \cup Answered
      BY <1>3 DEF ClientInv, Sound, TypeOK, Txn
    <3>2. CASE txn[k].state \in Unanswered BY <3>1, <3>2 DEF Timers
    <3>3. CASE txn[k].state \in Answered BY <3>1, <3>3 DEF Timers
    <3>4. CASE txn[k].state = "ABSENT" BY <2>1, <3>1, <3>4 DEF Timers
    <3> QED BY <3>1, <3>2, <3>3, <3>4
  <2> QED BY <2>1 DEF DeadlineArmed
<1>4. ClientInv => ClientSafe BY <1>1, <1>2, <1>3 DEF ClientSafe
<1> QED BY <1>4, InitGood, NextGood, PTL DEF Spec

-----------------------------------------------------------------------------
\* Of some natural numbers one is the least.
LEMMA Least ==
  ASSUME NEW T \in SUBSET Nat, T # {}
  PROVE  \E n \in T : \A m \in T : n <= m
<1>1. PICK n \in T : \A m \in T : ~ (<<m, n>> \in OpToRel(<, Nat))
  BY NatLessThanWellFounded, WFMin, Zenon
<1>2. \A m \in T : ~(m < n)
  <2>1. SUFFICES ASSUME NEW m \in T, m < n PROVE FALSE OBVIOUS
  <2>2. <<m, n>> \in OpToRel(<, Nat) BY <2>1, Zenon DEF OpToRel
  <2> QED BY <1>1, <2>2
<1> QED BY <1>2

-----------------------------------------------------------------------------
(* Connections, keys and tasks.                                            *)

IsConn(x) ==
  /\ x = [transport |-> x.transport, closed |-> x.closed, peer |-> x.peer, reuse |-> x.reuse]
  /\ x.closed \in BOOLEAN
IsSend(x) ==
  /\ x = [step |-> x.step, udp |-> x.udp, todo |-> x.todo, conn |-> x.conn]
  /\ x.step = "made" => x.conn \in Connections

ConnsOK ==
  /\ conn = [c \in Connections |-> conn[c]] /\ \A c \in Connections : IsConn(conn[c])
  /\ \A c \in Connections : c \in pool <=> conn[c].closed = FALSE
KeysOK ==
  /\ at = [k \in Endpoints |-> at[k]]
  /\ \A k \in Endpoints : at[k] # NoConnection => at[k] \in pool
SendsOK == send = [s \in Senders |-> send[s]] /\ \A s \in Senders : IsSend(send[s])

\* A record with the four fields is a connection.
LEMMA ConnShape ==
  ASSUME NEW t, NEW b \in BOOLEAN, NEW p, NEW r,
         NEW x, x = [transport |-> t, closed |-> b, peer |-> p, reuse |-> r]
  PROVE  IsConn(x) /\ x.closed = b /\ x.transport = t /\ x.peer = p /\ x.reuse = r
BY DEF IsConn

\* So is one without a transport, whatever is still closing.
LEMMA NoConnIs ==
  /\ IsConn(NoConn) /\ NoConn.closed = TRUE
  /\ \A t : IsConn([NoConn EXCEPT !.transport = t]) /\ [NoConn EXCEPT !.transport = t].closed = TRUE
<1>1. IsConn(NoConn) /\ NoConn.closed = TRUE BY DEF NoConn, IsConn
<1>2. ASSUME NEW t, NEW y, y = [NoConn EXCEPT !.transport = t]
      PROVE  IsConn(y) /\ y.closed = TRUE
  BY <1>2 DEF NoConn, IsConn
<1> QED BY <1>1, <1>2

\* One connection changes and the pool with it.
LEMMA OneConn ==
  ASSUME ConnsOK, NEW c \in Connections, NEW x, IsConn(x), conn' = [conn EXCEPT ![c] = x],
         pool' = IF x.closed = TRUE THEN pool \ {c} ELSE pool \cup {c}
  PROVE  ConnsOK'
<1>1. /\ conn = [d \in Connections |-> conn[d]] /\ x.closed \in BOOLEAN
      /\ \A d \in Connections : IsConn(conn[d]) /\ (d \in pool <=> conn[d].closed = FALSE)
  BY DEF ConnsOK, IsConn
<1>2. /\ conn' = [d \in Connections |-> conn'[d]] /\ conn'[c] = x
      /\ \A d \in Connections : d # c => conn'[d] = conn[d]
  BY <1>1
<1>3. ASSUME NEW d \in Connections
      PROVE  IsConn(conn'[d]) /\ (d \in pool' <=> conn'[d].closed = FALSE)
  BY <1>1, <1>2
<1> QED BY <1>2, <1>3 DEF ConnsOK

\* connection_made, with room in the pool and without.
LEMMA OpenedKept ==
  ASSUME ConnsOK, KeysOK, NEW c \in Connections, NEW peer, NEW outbound,
         Opened(c, peer, outbound)
  PROVE  ConnsOK' /\ KeysOK'
<1>1. CASE HasRoom(c)
  <2> DEFINE x == [transport |-> "open", closed |-> FALSE, peer |-> peer, reuse |-> outbound]
  <2>1. conn' = [conn EXCEPT ![c] = x] /\ pool' = pool \cup {c} /\ at' = [at EXCEPT ![peer] = c]
    BY <1>1 DEF Opened
  <2>2. IsConn(x) /\ x.closed = FALSE BY DEF IsConn
  <2> HIDE DEF x
  <2>3. ConnsOK' BY <2>1, <2>2, OneConn
  <2>4. /\ at = [k \in Endpoints |-> at[k]]
        /\ \A k \in Endpoints : at[k] # NoConnection => at[k] \in pool
    BY DEF KeysOK
  <2>5. at' = [k \in Endpoints |-> at'[k]] /\ \A k \in Endpoints : at'[k] = at[k] \/ at'[k] = c
    BY <2>1, <2>4
  <2>6. \A k \in Endpoints : at'[k] # NoConnection => at'[k] \in pool'
    BY <2>1, <2>4, <2>5
  <2> QED BY <2>3, <2>5, <2>6 DEF KeysOK
<1>2. CASE ~HasRoom(c)
  <2> DEFINE x == [NoConn EXCEPT !.transport = "closing"]
  <2>1. conn' = [conn EXCEPT ![c] = x] /\ pool' = pool /\ at' = at /\ c \notin pool
    BY <1>2 DEF Opened, HasRoom
  <2>2. IsConn(x) /\ x.closed = TRUE BY NoConnIs
  <2> HIDE DEF x
  <2>3. pool' = pool \ {c} BY <2>1
  <2>4. ConnsOK' BY <2>1, <2>2, <2>3, OneConn
  <2> QED BY <2>1, <2>4 DEF KeysOK
<1> QED BY <1>1, <1>2

\* A connection is closed, and it leaves the pool with all its keys.
LEMMA ClosedKept ==
  ASSUME ConnsOK, KeysOK, NEW c \in Connections, NEW x, IsConn(x), x.closed = TRUE,
         conn' = [conn EXCEPT ![c] = x], Unregister(c)
  PROVE  ConnsOK' /\ KeysOK'
<1>1. pool' = pool \ {c} /\ at' = Dropped(c) BY DEF Unregister
<1>2. ConnsOK' BY <1>1, OneConn
<1>3. /\ at' = [k \in Endpoints |-> at'[k]]
      /\ \A k \in Endpoints : at'[k] = NoConnection \/ (at'[k] = at[k] /\ at[k] # c)
  BY <1>1 DEF Dropped
<1> QED BY <1>1, <1>2, <1>3 DEF KeysOK

\* What a connection is apart from being closed.
LEMMA ConnChanged ==
  ASSUME ConnsOK, KeysOK, NEW c \in Connections, NEW x, IsConn(x), x.closed = conn[c].closed,
         conn' = [conn EXCEPT ![c] = x], UNCHANGED <<pool, at>>
  PROVE  ConnsOK' /\ KeysOK'
<1>1. x.closed \in BOOLEAN /\ (c \in pool <=> x.closed = FALSE) BY DEF ConnsOK, IsConn
<1>2. pool' = IF x.closed = TRUE THEN pool \ {c} ELSE pool \cup {c} BY <1>1
<1>3. ConnsOK' BY <1>2, OneConn
<1> QED BY <1>3 DEF KeysOK

\* What may change of an open connection.
LEMMA ConnFields ==
  ASSUME ConnsOK, NEW c \in Connections, NEW t
  PROVE  /\ IsConn([conn[c] EXCEPT !.transport = t])
         /\ [conn[c] EXCEPT !.transport = t].closed = conn[c].closed
         /\ IsConn([conn[c] EXCEPT !.reuse = t])
         /\ [conn[c] EXCEPT !.reuse = t].closed = conn[c].closed
<1> DEFINE x == conn[c]
<1>1. IsConn(x) BY DEF ConnsOK
<1>2. /\ x = [transport |-> x.transport, closed |-> x.closed, peer |-> x.peer, reuse |-> x.reuse]
      /\ x.closed \in BOOLEAN
  BY <1>1 DEF IsConn
<1> HIDE DEF x
<1>3. /\ [x EXCEPT !.transport = t] =
           [transport |-> t, closed |-> x.closed, peer |-> x.peer, reuse |-> x.reuse]
      /\ [x EXCEPT !.reuse = t] =
           [transport |-> x.transport, closed |-> x.closed, peer |-> x.peer, reuse |-> t]
  BY <1>2
<1>4. IsConn([x EXCEPT !.transport = t]) /\ [x EXCEPT !.transport = t].closed = x.closed
  BY <1>2, <1>3, ConnShape
<1>5. IsConn([x EXCEPT !.reuse = t]) /\ [x EXCEPT !.reuse = t].closed = x.closed
  BY <1>2, <1>3, ConnShape
<1> QED BY <1>4, <1>5 DEF x

\* A key is written with a connection of the pool, or with none.
LEMMA KeyKept ==
  ASSUME KeysOK, NEW k, NEW c, c = NoConnection \/ c \in pool,
         at' = [at EXCEPT ![k] = c], UNCHANGED pool
  PROVE  KeysOK'
<1>1. at = [e \in Endpoints |-> at[e]] BY DEF KeysOK
<1>2. at' = [e \in Endpoints |-> at'[e]] /\ \A e \in Endpoints : at'[e] = at[e] \/ at'[e] = c
  BY <1>1
<1> QED BY <1>2 DEF KeysOK

\* One task changes.
LEMMA OneSend ==
  ASSUME SendsOK, NEW s \in Senders, NEW x, IsSend(x), send' = [send EXCEPT ![s] = x]
  PROVE  SendsOK'
<1>1. send = [o \in Senders |-> send[o]] /\ \A o \in Senders : IsSend(send[o]) BY DEF SendsOK
<1>2. send' = [o \in Senders |-> send'[o]] /\ \A o \in Senders : send'[o] = send[o] \/ send'[o] = x
  BY <1>1
<1> QED BY <1>1, <1>2 DEF SendsOK

\* The changes of a task that do not make a connection.
LEMMA SendChanged ==
  ASSUME SendsOK, NEW s \in Senders, NEW t, t # "made",
         NEW u, NEW l,
         \/ send' = [send EXCEPT ![s].step = t]
         \/ send' = [send EXCEPT ![s].step = t, ![s].udp = u]
         \/ send' = [send EXCEPT ![s].step = t, ![s].todo = l]
         \/ send' = [send EXCEPT ![s] = [NoSend EXCEPT !.step = t]]
         \/ send' = [send EXCEPT ![s] = NoSend]
  PROVE  SendsOK'
<1> DEFINE x == send[s]
<1>1. IsSend(x) /\ send = [o \in Senders |-> send[o]] BY DEF SendsOK
<1>2. x = [step |-> x.step, udp |-> x.udp, todo |-> x.todo, conn |-> x.conn] BY <1>1 DEF IsSend
<1>3. CASE send' = [send EXCEPT ![s].step = t]
  <2>1. send' = [send EXCEPT ![s] = [x EXCEPT !.step = t]] BY <1>1, <1>3
  <2> HIDE DEF x
  <2>2. ASSUME NEW y, y = [x EXCEPT !.step = t] PROVE IsSend(y) BY <1>2, <2>2 DEF IsSend
  <2>3. IsSend([x EXCEPT !.step = t]) BY <2>2
  <2> QED BY <2>1, <2>3, OneSend
<1>4. CASE send' = [send EXCEPT ![s].step = t, ![s].udp = u]
  <2>1. send' = [send EXCEPT ![s] = [x EXCEPT !.step = t, !.udp = u]] BY <1>1, <1>4
  <2> HIDE DEF x
  <2>2. ASSUME NEW y, y = [x EXCEPT !.step = t, !.udp = u] PROVE IsSend(y) BY <1>2, <2>2 DEF IsSend
  <2>3. IsSend([x EXCEPT !.step = t, !.udp = u]) BY <2>2
  <2> QED BY <2>1, <2>3, OneSend
<1>5. CASE send' = [send EXCEPT ![s].step = t, ![s].todo = l]
  <2>1. send' = [send EXCEPT ![s] = [x EXCEPT !.step = t, !.todo = l]] BY <1>1, <1>5
  <2> HIDE DEF x
  <2>2. ASSUME NEW y, y = [x EXCEPT !.step = t, !.todo = l] PROVE IsSend(y) BY <1>2, <2>2 DEF IsSend
  <2>3. IsSend([x EXCEPT !.step = t, !.todo = l]) BY <2>2
  <2> QED BY <2>1, <2>3, OneSend
<1>6. CASE send' = [send EXCEPT ![s] = [NoSend EXCEPT !.step = t]]
  <2>1. ASSUME NEW y, y = [NoSend EXCEPT !.step = t] PROVE IsSend(y)
    BY <2>1 DEF NoSend, IsSend
  <2>2. IsSend([NoSend EXCEPT !.step = t]) BY <2>1
  <2> QED BY <1>6, <2>2, OneSend
<1>7. CASE send' = [send EXCEPT ![s] = NoSend]
  <2>1. IsSend(NoSend) BY DEF NoSend, IsSend
  <2> QED BY <1>7, <2>1, OneSend
<1> QED BY <1>3, <1>4, <1>5, <1>6, <1>7

-----------------------------------------------------------------------------
(* Targets: what the loop over the addresses of a record finds.            *)

AllTargets == [address : Addresses, priority : Nat, weight : Nat]

\* What one more address makes of the targets found.
Added(q, r, a) ==
  IF Len(q) >= MaxTargets \/ Contains(q, TargetOf(r, a)) THEN q ELSE Append(q, TargetOf(r, a))
Loop(f, found, r, addresses, n) ==
  f = [i \in 0 .. n |-> IF i = 0 THEN found ELSE Added(f[i - 1], r, addresses[i])]

\* The loop over the addresses of a record has a run: were there lengths
\* without one, the least of them would have one.
LEMMA LoopRuns ==
  ASSUME NEW found, NEW r, NEW addresses, NEW n \in Nat
  PROVE  \E f : Loop(f, found, r, addresses, n)
<1> DEFINE T == {m \in Nat : ~ \E f : Loop(f, found, r, addresses, m)}
<1> SUFFICES T = {} OBVIOUS
<1>1. SUFFICES ASSUME T # {} PROVE FALSE OBVIOUS
<1>2. PICK m \in T : \A k \in T : m <= k
  <2>1. T \in SUBSET Nat OBVIOUS
  <2> HIDE DEF T
  <2> QED BY <1>1, <2>1, Least
<1>3. CASE m = 0
  <2>1. ASSUME NEW f, f = [i \in 0 .. 0 |-> found] PROVE Loop(f, found, r, addresses, 0)
    <3>1. \A i \in 0 .. 0 : i = 0 OBVIOUS
    <3>2. f = [i \in 0 .. 0 |-> IF i = 0 THEN found ELSE Added(f[i - 1], r, addresses[i])]
      BY <2>1, <3>1
    <3> QED BY <3>2 DEF Loop
  <2> QED BY <1>3, <2>1
<1>4. CASE m # 0
  <2>1. m - 1 \in Nat /\ ~(m <= m - 1) /\ m \in Nat BY <1>4
  <2>2. m - 1 \notin T BY <1>2, <2>1
  <2>3. PICK g : Loop(g, found, r, addresses, m - 1) BY <2>1, <2>2
  <2> DEFINE f == [i \in 0 .. m |-> IF i = m THEN Added(g[m - 1], r, addresses[m]) ELSE g[i]]
  <2>4. \A i \in 0 .. m - 1 : g[i] = IF i = 0 THEN found ELSE Added(g[i - 1], r, addresses[i])
    BY <2>3 DEF Loop
  <2>5. ASSUME NEW i \in 0 .. m
        PROVE  f[i] = IF i = 0 THEN found ELSE Added(f[i - 1], r, addresses[i])
    <3>1. CASE i = m
      <4>1. f[m] = Added(g[m - 1], r, addresses[m]) /\ f[m - 1] = g[m - 1] BY <2>1
      <4> QED BY <1>4, <3>1, <4>1
    <3>2. CASE i # m /\ i # 0
      <4>1. i \in 0 .. m - 1 /\ i - 1 \in 0 .. m /\ i - 1 # m BY <2>1, <3>2
      <4>2. f[i] = g[i] /\ f[i - 1] = g[i - 1] BY <3>2, <4>1
      <4> HIDE DEF f
      <4> QED BY <2>4, <3>2, <4>1, <4>2
    <3>3. CASE i = 0
      <4>1. f[0] = g[0] /\ 0 \in 0 .. m - 1 BY <1>4, <2>1
      <4> HIDE DEF f
      <4> QED BY <2>4, <3>3, <4>1
    <3> QED BY <3>1, <3>2, <3>3
  <2>6. f = [i \in 0 .. m |-> f[i]] OBVIOUS
  <2> HIDE DEF f
  <2>7. f = [i \in 0 .. m |-> IF i = 0 THEN found ELSE Added(f[i - 1], r, addresses[i])]
    BY <2>5, <2>6
  <2>8. Loop(f, found, r, addresses, m) BY <2>7 DEF Loop
  <2> QED BY <2>8
<1> QED BY <1>3, <1>4

\* What a record adds has its priority and its weight.
LEMMA ExpandedIs ==
  ASSUME NEW found \in Seq(AllTargets), NEW r, r.priority \in Nat, r.weight \in Nat,
         NEW addresses \in Seq(Addresses)
  PROVE  /\ Expanded(found, r, addresses) \in Seq(AllTargets)
         /\ \A t \in Range(Expanded(found, r, addresses)) :
              t \in Range(found) \/ (t.priority = r.priority /\ t.weight = r.weight)
<1> DEFINE n == Len(addresses)
           Fits(q) == /\ q \in Seq(AllTargets)
                      /\ \A t \in Range(q) :
                           t \in Range(found) \/ (t.priority = r.priority /\ t.weight = r.weight)
<1>0. n \in Nat OBVIOUS
<1>1. ASSUME NEW q, Fits(q), NEW i \in 1 .. n PROVE Fits(Added(q, r, addresses[i]))
  <2> DEFINE t == TargetOf(r, addresses[i])
  <2>1. t \in AllTargets /\ t.priority = r.priority /\ t.weight = r.weight
    BY DEF TargetOf, AllTargets
  <2> HIDE DEF t
  <2>2. q \in Seq(AllTargets) BY <1>1
  <2>3. /\ Append(q, t) \in Seq(AllTargets) /\ Len(Append(q, t)) = Len(q) + 1 /\ Len(q) \in Nat
        /\ Append(q, t)[Len(q) + 1] = t /\ \A k \in 1 .. Len(q) : Append(q, t)[k] = q[k]
    BY <2>1, <2>2, AppendProperties
  <2>4. \A x \in Range(Append(q, t)) : x \in Range(q) \/ x = t
    <3> DEFINE a == Append(q, t)
    <3>1. DOMAIN a = 1 .. Len(q) + 1 /\ DOMAIN q = 1 .. Len(q)
      <4>1. DOMAIN a = 1 .. Len(a) /\ DOMAIN q = 1 .. Len(q) BY <2>2, <2>3, LenProperties
      <4> QED BY <4>1, <2>3
    <3> HIDE DEF a
    <3>2. ASSUME NEW k \in DOMAIN a PROVE a[k] \in Range(q) \/ a[k] = t
      <4>1. k \in 1 .. Len(q) \/ k = Len(q) + 1 BY <3>1, <2>3
      <4> QED BY <4>1, <3>1, <2>3 DEF Range, a
    <3> QED BY <3>2 DEF Range, a
  <2>5. Fits(Append(q, t)) BY <1>1, <2>1, <2>3, <2>4
  <2> HIDE DEF Fits
  <2> QED BY <1>1, <2>5 DEF Added, t
<1>2. Fits(found) OBVIOUS
<1>3. ASSUME NEW f, Loop(f, found, r, addresses, n) PROVE Fits(f[n])
  <2> HIDE DEF Fits
  <2> DEFINE T == {i \in 0 .. n : ~Fits(f[i])}
  <2>1. \A i \in 0 .. n : f[i] = IF i = 0 THEN found ELSE Added(f[i - 1], r, addresses[i])
    BY <1>3 DEF Loop
  <2>2. T = {}
    <3>1. SUFFICES ASSUME T # {} PROVE FALSE OBVIOUS
    <3>2. PICK i \in T : \A m \in T : i <= m
      <4>1. T \in SUBSET Nat BY <1>0
      <4> HIDE DEF T
      <4> QED BY <4>1, <3>1, Least
    <3>3. i # 0 BY <1>0, <1>2, <2>1
    <3>4. i \in 1 .. n /\ i - 1 \in 0 .. n /\ ~(i <= i - 1) BY <1>0, <3>3
    <3>5. Fits(f[i - 1]) BY <3>2, <3>4
    <3>6. Fits(Added(f[i - 1], r, addresses[i])) BY <1>1, <3>4, <3>5
    <3> QED BY <2>1, <3>2, <3>3, <3>6
  <2> QED BY <1>0, <2>2
<1>4. Fits(Expanded(found, r, addresses))
  <2> HIDE DEF Fits, n
  <2> DEFINE Runs(f) == f = [i \in 0 .. n |-> IF i = 0 THEN found
                               ELSE IF \/ Len(f[i - 1]) >= MaxTargets
                                       \/ Contains(f[i - 1], TargetOf(r, addresses[i]))
                               THEN f[i - 1] ELSE Append(f[i - 1], TargetOf(r, addresses[i]))]
             g == CHOOSE f : Runs(f)
  <2>1. \A f : Runs(f) <=> Loop(f, found, r, addresses, n) BY DEF Loop, Added
  <2>2. Expanded(found, r, addresses) = g[n] BY Zenon DEF Expanded, n
  <2> HIDE DEF Runs
  <2>3. \E f : Runs(f) BY <1>0, <2>1, LoopRuns
  <2>4. Runs(g) BY <2>3
  <2> HIDE DEF g
  <2>5. Fits(g[n]) BY <1>3, <2>1, <2>4
  <2> QED BY <2>2, <2>5
<1> QED BY <1>4

-----------------------------------------------------------------------------
(* Lookups and the cache.                                                  *)

\* The counts of a lookup and of the cache stay in their ranges.
LEMMA Clocked ==
  ASSUME NEW n \in 0 .. CacheTtl
  PROVE  /\ Older(n) \in 0 .. CacheTtl /\ Older(n) <= n + 1
         /\ Sooner(n) \in 0 .. CacheTtl /\ (n > 0 => Sooner(n) = n - 1) /\ (n = 0 => Sooner(n) = 0)
<1>1. CacheTtl \in Nat /\ n \in Nat /\ n <= CacheTtl BY LocationAssumption
<1>2. \A a, b \in Int : Min({a, b}) = IF a <= b THEN a ELSE b
  <2>1. SUFFICES ASSUME NEW a \in Int, NEW b \in Int PROVE Min({a, b}) = IF a <= b THEN a ELSE b
    OBVIOUS
  <2> DEFINE m == IF a <= b THEN a ELSE b
             P(x) == x \in {a, b} /\ \A y \in {a, b} : x <= y
  <2>2. P(m) /\ \A x : P(x) => x = m OBVIOUS
  <2>3. Min({a, b}) = CHOOSE x \in {a, b} : \A y \in {a, b} : x <= y BY DEF Min
  <2> QED BY <2>2, <2>3
<1>3. \A a, b \in Int : Max({a, b}) = IF a >= b THEN a ELSE b
  <2>1. SUFFICES ASSUME NEW a \in Int, NEW b \in Int PROVE Max({a, b}) = IF a >= b THEN a ELSE b
    OBVIOUS
  <2> DEFINE m == IF a >= b THEN a ELSE b
             P(x) == x \in {a, b} /\ \A y \in {a, b} : x >= y
  <2>2. P(m) /\ \A x : P(x) => x = m OBVIOUS
  <2>3. Max({a, b}) = CHOOSE x \in {a, b} : \A y \in {a, b} : x >= y BY DEF Max
  <2> QED BY <2>2, <2>3
<1>4. Older(n) = IF n + 1 <= CacheTtl THEN n + 1 ELSE CacheTtl BY <1>1, <1>2 DEF Older
<1>5. Sooner(n) = IF n - 1 >= 0 THEN n - 1 ELSE 0 BY <1>1, <1>3 DEF Sooner
<1> QED BY <1>1, <1>4, <1>5

IsRecord(r) == r.host \in DOMAIN AddressesOf /\ r.priority \in Nat /\ r.weight \in Nat
IsLookup(l) ==
  /\ l = [step |-> l.step, todo |-> l.todo, found |-> l.found, left |-> l.left, age |-> l.age]
  /\ l.found \in Seq(AllTargets) /\ \A r \in l.todo : IsRecord(r)
  /\ l.left \in 0 .. CacheTtl /\ l.age \in 0 .. CacheTtl
  /\ l.step = "asking" => l.found = << >>
  /\ l.step = "drawing" /\ l.left > 0 => l.left + l.age <= CacheTtl
  /\ \A r \in l.todo, t \in Range(l.found) : NotAfter(t, r)

LookupsOK == lookup = [s \in Senders |-> lookup[s]] /\ \A s \in Senders : IsLookup(lookup[s])
CacheOK ==
  /\ cache = [targets |-> cache.targets, left |-> cache.left, age |-> cache.age]
  /\ cache.targets \in Seq(AllTargets)
  /\ cache.left \in 0 .. CacheTtl /\ cache.age \in 0 .. CacheTtl
  /\ CacheAge
LocationOK == zone \in Zones /\ LookupsOK /\ CacheOK

\* A record with these five fields is a lookup.
LEMMA LookupShape ==
  ASSUME NEW step, NEW todo, NEW found \in Seq(AllTargets),
         NEW left \in 0 .. CacheTtl, NEW age \in 0 .. CacheTtl,
         \A r \in todo : IsRecord(r),
         step = "asking" => found = << >>,
         step = "drawing" /\ left > 0 => left + age <= CacheTtl,
         \A r \in todo, t \in Range(found) : NotAfter(t, r),
         NEW l, l = [step |-> step, todo |-> todo, found |-> found, left |-> left, age |-> age]
  PROVE  IsLookup(l)
<1>1. l.step = step /\ l.todo = todo /\ l.found = found /\ l.left = left /\ l.age = age OBVIOUS
<1> QED BY <1>1 DEF IsLookup

\* Nothing is found yet.
LEMMA NoneLeft == Range(<< >>) = {} /\ << >> \in Seq(AllTargets)
BY DEF Range

\* A lookup that has ended, or has not begun.
LEMMA EndedIs ==
  ASSUME NEW step, step \notin {"asking", "drawing"}, NEW found \in Seq(AllTargets),
         NEW l, \/ l = [NoLookup EXCEPT !.step = step, !.found = found]
                \/ l = [NoLookup EXCEPT !.step = step] \/ l = NoLookup
  PROVE  IsLookup(l)
<1>1. 0 \in 0 .. CacheTtl BY LocationAssumption
<1>2. CASE l = [NoLookup EXCEPT !.step = step, !.found = found]
  <2>1. l = [step |-> step, todo |-> {}, found |-> found, left |-> 0, age |-> 0]
    BY <1>2 DEF NoLookup
  <2> QED BY <1>1, <2>1, LookupShape
<1>3. CASE l = [NoLookup EXCEPT !.step = step]
  <2>1. l = [step |-> step, todo |-> {}, found |-> << >>, left |-> 0, age |-> 0]
    BY <1>3 DEF NoLookup
  <2> QED BY <1>1, <2>1, LookupShape, NoneLeft
<1>4. CASE l = NoLookup
  <2>1. l = [step |-> "none", todo |-> {}, found |-> << >>, left |-> 0, age |-> 0]
    BY <1>4 DEF NoLookup
  <2> QED BY <1>1, <2>1, LookupShape, NoneLeft
<1> QED BY <1>2, <1>3, <1>4

\* One lookup changes.
LEMMA OneLookup ==
  ASSUME LookupsOK, NEW s \in Senders, NEW l, IsLookup(l), lookup' = [lookup EXCEPT ![s] = l]
  PROVE  LookupsOK'
<1>1. lookup = [o \in Senders |-> lookup[o]] /\ \A o \in Senders : IsLookup(lookup[o])
  BY DEF LookupsOK
<1>2. /\ lookup' = [o \in Senders |-> lookup'[o]]
      /\ \A o \in Senders : lookup'[o] = lookup[o] \/ lookup'[o] = l
  BY <1>1
<1> QED BY <1>1, <1>2 DEF LookupsOK

\* A lookup begins, with the cache or without.
LEMMA AskKept ==
  ASSUME LocationOK, NEW s \in Senders, Ask(s)
  PROVE  LocationOK'
<1> DEFINE l == IF cache.left > 0
                THEN [NoLookup EXCEPT !.step = "answered", !.found = cache.targets]
                ELSE [NoLookup EXCEPT !.step = "asking", !.left = CacheTtl]
<1>1. lookup' = [lookup EXCEPT ![s] = l] /\ UNCHANGED <<zone, cache>> BY DEF Ask
<1>2. CASE cache.left > 0
  <2>1. l = [NoLookup EXCEPT !.step = "answered", !.found = cache.targets] BY <1>2
  <2>2. cache.targets \in Seq(AllTargets) BY DEF LocationOK, CacheOK
  <2> HIDE DEF l
  <2>3. IsLookup(l) BY <2>1, <2>2, EndedIs
  <2> QED BY <1>1, <2>3, OneLookup DEF LocationOK, CacheOK, CacheAge
<1>3. CASE ~(cache.left > 0)
  <2>1. l = [NoLookup EXCEPT !.step = "asking", !.left = CacheTtl] BY <1>3
  <2> HIDE DEF l
  <2>2. l = [step |-> "asking", todo |-> {}, found |-> << >>, left |-> CacheTtl, age |-> 0]
    BY <2>1 DEF NoLookup
  <2>3. 0 \in 0 .. CacheTtl /\ CacheTtl \in 0 .. CacheTtl BY LocationAssumption
  <2>4. IsLookup(l) BY <2>2, <2>3, LookupShape, NoneLeft
  <2> QED BY <1>1, <2>4, OneLookup DEF LocationOK, CacheOK, CacheAge
<1> QED BY <1>2, <1>3

\* Whatever DNS holds, the candidates are records.
LEMMA CandidatesAre ==
  ASSUME zone \in Zones
  PROVE  \A r \in Candidates(zone) : IsRecord(r)
<1>1. CASE zone = {}
  <2>1. NoHost \in DOMAIN AddressesOf BY LocationAssumption
  <2> QED BY <1>1, <2>1 DEF Candidates, IsRecord
<1>2. CASE zone # {}
  <2>1. ASSUME NEW r \in zone PROVE IsRecord(r)
    <3>1. r.host \in HostsOf(zone) BY DEF HostsOf
    <3> QED BY <3>1, LocationAssumption DEF IsRecord
  <2> QED BY <1>2, <2>1 DEF Candidates
<1> QED BY <1>1, <1>2

\* DNS answers: nothing was found before it.
LEMMA QueryKept ==
  ASSUME LocationOK, NEW s \in Senders, Query(s)
  PROVE  LocationOK'
<1> DEFINE x == lookup[s]
           l == [x EXCEPT !.step = "drawing", !.todo = Candidates(zone), !.age = 0]
<1>1. IsLookup(x) /\ lookup = [o \in Senders |-> lookup[o]] BY DEF LocationOK, LookupsOK
<1>2. lookup' = [lookup EXCEPT ![s] = l] /\ x.step = "asking" /\ UNCHANGED <<zone, cache>>
  BY <1>1 DEF Query
<1> HIDE DEF x
<1>3. /\ x = [step |-> x.step, todo |-> x.todo, found |-> x.found, left |-> x.left, age |-> x.age]
      /\ x.found = << >> /\ x.left \in 0 .. CacheTtl
  BY <1>1, <1>2 DEF IsLookup
<1>4. l = [step |-> "drawing", todo |-> Candidates(zone), found |-> << >>,
           left |-> x.left, age |-> 0]
  <2>1. ASSUME NEW y, y = [x EXCEPT !.step = "drawing", !.todo = Candidates(zone), !.age = 0]
        PROVE  y = [step |-> "drawing", todo |-> Candidates(zone), found |-> << >>,
                    left |-> x.left, age |-> 0]
    BY <1>3, <2>1
  <2> QED BY <2>1
<1> HIDE DEF l
<1>5. \A r \in Candidates(zone) : IsRecord(r) BY CandidatesAre DEF LocationOK
<1>6. 0 \in 0 .. CacheTtl /\ x.left + 0 <= CacheTtl BY <1>3, LocationAssumption
<1>7. IsLookup(l) BY <1>3, <1>4, <1>5, <1>6, NoneLeft, LookupShape
<1> QED BY <1>1, <1>2, <1>7, OneLookup DEF LocationOK, CacheOK, CacheAge

\* The record that is drawn comes after none of those that wait.
LEMMA DrawableFirst ==
  ASSUME NEW pending, \A r \in pending : IsRecord(r), NEW r \in Drawable(pending)
  PROVE  /\ r \in pending
         /\ \A o \in pending :
              r.priority < o.priority \/ (r.priority = o.priority /\ (r.weight > 0 \/ o.weight = 0))
<1>0. r \in pending BY DEF Drawable
<1> SUFFICES ASSUME NEW o \in pending
             PROVE  \/ r.priority < o.priority
                    \/ (r.priority = o.priority /\ (r.weight > 0 \/ o.weight = 0))
  BY <1>0
<1>1. /\ r \in pending /\ r.priority <= o.priority
      /\ r.weight > 0 \/ \A p \in {e \in pending : \A q \in pending : e.priority <= q.priority}:
           p.weight = 0
      /\ \A q \in pending : r.priority <= q.priority
  BY DEF Drawable
<1>2. r.priority \in Nat /\ o.priority \in Nat /\ r.weight \in Nat /\ o.weight \in Nat
  BY <1>1 DEF IsRecord
<1>3. CASE r.priority = o.priority
  <2>1. \A q \in pending : o.priority <= q.priority BY <1>1, <1>3
  <2> QED BY <1>1, <1>3, <2>1
<1>4. CASE r.priority # o.priority
  <2>1. r.priority < o.priority BY <1>1, <1>2, <1>4
  <2> QED BY <1>1, <2>1
<1> QED BY <1>3, <1>4

\* A record is drawn: what it adds comes before all the rest.
LEMMA DrawKept ==
  ASSUME LocationOK, NEW s \in Senders, Draw(s)
  PROVE  LocationOK'
<1> DEFINE x == lookup[s]
<1>1. IsLookup(x) /\ lookup = [o \in Senders |-> lookup[o]] BY DEF LocationOK, LookupsOK
<1>2. PICK r \in Drawable(x.todo) :
        /\ x.step = "drawing"
        /\ lookup' = [lookup EXCEPT ![s].todo = @ \ {r},
                                    ![s].found = Expanded(@, r, AddressesOf[r.host])]
        /\ UNCHANGED <<zone, cache>>
  BY DEF Draw, Pending
<1> DEFINE l == [x EXCEPT !.todo = x.todo \ {r},
                       !.found = Expanded(x.found, r, AddressesOf[r.host])]
<1>3. lookup' = [lookup EXCEPT ![s] = l] BY <1>1, <1>2
<1> HIDE DEF x
<1>4. /\ x = [step |-> x.step, todo |-> x.todo, found |-> x.found, left |-> x.left, age |-> x.age]
      /\ x.found \in Seq(AllTargets) /\ (\A o \in x.todo : IsRecord(o))
      /\ x.left \in 0 .. CacheTtl /\ x.age \in 0 .. CacheTtl
      /\ x.left > 0 => x.left + x.age <= CacheTtl
      /\ \A o \in x.todo, t \in Range(x.found) : NotAfter(t, o)
  BY <1>1, <1>2 DEF IsLookup
<1> DEFINE e == Expanded(x.found, r, AddressesOf[r.host])
<1>5. r \in x.todo /\ \A o \in x.todo :
        r.priority < o.priority \/ (r.priority = o.priority /\ (r.weight > 0 \/ o.weight = 0))
  BY <1>2, <1>4, DrawableFirst
<1>6. IsRecord(r) BY <1>4, <1>5
<1>7. AddressesOf[r.host] \in Seq(Addresses)
  <2>1. r.host \in DOMAIN AddressesOf BY <1>6 DEF IsRecord
  <2>2. AddressesOf[r.host] \in Seq(Range(AddressesOf[r.host])) BY <2>1, LocationAssumption
  <2>3. Range(AddressesOf[r.host]) \subseteq Addresses BY <2>1 DEF Addresses
  <2> QED BY <2>2, <2>3, SeqDef
<1>8. /\ e \in Seq(AllTargets)
      /\ \A t \in Range(e) :
           t \in Range(x.found) \/ (t.priority = r.priority /\ t.weight = r.weight)
  BY <1>4, <1>6, <1>7, ExpandedIs DEF IsRecord
<1>9. l = [step |-> x.step, todo |-> x.todo \ {r}, found |-> e, left |-> x.left, age |-> x.age]
  <2>1. ASSUME NEW y, y = [x EXCEPT !.todo = x.todo \ {r}, !.found = e]
        PROVE  y = [step |-> x.step, todo |-> x.todo \ {r}, found |-> e,
                    left |-> x.left, age |-> x.age]
    <3> HIDE DEF e
    <3> QED BY <1>4, <2>1
  <2> QED BY <2>1
<1> HIDE DEF l, e
<1>10. \A o \in x.todo \ {r}, t \in Range(e) : NotAfter(t, o)
  BY <1>4, <1>5, <1>8 DEF NotAfter
<1>11. IsLookup(l)
  <2>1. \A o \in x.todo \ {r} : IsRecord(o) BY <1>4
  <2>2. x.step # "asking" BY <1>2
  <2> QED BY <1>4, <1>8, <1>9, <1>10, <2>1, <2>2, LookupShape
<1> QED BY <1>1, <1>2, <1>3, <1>11, OneLookup DEF LocationOK, CacheOK, CacheAge

\* A lookup fails, or its answer is taken.
LEMMA EndKept ==
  ASSUME LocationOK, NEW s \in Senders, DrawFails(s) \/ Forget(s)
  PROVE  LocationOK'
<1>1. PICK l : IsLookup(l) /\ lookup' = [lookup EXCEPT ![s] = l]
  <2>1. IsLookup(NoLookup)
    <3>1. "none" \notin {"asking", "drawing"} OBVIOUS
    <3> QED BY <3>1, EndedIs, NoneLeft
  <2>2. ASSUME NEW y, y = [NoLookup EXCEPT !.step = "failed"] PROVE IsLookup(y)
    <3>1. "failed" \notin {"asking", "drawing"} OBVIOUS
    <3> QED BY <2>2, <3>1, EndedIs, NoneLeft
  <2>3. IsLookup([NoLookup EXCEPT !.step = "failed"]) BY <2>2
  <2> QED BY <2>1, <2>3 DEF DrawFails, Forget
<1> QED BY <1>1, OneLookup DEF LocationOK, CacheOK, CacheAge, DrawFails, Forget

\* A lookup writes the cache, with the age of its own answer.
LEMMA StoreKept ==
  ASSUME LocationOK, NEW s \in Senders, Store(s)
  PROVE  LocationOK'
<1> DEFINE x == lookup[s]
           l == [NoLookup EXCEPT !.step = "answered", !.found = x.found]
<1>1. IsLookup(x) BY DEF LocationOK, LookupsOK
<1>2. /\ lookup' = [lookup EXCEPT ![s] = l] /\ x.step = "drawing" /\ zone' = zone
      /\ cache' = IF x.left = 0 THEN NoEntry
                  ELSE [targets |-> x.found, left |-> x.left, age |-> x.age]
  BY DEF Store, Expiry
<1> HIDE DEF x
<1>3. /\ x.found \in Seq(AllTargets)
      /\ x.left \in 0 .. CacheTtl /\ x.age \in 0 .. CacheTtl
      /\ x.left > 0 => x.left + x.age <= CacheTtl
  BY <1>1, <1>2 DEF IsLookup
<1>4. IsLookup(l) BY <1>3, EndedIs
<1>5. LookupsOK' BY <1>2, <1>4, OneLookup DEF LocationOK
<1>6. CacheOK'
  <2>1. CASE x.left = 0
    <3>1. 0 \in 0 .. CacheTtl BY LocationAssumption
    <3> QED BY <1>2, <2>1, <3>1, NoneLeft DEF CacheOK, CacheAge, NoEntry
  <2>2. CASE x.left # 0
    <3>1. cache' = [targets |-> x.found, left |-> x.left, age |-> x.age] BY <1>2, <2>2
    <3> QED BY <1>3, <3>1 DEF CacheOK, CacheAge
  <2> QED BY <2>1, <2>2
<1> QED BY <1>2, <1>5, <1>6 DEF LocationOK

\* A tick: what is left shrinks by as much as the age grows.
LEMMA TimePasses ==
  ASSUME LocationOK, ClockTicks
  PROVE  LocationOK'
<1>1. lookup' = [s \in Senders |->
         IF lookup[s].step \in {"asking", "drawing"}
         THEN [lookup[s] EXCEPT !.left = Sooner(lookup[s].left), !.age = Older(lookup[s].age)]
         ELSE lookup[s]]
  BY DEF ClockTicks
<1>2. ASSUME NEW x, IsLookup(x),
             NEW y, y = [x EXCEPT !.left = Sooner(x.left), !.age = Older(x.age)]
      PROVE  IsLookup(y)
  <2>1. /\ x = [step |-> x.step, todo |-> x.todo, found |-> x.found, left |-> x.left, age |-> x.age]
        /\ x.found \in Seq(AllTargets) /\ (\A o \in x.todo : IsRecord(o))
        /\ x.left \in 0 .. CacheTtl /\ x.age \in 0 .. CacheTtl
        /\ x.step = "drawing" /\ x.left > 0 => x.left + x.age <= CacheTtl
        /\ x.step = "asking" => x.found = << >>
        /\ \A o \in x.todo, t \in Range(x.found) : NotAfter(t, o)
    BY <1>2 DEF IsLookup
  <2> DEFINE n == Sooner(x.left)
             a == Older(x.age)
  <2>2. y = [step |-> x.step, todo |-> x.todo, found |-> x.found, left |-> n, age |-> a]
    BY <1>2, <2>1
  <2>3. /\ a \in 0 .. CacheTtl /\ a <= x.age + 1 /\ n \in 0 .. CacheTtl
        /\ (x.left > 0 => n = x.left - 1) /\ (x.left = 0 => n = 0)
    BY <2>1, Clocked
  <2> HIDE DEF n, a
  <2>4. x.step = "drawing" /\ n > 0 => n + a <= CacheTtl
    BY <2>1, <2>3, LocationAssumption
  <2> QED BY <2>1, <2>2, <2>3, <2>4, LookupShape
<1>3. LookupsOK'
  <2>1. \A s \in Senders : IsLookup(lookup[s]) BY DEF LocationOK, LookupsOK
  <2>2. ASSUME NEW s \in Senders PROVE IsLookup(lookup'[s])
    <3>1. CASE lookup[s].step \in {"asking", "drawing"}
      <4>1. lookup'[s] = [lookup[s] EXCEPT !.left = Sooner(lookup[s].left),
                                           !.age = Older(lookup[s].age)]
        BY <1>1, <3>1
      <4> QED BY <1>2, <2>1, <4>1
    <3>2. CASE lookup[s].step \notin {"asking", "drawing"}
      <4>1. lookup'[s] = lookup[s] BY <1>1, <3>2
      <4> QED BY <2>1, <4>1
    <3> QED BY <3>1, <3>2
  <2>3. lookup' = [s \in Senders |-> lookup'[s]] BY <1>1
  <2> QED BY <2>2, <2>3 DEF LookupsOK
<1>4. CacheOK'
  <2>1. /\ cache = [targets |-> cache.targets, left |-> cache.left, age |-> cache.age]
        /\ cache.targets \in Seq(AllTargets)
        /\ cache.left \in 0 .. CacheTtl /\ cache.age \in 0 .. CacheTtl
        /\ cache.left > 0 => cache.left + cache.age <= CacheTtl
    BY DEF LocationOK, CacheOK, CacheAge
  <2>2. CASE cache.left <= 1
    <3>1. cache' = NoEntry BY <2>2 DEF ClockTicks
    <3>2. 0 \in 0 .. CacheTtl BY LocationAssumption
    <3> QED BY <3>1, <3>2, NoneLeft DEF CacheOK, CacheAge, NoEntry
  <2>3. CASE ~(cache.left <= 1)
    <3> DEFINE n == Sooner(cache.left)
               a == Older(cache.age)
    <3>1. cache' = [cache EXCEPT !.left = n, !.age = a] BY <2>3 DEF ClockTicks
    <3>2. /\ a \in 0 .. CacheTtl /\ a <= cache.age + 1 /\ n \in 0 .. CacheTtl
          /\ (cache.left > 0 => n = cache.left - 1)
      BY <2>1, Clocked
    <3> HIDE DEF n, a
    <3>3. cache' = [targets |-> cache.targets, left |-> n, age |-> a] BY <2>1, <3>1
    <3>4. n + a <= CacheTtl BY <2>1, <2>3, <3>2, LocationAssumption
    <3> QED BY <2>1, <3>2, <3>3, <3>4 DEF CacheOK, CacheAge
  <2> QED BY <2>2, <2>3
<1> QED BY <1>3, <1>4 DEF LocationOK, ClockTicks

-----------------------------------------------------------------------------
(* The steps.                                                              *)

StreamsOK == ConnsOK /\ KeysOK /\ SendsOK
PoolInv == LocationOK /\ StreamsOK

\* The invariant implies the property.
LEMMA SendsSafeOf == PoolInv => SendsSafe
<1> SUFFICES ASSUME PoolInv PROVE SendsSafe OBVIOUS
<1>1. PoolExact
  <2>1. \A c \in Connections : conn[c].closed \in BOOLEAN /\ (c \in pool <=> conn[c].closed = FALSE)
    BY DEF PoolInv, StreamsOK, ConnsOK, IsConn
  <2> QED BY <2>1 DEF PoolExact
<1>2. KeysInPool BY DEF PoolInv, StreamsOK, KeysOK, KeysInPool
<1>3. CacheAge BY DEF PoolInv, LocationOK, CacheOK
<1>4. SrvOrder BY DEF PoolInv, LocationOK, LookupsOK, IsLookup, SrvOrder, Pending
<1> QED BY <1>1, <1>2, <1>3, <1>4 DEF SendsSafe

\* It holds at first.
LEMMA PoolStarts == PoolInit => PoolInv
<1> SUFFICES ASSUME PoolInit PROVE PoolInv OBVIOUS
<1>1. LookupsOK
  <2>1. lookup = [s \in Senders |-> NoLookup] BY DEF PoolInit, LocationInit
  <2>2. "none" \notin {"asking", "drawing"} OBVIOUS
  <2>3. IsLookup(NoLookup) BY <2>2, EndedIs, NoneLeft
  <2> QED BY <2>1, <2>3 DEF LookupsOK
<1>2. CacheOK
  <2>1. 0 \in 0 .. CacheTtl BY LocationAssumption
  <2> QED BY <2>1, NoneLeft DEF PoolInit, LocationInit, CacheOK, CacheAge, NoEntry
<1>3. ConnsOK
  <2>1. conn = [c \in Connections |-> NoConn] /\ pool = {} BY DEF PoolInit
  <2> QED BY <2>1, NoConnIs DEF ConnsOK
<1>4. KeysOK BY DEF PoolInit, KeysOK
<1>5. SendsOK
  <2>1. IsSend(NoSend) BY DEF NoSend, IsSend
  <2> QED BY <2>1 DEF PoolInit, SendsOK
<1> QED BY <1>1, <1>2, <1>3, <1>4, <1>5 DEF PoolInit, LocationInit, LocationOK, PoolInv, StreamsOK

\* A part of the state that does not change keeps its part of the invariant.
LEMMA LocatedSame == ASSUME LocationOK, UNCHANGED located PROVE LocationOK'
BY DEF located, LocationOK, LookupsOK, CacheOK, CacheAge
\* The same for connections and keys.
LEMMA StreamsSame == ASSUME ConnsOK, KeysOK, UNCHANGED <<conn, pool, at>> PROVE ConnsOK' /\ KeysOK'
BY DEF ConnsOK, KeysOK
\* The same for the tasks.
LEMMA SendsSame == ASSUME SendsOK, UNCHANGED send PROVE SendsOK'
BY DEF SendsOK

\* What happens to a connection.
LEMMA ConnectionKept ==
  ASSUME PoolInv, NEW c \in Connections,
         \/ \E peer \in Addresses : Accept(c, peer)
         \/ AliasArrives(c) \/ BadFrame(c) \/ IdleExpired(c) \/ ConnectionLost(c)
  PROVE  PoolInv'
<1>0. /\ LocationOK /\ ConnsOK /\ KeysOK /\ SendsOK
      /\ conn = [d \in Connections |-> conn[d]]
  BY DEF PoolInv, StreamsOK, ConnsOK
<1>1. LocationOK' /\ SendsOK'
  BY <1>0, LocatedSame, SendsSame DEF Accept, AliasArrives, BadFrame, IdleExpired, ConnectionLost
<1>2. ASSUME NEW peer \in Addresses, Accept(c, peer) PROVE ConnsOK' /\ KeysOK'
  BY <1>0, <1>2, OpenedKept DEF Accept
<1>3. CASE AliasArrives(c)
  <2> DEFINE x == [conn[c] EXCEPT !.reuse = TRUE]
  <2>1. IsConn(x) /\ x.closed = conn[c].closed BY <1>0, ConnFields
  <2>2. conn' = [conn EXCEPT ![c] = x] BY <1>0, <1>3 DEF AliasArrives
  <2> HIDE DEF x
  <2>3. UNCHANGED <<pool, at>> BY <1>3 DEF AliasArrives
  <2> QED BY <1>1, <1>0, <2>1, <2>2, <2>3, ConnChanged DEF PoolInv, StreamsOK
<1>4. CASE BadFrame(c)
  <2> DEFINE x == [conn[c] EXCEPT !.transport = "closing"]
  <2>1. IsConn(x) /\ x.closed = conn[c].closed BY <1>0, ConnFields
  <2>2. conn' = [conn EXCEPT ![c] = x] BY <1>0, <1>4 DEF BadFrame
  <2> HIDE DEF x
  <2>3. UNCHANGED <<pool, at>> BY <1>4 DEF BadFrame
  <2> QED BY <1>1, <1>0, <2>1, <2>2, <2>3, ConnChanged DEF PoolInv, StreamsOK
<1>5. CASE IdleExpired(c)
  <2> DEFINE x == [NoConn EXCEPT !.transport = "closing"]
  <2>1. IsConn(x) /\ x.closed = TRUE BY NoConnIs
  <2>2. conn' = [conn EXCEPT ![c] = x] /\ Unregister(c) BY <1>5 DEF IdleExpired
  <2> HIDE DEF x
  <2> QED BY <1>1, <1>0, <2>1, <2>2, ClosedKept DEF PoolInv, StreamsOK
<1>6. CASE ConnectionLost(c)
  <2>1. conn' = [conn EXCEPT ![c] = NoConn] /\ Unregister(c) BY <1>6 DEF ConnectionLost
  <2>2. IsConn(NoConn) /\ NoConn.closed = TRUE BY NoConnIs
  <2> QED BY <1>1, <1>0, <2>1, <2>2, ClosedKept DEF PoolInv, StreamsOK
<1> QED BY <1>1, <1>2, <1>3, <1>4, <1>5, <1>6 DEF PoolInv, StreamsOK

\* A packet fails.
LEMMA FailKept ==
  ASSUME StreamsOK, NEW s \in Senders, Fail(s)
  PROVE  StreamsOK'
<1>1. ConnsOK' BY DEF Fail, StreamsOK, ConnsOK
<1>2. KeysOK'
  <2>1. at' = [at EXCEPT ![Destination[s]] = NoConnection] /\ UNCHANGED pool BY DEF Fail
  <2> QED BY <2>1, KeyKept DEF StreamsOK
<1>3. SendsOK'
  <2>1. send' = [send EXCEPT ![s] = [NoSend EXCEPT !.step = "failed"]] BY DEF Fail, Finish
  <2> QED BY <2>1, SendChanged DEF StreamsOK
<1> QED BY <1>1, <1>2, <1>3 DEF StreamsOK

\* What a task and a thread do without a connection.
LEMMA TaskKept ==
  ASSUME PoolInv, NEW s \in Senders,
         \/ Send(s) \/ (\E c \in Connections : SendOn(s, c)) \/ SendReusing(s) \/ Resolve(s)
         \/ Resolving(s) \/ Located(s) \/ LocationFails(s) \/ Refused(s)
         \/ NoTargetLeft(s) \/ Again(s)
  PROVE  PoolInv'
<1>0. LocationOK /\ StreamsOK /\ ConnsOK /\ KeysOK /\ SendsOK BY DEF PoolInv, StreamsOK
<1>1. CASE Send(s)
  <2>1. PICK u : send' = [send EXCEPT ![s].step = "queued", ![s].udp = u] BY <1>1 DEF Send
  <2>2. SendsOK' BY <1>0, <2>1, SendChanged
  <2>3. LocationOK' /\ ConnsOK' /\ KeysOK' BY <1>0, <1>1, LocatedSame, StreamsSame DEF Send
  <2> QED BY <2>2, <2>3 DEF PoolInv, StreamsOK
<1>2. ASSUME NEW c \in Connections, SendOn(s, c) PROVE PoolInv'
  <2>1. \/ send' = [send EXCEPT ![s].step = "queued"]
        \/ send' = [send EXCEPT ![s] = [NoSend EXCEPT !.step = "sent"]]
    BY <1>2 DEF SendOn, Step, Finish
  <2>2. SendsOK' BY <1>0, <2>1, SendChanged
  <2>3. LocationOK' /\ ConnsOK' /\ KeysOK' BY <1>0, <1>2, LocatedSame, StreamsSame DEF SendOn
  <2> QED BY <2>2, <2>3 DEF PoolInv, StreamsOK
<1>3. CASE SendReusing(s)
  <2>1. send' = [send EXCEPT ![s] = [NoSend EXCEPT !.step = "sent"]] BY <1>3 DEF SendReusing, Finish
  <2>2. SendsOK' BY <1>0, <2>1, SendChanged
  <2>3. LocationOK' /\ ConnsOK' /\ KeysOK' BY <1>0, <1>3, LocatedSame, StreamsSame DEF SendReusing
  <2> QED BY <2>2, <2>3 DEF PoolInv, StreamsOK
<1>4. CASE Resolve(s)
  <2>1. \/ send' = [send EXCEPT ![s].step = "locating"]
        \/ send' = [send EXCEPT ![s].step = "trying", ![s].todo = <<Given(Destination[s])>>]
    BY <1>4 DEF Resolve, Step
  <2>2. SendsOK' BY <1>0, <2>1, SendChanged
  <2>3. LocationOK' BY <1>0, <1>4, LocatedSame, AskKept DEF Resolve
  <2>4. ConnsOK' /\ KeysOK' BY <1>0, <1>4, StreamsSame DEF Resolve
  <2> QED BY <2>2, <2>3, <2>4 DEF PoolInv, StreamsOK
<1>5. CASE Resolving(s)
  <2>1. LocationOK'
    BY <1>0, <1>5, QueryKept, DrawKept, EndKept, StoreKept DEF Resolving, LookupStep
  <2>2. SendsOK' /\ ConnsOK' /\ KeysOK' BY <1>0, <1>5, StreamsSame, SendsSame DEF Resolving
  <2> QED BY <2>1, <2>2 DEF PoolInv, StreamsOK
<1>6. CASE Located(s)
  <2>1. \/ send' = [send EXCEPT ![s] = [NoSend EXCEPT !.step = "sent"]]
        \/ send' = [send EXCEPT ![s].step = "trying", ![s].todo = lookup[s].found]
    BY <1>6 DEF Located, Finish
  <2>2. SendsOK' BY <1>0, <2>1, SendChanged
  <2>3. LocationOK' BY <1>0, <1>6, EndKept DEF Located
  <2>4. ConnsOK' /\ KeysOK' BY <1>0, <1>6, StreamsSame DEF Located
  <2> QED BY <2>2, <2>3, <2>4 DEF PoolInv, StreamsOK
<1>7. CASE LocationFails(s)
  <2>1. LocationOK' BY <1>0, <1>7, EndKept DEF LocationFails
  <2>2. CASE Fail(s) BY <1>0, <2>1, <2>2, FailKept DEF PoolInv
  <2>3. CASE Finish(s, "lost") /\ UNCHANGED <<conn, pool, at, heard>>
    <3>1. send' = [send EXCEPT ![s] = [NoSend EXCEPT !.step = "lost"]] BY <2>3 DEF Finish
    <3>2. SendsOK' BY <1>0, <3>1, SendChanged
    <3>3. ConnsOK' /\ KeysOK' BY <1>0, <2>3, StreamsSame
    <3> QED BY <2>1, <3>2, <3>3 DEF PoolInv, StreamsOK
  <2> QED BY <1>7, <2>2, <2>3 DEF LocationFails
<1>8. CASE Refused(s)
  <2>1. send' = [send EXCEPT ![s].step = "trying", ![s].todo = Tail(send[s].todo)]
    BY <1>0, <1>8 DEF Refused, NextTarget, SendsOK
  <2>2. SendsOK' BY <1>0, <2>1, SendChanged
  <2>3. LocationOK' /\ ConnsOK' /\ KeysOK' BY <1>0, <1>8, LocatedSame, StreamsSame DEF Refused
  <2> QED BY <2>2, <2>3 DEF PoolInv, StreamsOK
<1>9. CASE NoTargetLeft(s)
  <2>1. LocationOK' BY <1>0, <1>9, LocatedSame DEF NoTargetLeft
  <2> QED BY <1>0, <1>9, <2>1, FailKept DEF NoTargetLeft, PoolInv
<1>10. CASE Again(s)
  <2>1. send' = [send EXCEPT ![s] = NoSend] BY <1>10 DEF Again
  <2>2. SendsOK'
    <3>1. "sent" # "made" OBVIOUS
    <3> QED BY <1>0, <2>1, <3>1, SendChanged
  <2>3. LocationOK' /\ ConnsOK' /\ KeysOK' BY <1>0, <1>10, LocatedSame, StreamsSame DEF Again
  <2> QED BY <2>2, <2>3 DEF PoolInv, StreamsOK
<1> QED BY <1>1, <1>2, <1>3, <1>4, <1>5, <1>6, <1>7, <1>8, <1>9, <1>10

\* A task makes a connection, which may be closed at once.
LEMMA ConnectKept ==
  ASSUME PoolInv, NEW s \in Senders, NEW c \in Connections, Connect(s, c)
  PROVE  PoolInv'
<1>0. LocationOK /\ ConnsOK /\ KeysOK /\ SendsOK BY DEF PoolInv, StreamsOK
<1>1. ConnsOK' /\ KeysOK' BY <1>0, OpenedKept DEF Connect
<1>2. SendsOK'
  <2> DEFINE x == send[s]
             y == [x EXCEPT !.step = "made", !.conn = c]
  <2>1. IsSend(x) /\ send = [o \in Senders |-> send[o]] BY <1>0 DEF SendsOK
  <2>2. send' = [send EXCEPT ![s] = y] BY <2>1 DEF Connect
  <2> HIDE DEF x
  <2>3. ASSUME NEW z, z = [x EXCEPT !.step = "made", !.conn = c] PROVE IsSend(z)
    BY <2>1, <2>3 DEF IsSend
  <2>4. IsSend(y) BY <2>3
  <2> HIDE DEF y
  <2> QED BY <1>0, <2>2, <2>4, OneSend
<1>3. LocationOK' BY <1>0, LocatedSame DEF Connect
<1> QED BY <1>1, <1>2, <1>3 DEF PoolInv, StreamsOK

\* The key of the destination is written only for an object that is still open,
\* and such an object is in the pool.
LEMMA ConnectedKept ==
  ASSUME PoolInv, NEW s \in Senders, Connected(s)
  PROVE  PoolInv'
<1>0. LocationOK /\ ConnsOK /\ KeysOK /\ SendsOK BY DEF PoolInv, StreamsOK
<1>1. LocationOK' /\ UNCHANGED <<conn, pool>> BY <1>0, LocatedSame DEF Connected
<1>2. ConnsOK' BY <1>0, <1>1 DEF ConnsOK
<1>3. CASE TurnedAway(s)
  <2>1. send' = [send EXCEPT ![s].step = "trying", ![s].todo = Tail(send[s].todo)] /\ at' = at
    BY <1>0, <1>3 DEF Connected, NextTarget, SendsOK
  <2>2. SendsOK' BY <1>0, <2>1, SendChanged
  <2> QED BY <1>0, <1>1, <1>2, <2>1, <2>2, StreamsSame DEF PoolInv, StreamsOK
<1>4. CASE ~TurnedAway(s)
  <2>1. /\ send' = [send EXCEPT ![s] = [NoSend EXCEPT !.step = "sent"]]
        /\ at' = [at EXCEPT ![Destination[s]] = send[s].conn]
        /\ send[s].step = "made" /\ ~conn[send[s].conn].closed
    BY <1>4 DEF Connected, Finish, TurnedAway
  <2>2. SendsOK' BY <1>0, <2>1, SendChanged
  <2>3. send[s].conn \in Connections BY <1>0, <2>1 DEF SendsOK, IsSend
  <2>4. send[s].conn \in pool
    <3>1. \A d \in Connections :
            conn[d].closed \in BOOLEAN /\ (d \in pool <=> conn[d].closed = FALSE)
      BY <1>0 DEF ConnsOK, IsConn
    <3> QED BY <2>1, <2>3, <3>1
  <2>5. KeysOK' BY <1>0, <1>1, <2>1, <2>4, KeyKept
  <2> QED BY <1>1, <1>2, <2>2, <2>5 DEF PoolInv, StreamsOK
<1> QED BY <1>3, <1>4

\* DNS changes, or time passes.
LEMMA OutsideKept == ASSUME PoolInv, Outside PROVE PoolInv'
<1>1. LocationOK'
  <2>1. CASE ZoneChanges
    BY <2>1 DEF ZoneChanges, PoolInv, LocationOK, LookupsOK, CacheOK, CacheAge
  <2>2. CASE ClockTicks BY <2>2, TimePasses DEF PoolInv
  <2> QED BY <2>1, <2>2 DEF Outside
<1>2. ConnsOK' /\ KeysOK' /\ SendsOK'
  BY StreamsSame, SendsSame DEF Outside, PoolInv, StreamsOK
<1> QED BY <1>1, <1>2 DEF PoolInv, StreamsOK

\* Every step of the pool keeps the invariant.
LEMMA PoolNextKept == ASSUME PoolInv, [PoolNext]_poolVars PROVE PoolInv'
<1>1. CASE PoolNext
  BY <1>1, ConnectionKept, TaskKept, ConnectKept, ConnectedKept, OutsideKept DEF PoolNext, SendTask
<1>2. CASE UNCHANGED poolVars
  <2>1. UNCHANGED located /\ UNCHANGED <<conn, pool, at>> /\ UNCHANGED send
    BY <1>2 DEF poolVars, located
  <2> QED BY <2>1, LocatedSame, StreamsSame, SendsSame DEF PoolInv, StreamsOK
<1> QED BY <1>1, <1>2

\* For any senders, zones, addresses and bounds: the pool holds exactly the
\* connections that are not closed and no key leads out of it, through every
\* race of lookups, connects, refusals and losses; addresses come in SRV order
\* and the cache is never older than cache_ttl.
THEOREM SendsAlwaysSafe == PoolSpec => []SendsSafe
<1>1. PoolInit => PoolInv BY PoolStarts
<1>2. PoolInv /\ [PoolNext]_poolVars => PoolInv' BY PoolNextKept
<1>3. PoolInv => SendsSafe BY SendsSafeOf
<1> QED BY <1>1, <1>2, <1>3, PTL DEF PoolSpec

-----------------------------------------------------------------------------
(* FlattenSeq, without induction over data.                                *)

\* The function that FlattenSeq computes for the first n parts.
Flat(f, parts, n) ==
  f = [i \in 1 .. n |-> IF i = 1 THEN parts[i] ELSE f[i - 1] \o parts[i]]

Agree(p, q, n) == \A i \in 1 .. n : q[i] = p[i]

\* \o, which the provers do not look into.
Cat(s, t) == s \o t
\* It is associative.
LEMMA CatRegroups ==
  ASSUME NEW S PROVE \A s, t, u \in Seq(S) : Cat(Cat(s, t), u) = Cat(s, Cat(t, u))
<1>1. \A s, t, u \in Seq(S) : (s \o t) \o u = s \o (t \o u) BY ConcatAssociative, SMT
<1> QED BY <1>1 DEF Cat

\* One more part.
LEMMA FlatStep ==
  ASSUME NEW f, NEW parts, NEW n \in Nat, Flat(f, parts, n + 1), NEW k \in 1 .. n
  PROVE  f[k + 1] = f[k] \o parts[k + 1]
<1>1. \A i \in 1 .. n + 1 : f[i] = IF i = 1 THEN parts[i] ELSE f[i - 1] \o parts[i] BY DEF Flat
<1>2. ASSUME NEW i \in 1 .. n + 1, i # 1, i - 1 = k PROVE f[i] = f[k] \o parts[i]
  BY <1>1, <1>2
<1>3. k + 1 \in 1 .. n + 1 /\ k + 1 # 1 /\ (k + 1) - 1 = k OBVIOUS
<1> QED BY <1>2, <1>3

\* There is one.
LEMMA FlatRuns ==
  ASSUME NEW parts, NEW n \in Nat \ {0}
  PROVE  \E f : Flat(f, parts, n)
<1> DEFINE T == {m \in Nat \ {0} : ~ \E f : Flat(f, parts, m)}
<1> SUFFICES T = {} OBVIOUS
<1>1. SUFFICES ASSUME T # {} PROVE FALSE OBVIOUS
<1>2. PICK m \in T : \A k \in T : m <= k
  <2>1. T \in SUBSET Nat OBVIOUS
  <2> HIDE DEF T
  <2> QED BY <1>1, <2>1, Least
<1>3. CASE m = 1
  <2>1. ASSUME NEW f, f = [i \in 1 .. 1 |-> parts[1]] PROVE Flat(f, parts, 1)
    <3>1. \A i \in 1 .. 1 : i = 1 OBVIOUS
    <3>2. f = [i \in 1 .. 1 |-> IF i = 1 THEN parts[i] ELSE f[i - 1] \o parts[i]]
      BY <2>1, <3>1
    <3> QED BY <3>2 DEF Flat
  <2> QED BY <1>3, <2>1
<1>4. CASE m # 1
  <2>1. m - 1 \in Nat \ {0} /\ ~(m <= m - 1) /\ m \in Nat BY <1>4
  <2>2. m - 1 \notin T BY <1>2, <2>1
  <2>3. PICK g : Flat(g, parts, m - 1) BY <2>1, <2>2
  <2> DEFINE f == [i \in 1 .. m |-> IF i = m THEN g[m - 1] \o parts[m] ELSE g[i]]
  <2>4. \A i \in 1 .. m - 1 : g[i] = IF i = 1 THEN parts[i] ELSE g[i - 1] \o parts[i]
    BY <2>3 DEF Flat
  <2>5. ASSUME NEW i \in 1 .. m
        PROVE  f[i] = IF i = 1 THEN parts[i] ELSE f[i - 1] \o parts[i]
    <3>1. CASE i = m
      <4>0. m \in 1 .. m /\ m - 1 \in 1 .. m /\ m - 1 # m BY <2>1
      <4>1. f[m] = g[m - 1] \o parts[m] /\ f[m - 1] = g[m - 1] BY <4>0
      <4> HIDE DEF f
      <4> QED BY <1>4, <3>1, <4>1
    <3>2. CASE i # m /\ i # 1
      <4>1. i \in 1 .. m - 1 /\ i - 1 \in 1 .. m /\ i - 1 # m BY <2>1, <3>2
      <4>2. f[i] = g[i] /\ f[i - 1] = g[i - 1] BY <3>2, <4>1
      <4> HIDE DEF f
      <4> QED BY <2>4, <3>2, <4>1, <4>2
    <3>3. CASE i = 1 /\ i # m
      <4>1. f[1] = g[1] /\ 1 \in 1 .. m - 1 BY <1>4, <2>1
      <4> HIDE DEF f
      <4> QED BY <2>4, <3>3, <4>1
    <3> QED BY <3>1, <3>2, <3>3
  <2>6. f = [i \in 1 .. m |-> f[i]] OBVIOUS
  <2> HIDE DEF f
  <2>7. f = [i \in 1 .. m |-> IF i = 1 THEN parts[i] ELSE f[i - 1] \o parts[i]]
    BY <2>5, <2>6
  <2>8. Flat(f, parts, m) BY <2>7 DEF Flat
  <2> QED BY <2>8
<1> QED BY <1>3, <1>4

\* FlattenSeq is its last value.
LEMMA FlattenIs ==
  ASSUME NEW S, NEW parts \in Seq(S), parts # << >>
  PROVE  \E f : Flat(f, parts, Len(parts)) /\ FlattenSeq(parts) = f[Len(parts)]
<1> DEFINE n == Len(parts)
           Runs(f) == f = [i \in 1 .. n |-> IF i = 1 THEN parts[i] ELSE f[i - 1] \o parts[i]]
           g == CHOOSE f : Runs(f)
<1>1. n \in Nat \ {0} BY EmptySeq
<1>2. \A f : Runs(f) <=> Flat(f, parts, n) BY DEF Flat
<1>3. FlattenSeq(parts) = IF n = 0 THEN parts ELSE g[n] BY Zenon DEF FlattenSeq
<1> HIDE DEF n, Runs
<1>4. \E f : Runs(f) BY <1>1, <1>2, FlatRuns
<1>5. Runs(g) BY <1>4
<1> HIDE DEF g
<1>6. FlattenSeq(parts) = g[n] BY <1>1, <1>3
<1> QED BY <1>2, <1>5, <1>6 DEF n

\* Its values are sequences, and those for more parts begin with those for fewer.
LEMMA FlatTyped ==
  ASSUME NEW S, NEW parts \in Seq(Seq(S)), NEW n \in Nat, n <= Len(parts),
         NEW f, Flat(f, parts, n), NEW i \in 1 .. n
  PROVE  f[i] \in Seq(S)
<1> DEFINE T == {k \in 1 .. n : f[k] \notin Seq(S)}
<1>1. \A k \in 1 .. n : f[k] = IF k = 1 THEN parts[k] ELSE f[k - 1] \o parts[k] BY DEF Flat
<1>2. \A k \in 1 .. n : parts[k] \in Seq(S)
  <2>1. Len(parts) \in Nat BY LenProperties
  <2>2. \A k \in 1 .. n : k \in 1 .. Len(parts) BY <2>1
  <2> QED BY <2>2, ElementOfSeq
<1>3. T = {}
  <2>1. SUFFICES ASSUME T # {} PROVE FALSE OBVIOUS
  <2>2. PICK k \in T : \A m \in T : k <= m
    <3>1. T \in SUBSET Nat OBVIOUS
    <3> HIDE DEF T
    <3> QED BY <2>1, <3>1, Least
  <2>3. k # 1 BY <1>1, <1>2
  <2>4. k - 1 \in 1 .. n /\ ~(k <= k - 1) BY <2>3
  <2>5. f[k - 1] \in Seq(S) BY <2>2, <2>4
  <2>6. f[k - 1] \o parts[k] \in Seq(S) BY <1>2, <2>5, ConcatProperties
  <2> QED BY <1>1, <2>2, <2>3, <2>6
<1> QED BY <1>3

\* More parts do not change what the first ones make.
LEMMA FlatSame ==
  ASSUME NEW parts, NEW more, NEW n \in Nat, Agree(parts, more, n),
         NEW f, Flat(f, parts, n), NEW g, Flat(g, more, n + 1)
  PROVE  Agree(f, g, n)
<1> DEFINE T == {k \in 1 .. n : g[k] # f[k]}
<1>1. /\ \A k \in 1 .. n : f[k] = IF k = 1 THEN parts[k] ELSE f[k - 1] \o parts[k]
      /\ \A k \in 1 .. n + 1 : g[k] = IF k = 1 THEN more[k] ELSE g[k - 1] \o more[k]
  BY DEF Flat
<1>0. \A i \in 1 .. n : more[i] = parts[i] BY DEF Agree
<1>2. T = {}
  <2>1. SUFFICES ASSUME T # {} PROVE FALSE OBVIOUS
  <2>2. PICK k \in T : \A j \in T : k <= j
    <3>1. T \in SUBSET Nat OBVIOUS
    <3> HIDE DEF T
    <3> QED BY <2>1, <3>1, Least
  <2>3. k \in 1 .. n + 1 OBVIOUS
  <2>4. k # 1 BY <1>0, <1>1, <2>3
  <2>5. k - 1 \in 1 .. n /\ ~(k <= k - 1) BY <2>4
  <2>6. g[k - 1] = f[k - 1] BY <2>2, <2>5
  <2> QED BY <1>0, <1>1, <2>2, <2>3, <2>4, <2>6
<1> QED BY <1>2 DEF Agree

\* Flattened sequences are sequences, and no parts make none.
LEMMA FlattenTyped ==
  ASSUME NEW S, NEW parts \in Seq(Seq(S))
  PROVE  FlattenSeq(parts) \in Seq(S) /\ (parts = << >> => FlattenSeq(parts) = << >>)
<1>1. CASE parts = << >>
  <2>1. Len(parts) = 0 BY <1>1
  <2>2. FlattenSeq(parts) = parts BY <2>1, Zenon DEF FlattenSeq
  <2>3. << >> \in Seq(S) BY EmptySeq
  <2> QED BY <1>1, <2>2, <2>3
<1>2. CASE parts # << >>
  <2>1. PICK f : Flat(f, parts, Len(parts)) /\ FlattenSeq(parts) = f[Len(parts)]
    BY <1>2, FlattenIs
  <2>2. Len(parts) \in Nat \ {0} BY <1>2, EmptySeq
  <2>3. Len(parts) \in 1 .. Len(parts) /\ Len(parts) <= Len(parts) BY <2>2
  <2>4. f[Len(parts)] \in Seq(S) BY <2>1, <2>2, <2>3, FlatTyped
  <2> QED BY <1>2, <2>1, <2>4
<1> QED BY <1>1, <1>2

\* One more part at the end.
LEMMA FlattenAppend ==
  ASSUME NEW S, NEW parts \in Seq(Seq(S)), NEW part \in Seq(S)
  PROVE  FlattenSeq(Append(parts, part)) = FlattenSeq(parts) \o part
<1> DEFINE more == Append(parts, part)
           n == Len(parts)
<1>1. /\ more \in Seq(Seq(S)) /\ more # << >> /\ Len(more) = n + 1 /\ n \in Nat
      /\ (\A i \in 1 .. n : more[i] = parts[i]) /\ more[n + 1] = part
  BY AppendProperties, LenProperties
<1> HIDE DEF more, n
<1>2. PICK g : Flat(g, more, n + 1) /\ FlattenSeq(more) = g[n + 1]
  BY <1>1, FlattenIs
<1>3. \A k \in 1 .. n + 1 : g[k] = IF k = 1 THEN more[k] ELSE g[k - 1] \o more[k] BY <1>2 DEF Flat
<1>4. CASE n = 0
  <2>1. parts = << >> BY <1>4, EmptySeq DEF n
  <2>2. FlattenSeq(parts) = << >> BY <2>1, FlattenTyped
  <2>3. g[1] = part BY <1>1, <1>3, <1>4
  <2>4. << >> \o part = part BY ConcatEmptySeq
  <2> QED BY <1>2, <1>4, <2>2, <2>3, <2>4 DEF more
<1>5. CASE n # 0
  <2>1. parts # << >> BY <1>5, EmptySeq DEF n
  <2>2. PICK f : Flat(f, parts, n) /\ FlattenSeq(parts) = f[n] BY <2>1, FlattenIs DEF n
  <2>3. n \in 1 .. n /\ n <= n + 1 /\ n + 1 \in Nat BY <1>1, <1>5
  <2>4. g[n] = f[n]
    <3>1. n \in Nat /\ Agree(parts, more, n) BY <1>1 DEF Agree
    <3>2. Agree(f, g, n) BY <1>2, <2>2, <3>1, FlatSame
    <3> QED BY <2>3, <3>2 DEF Agree
  <2>5. g[n + 1] = g[n] \o part
    <3>1. g[n + 1] = g[n] \o more[n + 1] BY <1>1, <1>2, <2>3, FlatStep
    <3> QED BY <1>1, <3>1
  <2> QED BY <1>2, <2>2, <2>4, <2>5 DEF more
<1> QED BY <1>4, <1>5

\* The first part.
LEMMA FlattenHead ==
  ASSUME NEW S, NEW parts \in Seq(Seq(S)), parts # << >>
  PROVE  FlattenSeq(parts) = Head(parts) \o FlattenSeq(Tail(parts))
<1> DEFINE rest == Tail(parts)
           n == Len(rest)
<1>1. /\ rest \in Seq(Seq(S)) /\ n = Len(parts) - 1 /\ Len(parts) \in Nat \ {0}
      /\ Head(parts) \in Seq(S) /\ Head(parts) = parts[1]
      /\ \A i \in 1 .. n : rest[i] = parts[i + 1]
  BY HeadTailProperties, EmptySeq
<1> HIDE DEF rest
<1>2. n \in Nat /\ Len(parts) = n + 1 BY <1>1
<1> HIDE DEF n
<1>3. PICK f : Flat(f, parts, n + 1) /\ FlattenSeq(parts) = f[n + 1]
  BY <1>2, FlattenIs
<1>4. \A k \in 1 .. n + 1 : f[k] = IF k = 1 THEN parts[k] ELSE f[k - 1] \o parts[k] BY <1>3 DEF Flat
<1>5. f[1] = Head(parts)
  <2>1. 1 \in 1 .. n + 1 BY <1>2
  <2> QED BY <1>1, <1>4, <2>1
<1>6. CASE n = 0
  <2>1. rest = << >> BY <1>1, <1>6, EmptySeq DEF n
  <2>2. FlattenSeq(rest) = << >> BY <1>1, <2>1, FlattenTyped
  <2>3. Head(parts) \o << >> = Head(parts) BY <1>1, ConcatEmptySeq
  <2>4. f[n + 1] = f[1] BY <1>6
  <2> QED BY <1>3, <1>5, <2>2, <2>3, <2>4 DEF rest
<1>7. CASE n # 0
  <2>1. rest # << >> BY <1>7, EmptySeq DEF n
  <2>2. PICK g : Flat(g, rest, n) /\ FlattenSeq(rest) = g[n] BY <1>1, <2>1, FlattenIs DEF n
  <2>3. \A k \in 1 .. n : g[k] = IF k = 1 THEN rest[k] ELSE g[k - 1] \o rest[k] BY <2>2 DEF Flat
  <2> DEFINE T == {k \in 1 .. n : f[k + 1] # Head(parts) \o g[k]}
  <2>4. T = {}
    <3>1. SUFFICES ASSUME T # {} PROVE FALSE OBVIOUS
    <3>2. PICK k \in T : \A j \in T : k <= j
      <4>1. T \in SUBSET 1 .. n OBVIOUS
      <4>2. 1 .. n \subseteq Nat BY <1>2
      <4> HIDE DEF T
      <4>3. T \in SUBSET Nat BY <4>1, <4>2
      <4> QED BY <3>1, <4>3, Least
    <3>3. k \in 1 .. n /\ k + 1 \in 1 .. n + 1 /\ k + 1 # 1 /\ k + 1 - 1 = k BY <1>2
    <3>4. f[k + 1] = f[k] \o rest[k] 
      <4>1. f[k + 1] = f[k] \o parts[k + 1] BY <1>2, <1>3, <3>3, FlatStep
      <4> QED BY <1>1, <3>3, <4>1
    <3>5. k # 1
      <4>1. SUFFICES ASSUME k = 1 PROVE FALSE OBVIOUS
      <4>2. g[k] = rest[k] BY <2>3, <3>3, <4>1
      <4>3. f[k + 1] = Head(parts) \o g[k] BY <1>5, <3>4, <4>1, <4>2
      <4> QED BY <3>2, <4>3
    <3>6. k - 1 \in 1 .. n /\ ~(k <= k - 1) /\ k - 1 + 1 = k BY <1>2, <3>3, <3>5
    <3>7. f[k] = Head(parts) \o g[k - 1] BY <3>2, <3>6
    <3>8. g[k] = g[k - 1] \o rest[k] BY <2>3, <3>3, <3>5
    <3>9. g[k - 1] \in Seq(S)
      <4>1. n <= Len(rest) BY <1>2 DEF n
      <4> QED BY <1>1, <1>2, <2>2, <3>6, <4>1, FlatTyped
    <3>10. rest[k] \in Seq(S) BY <1>1, <3>3, ElementOfSeq DEF n
    <3>11. Cat(Cat(Head(parts), g[k - 1]), rest[k]) = Cat(Head(parts), Cat(g[k - 1], rest[k]))
      BY <1>1, <3>9, <3>10, CatRegroups
    <3>12. f[k + 1] = Head(parts) \o g[k] BY <3>4, <3>7, <3>8, <3>11 DEF Cat
    <3> QED BY <3>2, <3>12
  <2>5. n \in 1 .. n BY <1>2, <1>7
  <2>6. f[n + 1] = Head(parts) \o g[n] BY <2>4, <2>5
  <2> QED BY <1>3, <2>2, <2>6 DEF rest
<1> QED BY <1>6, <1>7

-----------------------------------------------------------------------------
(* One message at the start of a buffer.                                   *)

Units == UNION {Range(s) : s \in Streams}
Bytes == Seq(Units)
IsWhole(m) == Ready(m) /\ MessageLen(m) = Len(m)

\* The header ends at the first of the double line ends.
LEMMA HeaderIs ==
  ASSUME NEW b \in Bytes, Terminated(b)
  PROVE  /\ HeaderLen(b) \in Nat /\ Len(b) \in Nat /\ HeaderLen(b) + 2 <= Len(b)
         /\ HeaderLen(b) + 1 \in Ends(b) /\ \A j \in Ends(b) : HeaderLen(b) + 1 <= j
         /\ Ends(b) \subseteq Nat \ {0}
<1>1. Len(b) \in Nat BY LenProperties DEF Bytes
<1>2. Ends(b) \subseteq Nat \ {0} /\ \A j \in Ends(b) : j + 1 <= Len(b) BY <1>1 DEF Ends
<1> DEFINE P(i) == \A j \in Ends(b) : i <= j
           h == CHOOSE i \in Ends(b) : P(i)
<1>3. \E i \in Ends(b) : P(i)
  <2>1. Ends(b) \in SUBSET Nat /\ Ends(b) # {} BY <1>2 DEF Terminated
  <2> QED BY <2>1, Least
<1>4. h \in Ends(b) /\ P(h)
  <2> HIDE DEF P
  <2> QED BY <1>3
<1>5. HeaderLen(b) = h - 1 BY DEF HeaderLen
<1> HIDE DEF h
<1>6. h \in Nat \ {0} /\ h + 1 <= Len(b) BY <1>2, <1>4
<1>7. HeaderLen(b) + 1 = h BY <1>5, <1>6
<1> QED BY <1>1, <1>2, <1>4, <1>5, <1>6, <1>7

\* And there is only one first.
LEMMA FirstEndIs ==
  ASSUME NEW b \in Bytes, NEW i \in Ends(b), \A j \in Ends(b) : i <= j
  PROVE  Terminated(b) /\ HeaderLen(b) = i - 1
<1>1. Terminated(b) BY DEF Terminated
<1> DEFINE k == HeaderLen(b) + 1
<1>2. /\ k \in Ends(b) /\ (\A j \in Ends(b) : k <= j) /\ Ends(b) \subseteq Nat \ {0}
      /\ HeaderLen(b) \in Nat
  BY <1>1, HeaderIs
<1>3. i <= k /\ k <= i /\ i \in Nat BY <1>2
<1> QED BY <1>1, <1>2, <1>3

\* The length of a message is a number of units.
LEMMA LengthIs ==
  ASSUME NEW b, Plausible(b)
  PROVE  ContentLength(b) \in Nat
<1>1. CASE LengthLines(b) = {} BY <1>1 DEF ContentLength
<1>2. CASE LengthLines(b) # {}
  <2> DEFINE i == CHOOSE k \in LengthLines(b) : TRUE
  <2>1. i \in LengthLines(b) BY <1>2
  <2>2. ContentLength(b) = Declared[b[i]] BY <1>2 DEF ContentLength
  <2> HIDE DEF i
  <2>3. b[i] # Garbled /\ b[i] \in DOMAIN Declared \cup {Garbled}
    BY <2>1 DEF Plausible, LengthLines
  <2> QED BY <2>2, <2>3, FramingAssumption
<1> QED BY <1>1, <1>2

\* A message is read off the start of the buffer: what follows changes nothing.
LEMMA PrefixDecides ==
  ASSUME NEW p \in Bytes, NEW b \in Bytes, Len(p) <= Len(b), Agree(p, b, Len(p)), Terminated(p)
  PROVE  /\ Terminated(b) /\ HeaderLen(b) = HeaderLen(p)
         /\ Plausible(b) <=> Plausible(p)
         /\ Plausible(p) => ContentLength(b) = ContentLength(p) /\ MessageLen(b) = MessageLen(p)
<1> DEFINE h == HeaderLen(p)
<1>1. /\ h \in Nat /\ Len(p) \in Nat /\ Len(b) \in Nat /\ h + 2 <= Len(p)
      /\ h + 1 \in Ends(p) /\ (\A j \in Ends(p) : h + 1 <= j) /\ Ends(p) \subseteq Nat \ {0}
  BY HeaderIs, LenProperties DEF Bytes
<1> HIDE DEF h
<1>2. \A i \in 1 .. Len(p) : b[i] = p[i] BY DEF Agree
<1>3. h + 1 \in Ends(b)
  <2>1. /\ h + 1 \in 1 .. Len(p) /\ h + 2 \in 1 .. Len(p)
        /\ h + 1 \in 1 .. Len(b) - 1 /\ (h + 1) + 1 = h + 2
    BY <1>1
  <2>2. p[h + 1] = CRLF /\ p[h + 2] = CRLF BY <1>1, <2>1 DEF Ends
  <2>3. b[h + 1] = CRLF /\ b[h + 2] = CRLF BY <1>2, <2>1, <2>2
  <2> QED BY <2>1, <2>3 DEF Ends
<1>4. \A j \in Ends(b) : h + 1 <= j
  <2>1. SUFFICES ASSUME NEW j \in Ends(b), ~(h + 1 <= j) PROVE FALSE OBVIOUS
  <2>2. j \in Nat /\ j >= 1 /\ b[j] = CRLF /\ b[j + 1] = CRLF BY <1>1, <2>1 DEF Ends
  <2>3. j \in 1 .. Len(p) /\ j + 1 \in 1 .. Len(p) /\ j \in 1 .. Len(p) - 1 BY <1>1, <2>1, <2>2
  <2>4. p[j] = CRLF /\ p[j + 1] = CRLF BY <1>2, <2>2, <2>3
  <2>5. j \in Ends(p) BY <2>3, <2>4 DEF Ends
  <2> QED BY <1>1, <2>1, <2>5
<1>5. Terminated(b) /\ HeaderLen(b) = h
  <2>1. Terminated(b) /\ HeaderLen(b) = (h + 1) - 1 BY <1>3, <1>4, FirstEndIs
  <2> QED BY <1>1, <2>1
<1>6. LengthLines(b) = LengthLines(p) /\ \A i \in LengthLines(p) : b[i] = p[i]
  <2>1. \A i \in 1 .. h : b[i] = p[i]
    <3>1. \A i \in 1 .. h : i \in 1 .. Len(p) BY <1>1
    <3> QED BY <1>2, <3>1
  <2> QED BY <1>5, <2>1 DEF LengthLines, h
<1>7. Plausible(b) <=> Plausible(p) BY <1>6 DEF Plausible
<1>8. ContentLength(b) = ContentLength(p)
  <2>1. CASE LengthLines(p) = {} BY <1>6, <2>1 DEF ContentLength
  <2>2. CASE LengthLines(p) # {}
    <3> DEFINE i == CHOOSE k \in LengthLines(p) : TRUE
    <3>1. i \in LengthLines(p) BY <2>2
    <3>2. i = CHOOSE k \in LengthLines(b) : TRUE BY <1>6
    <3>3. ContentLength(p) = Declared[p[i]] /\ ContentLength(b) = Declared[b[i]]
      BY <1>6, <2>2, <3>2 DEF ContentLength
    <3> HIDE DEF i
    <3> QED BY <1>6, <3>1, <3>3
  <2> QED BY <2>1, <2>2
<1> QED BY <1>5, <1>7, <1>8 DEF MessageLen, h

\* What _pop_complete_messages takes out is a message, and no more.
LEMMA PoppedWhole ==
  ASSUME NEW b \in Bytes, Ready(b), NEW m, m = SubSeq(b, 1, MessageLen(b))
  PROVE  /\ m \in Bytes /\ IsWhole(m) /\ MessageLen(b) \in Nat \ {0} /\ MessageLen(b) <= Len(b)
         /\ Len(b) \in Nat
<1> DEFINE n == MessageLen(b)
<1>1. /\ Terminated(b) /\ ~Broken(b) /\ Len(b) >= n /\ Plausible(b)
      /\ ~(n > MaxMessage) /\ ~(HeaderLen(b) + 2 > MaxHeader)
  BY DEF Ready, Broken
<1>2. /\ HeaderLen(b) \in Nat /\ ContentLength(b) \in Nat /\ Len(b) \in Nat
      /\ HeaderLen(b) + 1 \in Ends(b)
  BY <1>1, HeaderIs, LengthIs
<1>3. n \in Nat /\ n >= HeaderLen(b) + 2 /\ n <= Len(b) BY <1>1, <1>2 DEF MessageLen
<1> HIDE DEF n
<1>4. m \in Bytes /\ Len(m) = n /\ Agree(m, b, n)
  <2>1. \A i \in 1 .. n : b[i] \in Units
    <3>1. \A i \in 1 .. n : i \in 1 .. Len(b) BY <1>2, <1>3
    <3> QED BY <3>1, ElementOfSeq DEF Bytes
  <2>2. m = SubSeq(b, 1, n) BY DEF n
  <2>3. 1 \in Int /\ n \in Int /\ n - 1 + 1 = n /\ 1 <= n BY <1>2, <1>3
  <2>4. /\ SubSeq(b, 1, n) \in Seq(Units)
        /\ Len(SubSeq(b, 1, n)) = IF 1 <= n THEN n - 1 + 1 ELSE 0
        /\ \A i \in 1 .. n - 1 + 1 : SubSeq(b, 1, n)[i] = b[1 + i - 1]
    BY <2>1, <2>3, SubSeqProperties
  <2>5. \A i \in 1 .. n : m[i] = b[i]
    <3>1. ASSUME NEW i \in 1 .. n PROVE m[i] = b[i]
      <4>1. i \in 1 .. n - 1 + 1 /\ 1 + i - 1 = i BY <2>3
      <4> QED BY <2>2, <2>4, <4>1
    <3> QED BY <3>1
  <2> QED BY <2>2, <2>3, <2>4, <2>5 DEF Bytes, Agree
<1>5. Terminated(m)
  <2> DEFINE i == HeaderLen(b) + 1
  <2>1. i \in 1 .. n - 1 /\ i \in 1 .. n /\ i + 1 \in 1 .. n BY <1>2, <1>3
  <2>2. b[i] = CRLF /\ b[i + 1] = CRLF BY <1>2 DEF Ends
  <2>3. m[i] = CRLF /\ m[i + 1] = CRLF BY <1>4, <2>1, <2>2 DEF Agree
  <2>4. i \in Ends(m) BY <1>4, <2>1, <2>3 DEF Ends
  <2> QED BY <2>4 DEF Terminated
<1>6. /\ HeaderLen(b) = HeaderLen(m) /\ Plausible(m) /\ MessageLen(m) = n
  BY <1>1, <1>3, <1>4, <1>5, PrefixDecides DEF n
<1>7. ~Broken(m) BY <1>1, <1>5, <1>6 DEF Broken
<1>8. IsWhole(m)
  <2>1. \A k \in Nat : k >= k OBVIOUS
  <2>2. MessageLen(m) = Len(m) /\ Len(m) >= MessageLen(m) BY <1>3, <1>4, <1>6, <2>1
  <2> QED BY <1>5, <1>7, <2>2 DEF IsWhole, Ready
<1> QED BY <1>2, <1>3, <1>4, <1>8 DEF n

\* Nothing that follows makes a message of what is refused.
LEMMA BrokenStays ==
  ASSUME NEW b \in Bytes, NEW x \in Bytes, Broken(b)
  PROVE  Broken(b \o x)
<1> DEFINE c == b \o x
<1>1. /\ c \in Bytes /\ Len(c) = Len(b) + Len(x) /\ Len(b) \in Nat /\ Len(x) \in Nat
      /\ \A i \in 1 .. Len(b) + Len(x) : c[i] = IF i <= Len(b) THEN b[i] ELSE x[i - Len(b)]
  BY ConcatProperties, LenProperties DEF Bytes
<1> HIDE DEF c
<1>2. Agree(b, c, Len(b)) /\ Len(b) <= Len(c) /\ Len(c) \in Nat
  <2>1. \A i \in 1 .. Len(b) : i \in 1 .. Len(b) + Len(x) /\ i <= Len(b) BY <1>1
  <2> QED BY <1>1, <2>1 DEF Agree
<1>3. CASE Terminated(b)
  <2>1. /\ Terminated(c) /\ HeaderLen(c) = HeaderLen(b) /\ (Plausible(c) <=> Plausible(b))
        /\ Plausible(b) => MessageLen(c) = MessageLen(b)
    BY <1>1, <1>2, <1>3, PrefixDecides
  <2> QED BY <1>3, <2>1 DEF Broken, c
<1>4. CASE ~Terminated(b)
  <2>1. MaxHeader \in Nat /\ MaxMessage \in Nat BY FramingAssumption
  <2>2. Len(b) > Smaller(MaxHeader, MaxMessage) BY <1>4 DEF Broken
  <2>3. CASE ~Terminated(c)
    <3>1. Len(c) > Smaller(MaxHeader, MaxMessage) BY <1>1, <2>1, <2>2 DEF Smaller
    <3> QED BY <2>3, <3>1 DEF Broken, c
  <2>4. CASE Terminated(c)
    <3> DEFINE h == HeaderLen(c)
    <3>1. h \in Nat /\ h + 1 \in Ends(c) BY <1>1, <2>4, HeaderIs
    <3> HIDE DEF h
    <3>2. h + 1 >= Len(b)
      <4>1. SUFFICES ASSUME h + 1 < Len(b) PROVE FALSE BY <1>1, <3>1
      <4>2. c[h + 1] = CRLF /\ c[(h + 1) + 1] = CRLF BY <3>1 DEF Ends
      <4>3. h + 1 \in 1 .. Len(b) - 1 /\ h + 1 \in 1 .. Len(b) /\ (h + 1) + 1 \in 1 .. Len(b)
        BY <1>1, <3>1, <4>1
      <4>4. b[h + 1] = CRLF /\ b[(h + 1) + 1] = CRLF BY <1>2, <4>2, <4>3 DEF Agree
      <4>5. h + 1 \in Ends(b) BY <4>3, <4>4 DEF Ends
      <4> QED BY <1>4, <4>5 DEF Terminated
    <3>3. h + 2 > Smaller(MaxHeader, MaxMessage) BY <1>1, <2>1, <2>2, <3>1, <3>2 DEF Smaller
    <3>4. h + 2 > MaxHeader \/ ~Plausible(c) \/ (Plausible(c) /\ MessageLen(c) > MaxMessage)
      <4>1. SUFFICES ASSUME ~(h + 2 > MaxHeader), Plausible(c) PROVE MessageLen(c) > MaxMessage
        OBVIOUS
      <4>2. h + 2 > MaxMessage BY <2>1, <3>1, <3>3, <4>1 DEF Smaller
      <4>3. MessageLen(c) = h + 2 + ContentLength(c) /\ ContentLength(c) \in Nat
        BY <4>1, LengthIs DEF MessageLen, h
      <4> QED BY <2>1, <3>1, <4>2, <4>3
    <3> QED BY <2>4, <3>4 DEF Broken, h, c
  <2> QED BY <2>3, <2>4
<1> QED BY <1>3, <1>4

-----------------------------------------------------------------------------
(* The connection.                                                         *)

Handled == [message : Bytes, outcome : {"ignored", "dropped", "answered", "response", "request"}]
FramingTypeOK ==
  /\ ahead \in Bytes /\ received \in Bytes /\ buffer \in Bytes /\ cause \in Bytes
  /\ popped \in Seq(Bytes) /\ handled \in Seq(Handled)
  /\ scanning \in BOOLEAN
PoppedAreWhole == \A i \in 1 .. Len(popped) : IsWhole(popped[i])
Scanned ==
  /\ scanning => link = "open"
  /\ link = "open" /\ ~scanning => ~Ready(buffer) /\ ~Broken(buffer)
FramingInv ==
  FramingTypeOK /\ NothingLost /\ WholeMessages /\ PoppedAreWhole /\ Scanned /\ RefusalFinal

\* The messages that were handed over are sequences of units.
LEMMA MessagesAre ==
  ASSUME handled \in Seq(Handled)
  PROVE  /\ Messages \in Seq(Bytes) /\ Len(Messages) = Len(handled) /\ Len(handled) \in Nat
         /\ DOMAIN handled = 1 .. Len(handled)
         /\ \A i \in 1 .. Len(handled) : Messages[i] = handled[i].message
<1>1. Len(handled) \in Nat /\ DOMAIN handled = 1 .. Len(handled) BY LenProperties
<1>2. \A i \in 1 .. Len(handled) : handled[i].message \in Bytes
  <2>1. \A i \in 1 .. Len(handled) : handled[i] \in Handled BY ElementOfSeq
  <2> QED BY <2>1 DEF Handled
<1>3. Messages = [i \in 1 .. Len(handled) |-> handled[i].message] BY <1>1 DEF Messages
<1>4. Messages \in [1 .. Len(handled) -> Bytes] BY <1>2, <1>3
<1>5. Messages \in Seq(Bytes) /\ Len(Messages) = Len(handled) BY <1>1, <1>4
<1> QED BY <1>1, <1>3, <1>5

\* Nothing has arrived.
LEMMA FramingStarts == FramingInit => FramingInv
<1> SUFFICES ASSUME FramingInit PROVE FramingInv OBVIOUS
<1>1. /\ ahead \in Streams /\ received = << >> /\ buffer = << >> /\ popped = << >>
      /\ cause = << >> /\ handled = << >> /\ scanning = FALSE /\ link = "open"
  BY DEF FramingInit
<1>2. ahead \in Bytes
  <2>1. ahead \in Seq(Range(ahead)) BY <1>1, FramingAssumption
  <2>2. Range(ahead) \subseteq Units BY <1>1 DEF Units
  <2> QED BY <2>1, <2>2, SeqMonotonic DEF Bytes
<1>3. FramingTypeOK BY <1>1, <1>2, EmptySeq DEF FramingTypeOK, Bytes
<1>4. NothingLost
  <2>1. Messages \in Seq(Bytes) /\ Len(Messages) = 0 BY <1>1, <1>3, MessagesAre DEF FramingTypeOK
  <2>2. Messages = << >> BY <2>1, EmptySeq
  <2>3. FlattenSeq(<< >>) = << >>
    <3>1. << >> \in Seq(Seq(Units)) BY EmptySeq
    <3> QED BY <3>1, FlattenTyped
  <2>4. << >> \o << >> = << >>
    <3>1. << >> \in Seq(Units) BY EmptySeq
    <3> QED BY <3>1, ConcatEmptySeq
  <2> QED BY <1>1, <2>2, <2>3, <2>4 DEF NothingLost
<1>5. WholeMessages /\ PoppedAreWhole
  <2>1. Len(popped) = 0 /\ DOMAIN handled = {} BY <1>1
  <2> QED BY <2>1 DEF WholeMessages, PoppedAreWhole
<1>6. Scanned
  <2>1. Len(buffer) = 0 BY <1>1
  <2>2. Ends(buffer) = {} BY <2>1 DEF Ends
  <2>3. ~Terminated(buffer) BY <2>2 DEF Terminated
  <2>4. ~(0 > Smaller(MaxHeader, MaxMessage)) BY FramingAssumption DEF Smaller
  <2> QED BY <1>1, <2>1, <2>3, <2>4 DEF Scanned, Ready, Broken
<1>7. RefusalFinal BY <1>1 DEF RefusalFinal
<1> QED BY <1>3, <1>4, <1>5, <1>6, <1>7 DEF FramingInv

\* The messages and what was popped stay the same.
LEMMA HandledSame ==
  ASSUME UNCHANGED handled
  PROVE  Messages' = Messages /\ (WholeMessages => WholeMessages')
BY DEF Messages, WholeMessages

\* A piece is added to what arrived and to the buffer.
LEMMA ArriveKept == ASSUME FramingInv, Arrive PROVE FramingInv'
<1>1. PICK n \in 1 .. Len(ahead) :
        /\ ahead' = SubSeq(ahead, n + 1, Len(ahead))
        /\ received' = received \o SubSeq(ahead, 1, n) /\ buffer' = buffer \o SubSeq(ahead, 1, n)
  BY DEF Arrive
<1> DEFINE piece == SubSeq(ahead, 1, n)
<1>2. /\ link = "open" /\ link' = "open" /\ scanning' = TRUE
      /\ UNCHANGED <<popped, cause, handled>>
  BY DEF Arrive
<1>3. FramingTypeOK BY DEF FramingInv
<1>4. piece \in Bytes /\ ahead' \in Bytes
  <2>1. Len(ahead) \in Nat /\ \A i \in 1 .. Len(ahead) : ahead[i] \in Units
    BY <1>3, LenProperties, ElementOfSeq DEF FramingTypeOK, Bytes
  <2>2. \A i \in 1 .. n : ahead[i] \in Units BY <2>1
  <2>3. \A i \in n + 1 .. Len(ahead) : ahead[i] \in Units BY <2>1
  <2>4. 1 \in Int /\ n \in Int /\ n + 1 \in Int /\ Len(ahead) \in Int BY <2>1
  <2>5. piece \in Seq(Units) BY <2>2, <2>4, SubSeqProperties
  <2>6. SubSeq(ahead, n + 1, Len(ahead)) \in Seq(Units) BY <2>3, <2>4, SubSeqProperties
  <2> QED BY <1>1, <2>5, <2>6 DEF Bytes
<1> HIDE DEF piece
<1>5. FramingTypeOK'
  <2>1. received \o piece \in Bytes /\ buffer \o piece \in Bytes
    BY <1>3, <1>4, ConcatProperties DEF FramingTypeOK, Bytes
  <2> QED BY <1>1, <1>2, <1>3, <1>4, <2>1 DEF FramingTypeOK, piece
<1>6. Messages' = Messages /\ WholeMessages' BY <1>2, HandledSame DEF FramingInv
<1>7. NothingLost'
  <2> DEFINE x == FlattenSeq(Messages) \o FlattenSeq(popped)
  <2>1. x \o buffer = received BY <1>2 DEF FramingInv, NothingLost
  <2>2. x \in Bytes
    <3>1. Messages \in Seq(Seq(Units)) /\ popped \in Seq(Seq(Units))
      BY <1>3, MessagesAre DEF FramingTypeOK, Bytes
    <3>2. FlattenSeq(Messages) \in Seq(Units) /\ FlattenSeq(popped) \in Seq(Units)
      BY <3>1, FlattenTyped
    <3> QED BY <3>2, ConcatProperties DEF Bytes
  <2>3. x' = x BY <1>2, <1>6
  <2> HIDE DEF x
  <2>4. buffer \in Seq(Units) /\ piece \in Seq(Units) /\ x \in Seq(Units)
    BY <1>3, <1>4, <2>2 DEF FramingTypeOK, Bytes
  <2>5. Cat(Cat(x, buffer), piece) = Cat(x, Cat(buffer, piece)) BY <2>4, CatRegroups
  <2>6. x \o (buffer \o piece) = received \o piece BY <2>1, <2>5 DEF Cat
  <2>7. x' \o buffer' = received' BY <1>1, <2>3, <2>6 DEF piece
  <2> QED BY <2>7 DEF NothingLost, x
<1>8. PoppedAreWhole' BY <1>2 DEF FramingInv, PoppedAreWhole
<1>9. Scanned' /\ RefusalFinal' BY <1>2 DEF Scanned, RefusalFinal
<1> QED BY <1>5, <1>6, <1>7, <1>8, <1>9 DEF FramingInv

\* A message moves from the buffer to those that were found.
LEMMA PopKept == ASSUME FramingInv, Pop PROVE FramingInv'
<1> DEFINE n == MessageLen(buffer)
           m == SubSeq(buffer, 1, n)
           rest == SubSeq(buffer, n + 1, Len(buffer))
<1>1. /\ scanning /\ Ready(buffer) /\ buffer' = rest
      /\ popped' = Append(popped, SubSeq(buffer, 1, Smaller(MessageLen(buffer), Len(buffer))))
      /\ UNCHANGED <<ahead, received, scanning, link, cause, handled>>
  BY DEF Pop
<1>2. FramingTypeOK BY DEF FramingInv
<1>3. buffer \in Bytes BY <1>2 DEF FramingTypeOK
<1>4. m \in Bytes /\ IsWhole(m) /\ n \in Nat \ {0} /\ n <= Len(buffer) /\ Len(buffer) \in Nat
  BY <1>1, <1>3, PoppedWhole
<1> HIDE DEF n
<1>5. Smaller(MessageLen(buffer), Len(buffer)) = n
  BY <1>4 DEF Smaller, n
<1>6. popped' = Append(popped, m) BY <1>1, <1>5
<1>7. rest \in Bytes /\ m \o rest = buffer
  <2>1. 1 \in 1 .. Len(buffer) + 1 /\ n \in 1 - 1 .. Len(buffer) /\ Len(buffer) \in n .. Len(buffer)
    BY <1>4
  <2>2. buffer \in Seq(Units) BY <1>3 DEF Bytes
  <2>3. m \o rest = SubSeq(buffer, 1, Len(buffer)) BY <2>1, <2>2, ConcatAdjacentSubSeq
  <2>4. SubSeq(buffer, 1, Len(buffer)) = buffer BY <2>2, SubSeqFull
  <2>5. \A i \in n + 1 .. Len(buffer) : buffer[i] \in Units
    <3>1. \A i \in n + 1 .. Len(buffer) : i \in 1 .. Len(buffer) BY <1>4
    <3> QED BY <2>2, <3>1, ElementOfSeq
  <2>6. n + 1 \in Int /\ Len(buffer) \in Int BY <1>4
  <2>7. rest \in Seq(Units) BY <2>5, <2>6, SubSeqProperties
  <2> QED BY <2>3, <2>4, <2>7 DEF Bytes
<1> HIDE DEF m, rest
<1>8. popped' \in Seq(Bytes) BY <1>2, <1>4, <1>6, AppendProperties DEF FramingTypeOK
<1>9. FramingTypeOK' BY <1>1, <1>2, <1>7, <1>8 DEF FramingTypeOK
<1>10. Messages' = Messages /\ WholeMessages' BY <1>1, HandledSame DEF FramingInv
<1>11. NothingLost'
  <2> DEFINE x == FlattenSeq(Messages)
             y == FlattenSeq(popped)
  <2>1. link = "open" BY <1>1 DEF FramingInv, Scanned
  <2>2. (x \o y) \o buffer = received BY <2>1 DEF FramingInv, NothingLost
  <2>3. /\ popped \in Seq(Seq(Units)) /\ m \in Seq(Units)
        /\ Messages \in Seq(Seq(Units)) /\ rest \in Seq(Units)
    BY <1>2, <1>4, <1>7, MessagesAre DEF FramingTypeOK, Bytes
  <2>4. x \in Seq(Units) /\ y \in Seq(Units) BY <2>3, FlattenTyped
  <2>5. FlattenSeq(popped') = y \o m BY <1>6, <2>3, FlattenAppend
  <2> HIDE DEF x, y
  <2>6. Cat(y, m) \in Seq(Units) /\ Cat(x, y) \in Seq(Units) BY <2>3, <2>4, ConcatProperties DEF Cat
  <2>7. Cat(Cat(x, Cat(y, m)), rest) = Cat(Cat(x, y), Cat(m, rest))
    <3>1. Cat(x, Cat(y, m)) = Cat(Cat(x, y), m) BY <2>3, <2>4, CatRegroups
    <3>2. Cat(Cat(Cat(x, y), m), rest) = Cat(Cat(x, y), Cat(m, rest)) BY <2>3, <2>6, CatRegroups
    <3> QED BY <3>1, <3>2
  <2>8. (x \o (y \o m)) \o rest = received BY <1>7, <2>2, <2>7 DEF Cat
  <2>9. FlattenSeq(Messages') \o FlattenSeq(popped') \o buffer' = received'
    BY <1>1, <1>10, <2>5, <2>8 DEF x, rest
  <2> QED BY <2>9 DEF NothingLost
<1>12. PoppedAreWhole'
  <2>1. /\ Len(popped') = Len(popped) + 1 /\ Len(popped) \in Nat /\ popped'[Len(popped) + 1] = m
        /\ \A i \in 1 .. Len(popped) : popped'[i] = popped[i]
    BY <1>2, <1>4, <1>6, AppendProperties, LenProperties DEF FramingTypeOK
  <2>2. \A i \in 1 .. Len(popped) : IsWhole(popped[i]) BY DEF FramingInv, PoppedAreWhole
  <2>3. ASSUME NEW i \in 1 .. Len(popped') PROVE IsWhole(popped'[i])
    <3>1. i \in 1 .. Len(popped) \/ i = Len(popped) + 1 BY <2>1
    <3> QED BY <1>4, <2>1, <2>2, <3>1
  <2> QED BY <2>3 DEF PoppedAreWhole
<1>13. Scanned' /\ RefusalFinal'
  BY <1>1 DEF FramingInv, Scanned, RefusalFinal
<1> QED BY <1>9, <1>10, <1>11, <1>12, <1>13 DEF FramingInv

\* The buffer is refused, and the messages found with it are lost.
LEMMA RefuseKept == ASSUME FramingInv, Refuse PROVE FramingInv'
<1>1. /\ scanning /\ Broken(buffer) /\ cause' = buffer /\ buffer' = << >> /\ popped' = << >>
      /\ scanning' = FALSE /\ link' = "refused" /\ UNCHANGED <<ahead, received, handled>>
  BY DEF Refuse
<1>2. FramingTypeOK BY DEF FramingInv
<1>3. FramingTypeOK'
  <2>1. << >> \in Bytes /\ << >> \in Seq(Bytes) BY EmptySeq DEF Bytes
  <2> QED BY <1>1, <1>2, <2>1 DEF FramingTypeOK
<1>4. WholeMessages' BY <1>1, HandledSame DEF FramingInv
<1>5. NothingLost' BY <1>1 DEF NothingLost
<1>6. PoppedAreWhole'
  <2>1. Len(popped') = 0 BY <1>1
  <2> QED BY <2>1 DEF PoppedAreWhole
<1>7. Scanned' BY <1>1 DEF Scanned
<1>8. RefusalFinal'
  <2>1. Broken(buffer \o ahead) BY <1>1, <1>2, BrokenStays DEF FramingTypeOK
  <2>2. Broken(cause' \o ahead') BY <1>1, <2>1
  <2> QED BY <2>2 DEF RefusalFinal
<1> QED BY <1>3, <1>4, <1>5, <1>6, <1>7, <1>8 DEF FramingInv

\* The first message found is handed over.
LEMMA HandKept == ASSUME FramingInv, Hand PROVE FramingInv'
<1>1. PICK o \in Outcomes(Head(popped)) :
        handled' = Append(handled, [message |-> Head(popped), outcome |-> o])
  BY DEF Hand
<1>2. /\ scanning /\ popped # << >> /\ popped' = Tail(popped)
      /\ UNCHANGED <<ahead, received, buffer, scanning, link, cause>>
  BY DEF Hand
<1> DEFINE m == Head(popped)
<1>3. FramingTypeOK BY DEF FramingInv
<1>4. /\ m \in Bytes /\ popped' \in Seq(Bytes) /\ Len(popped) \in Nat \ {0}
      /\ Len(popped') = Len(popped) - 1 /\ m = popped[1]
      /\ \A i \in 1 .. Len(popped') : popped'[i] = popped[i + 1]
  BY <1>2, <1>3, HeadTailProperties, EmptySeq DEF FramingTypeOK
<1> HIDE DEF m
<1>5. IsWhole(m) /\ PoppedAreWhole'
  <2>1. \A i \in 1 .. Len(popped) : IsWhole(popped[i]) BY DEF FramingInv, PoppedAreWhole
  <2>2. 1 \in 1 .. Len(popped) /\ \A i \in 1 .. Len(popped') : i + 1 \in 1 .. Len(popped) BY <1>4
  <2>3. \A i \in 1 .. Len(popped') : IsWhole(popped'[i]) BY <1>4, <2>1, <2>2
  <2> QED BY <1>4, <2>1, <2>2, <2>3 DEF PoppedAreWhole
<1> DEFINE r == [message |-> m, outcome |-> o]
<1>6. r \in Handled /\ r.message = m
  <2>1. o \in {"ignored", "dropped", "answered", "response", "request"} BY <1>1 DEF Outcomes
  <2> QED BY <1>4, <2>1 DEF Handled
<1>7. handled' = Append(handled, r) BY <1>1 DEF m
<1> HIDE DEF r
<1>8. /\ handled' \in Seq(Handled) /\ Len(handled') = Len(handled) + 1 /\ Len(handled) \in Nat
      /\ handled'[Len(handled) + 1] = r /\ \A i \in 1 .. Len(handled) : handled'[i] = handled[i]
  BY <1>3, <1>6, <1>7, AppendProperties, LenProperties DEF FramingTypeOK
<1>9. FramingTypeOK' BY <1>2, <1>3, <1>4, <1>8 DEF FramingTypeOK
<1>10. /\ Messages \in Seq(Bytes) /\ Len(Messages) = Len(handled)
       /\ DOMAIN handled = 1 .. Len(handled)
       /\ \A i \in 1 .. Len(handled) : Messages[i] = handled[i].message
  BY <1>3, MessagesAre DEF FramingTypeOK
<1>11. /\ Messages' \in Seq(Bytes) /\ Len(Messages') = Len(handled')
       /\ DOMAIN handled' = 1 .. Len(handled')
       /\ \A i \in 1 .. Len(handled') : Messages'[i] = handled'[i].message
  <2>1. DOMAIN handled' = 1 .. Len(handled') BY <1>8, LenProperties
  <2>2. \A i \in 1 .. Len(handled') : handled'[i].message \in Bytes
    <3>1. \A i \in 1 .. Len(handled') : handled'[i] \in Handled BY <1>8, ElementOfSeq
    <3> QED BY <3>1 DEF Handled
  <2>3. Messages' = [i \in 1 .. Len(handled') |-> handled'[i].message] BY <2>1 DEF Messages
  <2>4. Messages' \in [1 .. Len(handled') -> Bytes] /\ Len(handled') \in Nat BY <1>8, <2>2, <2>3
  <2>5. Messages' \in Seq(Bytes) /\ Len(Messages') = Len(handled') BY <2>4
  <2> QED BY <2>1, <2>3, <2>5
<1>12. Messages' = Append(Messages, m)
  <2>1. /\ Append(Messages, m) \in Seq(Bytes) /\ Len(Append(Messages, m)) = Len(handled) + 1
        /\ \A i \in 1 .. Len(handled) : Append(Messages, m)[i] = Messages[i]
        /\ Append(Messages, m)[Len(handled) + 1] = m
    BY <1>4, <1>10, AppendProperties
  <2>2. ASSUME NEW i \in 1 .. Len(handled') PROVE Messages'[i] = Append(Messages, m)[i]
    <3>1. i \in 1 .. Len(handled) \/ i = Len(handled) + 1 BY <1>8
    <3> QED BY <1>6, <1>8, <1>10, <1>11, <2>1, <3>1
  <2> QED BY <1>8, <1>11, <2>1, <2>2, SeqEqual
<1>13. WholeMessages'
  <2>1. \A i \in 1 .. Len(handled) : IsWhole(Messages[i])
    BY <1>10 DEF FramingInv, WholeMessages, IsWhole
  <2>2. ASSUME NEW i \in 1 .. Len(handled') PROVE IsWhole(Messages'[i])
    <3>1. i \in 1 .. Len(handled) \/ i = Len(handled) + 1 BY <1>8
    <3> QED BY <1>5, <1>6, <1>8, <1>10, <1>11, <2>1, <3>1
  <2> QED BY <1>11, <2>2 DEF WholeMessages, IsWhole
<1>14. NothingLost'
  <2> DEFINE x == FlattenSeq(Messages)
             y == FlattenSeq(popped')
  <2>1. link = "open" BY <1>2 DEF FramingInv, Scanned
  <2>2. /\ popped \in Seq(Seq(Units)) /\ m \in Seq(Units)
        /\ Messages \in Seq(Seq(Units)) /\ popped' \in Seq(Seq(Units))
    BY <1>3, <1>4, <1>10 DEF FramingTypeOK, Bytes
  <2>3. FlattenSeq(popped) = m \o y BY <1>2, <2>2, FlattenHead DEF m
  <2>4. (x \o (m \o y)) \o buffer = received BY <2>1, <2>3 DEF FramingInv, NothingLost
  <2>5. FlattenSeq(Messages') = x \o m BY <1>12, <2>2, FlattenAppend
  <2>6. x \in Seq(Units) /\ y \in Seq(Units) BY <2>2, FlattenTyped
  <2> HIDE DEF x, y
  <2>7. Cat(Cat(x, m), y) = Cat(x, Cat(m, y)) BY <2>2, <2>6, CatRegroups
  <2>8. ((x \o m) \o y) \o buffer = received BY <2>4, <2>7 DEF Cat
  <2>9. FlattenSeq(Messages') \o FlattenSeq(popped') \o buffer' = received'
    BY <1>2, <2>5, <2>8 DEF y
  <2> QED BY <2>9 DEF NothingLost
<1>15. Scanned' /\ RefusalFinal' BY <1>2 DEF FramingInv, Scanned, RefusalFinal
<1> QED BY <1>5, <1>9, <1>13, <1>14, <1>15 DEF FramingInv

\* Nothing more is in the buffer, or the connection ends.
LEMMA EndScanKept == ASSUME FramingInv, Done \/ Closed PROVE FramingInv'
<1>1. /\ scanning' = FALSE /\ UNCHANGED <<ahead, received, popped, cause, handled>>
      /\ link' # "refused" \/ link' = link
  BY DEF Done, Closed, FramingInv, FramingTypeOK
<1>2. FramingTypeOK BY DEF FramingInv
<1>3. buffer' = buffer \/ (buffer' = << >> /\ link' = "closed") BY DEF Done, Closed
<1>4. FramingTypeOK'
  <2>1. << >> \in Bytes BY EmptySeq DEF Bytes
  <2> QED BY <1>1, <1>2, <1>3, <2>1 DEF FramingTypeOK
<1>5. Messages' = Messages /\ WholeMessages' BY <1>1, HandledSame DEF FramingInv
<1>6. link' = "open" => link = "open" /\ buffer' = buffer
  BY DEF Done, Closed
<1>7. NothingLost'
  <2>1. CASE link' = "open"
    <3>1. FlattenSeq(Messages) \o FlattenSeq(popped) \o buffer = received
      BY <1>6, <2>1 DEF FramingInv, NothingLost
    <3>2. FlattenSeq(Messages') \o FlattenSeq(popped') \o buffer' = received'
      BY <1>1, <1>5, <1>6, <2>1, <3>1
    <3> QED BY <3>2 DEF NothingLost
  <2>2. CASE link' # "open" BY <2>2 DEF NothingLost
  <2> QED BY <2>1, <2>2
<1>8. PoppedAreWhole' BY <1>1 DEF FramingInv, PoppedAreWhole
<1>9. Scanned'
  <2>1. CASE Done BY <2>1 DEF Done, Scanned
  <2>2. CASE Closed BY <2>2 DEF Closed, Scanned
  <2> QED BY <2>1, <2>2
<1>10. RefusalFinal'
  <2>1. link' = "refused" => link = "refused" BY DEF Done, Closed
  <2> QED BY <1>1, <2>1 DEF FramingInv, RefusalFinal
<1> QED BY <1>4, <1>5, <1>7, <1>8, <1>9, <1>10 DEF FramingInv

\* The invariant implies the property: what waits is shorter than its message.
LEMMA FramingSafeOf == FramingInv => FramingSafe
<1> SUFFICES ASSUME FramingInv PROVE FramingSafe OBVIOUS
<1>1. NothingWaits
  <2>1. SUFFICES ASSUME link = "open", ~scanning
                 PROVE  ~Ready(buffer) /\ ~Broken(buffer) /\ Len(buffer) <= MaxMessage
    BY DEF NothingWaits
  <2>2. ~Ready(buffer) /\ ~Broken(buffer) BY <2>1 DEF FramingInv, Scanned
  <2>3. MaxHeader \in Nat /\ MaxMessage \in Nat BY FramingAssumption
  <2>4. buffer \in Bytes /\ Len(buffer) \in Nat
    BY LenProperties DEF FramingInv, FramingTypeOK, Bytes
  <2>5. CASE ~Terminated(buffer)
    <3>1. ~(Len(buffer) > Smaller(MaxHeader, MaxMessage)) BY <2>2, <2>5 DEF Broken
    <3>2. Len(buffer) <= MaxMessage BY <2>3, <2>4, <3>1 DEF Smaller
    <3> QED BY <2>2, <3>2
  <2>6. CASE Terminated(buffer)
    <3>1. Plausible(buffer) /\ ~(MessageLen(buffer) > MaxMessage) BY <2>2, <2>6 DEF Broken
    <3>2. ~(Len(buffer) >= MessageLen(buffer)) BY <2>2, <2>6 DEF Ready
    <3>3. MessageLen(buffer) \in Nat BY <2>4, <2>6, <3>1, HeaderIs, LengthIs DEF MessageLen
    <3>4. Len(buffer) <= MaxMessage BY <2>3, <2>4, <3>1, <3>2, <3>3
    <3> QED BY <2>2, <3>4
  <2> QED BY <2>5, <2>6
<1> QED BY <1>1 DEF FramingInv, FramingSafe

\* Every step of the stream keeps the invariant.
LEMMA FramingNextKept == ASSUME FramingInv, [FramingNext]_framingVars PROVE FramingInv'
<1>1. CASE FramingNext
  BY <1>1, ArriveKept, PopKept, RefuseKept, HandKept, EndScanKept DEF FramingNext
<1>2. CASE UNCHANGED framingVars
  <2>1. UNCHANGED <<ahead, received, buffer, popped, scanning, link, cause, handled>>
    BY <1>2 DEF framingVars
  <2> QED BY <2>1 DEF FramingInv, FramingTypeOK, NothingLost, WholeMessages, PoppedAreWhole,
                      Scanned, RefusalFinal, Messages
<1> QED BY <1>1, <1>2

\* For any streams, cut in any way, and any limits: no byte is lost, repeated or
\* moved, every message handed over is whole and no longer than its header says,
\* none waits that is complete, and what is refused could never have become one.
THEOREM FramingAlwaysSafe == FramingSpec => []FramingSafe
<1>1. FramingInit => FramingInv BY FramingStarts
<1>2. FramingInv /\ [FramingNext]_framingVars => FramingInv' BY FramingNextKept
<1>3. FramingInv => FramingSafe BY FramingSafeOf
<1> QED BY <1>1, <1>2, <1>3, PTL DEF FramingSpec

-----------------------------------------------------------------------------
(* Node: the certificate that the listener serves.                         *)

\* When files are replaced only while the reload task can see it, what was
\* loaded at the start are the files whose times the first turn takes.
NodeInv ==
  /\ {cert, key, context.cert, context.key, signature.cert, signature.key} \subseteq Nat
  /\ phase \in {"down", "loaded", "listening", "serving"}
  /\ phase \in {"loaded", "listening"} => signature = NoSignature
  /\ phase \in {"loaded", "listening"} \/ (phase = "serving" /\ signature = NoSignature) =>
       context = Files /\ Paired(Files)
  /\ phase = "serving" => signature.cert <= context.cert /\ Paired(signature)
  /\ signature.cert <= cert /\ context.cert <= cert

LEMMA NodeStarts == NodeInit => NodeInv
BY DEF NodeInit, NodeInv, Nothing, NoSignature

LEMMA NodeKeeps ==
  ASSUME ~EarlyRotation, NodeInv, [NodeNext]_nodeVars
  PROVE  NodeInv'
<1> USE DEF NodeInv, Files, Nothing, NoSignature, Paired
<1>1. CASE Load BY <1>1 DEF Load
<1>2. CASE Listen BY <1>2 DEF Listen
<1>3. CASE Reload BY <1>3 DEF Reload, AfterLoad
<1>4. CASE Control BY <1>4 DEF Control
<1>5. CASE Invite BY <1>5 DEF Invite
<1>6. CASE RotateCert BY <1>6 DEF RotateCert, MayRotate
<1>7. CASE RotateKey BY <1>7 DEF RotateKey, MayRotate
<1>8. CASE Dies BY <1>8 DEF Dies
<1>9. CASE UNCHANGED nodeVars BY <1>9 DEF nodeVars
<1> QED BY <1>1, <1>2, <1>3, <1>4, <1>5, <1>6, <1>7, <1>8, <1>9 DEF NodeNext

\* The safety half of CertificateServed: no turn of the reload task gives up a
\* pair that works for files that are no newer, whatever part of a rotation it
\* meets and whenever the process ends.
THEOREM CertificateNeverOlder == ASSUME ~EarlyRotation PROVE NodeSpec => []ReloadCurrent
<1>1. NodeInv => ReloadCurrent BY DEF NodeInv, ReloadCurrent
<1>2. NodeInv /\ [NodeNext]_nodeVars => NodeInv' BY NodeKeeps
<1> QED BY <1>1, <1>2, NodeStarts, PTL DEF NodeSpec
-----------------------------------------------------------------------------
(* What call control sees of a client transaction, ctx in B2BUACall.       *)

Seen(x) == IF x.state \in Unanswered THEN "active" ELSE IF x.state \in Answered THEN "final" ELSE "none"

\* The steps that ctx takes in B2BUACall, with what the owner is told: a request
\* that is sent, its final response, after which a transaction over a stream
\* is over unless it is an accepted INVITE (FinalReceived, CancelResponse), its
\* timeout (InviteTimeout, CancelForgotten), the end of its stream
\* (TransportError), and the end of an answered one (InviteForgotten).
AsCallSees(k) ==
  LET now == Seen(txn[k]) then == Seen(txn'[k]) IN
  \/ then = now /\ told'[k] = told[k]
  \/ now = "none" /\ then = "active" /\ told'[k] = {}
  \/ now = "active" /\ then = "final" /\ told[k] = {} /\ told'[k] \in {{"success"}, {"failure"}}
  \/ now = "active" /\ then = "none" /\ told[k] = {} /\ told'[k] = {"timeout"}
  \/ now = "active" /\ then = "none" /\ told[k] = {} /\ k \in Reliable /\ told'[k] \in {{"failure"}, {"error"}}
  \/ now = "active" /\ then = "none" /\ told[k] = {} /\ k \in Reliable \ Invites /\ told'[k] = {"success"}
  \/ now = "final" /\ then = "none" /\ told'[k] = told[k]

LEMMA SeenIs ==
  ASSUME NEW x
  PROVE  /\ x.state \in Unanswered => Seen(x) = "active"
         /\ x.state \in Answered => Seen(x) = "final"
         /\ x.state = "ABSENT" => Seen(x) = "none"
         /\ x = Absent => Seen(x) = "none"
BY DEF Seen, Unanswered, Answered, Absent

\* What holds of the requests before a step.
LEMMA BeforeStep ==
  ASSUME ClientInv, NEW k \in Keys
  PROVE  /\ txn[k] \in Txn(k) /\ DOMAIN txn = Keys /\ DOMAIN told = Keys
         /\ txn[k].state \in Unanswered => told[k] = {} /\ txn[k].cleanup = NoTimer
         /\ txn[k].state = "ABSENT" => txn[k] = Absent
         /\ txn[k].state \in {"ABSENT"} \cup Unanswered \cup Answered
         /\ txn[k].state \notin Unanswered => txn[k].timeout = NoTimer
<1>1. /\ DOMAIN txn = Keys /\ DOMAIN told = Keys /\ txn[k] \in Txn(k) /\ Timers(k, txn[k], told[k])
  BY InvariantIs DEF Good
<1>2. txn[k].state \in {"ABSENT"} \cup Unanswered \cup Answered BY <1>1 DEF Txn
<1>3. txn[k].state = "ABSENT" => txn[k] = Absent BY <1>1 DEF Timers
<1>4. txn[k].state \in Unanswered => told[k] = {} /\ txn[k].cleanup = NoTimer BY <1>1 DEF Timers
<1>5. txn[k] = Absent => txn[k].timeout = NoTimer BY DEF Absent
<1>6. txn[k].state \in Answered => txn[k].timeout = NoTimer BY <1>1 DEF Timers
<1>7. txn[k].state \notin Unanswered => txn[k].timeout = NoTimer BY <1>2, <1>3, <1>5, <1>6
<1> QED BY <1>1, <1>2, <1>3, <1>4, <1>7

\* One request changes its state, or gets an outcome.
LEMMA OneSeen ==
  ASSUME ClientInv, NEW k \in Keys, NEW x, NEW outcomes, AsCallSees(k),
         txn' = [txn EXCEPT ![k] = x], told' = [told EXCEPT ![k] = outcomes]
  PROVE  \A j \in Keys : AsCallSees(j)
<1>1. DOMAIN txn = Keys /\ DOMAIN told = Keys BY InvariantIs
<1> SUFFICES ASSUME NEW j \in Keys, j # k PROVE AsCallSees(j) OBVIOUS
<1>2. txn'[j] = txn[j] /\ told'[j] = told[j] BY <1>1
<1> QED BY <1>2 DEF AsCallSees

LEMMA FinalSeen ==
  ASSUME ClientInv, NEW k \in Keys, NEW status \in {"success", "failure"}, Final(k, status)
  PROVE  AsCallSees(k)
<1> DEFINE x == FinalOf(k, txn[k], status)
<1>1. txn[k].state \in Unanswered /\ told[k] = {} /\ DOMAIN txn = Keys /\ DOMAIN told = Keys
  BY BeforeStep DEF Final
<1>2. txn'[k] = x /\ told'[k] = {status} BY <1>1 DEF Final, Tell
<1>3. txn[k] \in Txn(k) BY BeforeStep
<1>4. ASSUME NEW s, NEW delay, delay # 0 PROVE Kept(txn[k], s, delay).state = s
  BY <1>3, <1>4 DEF Kept, Quiet, Txn
<1>5. Kept(txn[k], "COMPLETED", 0) = Absent BY DEF Kept
<1>6. T4 # 0 /\ TimerD # 0 /\ Linger # 0 BY TimerAssumption
<1>7. CASE k \in Invites /\ status = "success"
  <2>1. x.state = "ACCEPTED" BY <1>4, <1>6, <1>7 DEF FinalOf
  <2> QED BY <1>1, <1>2, <1>7, <2>1, SeenIs DEF AsCallSees, Answered
<1>8. CASE ~(k \in Invites /\ status = "success") /\ k \in Reliable
  <2>1. x = Absent BY <1>5, <1>8 DEF FinalOf
  <2> QED BY <1>1, <1>2, <1>8, <2>1, SeenIs DEF AsCallSees
<1>9. CASE ~(k \in Invites /\ status = "success") /\ k \notin Reliable
  <2>1. x.state = "COMPLETED" BY <1>4, <1>6, <1>9 DEF FinalOf
  <2> QED BY <1>1, <1>2, <2>1, SeenIs DEF AsCallSees, Answered
<1> QED BY <1>7, <1>8, <1>9

\* A step that leaves the states and the outcomes.
LEMMA SameSeen ==
  ASSUME NEW k \in Keys, txn'[k].state = txn[k].state, told'[k] = told[k]
  PROVE  AsCallSees(k)
BY DEF AsCallSees, Seen

LEMMA EveryStepSeen ==
  ASSUME ClientInv, [Next]_vars
  PROVE  \A k \in Keys : AsCallSees(k)
<1>0. DOMAIN txn = Keys /\ DOMAIN told = Keys BY InvariantIs
<1>1. CASE UNCHANGED vars BY <1>1, SameSeen DEF vars
<1>2. CASE Tick
  <2> SUFFICES ASSUME NEW k \in Keys PROVE AsCallSees(k) OBVIOUS
  <2>1. txn[k] \in Txn(k) BY BeforeStep
  <2>2. txn'[k] = [txn[k] EXCEPT !.retransmit = Less(@), !.timeout = Less(@), !.cleanup = Less(@)]
    BY <1>2 DEF Tick
  <2>3. txn'[k].state = txn[k].state BY <2>1, <2>2 DEF Txn
  <2>4. told' = told BY <1>2 DEF Tick
  <2> QED BY <2>3, <2>4, SameSeen
<1>3. ASSUME NEW keys \in SUBSET Reliable, TransportError(keys) PROVE \A k \in Keys : AsCallSees(k)
  <2> SUFFICES ASSUME NEW k \in Keys PROVE AsCallSees(k) OBVIOUS
  <2>1. CASE k \in keys /\ txn[k].state \in Unanswered
    <3>1. txn'[k] = Absent /\ told'[k] = told[k] \cup {"error"} BY <1>3, <2>1 DEF TransportError
    <3>2. told[k] = {} BY <2>1, BeforeStep
    <3>3. k \in Reliable BY <2>1
    <3> QED BY <2>1, <3>1, <3>2, <3>3, SeenIs DEF AsCallSees
  <2>2. CASE ~(k \in keys /\ txn[k].state \in Unanswered)
    <3>1. txn'[k] = txn[k] /\ told'[k] = told[k] BY <1>3, <2>2 DEF TransportError
    <3> QED BY <3>1, SameSeen
  <2> QED BY <2>1, <2>2
<1>4. ASSUME NEW k \in Keys, Start(k) PROVE \A j \in Keys : AsCallSees(j)
  <2>1. txn[k] = Absent /\ told'[k] = {} BY <1>0, <1>4 DEF Start
  <2>2. txn'[k].state \in Unanswered BY <1>0, <1>4 DEF Start, Unanswered
  <2>3. AsCallSees(k) BY <2>1, <2>2, SeenIs DEF AsCallSees
  <2> QED BY <1>4, <2>3, OneSeen DEF Start
<1>5. ASSUME NEW k \in Keys, Provisional(k) PROVE \A j \in Keys : AsCallSees(j)
  <2>1. txn[k].state \in Unanswered /\ txn'[k] = ProvisionalOf(k, txn[k]) /\ told' = told
    BY <1>0, <1>5 DEF Provisional
  <2>2. txn[k] \in Txn(k) BY BeforeStep
  <2>3. ProvisionalOf(k, txn[k]).state = "PROCEEDING" BY <2>2 DEF ProvisionalOf, Quiet, Txn
  <2>4. AsCallSees(k) BY <2>1, <2>3, SeenIs DEF AsCallSees, Unanswered
  <2>5. told' = [told EXCEPT ![k] = told[k]] BY <1>0, <2>1, InvariantIs
  <2> QED BY <1>5, <2>4, <2>5, OneSeen DEF Provisional
<1>6. ASSUME NEW k \in Keys, NEW status \in {"success", "failure"}, Final(k, status)
      PROVE  \A j \in Keys : AsCallSees(j)
  <2>1. AsCallSees(k) BY <1>6, FinalSeen
  <2> QED BY <1>6, <2>1, OneSeen DEF Final, Tell
<1>7. ASSUME NEW k \in Keys, Retransmit(k) PROVE \A j \in Keys : AsCallSees(j)
  BY <1>0, <1>7, SameSeen DEF Retransmit
<1>8. ASSUME NEW k \in Keys, Timeout(k) PROVE \A j \in Keys : AsCallSees(j)
  <2>1. txn'[k] = Absent /\ told'[k] = told[k] \cup {"timeout"} BY <1>0, <1>8 DEF Timeout, Tell
  <2>2. txn[k].state \in Unanswered BY <1>8, BeforeStep DEF Timeout, NoTimer
  <2>3. told[k] = {} BY <2>2, BeforeStep
  <2>4. AsCallSees(k) BY <2>1, <2>2, <2>3, SeenIs DEF AsCallSees
  <2> QED BY <1>8, <2>4, OneSeen DEF Timeout, Tell
<1>9. ASSUME NEW k \in Keys, Cleanup(k) PROVE \A j \in Keys : AsCallSees(j)
  <2>1. txn'[k] = Absent /\ told' = told BY <1>0, <1>9 DEF Cleanup
  <2>2. txn[k].state \notin Unanswered BY <1>9, BeforeStep DEF Cleanup, NoTimer
  <2>3. txn[k].state \in Answered \/ txn[k].state = "ABSENT" BY <2>2, BeforeStep
  <2>4. AsCallSees(k) BY <2>1, <2>3, SeenIs DEF AsCallSees
  <2>5. told' = [told EXCEPT ![k] = told[k]] BY <1>0, <2>1, InvariantIs
  <2> QED BY <1>9, <2>4, <2>5, OneSeen DEF Cleanup
<1> QED BY <1>1, <1>2, <1>3, <1>4, <1>5, <1>6, <1>7, <1>8, <1>9 DEF Next

\* A client transaction takes the steps that B2BUACall has for it, and its owner
\* is told of each end exactly once, in the step that ends it.
THEOREM ClientAsCallSees == Spec => [][\A k \in Keys : AsCallSees(k)]_vars
<1>1. ClientInv /\ [Next]_vars => [\A k \in Keys : AsCallSees(k)]_vars BY EveryStepSeen
<1> QED BY <1>1, InitGood, NextGood, PTL DEF Spec
=============================================================================
