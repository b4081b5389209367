---------------------------- MODULE OverloadGate ----------------------------
(***************************************************************************)
(* OverloadController, and the gate of receive_sip_data that asks it about *)
(* every request before a task of handle_message is created.  A task       *)
(* counts as in flight from that decision to the done callback, so an      *)
(* INVITE counts while its handler waits for the callee.                   *)
(*                                                                         *)
(* Time advances in ticks; an event or a shed is kept with the ticks that  *)
(* passed since, or that are left.                                         *)
(***************************************************************************)
EXTENDS Integers, Sequences, FiniteSets

CONSTANTS
  Requests,      \* requests that may arrive, each again and again
  Limit,         \* Limit[d]: requests per window in dimension d, 0 for none
  Window,        \* ticks in the window of a SlidingWindowLimiter
  MaxInflight,   \* max_inflight_transactions, 0 for none
  Recovery       \* recovery_seconds, in ticks

Dimensions == {"source", "realm", "subscriber", "method", "registration",
               "invite"}

ASSUME RequestAssumption ==
  /\ IsFiniteSet(Requests)
  /\ \A r \in Requests :
       DOMAIN r = {"id", "source", "realm", "user", "method", "priority"}
  /\ \A r \in Requests : r.priority \in BOOLEAN
ASSUME LimitAssumption ==
  /\ Limit \in [Dimensions -> Nat]
  /\ Window \in Nat \ {0} /\ MaxInflight \in Nat /\ Recovery \in Nat

VARIABLES
  shed,      \* ticks until shed_until
  inflight,  \* OverloadController.inflight
  events,    \* the ages of the events in each limiter, oldest first
  tasks,     \* the requests whose handle_message task is not yet done
  recent     \* history: recent[r][a], admissions of r that are a ticks old

gateVars == <<shed, inflight, events, tasks, recent>>

(***************************************************************************)
(* The limiters a request has to pass, in order: the dimension and the key *)
(* it is counted under.                                                    *)
(***************************************************************************)
When(cond, check) == IF cond THEN <<check>> ELSE << >>

Checks(r) ==
  << <<"source", r.source>>, <<"realm", r.realm>>,
     <<"subscriber", r.user>>, <<"method", <<r.method, r.source>> >> >>
  \o When(r.method = "REGISTER", <<"registration", r.source>>)
  \o When(r.method = "INVITE", <<"invite", r.source>>)

ChecksOf(r) == {Checks(r)[i] : i \in DOMAIN Checks(r)}
AllChecks == UNION {ChecksOf(r) : r \in Requests}

(***************************************************************************)
(* SlidingWindowLimiter.allow: the oldest events are dropped while they    *)
(* are as old as the window.                                               *)
(***************************************************************************)
MutantInWindow(age) == age < Window - 1
InWindow(age) == age < Window

Fresh(ages) ==
  LET first == CHOOSE i \in 1 .. Len(ages) + 1 :
                 /\ i <= Len(ages) => InWindow(ages[i])
                 /\ \A j \in 1 .. i - 1 : ~InWindow(ages[j])
  IN SubSeq(ages, first, Len(ages))

Limited(c) == Limit[c[1]] > 0
Allows(c) == Limited(c) => Len(Fresh(events[c])) < Limit[c[1]]

\* The limiters that are asked: the loop of decide ends with the first refusal.
Asked(r) ==
  {Checks(r)[i] : i \in {n \in DOMAIN Checks(r) :
                           \A m \in 1 .. n - 1 : Allows(Checks(r)[m])}}
Passable(r) == \A c \in ChecksOf(r) : Allows(c)

\* Every limiter passed keeps the event it recorded, even when a later one
\* refuses the request.
EventsAfter(r) ==
  [c \in AllChecks |->
     IF c \notin Asked(r) \/ ~Limited(c) THEN events[c]
     ELSE IF Allows(c) THEN Append(Fresh(events[c]), 0) ELSE Fresh(events[c])]

Full == MaxInflight > 0 /\ inflight >= MaxInflight

Longer(ticks) == IF ticks > shed THEN ticks ELSE shed

(***************************************************************************)
(* OverloadController.decide, with the controller enabled.  Refused is the *)
(* answer 503; it arms or renews the hysteresis unless that is the reason. *)
(***************************************************************************)
MutantHysteresis(r) == ~r.priority /\ shed > 0 /\ ~Full
Hysteresis(r) == ~r.priority /\ shed > 0

Refused(r) ==
  /\ ~r.priority
  /\ \/ /\ Hysteresis(r)
        /\ UNCHANGED <<shed, events>>
     \/ /\ ~Hysteresis(r)
        /\ Full
        /\ shed' = Longer(Recovery)
        /\ UNCHANGED events
     \/ /\ ~Hysteresis(r)
        /\ ~Full
        /\ ~Passable(r)
        /\ shed' = Longer(Recovery)
        /\ events' = EventsAfter(r)
  /\ UNCHANGED <<inflight, tasks, recent>>

\* The request passes and its task is created.
Admitted(r) ==
  /\ r \notin tasks
  /\ tasks' = tasks \cup {r}
  /\ IF r.priority
     THEN UNCHANGED <<inflight, events, recent>>
     ELSE /\ ~Hysteresis(r)
          /\ ~Full
          /\ Passable(r)
          /\ events' = EventsAfter(r)
          /\ inflight' = inflight + 1
          /\ recent' = [recent EXCEPT ![r][0] = @ + 1]
  /\ UNCHANGED shed

\* The done callback of a task: OverloadController.release.
MutantCounted(r) == r = r
Counted(r) == ~r.priority
Release == IF inflight > 0 THEN inflight - 1 ELSE 0

Done(r) ==
  /\ r \in tasks
  /\ tasks' = tasks \ {r}
  /\ inflight' = IF Counted(r) THEN Release ELSE inflight
  /\ UNCHANGED <<shed, events, recent>>

Older(age) == IF age < Window THEN age + 1 ELSE Window

GateTick ==
  /\ shed' = IF shed > 0 THEN shed - 1 ELSE 0
  /\ events' = [c \in AllChecks |->
                  [i \in DOMAIN events[c] |-> Older(events[c][i])]]
  /\ recent' = [r \in Requests |->
                  [a \in 0..(Window - 1) |->
                     IF a = 0 THEN 0 ELSE recent[r][a - 1]]]
  /\ UNCHANGED <<inflight, tasks>>

GateInit ==
  /\ shed = 0
  /\ inflight = 0
  /\ events = [c \in AllChecks |-> << >>]
  /\ tasks = {}
  /\ recent = [r \in Requests |-> [a \in 0..(Window - 1) |-> 0]]

GateNext ==
  \/ \E r \in Requests : Refused(r) \/ Admitted(r) \/ Done(r)
  \/ GateTick

GateSpec == GateInit /\ [][GateNext]_gateVars

(***************************************************************************)
(* Properties                                                              *)
(***************************************************************************)

GateTypeOK ==
  /\ shed \in 0..Recovery
  /\ inflight \in Nat
  /\ DOMAIN events = AllChecks
  /\ \A c \in AllChecks : events[c] \in Seq(0..Window)
  /\ tasks \in SUBSET Requests
  /\ recent \in [Requests -> [0..(Window - 1) -> Nat]]

\* In-flight capacity is neither lost nor given twice: the counter that sheds
\* load is the number of running tasks that passed the gate, whatever mixture
\* of refused, admitted and priority requests came and in whatever order their
\* tasks end.
InflightExact == inflight = Cardinality({r \in tasks : ~r.priority})

\* What the limits promise, whatever the limiters store: in no window do more
\* requests of one source, realm, subscriber or method pass than the
\* configuration allows, although a refused request may use up part of a limit.
Admissions(c) ==
  UNION {{<<r, a, k>> : k \in 1 .. recent[r][a]}
         : r \in {q \in Requests : c \in ChecksOf(q)}, a \in 0 .. Window - 1}

RateHeld == \A c \in AllChecks : Limited(c) => Cardinality(Admissions(c)) <= Limit[c[1]]

\* Shedding ends by itself: a storm that goes on while the gate sheds does not
\* prolong the shedding, because hysteresis is asked before the limits are.
ShedNotProlonged == [][shed > 0 => shed' <= shed]_gateVars

\* The overload gate keeps its promise of rates although refused requests use
\* up limits, and what is in flight is counted although priority requests pass
\* uncounted and tasks end in any order; a request never prolongs the shedding
\* that refuses it.
GateSafe == [](RateHeld /\ InflightExact) /\ ShedNotProlonged
=============================================================================
