--------------------------- MODULE CallAdmission ---------------------------
(***************************************************************************)
(* From the arrival of an INVITE to the end of its call, as far as         *)
(* capacity is concerned: the overload gate, a node that drains, the       *)
(* route policies, the trunks of a group with their limits, health and     *)
(* OPTIONS probes, the admission counters of RoutingEngine, the cap on     *)
(* RTPengine sessions, and every place that gives a slot back.  The media  *)
(* backend is RTPengine, whose control requests the handler awaits; each   *)
(* step between two awaits is one action.                                  *)
(***************************************************************************)
EXTENDS OverloadGate

CONSTANTS
  Trunks,           \* the members of the trunk group
  NoTrunk,          \* RouteResult.trunk_name of a route without a trunk
  Members,          \* the members in the order of the configuration
  Rank,             \* Rank[t]: the place of t by priority and name
  RoundRobin,       \* the strategy of the group, else by priority
  MaxCalls,         \* MaxCalls[t]: max_calls of a trunk, 0 for no limit
  GlobalLimit,      \* max_concurrent_calls, admission enabled
  SessionCap,       \* rtpengine_max_sessions
  FailureThreshold, \* trunk_failure_threshold
  Probed,           \* the trunks with OPTIONS probes
  ProbeFailures,    \* options_probe_failure_threshold
  ProbeRecovery     \* options_probe_recovery_threshold

Calls == {r \in Requests : r.method = "INVITE"}

ASSUME TrunkAssumption ==
  /\ IsFiniteSet(Trunks) /\ NoTrunk \notin Trunks
  /\ Members \in Seq(Trunks) /\ Probed \subseteq Trunks
  /\ Rank \in [Trunks -> Nat] /\ MaxCalls \in [Trunks -> Nat]
  /\ \A t, u \in Trunks : Rank[t] = Rank[u] => t = u
ASSUME ThresholdAssumption ==
  /\ {GlobalLimit, SessionCap} \subseteq Nat
  /\ {FailureThreshold, ProbeFailures, ProbeRecovery} \subseteq Nat \ {0}
  /\ RoundRobin \in BOOLEAN

VARIABLES
  calls,     \* where each call stands, and its route
  trunk,     \* the TrunkRuntime of each trunk
  cursor,    \* group_cursors of the group
  active,    \* RoutingEngine.active_calls
  probe,     \* the probe task of each trunk
  round      \* history: the trunks used in this round over one group

routeVars == <<calls, trunk, cursor, active, probe, round>>
vars == <<gateVars, routeVars>>

(***************************************************************************)
(* A call is "offering" while its handler awaits the RTPengine OFFER and   *)
(* not registered yet, "ringing" while it waits for the callee,            *)
(* "answering" while it awaits the ANSWER, "orphan" or "lost" when the     *)
(* call was finalized during one of these two awaits, "up" when it is      *)
(* answered.  The INVITE of a call that is over may come again.            *)
(***************************************************************************)
Awaiting == {"offering", "ringing", "answering", "orphan", "lost"}
Stages == Awaiting \cup {"idle", "up"}
Call == [stage : Stages, trunk : Trunks \cup {NoTrunk}]

Trunk == [ healthy : BOOLEAN,
           active  : Nat,                   \* active_calls
           failed  : 0..FailureThreshold,   \* consecutive_failures, capped
           good    : 0..ProbeRecovery,      \* consecutive probe successes
           bad     : 0..ProbeFailures ]     \* consecutive probe failures

Admittable == {"offering", "ringing", "answering", "up"}
Occupying(t) == {c \in Calls : calls[c].stage \in Admittable
                                /\ calls[c].trunk = t}
InProgress == {c \in Calls : calls[c].stage \in Admittable}
Registered == {c \in Calls : calls[c].stage \in {"ringing", "answering", "up"}}

(***************************************************************************)
(* RoutingEngine.resolve: the registration of the callee, then the trunk   *)
(* group, in the order of the policies; _resolve_group drops the trunks    *)
(* that are down or full.                                                  *)
(***************************************************************************)
Usable(t) ==
  /\ trunk[t].healthy
  /\ MaxCalls[t] = 0 \/ trunk[t].active < MaxCalls[t]

\* The usable members, in the order of the group.
Available ==
  LET upTo[n \in 0 .. Len(Members)] ==
        IF n = 0 THEN << >>
        ELSE IF Usable(Members[n]) THEN Append(upTo[n - 1], Members[n]) ELSE upTo[n - 1]
  IN upTo[Len(Members)]

Best == CHOOSE t \in Trunks :
          /\ Usable(t)
          /\ \A u \in Trunks : Usable(u) => Rank[t] <= Rank[u]

MutantTurn == IF cursor = 0 THEN 1 ELSE ((cursor - 1) % Len(Available)) + 1
Turn == (cursor % Len(Available)) + 1
Chosen == IF RoundRobin THEN Available[Turn] ELSE Best

\* The round ends when every trunk of the group was used.
NextRound(t) ==
  LET used == (IF round.group = Available THEN round.used ELSE {}) \cup {t}
      ends == Len(Available) = Cardinality(used)
  IN [ group |-> IF ends THEN << >> ELSE Available,
       used  |-> IF ends THEN {} ELSE used,
       again |-> round.again \/ (round.group = Available /\ t \in round.used) ]

\* RoutingEngine.resolve leads to trunk t, or to no trunk when the callee has
\* a live registration, which any callee may have or not.
Resolved(t) ==
  \/ t = NoTrunk /\ UNCHANGED <<cursor, round>>
  \/ /\ Available # << >>
     /\ t = Chosen
     /\ IF RoundRobin
        THEN cursor' = Turn /\ round' = NextRound(t)
        ELSE UNCHANGED <<cursor, round>>

\* RoutingEngine.admit and release.
Room == active < GlobalLimit
MutantLess(n) == n - 1
Less(n) == IF n > 0 THEN n - 1 ELSE 0

Taken(t) == IF t = NoTrunk THEN trunk
            ELSE [trunk EXCEPT ![t].active = @ + 1]
Freed(tr, t) == IF t = NoTrunk THEN tr
                ELSE [tr EXCEPT ![t].active = Less(@)]

\* RoutingEngine.record_outcome.
AtMost(bound, n) == IF n > bound THEN bound ELSE n

Outcome(t, success) ==
  IF t = NoTrunk THEN trunk
  ELSE IF success
  THEN [trunk EXCEPT ![t].failed = 0, ![t].healthy = TRUE]
  ELSE LET n == AtMost(FailureThreshold, trunk[t].failed + 1) IN
       [trunk EXCEPT ![t].failed = n,
                     ![t].healthy = @ /\ n < FailureThreshold]

Moved(c, stage) == calls' = [calls EXCEPT ![c].stage = stage]
Over(c) == calls' = [calls EXCEPT ![c] = [stage |-> "idle", trunk |-> NoTrunk]]
MutantReleased(c, tr) == trunk' = tr /\ active' = Less(active)
Released(c, tr) ==
  /\ trunk' = Freed(tr, calls[c].trunk)
  /\ active' = Less(active)
KeepRouting == UNCHANGED <<cursor, probe, round>>

(***************************************************************************)
(* The INVITE passes the gate; handle_message runs to its first await.     *)
(***************************************************************************)

\* The node drains (an operator may switch that at any time), there is no
\* route, or no room: a final response, and nothing is kept.
InviteTurnedAway(c) ==
  /\ calls[c].stage = "idle"
  /\ Admitted(c)
  /\ \/ UNCHANGED <<cursor, round>>
     \/ ~Room /\ \E t \in Trunks : Resolved(t)
  /\ UNCHANGED <<calls, trunk, active, probe>>

\* Admitted, but the RTPengine sessions are used up: released at once.
CapReached == Cardinality(Registered) >= SessionCap

InviteNoMedia(c) ==
  /\ calls[c].stage = "idle"
  /\ Admitted(c)
  /\ Room /\ CapReached
  /\ \E t \in Trunks \cup {NoTrunk} : Resolved(t)
  /\ UNCHANGED <<calls, trunk, active, probe>>

\* Admitted: the OFFER is sent and awaited.
InviteAdmitted(c) ==
  /\ calls[c].stage = "idle"
  /\ Admitted(c)
  /\ Room /\ ~CapReached
  /\ \E t \in Trunks \cup {NoTrunk} :
       /\ Resolved(t)
       /\ trunk' = Taken(t)
       /\ calls' = [calls EXCEPT ![c] = [stage |-> "offering", trunk |-> t]]
  /\ active' = active + 1
  /\ UNCHANGED probe

(***************************************************************************)
(* What ends the awaits of the handler.                                    *)
(***************************************************************************)

OfferAnswered(c) ==
  /\ calls[c].stage = "offering"
  /\ Moved(c, "ringing")
  /\ UNCHANGED <<trunk, active, gateVars>>
  /\ KeepRouting

\* handle_message releases the slot of a call that is not registered.
OfferFailed(c) ==
  /\ calls[c].stage = "offering"
  /\ Over(c)
  /\ Released(c, trunk)
  /\ UNCHANGED gateVars
  /\ KeepRouting

\* cleanup_b2bua_call finalizes and releases; handle_message then finds the
\* call unregistered and releases again.
CleanedUp(c, tr) ==
  /\ Over(c)
  /\ trunk' = Freed(Freed(tr, calls[c].trunk), calls[c].trunk)
  /\ active' = Less(Less(active))

\* The same when a finalizer came first: only handle_message releases.
FinalizedBefore(c) ==
  /\ Over(c)
  /\ Released(c, trunk)

NoAnswer(c) ==
  /\ \/ calls[c].stage = "ringing" /\ CleanedUp(c, trunk)
     \/ calls[c].stage = "orphan" /\ FinalizedBefore(c)
  /\ UNCHANGED gateVars
  /\ KeepRouting

CalleeRefused(c) ==
  /\ calls[c].stage = "ringing"
  /\ CleanedUp(c, Outcome(calls[c].trunk, FALSE))
  /\ UNCHANGED gateVars
  /\ KeepRouting

CalleeAnswered(c) ==
  /\ calls[c].stage = "ringing"
  /\ Moved(c, "answering")
  /\ trunk' = Outcome(calls[c].trunk, TRUE)
  /\ UNCHANGED <<active, gateVars>>
  /\ KeepRouting

\* The 200 is sent although the call may have been finalized meanwhile.
AnswerDone(c) ==
  /\ \/ /\ calls[c].stage = "answering"
        /\ Moved(c, "up")
        /\ UNCHANGED <<trunk, active>>
     \/ calls[c].stage = "lost" /\ FinalizedBefore(c)
  /\ UNCHANGED gateVars
  /\ KeepRouting

AnswerFailed(c) ==
  /\ \/ calls[c].stage = "answering" /\ CleanedUp(c, trunk)
     \/ calls[c].stage = "lost" /\ FinalizedBefore(c)
  /\ UNCHANGED gateVars
  /\ KeepRouting

\* finalize_b2bua_call, two seconds after a BYE of either side.
HungUp(c) ==
  /\ \/ calls[c].stage = "up" /\ Over(c)
     \/ calls[c].stage = "ringing" /\ Moved(c, "orphan")
     \/ calls[c].stage = "answering" /\ Moved(c, "lost")
  /\ Released(c, trunk)
  /\ UNCHANGED gateVars
  /\ KeepRouting

(***************************************************************************)
(* The OPTIONS probes: _trunk_options_probe_loop, record_probe_result.     *)
(***************************************************************************)
KeepCalls == UNCHANGED <<calls, cursor, active, round, gateVars>>

ProbeSent(t) ==
  /\ t \in Probed /\ probe[t] = "sleeping"
  /\ probe' = [probe EXCEPT ![t] = "waiting"]
  /\ UNCHANGED trunk
  /\ KeepCalls

MutantProbe(t, success) ==
  IF success
  THEN LET n == AtMost(ProbeRecovery, trunk[t].good + 1)
       IN [trunk EXCEPT ![t].good = n, ![t].bad = 0,
                        ![t].healthy = @ \/ (n >= ProbeRecovery
                                             /\ trunk[t].failed = 0)]
  ELSE [trunk EXCEPT ![t].bad = ProbeFailures, ![t].good = 0,
                     ![t].healthy = FALSE]

Probe(t, success) ==
  IF success
  THEN LET n == AtMost(ProbeRecovery, trunk[t].good + 1)
           heals == ~trunk[t].healthy /\ n >= ProbeRecovery
       IN [trunk EXCEPT ![t].good = n, ![t].bad = 0,
                        ![t].healthy = @ \/ heals,
                        ![t].failed = IF heals THEN 0 ELSE @]
  ELSE LET n == AtMost(ProbeFailures, trunk[t].bad + 1)
       IN [trunk EXCEPT ![t].bad = n, ![t].good = 0,
                        ![t].healthy = @ /\ n < ProbeFailures]

\* A 2xx of the peer, another response, or none before the timeout.
ProbeEnded(t, success) ==
  /\ probe[t] = "waiting"
  /\ probe' = [probe EXCEPT ![t] = "sleeping"]
  /\ trunk' = Probe(t, success)
  /\ KeepCalls

(***************************************************************************)
(* The gate alone: a refusal, another request, a task that ends, time.     *)
(***************************************************************************)
GateRefuses(r) == Refused(r) /\ UNCHANGED routeVars

OtherRequest(r) == r \notin Calls /\ Admitted(r) /\ UNCHANGED routeVars

TaskDone(r) ==
  /\ r \in Calls => calls[r].stage \notin Awaiting
  /\ Done(r)
  /\ UNCHANGED routeVars

Tick == GateTick /\ UNCHANGED routeVars

Init ==
  /\ GateInit
  /\ calls = [c \in Calls |-> [stage |-> "idle", trunk |-> NoTrunk]]
  /\ trunk = [t \in Trunks |-> [healthy |-> TRUE, active |-> 0, failed |-> 0,
                                good |-> 0, bad |-> 0]]
  /\ cursor = 0 /\ active = 0
  /\ probe = [t \in Trunks |-> "sleeping"]
  /\ round = [group |-> << >>, used |-> {}, again |-> FALSE]

Next ==
  \/ \E c \in Calls :
       \/ InviteTurnedAway(c) \/ InviteNoMedia(c) \/ InviteAdmitted(c)
       \/ OfferAnswered(c) \/ OfferFailed(c)
       \/ NoAnswer(c) \/ CalleeRefused(c) \/ CalleeAnswered(c)
       \/ AnswerDone(c) \/ AnswerFailed(c) \/ HungUp(c)
  \/ \E t \in Trunks : ProbeSent(t) \/ \E ok \in BOOLEAN : ProbeEnded(t, ok)
  \/ \E r \in Requests : GateRefuses(r) \/ OtherRequest(r) \/ TaskDone(r)
  \/ Tick

\* The probe loops run; nothing is assumed of calls, peers or the clock.
Spec ==
  /\ Init /\ [][Next]_vars
  /\ \A t \in Trunks :
       /\ WF_vars(ProbeSent(t))
       /\ WF_vars(\E ok \in BOOLEAN : ProbeEnded(t, ok))

(***************************************************************************)
(* Properties                                                              *)
(***************************************************************************)

TypeOK ==
  /\ GateTypeOK
  /\ calls \in [Calls -> Call]
  /\ trunk \in [Trunks -> Trunk]
  /\ cursor \in 0..Len(Members) /\ active \in Nat
  /\ probe \in [Trunks -> {"sleeping", "waiting"}]
  /\ round \in [group : Seq(Trunks), used : SUBSET Trunks, again : BOOLEAN]

\* No slot of the node or of a trunk outlives its call, whichever of the awaits
\* the call ends in and whether a finalizer, the handler or both clean up: the
\* counters that refuse calls never exceed the calls in progress.
NeverOvercounted ==
  /\ active <= Cardinality(InProgress)
  /\ \A t \in Trunks : trunk[t].active <= Cardinality(Occupying(t))

\* Round robin uses every trunk of an unchanged group once before it uses one
\* again, wherever the cursor stood when trunks left or joined the group.
RoundRobinSpread == ~round.again

\* A probed trunk whose probes succeed from some time on is not out of service for good, even if
\* calls to it go on failing: probes heal what failed calls took down.
ProbedTrunkRecovers ==
  \A t \in Probed :
    (<>[][~ProbeEnded(t, FALSE)]_vars) => ([]<>trunk[t].healthy)

\* docs/PROTOCOL_CORE_LAYER6.md:12: existing controls bound call/trunk
\* concurrency.  A trunk carries no more calls than its max_calls.
TrunkBounded ==
  \A t \in Trunks : MaxCalls[t] > 0 => Cardinality(Occupying(t)) <= MaxCalls[t]

\* docs/PROTOCOL_CORE_LAYER6.md:12-13: existing controls bound RTPengine
\* sessions.  No more calls use RTPengine than rtpengine_max_sessions.
SessionsBounded == Cardinality(Registered) <= SessionCap

=============================================================================
