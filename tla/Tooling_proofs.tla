---------------------------- MODULE Tooling_proofs ----------------------------
(***************************************************************************)
(* Proofs about the runners of the regression, for any profiles, flags and *)
(* selections.                                                             *)
(*                                                                         *)
(* Each runner goes through a plan, a sequence that its actions shorten    *)
(* and that an exception replaces.  The invariants say where in its plan a *)
(* runner is, and what of its results, processes and evidence is already   *)
(* settled there: Leads(s, A, t) holds of a plan that goes through stages  *)
(* of A and then on as the plan t.                                         *)
(***************************************************************************)
EXTENDS MCTooling, SequenceTheorems, TLAPS

(***************************************************************************)
(* Plans                                                                   *)
(***************************************************************************)

\* A plan that goes through steps of A and then on as the plan t.
Leads(s, A, t) == \E a \in Seq(A) : s = a \o t

LEMMA Leading ==
  ASSUME NEW A, NEW a \in Seq(A), NEW T, NEW t \in Seq(T), t # << >>
  PROVE  /\ Leads(a \o t, A, t) /\ a \o t # << >>
         /\ \/ a \o t = t
            \/ Head(a \o t) \in A /\ Leads(Tail(a \o t), A, t)
<1> DEFINE U == A \cup T
<1>1. A \subseteq U /\ a \in Seq(U) /\ t \in Seq(U) BY SeqMonotonic
<1> HIDE DEF U
<1> DEFINE s == a \o t
<1>2. /\ s \in Seq(U) /\ Len(s) = Len(a) + Len(t)
      /\ \A i \in 1 .. Len(a) + Len(t) : s[i] = IF i <= Len(a) THEN a[i] ELSE t[i - Len(a)]
  BY <1>1, ConcatProperties
<1>3. Len(a) \in Nat /\ Len(t) \in Nat /\ Len(t) > 0 BY <1>1
<1>4. s # << >> BY <1>2, <1>3
<1>5. Leads(s, A, t) BY DEF Leads
<1>6. CASE a = << >>
  <2>1. s = t BY <1>1, <1>6, ConcatEmptySeq
  <2> QED BY <1>4, <1>5, <2>1
<1>7. CASE a # << >>
  <2>1. /\ Head(a) \in A /\ Tail(a) \in Seq(A) /\ Len(Tail(a)) = Len(a) - 1
        /\ \A i \in 1 .. Len(Tail(a)) : Tail(a)[i] = a[i + 1]
    BY <1>7, HeadTailProperties
  <2>2. /\ Tail(s) \in Seq(U) /\ Len(Tail(s)) = Len(s) - 1
        /\ \A i \in 1 .. Len(Tail(s)) : Tail(s)[i] = s[i + 1]
    BY <1>2, <1>4, HeadTailProperties
  <2>3. Len(a) > 0 /\ Head(a) = a[1] BY <1>3, <1>7
  <2>4. Head(s) = s[1] /\ s[1] = a[1]
    <3>1. 1 \in 1 .. Len(a) + Len(t) BY <1>3, <2>3
    <3>2. s[1] = a[1] BY <1>2, <2>3, <3>1, <1>3
    <3>3. Head(s) = s[1] BY <1>2, <1>4
    <3> HIDE DEF s
    <3> QED BY <3>2, <3>3
  <2> DEFINE b == Tail(a)
             r == b \o t
  <2>5. b \in Seq(U) BY <1>1, <2>1, SeqMonotonic
  <2>6. /\ r \in Seq(U) /\ Len(r) = Len(b) + Len(t)
        /\ \A i \in 1 .. Len(b) + Len(t) : r[i] = IF i <= Len(b) THEN b[i] ELSE t[i - Len(b)]
    BY <1>1, <2>5, ConcatProperties
  <2> HIDE DEF s, r
  <2>7. Len(Tail(s)) = Len(r) BY <1>2, <1>3, <2>1, <2>2, <2>6 DEF b
  <2>8. ASSUME NEW i \in 1 .. Len(r) PROVE Tail(s)[i] = r[i]
    <3>1. Tail(s)[i] = s[i + 1] BY <2>2, <2>7
    <3>2. i + 1 \in 1 .. Len(a) + Len(t) BY <1>3, <2>1, <2>6 DEF b
    <3>3. s[i + 1] = IF i + 1 <= Len(a) THEN a[i + 1] ELSE t[i + 1 - Len(a)] BY <1>2, <3>2
    <3>4. CASE i <= Len(b)
      <4>1. r[i] = a[i + 1] BY <2>1, <2>6, <3>4 DEF b
      <4>2. i + 1 <= Len(a) BY <1>3, <2>1, <3>4 DEF b
      <4> QED BY <3>1, <3>3, <4>1, <4>2
    <3>5. CASE ~(i <= Len(b))
      <4>1. i \in 1 .. Len(b) + Len(t) BY <2>6
      <4>2. r[i] = t[i - Len(b)] BY <2>6, <3>5, <4>1
      <4>3. i - Len(b) = i + 1 - Len(a) /\ ~(i + 1 <= Len(a)) BY <1>3, <2>1, <3>5 DEF b
      <4> QED BY <3>1, <3>3, <4>2, <4>3
    <3> QED BY <3>4, <3>5
  <2>9. Tail(s) = r BY <2>2, <2>6, <2>7, <2>8, SeqEqual
  <2>10. Leads(Tail(s), A, t) BY <2>1, <2>9 DEF Leads, r, b
  <2> QED BY <1>4, <1>5, <2>1, <2>3, <2>4, <2>10 DEF s
<1> QED BY <1>6, <1>7

\* What is next in such a plan.
LEMMA LeadsOn ==
  ASSUME NEW A, NEW T, NEW t \in Seq(T), t # << >>, NEW s, Leads(s, A, t)
  PROVE  s # << >> /\ (s = t \/ (Head(s) \in A /\ Leads(Tail(s), A, t)))
<1>1. PICK a \in Seq(A) : s = a \o t BY DEF Leads
<1> QED BY <1>1, Leading

LEMMA LeadsHere ==
  ASSUME NEW A, NEW T, NEW t \in Seq(T)
  PROVE  Leads(t, A, t)
<1>1. << >> \in Seq(A) /\ t = << >> \o t BY EmptySeq, ConcatEmptySeq
<1> QED BY <1>1 DEF Leads

\* Optional steps.
LEMMA Option ==
  ASSUME NEW A, NEW s \in Seq(A), NEW f
  PROVE  (IF f THEN s ELSE << >>) \in Seq(A)
BY EmptySeq

LEMMA OneStep ==
  ASSUME NEW A, NEW x \in A
  PROVE  <<x>> \in Seq(A)
OBVIOUS

(***************************************************************************)
(* run_k8s_regression.py                                                   *)
(***************************************************************************)

\* The stages of a profile, and the plans that end one.
Working == {"prepare", "image", "agents", "mock", "upgrade", "rollout", "drain", "captures", "listeners",
            "register", "srtp", "rtcp", "uac", "fault", "uacwait", "rtcpwait", "call", "reject",
            "srtpwait", "listenerwait", "probe", "unittest"}
Stages == Working \cup {"release"}
Returning == <<"return">> \o Ending
Tidying == <<"release">> \o Ending
Judging == <<"evidence">>
Leaving == <<"teardown", "unwind">>
Fleeing == <<"release">> \o Leaving
Unwinding == <<"unwind">>
Capturing == <<"capture">>
Restoring == <<"restore", "report">>
Giving == <<"restore">>
Reporting == <<"report">>

Row == [passed : BOOLEAN, trouble : BOOLEAN]
Clean == pods = {} /\ NoneRuns
AllPassed == \A i \in DOMAIN rows : rows[i].passed
LeftClean == AllPassed /\ ~KeepPods => Clean
AsBefore == values = "original" /\ fresh /\ ~drained

\* Where the run is, and what holds there.
Running ==
  /\ Leads(plan, Stages, Returning) /\ original /\ todo # << >> /\ exit = "none"
  /\ status = "running" /\ (trouble => "bad" \in codes)
Finishing ==
  /\ plan \in {Tidying, Ending, Judging} /\ original /\ todo # << >> /\ exit = "none"
  /\ status \in {"passed", "failed"} /\ (status = "passed" => ~trouble)
  /\ plan = Tidying => status = "failed"
  /\ plan = Judging /\ status = "passed" /\ ~KeepPods => Clean
Aborting == plan \in {Fleeing, Leaving, Unwinding} /\ exit = "none"
Starting == plan = Capturing /\ exit = "none" /\ rows = << >> /\ Clean
Last == plan = Restoring /\ todo = << >> /\ exit = "none" /\ original /\ LeftClean
Aborted == plan = Giving /\ todo = << >> /\ exit = "none"
Telling ==
  /\ plan = Reporting /\ todo = << >> /\ exit \in {"none", "error"} /\ LeftClean
  /\ exit = "none" /\ ~NoRestore => AsBefore
Over ==
  /\ plan = << >> /\ exit \in {"0", "1"}
  /\ exit = "0" => AllPassed /\ LeftClean /\ (~NoRestore => AsBefore)

ClusterInv ==
  /\ todo \in Seq(Profile) /\ trouble \in BOOLEAN
  /\ rows \in Seq(Row) /\ \A i \in DOMAIN rows : rows[i].passed => ~rows[i].trouble
  /\ Running \/ Finishing \/ Aborting \/ Starting \/ Last \/ Aborted \/ Telling \/ Over

LEMMA ClusterInvTells == ClusterInv => ClusterTruthful
BY DEF ClusterInv, ClusterTruthful, Running, Finishing, Aborting, Starting, Last, Aborted, Telling, Over,
       AllPassed, LeftClean, Clean, AsBefore

\* A plan with a stage in front of it.
LEMMA InFront ==
  ASSUME NEW T, NEW t \in Seq(T), NEW x
  PROVE  <<x>> \o t # << >> /\ Head(<<x>> \o t) = x /\ Tail(<<x>> \o t) = t
<1> DEFINE U == T \cup {x}
           a == <<x>>
           s == a \o t
<1>1. a \in Seq(U) /\ Len(a) = 1 /\ a[1] = x OBVIOUS
<1>2. t \in Seq(U) BY SeqMonotonic
<1> HIDE DEF U, a
<1>3. /\ s \in Seq(U) /\ Len(s) = Len(a) + Len(t)
      /\ \A i \in 1 .. Len(a) + Len(t) : s[i] = IF i <= Len(a) THEN a[i] ELSE t[i - Len(a)]
  BY <1>1, <1>2, ConcatProperties
<1> HIDE DEF s
<1>4. Len(t) \in Nat BY <1>2
<1>5. s # << >> /\ Len(s) = 1 + Len(t) BY <1>1, <1>3, <1>4
<1>6. 1 \in 1 .. Len(a) + Len(t) /\ 1 <= Len(a) BY <1>1, <1>4
<1>7. s[1] = x BY <1>1, <1>3, <1>6
<1>8. Head(s) = x BY <1>3, <1>5, <1>7
<1>9. /\ Tail(s) \in Seq(U) /\ Len(Tail(s)) = Len(s) - 1
      /\ \A i \in 1 .. Len(Tail(s)) : Tail(s)[i] = s[i + 1]
  BY <1>3, <1>5, HeadTailProperties
<1>10. Len(Tail(s)) = Len(t) BY <1>4, <1>5, <1>9
<1>11. ASSUME NEW i \in 1 .. Len(t) PROVE Tail(s)[i] = t[i]
  <2>1. Tail(s)[i] = s[i + 1] BY <1>9, <1>10
  <2>2. i + 1 \in 1 .. Len(a) + Len(t) /\ ~(i + 1 <= Len(a)) /\ i + 1 - Len(a) = i BY <1>1, <1>4
  <2>3. s[i + 1] = t[i + 1 - Len(a)] BY <1>3, <2>2
  <2> QED BY <2>1, <2>2, <2>3
<1>12. Tail(s) = t BY <1>2, <1>9, <1>10, <1>11, SeqEqual
<1> QED BY <1>5, <1>8, <1>12 DEF s, a

LEMMA ClusterPlans ==
  /\ Ending # << >> /\ Head(Ending) = "teardown" /\ Tail(Ending) = Judging
  /\ Judging # << >> /\ Head(Judging) = "evidence"
  /\ Leaving # << >> /\ Head(Leaving) = "teardown" /\ Tail(Leaving) = Unwinding
  /\ Unwinding # << >> /\ Head(Unwinding) = "unwind"
  /\ Capturing # << >> /\ Head(Capturing) = "capture"
  /\ Restoring # << >> /\ Head(Restoring) = "restore" /\ Tail(Restoring) = Reporting /\ Len(Restoring) = 2
  /\ Giving # << >> /\ Head(Giving) = "restore" /\ Len(Giving) = 1
  /\ Reporting # << >> /\ Head(Reporting) = "report"
<1>1. Ending # << >> /\ Head(Ending) = "teardown" /\ Tail(Ending) = Judging BY DEF Ending, Judging
<1>2. Judging # << >> /\ Head(Judging) = "evidence" BY DEF Judging
<1>3. Leaving # << >> /\ Head(Leaving) = "teardown" /\ Tail(Leaving) = Unwinding BY DEF Leaving, Unwinding
<1>4. Unwinding # << >> /\ Head(Unwinding) = "unwind" BY DEF Unwinding
<1>5. Capturing # << >> /\ Head(Capturing) = "capture" BY DEF Capturing
<1>6. /\ Restoring # << >> /\ Head(Restoring) = "restore" /\ Tail(Restoring) = Reporting
      /\ Len(Restoring) = 2
  BY DEF Restoring, Reporting
<1>7. Giving # << >> /\ Head(Giving) = "restore" /\ Len(Giving) = 1 BY DEF Giving
<1>8. Reporting # << >> /\ Head(Reporting) = "report" BY DEF Reporting
<1> QED BY <1>1, <1>2, <1>3, <1>4, <1>5, <1>6, <1>7, <1>8

Final == {"return", "release", "teardown", "evidence", "unwind"}
LEMMA PlansOfEnd ==
  /\ Returning \in Seq(Final) /\ Returning # << >> /\ Head(Returning) = "return" /\ Tail(Returning) = Ending
  /\ Tidying # << >> /\ Head(Tidying) = "release" /\ Tail(Tidying) = Ending
  /\ Fleeing # << >> /\ Head(Fleeing) = "release" /\ Tail(Fleeing) = Leaving
<1>1. Ending \in Seq(Final) /\ Leaving \in Seq(Final) BY DEF Ending, Leaving, Final
<1>2. <<"return">> \in Seq(Final) BY DEF Final
<1>3. Returning \in Seq(Final) BY <1>1, <1>2, ConcatProperties DEF Returning
<1>4. Returning # << >> /\ Head(Returning) = "return" /\ Tail(Returning) = Ending
  BY <1>1, InFront DEF Returning
<1>5. Tidying # << >> /\ Head(Tidying) = "release" /\ Tail(Tidying) = Ending BY <1>1, InFront DEF Tidying
<1>6. Fleeing # << >> /\ Head(Fleeing) = "release" /\ Tail(Fleeing) = Leaving BY <1>1, InFront DEF Fleeing
<1> QED BY <1>3, <1>4, <1>5, <1>6

\* Which plan the next stage belongs to.
LEMMA Whereabouts ==
  ASSUME ClusterInv, plan # << >>
  PROVE  /\ Head(plan) \in Working => Running /\ Leads(Tail(plan), Stages, Returning)
         /\ Head(plan) = "release" =>
              \/ Running /\ Leads(Tail(plan), Stages, Returning)
              \/ Finishing /\ plan = Tidying /\ Tail(plan) = Ending
              \/ Aborting /\ Tail(plan) = Leaving
         /\ Head(plan) = "return" => Running /\ Tail(plan) = Ending
         /\ Head(plan) = "teardown" =>
              \/ Finishing /\ Tail(plan) = Judging
              \/ Aborting /\ Tail(plan) = Unwinding
         /\ Head(plan) = "evidence" => Finishing /\ plan = Judging
         /\ Head(plan) = "unwind" => Aborting
         /\ Head(plan) = "capture" => Starting
         /\ Head(plan) = "restore" =>
              (Last /\ Len(plan) = 2 /\ Tail(plan) = Reporting) \/ (Aborted /\ Len(plan) = 1)
         /\ Head(plan) = "report" => Telling
<1> USE ClusterPlans, PlansOfEnd
<1>1. CASE Running
  <2>1. plan = Returning \/ (Head(plan) \in Stages /\ Leads(Tail(plan), Stages, Returning))
    BY <1>1, LeadsOn DEF Running
  <2> QED BY <1>1, <2>1 DEF Stages, Working
<1>2. CASE Finishing
  <2>1. plan \in {Tidying, Ending, Judging} BY <1>2 DEF Finishing
  <2> QED BY <1>2, <2>1 DEF Working
<1>3. CASE Aborting
  <2>1. plan \in {Fleeing, Leaving, Unwinding} BY <1>3 DEF Aborting
  <2> QED BY <1>3, <2>1 DEF Working
<1>4. CASE Starting
  <2>1. plan = Capturing BY <1>4 DEF Starting
  <2> QED BY <1>4, <2>1 DEF Working
<1>5. CASE Last
  <2>1. plan = Restoring BY <1>5 DEF Last
  <2> QED BY <1>5, <2>1 DEF Working
<1>6. CASE Aborted
  <2>1. plan = Giving BY <1>6 DEF Aborted
  <2> QED BY <1>6, <2>1 DEF Working
<1>7. CASE Telling
  <2>1. plan = Reporting BY <1>7 DEF Telling
  <2> QED BY <1>7, <2>1 DEF Working
<1>8. CASE Over
  BY <1>8 DEF Over
<1> QED BY <1>1, <1>2, <1>3, <1>4, <1>5, <1>6, <1>7, <1>8 DEF ClusterInv

\* The function of every profile is made of such stages.
LEMMA OneStage ==
  ASSUME NEW x \in Stages
  PROVE  <<x>> \in Seq(Stages)
BY OneStep

LEMMA Some ==
  ASSUME NEW f, NEW x \in Stages
  PROVE  If(f, <<x>>) \in Seq(Stages)
BY OneStage, EmptySeq DEF If

LEMMA Joined ==
  ASSUME NEW a \in Seq(Stages), NEW b \in Seq(Stages)
  PROVE  a \o b \in Seq(Stages)
BY ConcatProperties

LEMMA CallStages ==
  ASSUME NEW p
  PROVE  Call(p) \in Seq(Stages)
<1>1. <<"uac", "fault", "uacwait">> \in Seq(Stages) BY DEF Stages, Working
<1>2. <<"uac", "rtcp", "uacwait", "rtcpwait">> \in Seq(Stages) BY DEF Stages, Working
<1>3. <<"call">> \in Seq(Stages) BY DEF Stages, Working
<1> QED BY <1>1, <1>2, <1>3, Zenon DEF Call

LEMMA CatalogStages ==
  ASSUME NEW p
  PROVE  Catalog(p) \in Seq(Stages)
<1>1. /\ <<"image", "agents">> \in Seq(Stages) /\ <<"upgrade", "rollout">> \in Seq(Stages)
      /\ <<"captures", "listeners", "register">> \in Seq(Stages) /\ <<"listenerwait">> \in Seq(Stages)
      /\ <<"release">> \in Seq(Stages)
  BY DEF Stages, Working
<1>2. {"mock", "drain", "srtp", "reject", "srtpwait", "probe", "fault"} \subseteq Stages BY DEF Stages, Working
<1>3. /\ If(p.mock, <<"mock">>) \in Seq(Stages) /\ If(p.fault = "precall", <<"drain">>) \in Seq(Stages)
      /\ If(p.srtp, <<"srtp">>) \in Seq(Stages) /\ If(p.fault = "precall", <<"reject">>) \in Seq(Stages)
      /\ If(p.srtp, <<"srtpwait">>) \in Seq(Stages) /\ If(p.probe, <<"probe">>) \in Seq(Stages)
      /\ If(p.fault = "postcall", <<"fault">>) \in Seq(Stages)
  BY <1>2, Some
<1> DEFINE a1 == <<"image", "agents">> \o If(p.mock, <<"mock">>)
           a2 == a1 \o <<"upgrade", "rollout">>
           a3 == a2 \o If(p.fault = "precall", <<"drain">>)
           a4 == a3 \o <<"captures", "listeners", "register">>
           a5 == a4 \o If(p.srtp, <<"srtp">>)
           a6 == a5 \o Call(p)
           a7 == a6 \o If(p.fault = "precall", <<"reject">>)
           a8 == a7 \o If(p.srtp, <<"srtpwait">>)
           a9 == a8 \o <<"listenerwait">>
           a10 == a9 \o If(p.probe, <<"probe">>)
           a11 == a10 \o If(p.fault = "postcall", <<"fault">>)
           a12 == a11 \o <<"release">>
<1>4. a1 \in Seq(Stages) BY <1>1, <1>3, Joined
<1>5. a2 \in Seq(Stages) BY <1>1, <1>4, Joined
<1>6. a3 \in Seq(Stages) BY <1>3, <1>5, Joined
<1>7. a4 \in Seq(Stages) BY <1>1, <1>6, Joined
<1>8. a5 \in Seq(Stages) BY <1>3, <1>7, Joined
<1>9. a6 \in Seq(Stages) BY <1>8, CallStages, Joined
<1>10. a7 \in Seq(Stages) BY <1>3, <1>9, Joined
<1>11. a8 \in Seq(Stages) BY <1>3, <1>10, Joined
<1>12. a9 \in Seq(Stages) BY <1>1, <1>11, Joined
<1>13. a10 \in Seq(Stages) BY <1>3, <1>12, Joined
<1>14. a11 \in Seq(Stages) BY <1>3, <1>13, Joined
<1>15. a12 \in Seq(Stages) BY <1>1, <1>14, Joined
<1>16. Catalog(p) = a12 BY DEF Catalog
<1> QED BY <1>15, <1>16

LEMMA PlanLeads ==
  ASSUME NEW p \in Profile
  PROVE  Leads(Plan(p), Stages, Returning)
<1>1. /\ <<"unittest">> \in Seq(Stages) /\ <<"upgrade", "rollout", "call">> \in Seq(Stages)
      /\ <<"image", "agents", "call">> \in Seq(Stages) /\ <<"prepare">> \in Seq(Stages)
      /\ <<"image", "agents", "listeners", "register", "call", "listenerwait">> \in Seq(Stages)
  BY DEF Stages, Working
<1>2. p.kind \in {"core", "nlu", "agent", "signalling", "catalog"} BY DEF Profile
<1>3. Execution(p) \in Seq(Stages)
  <2>1. CASE p.kind = "core" BY <1>1, <2>1, Zenon DEF Execution
  <2>2. CASE p.kind = "nlu"
    <3>1. Execution(p) = <<"upgrade", "rollout", "call">> BY <2>2 DEF Execution
    <3> QED BY <1>1, <3>1, Zenon
  <2>3. CASE p.kind = "agent"
    <3>1. Execution(p) = <<"image", "agents", "call">> BY <2>3 DEF Execution
    <3> QED BY <1>1, <3>1, Zenon
  <2>4. CASE p.kind = "signalling"
    <3>1. Execution(p) = <<"image", "agents", "listeners", "register", "call", "listenerwait">>
      BY <2>4 DEF Execution
    <3> QED BY <1>1, <3>1, Zenon
  <2>5. CASE p.kind = "catalog"
    <3>1. Execution(p) = Catalog(p) BY <2>5 DEF Execution
    <3> QED BY <3>1, CatalogStages
  <2> QED BY <1>2, <2>1, <2>2, <2>3, <2>4, <2>5
<1> DEFINE a == <<"prepare">> \o Execution(p)
<1>4. a \in Seq(Stages) BY <1>1, <1>3, Joined
<1> HIDE DEF a
<1> DEFINE r == <<"return">>
           U == Stages \cup Final
<1>5. r \in Seq(U) BY DEF Final
<1>6. Ending \in Seq(U) BY DEF Ending, Final
<1>7. a \in Seq(U) BY <1>4, SeqMonotonic
<1> HIDE DEF r, U
<1>8. (a \o r) \o Ending = a \o (r \o Ending) BY <1>5, <1>6, <1>7, ConcatAssociative
<1>9. Plan(p) = (a \o r) \o Ending BY DEF Plan, a, r
<1>10. Plan(p) = a \o Returning BY <1>8, <1>9 DEF Returning, r
<1> QED BY <1>4, <1>10 DEF Leads

\* A stage that goes on, has a result or raises.
LEMMA StageKeeps ==
  ASSUME ClusterInv, NEW s \in Working, Stage(s),
         Advance \/ Raise \/ \E c \in {"zero", "bad"} : Result(c),
         UNCHANGED <<todo, rows, exit, original>>
  PROVE  ClusterInv'
<1>1. plan # << >> /\ Head(plan) = s BY DEF Stage
<1>2. Running /\ Leads(Tail(plan), Stages, Returning) BY <1>1, Whereabouts
<1>3. /\ todo' \in Seq(Profile) /\ rows' \in Seq(Row)
      /\ \A i \in DOMAIN rows' : rows'[i].passed => ~rows'[i].trouble
  BY DEF ClusterInv
<1>4. CASE Advance
  <2>1. Running' BY <1>2, <1>4 DEF Running, Advance
  <2>2. trouble' \in BOOLEAN BY <1>4 DEF Advance, ClusterInv
  <2> QED BY <1>3, <2>1, <2>2 DEF ClusterInv
<1>5. CASE Raise
  <2>1. plan' = If(InTry, <<"release">>) \o Ending BY <1>5 DEF Raise
  <2>2. plan' = Tidying \/ plan' = Ending
    <3>1. CASE InTry BY <2>1, <3>1, Zenon DEF If, Tidying
    <3>2. CASE ~InTry
      <4>1. plan' = << >> \o Ending BY <2>1, <3>2, Zenon DEF If
      <4>2. Ending \in Seq(Final) BY DEF Ending, Final
      <4> QED BY <4>1, <4>2, ConcatEmptySeq
    <3> QED BY <3>1, <3>2
  <2>3. plan' # Judging BY <2>2, ClusterPlans, PlansOfEnd
  <2>4. trouble' = TRUE /\ status' = "failed" BY <1>5 DEF Raise
  <2>5. Finishing' BY <1>2, <2>2, <2>3, <2>4 DEF Finishing, Running
  <2> QED BY <1>3, <2>4, <2>5 DEF ClusterInv
<1>6. ASSUME NEW c \in {"zero", "bad"}, Result(c) PROVE ClusterInv'
  <2>1. trouble' \in BOOLEAN BY <1>6 DEF Result
  <2>2. trouble' => "bad" \in codes'
    <3>1. CASE c = "bad" BY <1>6, <3>1 DEF Result
    <3>2. CASE c = "zero"
      <4>1. trouble' = (trouble \/ FALSE) /\ codes \subseteq codes' BY <1>6, <3>2 DEF Result
      <4> QED BY <1>2, <4>1 DEF Running
    <3> QED BY <3>1, <3>2
  <2>3. Running' BY <1>2, <1>6, <2>2 DEF Running, Result
  <2> QED BY <1>3, <2>1, <2>3 DEF ClusterInv
<1> QED BY <1>4, <1>5, <1>6

LEMMA AllStopped ==
  ASSUME procs' = StopAll({"mock"} \cup InPods)
  PROVE  NoneRuns'
BY DEF StopAll, InPods, NoneRuns

LEMMA ReleaseKeeps == ClusterInv /\ Release => ClusterInv'
<1> SUFFICES ASSUME ClusterInv, Release PROVE ClusterInv' OBVIOUS
<1>1. plan # << >> /\ Head(plan) = "release" BY DEF Release, Stage
<1>2. UNCHANGED <<todo, rows, exit, original>> BY DEF Release, NothingElse, releaseVars
<1>3. IF status = "failed" THEN Advance ELSE \E c \in {"zero", "bad"} : Result(c) BY DEF Release
<1>4. plan' = Tail(plan) /\ UNCHANGED status BY <1>3 DEF Advance, Result
<1>5. /\ todo' \in Seq(Profile) /\ rows' \in Seq(Row)
      /\ \A i \in DOMAIN rows' : rows'[i].passed => ~rows'[i].trouble
  BY <1>2 DEF ClusterInv
<1>6. trouble' \in BOOLEAN BY <1>3 DEF Advance, Result, ClusterInv
<1>7. CASE Running /\ Leads(Tail(plan), Stages, Returning)
  <2>1. PICK c \in {"zero", "bad"} : Result(c) BY <1>3, <1>7 DEF Running
  <2>2. trouble' => "bad" \in codes'
    <3>1. CASE c = "bad" BY <2>1, <3>1 DEF Result
    <3>2. CASE c = "zero"
      <4>1. trouble' = (trouble \/ FALSE) /\ codes \subseteq codes' BY <2>1, <3>2 DEF Result
      <4> QED BY <1>7, <4>1 DEF Running
    <3> QED BY <3>1, <3>2
  <2>3. Running' BY <1>2, <1>4, <1>7, <2>2 DEF Running
  <2> QED BY <1>5, <1>6, <2>3 DEF ClusterInv
<1>8. CASE Finishing /\ plan = Tidying /\ Tail(plan) = Ending
  <2>1. plan' = Ending /\ status' = "failed" BY <1>4, <1>8 DEF Finishing
  <2>2. plan' # Judging /\ plan' # Tidying BY <2>1, ClusterPlans, PlansOfEnd
  <2>3. Finishing' BY <1>2, <1>8, <2>1, <2>2 DEF Finishing
  <2> QED BY <1>5, <1>6, <2>3 DEF ClusterInv
<1>9. CASE Aborting /\ Tail(plan) = Leaving
  <2>1. Aborting' BY <1>2, <1>4, <1>9 DEF Aborting
  <2> QED BY <1>5, <1>6, <2>1 DEF ClusterInv
<1> QED BY <1>1, <1>7, <1>8, <1>9, Whereabouts

LEMMA ReturnKeeps == ClusterInv /\ Return => ClusterInv'
<1> SUFFICES ASSUME ClusterInv, Return PROVE ClusterInv' OBVIOUS
<1>1. plan # << >> /\ Head(plan) = "return" BY DEF Return, Stage
<1>2. Running /\ Tail(plan) = Ending BY <1>1, Whereabouts
<1>3. UNCHANGED <<todo, rows, exit, original, trouble>> /\ plan' = Ending /\ status' = Verdict(codes)
  BY <1>2 DEF Return, NothingElse, releaseVars
<1>4. status' \in {"passed", "failed"} /\ (status' = "passed" => ~trouble')
  BY <1>2, <1>3 DEF Verdict, Running
<1>5. plan' # Judging /\ plan' # Tidying BY <1>3, ClusterPlans, PlansOfEnd
<1>6. Finishing' BY <1>2, <1>3, <1>4, <1>5 DEF Finishing, Running
<1> QED BY <1>3, <1>6 DEF ClusterInv

LEMMA TeardownKeeps == ClusterInv /\ Teardown => ClusterInv'
<1> SUFFICES ASSUME ClusterInv, Teardown PROVE ClusterInv' OBVIOUS
<1>1. plan # << >> /\ Head(plan) = "teardown" BY DEF Teardown, Stage
<1>2. UNCHANGED <<todo, rows, exit, original>> BY DEF Teardown, releaseVars
<1>3. /\ todo' \in Seq(Profile) /\ rows' \in Seq(Row)
      /\ \A i \in DOMAIN rows' : rows'[i].passed => ~rows'[i].trouble
  BY <1>2 DEF ClusterInv
<1>4. \/ KeepPods /\ Advance
      \/ ~KeepPods /\ pods' = {} /\ procs' = StopAll({"mock"} \cup InPods) /\ Advance
      \/ ~KeepPods /\ UNCHANGED <<plan, codes, status, trouble>>
      \/ plan' = Tail(plan) /\ status' = "failed" /\ trouble' = TRUE
  <2>1. CASE KeepPods BY <2>1 DEF Teardown
  <2>2. CASE ~KeepPods
    <3>1. PICK accepted \in BOOLEAN, left \in SUBSET pods :
            /\ pods' = left
            /\ procs' = StopAll({"mock"} \cup IF left = {} THEN InPods ELSE {})
            /\ \/ Removed(accepted, left = {}) /\ attempt' = 0 /\ Advance
               \/ /\ ~Removed(accepted, left = {}) /\ attempt < 2 /\ attempt' = attempt + 1
                  /\ UNCHANGED <<plan, codes, status, trouble>>
               \/ /\ ~Removed(accepted, left = {}) /\ attempt = 2 /\ attempt' = 0
                  /\ plan' = Tail(plan) /\ status' = "failed" /\ trouble' = TRUE
                  /\ codes' = codes \cup {"bad"}
      BY <2>2 DEF Teardown
    <3>2. CASE Removed(accepted, left = {}) /\ Advance
      <4>1. left = {} BY <3>2 DEF Removed
      <4> QED BY <2>2, <3>1, <3>2, <4>1
    <3> QED BY <2>2, <3>1, <3>2
  <2> QED BY <2>1, <2>2
<1>5. trouble' \in BOOLEAN BY <1>4 DEF Advance, ClusterInv
<1>6. CASE UNCHANGED <<plan, codes, status, trouble>>
  <2>1. plan # Judging BY <1>1, ClusterPlans
  <2>2. Finishing \/ Aborting BY <1>1, Whereabouts
  <2>3. Finishing' \/ Aborting' BY <1>2, <1>6, <2>1, <2>2 DEF Finishing, Aborting
  <2> QED BY <1>3, <1>5, <2>3 DEF ClusterInv
<1>7. CASE plan' = Tail(plan)
  <2>1. CASE Aborting /\ Tail(plan) = Unwinding
    <3>1. Aborting' BY <1>2, <1>7, <2>1 DEF Aborting
    <3> QED BY <1>3, <1>5, <3>1 DEF ClusterInv
  <2>2. CASE Finishing /\ Tail(plan) = Judging
    <3>1. plan' = Judging /\ plan' # Tidying BY <1>7, <2>2, ClusterPlans, PlansOfEnd
    <3>2. CASE status' = "failed" /\ trouble' = TRUE
      <4>1. Finishing' BY <1>2, <2>2, <3>1, <3>2 DEF Finishing
      <4> QED BY <1>3, <1>5, <4>1 DEF ClusterInv
    <3>3. CASE Advance /\ (KeepPods \/ (pods' = {} /\ procs' = StopAll({"mock"} \cup InPods)))
      <4>1. status' = status /\ trouble' = trouble BY <3>3 DEF Advance
      <4>2. KeepPods \/ (pods' = {} /\ NoneRuns') BY <3>3, AllStopped
      <4>3. Finishing' BY <1>2, <2>2, <3>1, <4>1, <4>2 DEF Finishing, Clean
      <4> QED BY <1>3, <1>5, <4>3 DEF ClusterInv
    <3>4. CASE UNCHANGED <<plan, codes, status, trouble>> BY <3>4, <1>6
    <3> QED BY <1>4, <3>2, <3>3, <3>4
  <2> QED BY <1>1, <2>1, <2>2, Whereabouts
<1> QED BY <1>4, <1>6, <1>7 DEF Advance

\* The next profile, or the end of the profiles.
LEMMA NextKeeps ==
  ASSUME ClusterInv, NEW rest \in Seq(Profile), NextProfile(rest), original', exit' = "none",
         rows' \in Seq(Row), \A i \in DOMAIN rows' : rows'[i].passed => ~rows'[i].trouble,
         (\A i \in DOMAIN rows' : rows'[i].passed) /\ ~KeepPods => pods' = {} /\ NoneRuns'
  PROVE  ClusterInv'
<1>1. todo' = rest /\ codes' = {} /\ status' = "running" /\ trouble' = FALSE BY DEF NextProfile
<1>2. CASE rest = << >>
  <2>1. plan' = Restoring BY <1>2 DEF NextProfile, Restoring
  <2>2. Last' BY <1>1, <1>2, <2>1 DEF Last, LeftClean, AllPassed, Clean
  <2> QED BY <1>1, <2>2 DEF ClusterInv
<1>3. CASE rest # << >>
  <2>1. plan' = Plan(Head(rest)) BY <1>3 DEF NextProfile
  <2>2. Head(rest) \in Profile BY <1>3
  <2>3. Leads(plan', Stages, Returning) BY <2>1, <2>2, PlanLeads
  <2>4. Running' BY <1>1, <1>3, <2>3 DEF Running
  <2> QED BY <1>1, <2>4 DEF ClusterInv
<1> QED BY <1>2, <1>3

LEMMA EvidenceKeeps == ClusterInv /\ Evidence => ClusterInv'
<1> SUFFICES ASSUME ClusterInv, Evidence PROVE ClusterInv' OBVIOUS
<1>1. plan # << >> /\ Head(plan) = "evidence" BY DEF Evidence, Stage
<1>2. Finishing /\ plan = Judging BY <1>1, Whereabouts
<1>3. PICK complete \in BOOLEAN :
        rows' = Append(rows, [passed |-> EvidenceVerdict(complete) = "passed",
                              trouble |-> trouble \/ ~complete])
  BY DEF Evidence
<1> DEFINE r == [passed |-> EvidenceVerdict(complete) = "passed", trouble |-> trouble \/ ~complete]
<1>4. r \in Row
  <2>1. (EvidenceVerdict(complete) = "passed") \in BOOLEAN /\ (trouble \/ ~complete) \in BOOLEAN OBVIOUS
  <2> QED BY <2>1, Zenon DEF Row
<1>5. r.passed => complete /\ status = "passed" BY DEF EvidenceVerdict
<1>6. r.passed => ~r.trouble
  <2>1. r.trouble = (trouble \/ ~complete) OBVIOUS
  <2> QED BY <1>2, <1>5, <2>1 DEF Finishing
<1>7. rows \in Seq(Row) BY DEF ClusterInv
<1> HIDE DEF r
<1>8. rows' = Append(rows, r) BY <1>3 DEF r
<1>9. /\ rows' \in Seq(Row) /\ Len(rows') = Len(rows) + 1 /\ rows'[Len(rows) + 1] = r
      /\ \A i \in 1 .. Len(rows) : rows'[i] = rows[i]
  BY <1>4, <1>7, <1>8, AppendProperties
<1>10. Len(rows) \in Nat /\ DOMAIN rows = 1 .. Len(rows) /\ DOMAIN rows' = 1 .. Len(rows) + 1 BY <1>7, <1>9
<1>11. ASSUME NEW i \in DOMAIN rows', rows'[i].passed PROVE ~rows'[i].trouble
  <2>1. CASE i = Len(rows) + 1 BY <1>6, <1>9, <1>11, <2>1
  <2>2. CASE i # Len(rows) + 1
    <3>1. i \in DOMAIN rows /\ rows'[i] = rows[i] BY <1>9, <1>10, <2>2
    <3> QED BY <1>11, <3>1 DEF ClusterInv
  <2> QED BY <2>1, <2>2
<1>12. ASSUME \A i \in DOMAIN rows' : rows'[i].passed, ~KeepPods PROVE pods' = {} /\ NoneRuns'
  <2>1. Len(rows) + 1 \in DOMAIN rows' BY <1>10
  <2>2. r.passed BY <1>9, <1>12, <2>1
  <2>3. Clean BY <1>2, <1>5, <1>12, <2>2 DEF Finishing
  <2>4. UNCHANGED <<pods, procs>> BY DEF Evidence
  <2> QED BY <2>3, <2>4 DEF Clean, NoneRuns
<1>13. NextProfile(Tail(todo)) /\ original' = original /\ exit' = exit BY DEF Evidence, releaseVars
<1>14. Tail(todo) \in Seq(Profile) BY <1>2 DEF Finishing, ClusterInv
<1>15. original' /\ exit' = "none" BY <1>2, <1>13 DEF Finishing
<1> HIDE DEF Finishing
<1> QED BY <1>9, <1>11, <1>12, <1>13, <1>14, <1>15, NextKeeps

LEMMA AbortKeeps ==
  ASSUME ClusterInv, Abort, UNCHANGED rows, exit' = "none"
  PROVE  ClusterInv'
<1>1. todo' = << >> /\ todo' \in Seq(Profile) /\ trouble' = TRUE /\ plan' = Giving BY DEF Abort, Giving
<1>2. Aborted' BY <1>1 DEF Aborted
<1> QED BY <1>1, <1>2 DEF ClusterInv

LEMMA EvidenceRaisesKeeps == ClusterInv /\ EvidenceRaises => ClusterInv'
<1> SUFFICES ASSUME ClusterInv, EvidenceRaises PROVE ClusterInv' OBVIOUS
<1>1. plan # << >> /\ Head(plan) = "evidence" BY DEF EvidenceRaises, Stage
<1>2. exit = "none" BY <1>1, Whereabouts DEF Finishing
<1> QED BY <1>2, AbortKeeps DEF EvidenceRaises

LEMMA UnwindKeeps == ClusterInv /\ Unwind => ClusterInv'
<1> SUFFICES ASSUME ClusterInv, Unwind PROVE ClusterInv' OBVIOUS
<1>1. plan # << >> /\ Head(plan) = "unwind" BY DEF Unwind, Stage
<1>2. exit = "none" BY <1>1, Whereabouts DEF Aborting
<1> QED BY <1>2, AbortKeeps DEF Unwind

LEMMA InterruptKeeps == ClusterInv /\ Interrupt => ClusterInv'
<1> SUFFICES ASSUME ClusterInv, Interrupt PROVE ClusterInv' OBVIOUS
<1>1. todo # << >> /\ plan # << >> /\ Head(plan) # "capture" BY DEF Interrupt
<1>2. exit = "none"
  <2>1. ~Starting
    <3>1. plan = Capturing => Head(plan) = "capture" BY ClusterPlans
    <3> QED BY <1>1, <3>1 DEF Starting
  <2> QED BY <1>1, <2>1 DEF ClusterInv, Running, Finishing, Aborting, Last, Aborted, Telling, Over
<1>3. plan' = If(InTry, <<"release">>) \o <<"teardown", "unwind">> BY DEF Interrupt
<1>4. plan' = Fleeing \/ plan' = Leaving
  <2>1. CASE InTry BY <1>3, <2>1, Zenon DEF If, Fleeing, Leaving
  <2>2. CASE ~InTry
    <3>1. plan' = << >> \o Leaving BY <1>3, <2>2, Zenon DEF If, Leaving
    <3>2. Leaving \in Seq(Final) BY DEF Leaving, Final
    <3> QED BY <3>1, <3>2, ConcatEmptySeq
  <2> QED BY <2>1, <2>2
<1>5. Aborting' BY <1>2, <1>4 DEF Aborting, Interrupt
<1>6. trouble' = TRUE /\ UNCHANGED <<todo, rows>> BY DEF Interrupt
<1> QED BY <1>5, <1>6 DEF ClusterInv

LEMMA CaptureKeeps == ClusterInv /\ Capture => ClusterInv'
<1> SUFFICES ASSUME ClusterInv, Capture PROVE ClusterInv' OBVIOUS
<1>1. plan # << >> /\ Head(plan) = "capture" BY DEF Capture, Stage
<1>2. Starting BY <1>1, Whereabouts
<1>3. UNCHANGED <<rows, pods, procs, exit>> BY DEF Capture
<1>4. exit' = "none" BY <1>2, <1>3 DEF Starting
<1>5. CASE Abort BY <1>3, <1>4, <1>5, AbortKeeps
<1>6. CASE original' = TRUE /\ NextProfile(todo)
  <2>1. rows' \in Seq(Row) /\ \A i \in DOMAIN rows' : rows'[i].passed => ~rows'[i].trouble
    BY <1>3 DEF ClusterInv
  <2>2. pods' = {} /\ NoneRuns' BY <1>2, <1>3 DEF Starting, Clean, NoneRuns
  <2>3. todo \in Seq(Profile) BY DEF ClusterInv
  <2> QED BY <1>4, <1>6, <2>1, <2>2, <2>3, NextKeeps
<1> QED BY <1>5, <1>6 DEF Capture

LEMMA RestoreKeeps == ClusterInv /\ Restore => ClusterInv'
<1> SUFFICES ASSUME ClusterInv, Restore PROVE ClusterInv' OBVIOUS
<1>1. plan # << >> /\ Head(plan) = "restore" BY DEF Restore, Stage
<1>2. UNCHANGED <<todo, rows, trouble, pods, procs>> BY DEF Restore, profileVars
<1>3. /\ todo' \in Seq(Profile) /\ rows' \in Seq(Row) /\ trouble' \in BOOLEAN
      /\ \A i \in DOMAIN rows' : rows'[i].passed => ~rows'[i].trouble
  BY <1>2 DEF ClusterInv
<1>4. CASE Aborted /\ Len(plan) = 1
  <2>1. plan' = << >> /\ exit' = "1" BY <1>4 DEF Restore, Ended
  <2>2. Over' BY <2>1 DEF Over
  <2> QED BY <1>3, <2>2 DEF ClusterInv
<1>5. CASE Last /\ Len(plan) = 2 /\ Tail(plan) = Reporting
  <2>1. \A c : Ended(c) => plan' = Reporting /\ exit' = c BY <1>5 DEF Ended
  <2>2. plan' = Reporting /\ exit' \in {"none", "error"} BY <2>1 DEF Restore
  <2>3. exit' = "none" /\ ~NoRestore => AsBefore' BY <1>5, <2>1 DEF Restore, AsBefore, Last
  <2>4. LeftClean' BY <1>2, <1>5 DEF Last, LeftClean, AllPassed, Clean, NoneRuns
  <2>5. todo' = << >> BY <1>2, <1>5 DEF Last
  <2>6. Telling' BY <2>2, <2>3, <2>4, <2>5 DEF Telling
  <2> QED BY <1>3, <2>6 DEF ClusterInv
<1> QED BY <1>1, <1>4, <1>5, Whereabouts

LEMMA ReportKeeps == ClusterInv /\ Report => ClusterInv'
<1> SUFFICES ASSUME ClusterInv, Report PROVE ClusterInv' OBVIOUS
<1>1. plan # << >> /\ Head(plan) = "report" BY DEF Report, Stage
<1>2. Telling BY <1>1, Whereabouts
<1>3. UNCHANGED <<todo, rows, trouble, pods, procs, values, fresh, drained>>
  BY DEF Report, profileVars, releaseVars
<1>4. /\ todo' \in Seq(Profile) /\ rows' \in Seq(Row) /\ trouble' \in BOOLEAN
      /\ \A i \in DOMAIN rows' : rows'[i].passed => ~rows'[i].trouble
  BY <1>3 DEF ClusterInv
<1>5. /\ plan' = << >>
      /\ exit' = IF exit = "error" \/ \E i \in DOMAIN rows : ~rows[i].passed THEN "1" ELSE "0"
  BY DEF Report
<1>6. exit' = "0" => exit = "none" /\ AllPassed BY <1>2, <1>5 DEF Telling, AllPassed
<1>7. exit' = "0" => AllPassed' /\ LeftClean' /\ (~NoRestore => AsBefore')
  BY <1>2, <1>3, <1>6 DEF Telling, AllPassed, LeftClean, Clean, NoneRuns, AsBefore
<1>8. Over' BY <1>5, <1>7 DEF Over
<1> QED BY <1>4, <1>8 DEF ClusterInv

\* A process that ends by itself runs before.
LEMMA EndsKeeps ==
  ASSUME ClusterInv, NEW n \in Processes, ProcessEnds(n)
  PROVE  ClusterInv'
<1>1. UNCHANGED <<todo, plan, rows, codes, status, trouble, pods, original, values, fresh, drained, exit>>
  BY DEF ProcessEnds, profileVars, releaseVars
<1>2. ~NoneRuns BY DEF ProcessEnds, NoneRuns
<1> QED BY <1>1, <1>2 DEF ClusterInv, Running, Finishing, Aborting, Starting, Last, Aborted, Telling, Over,
                          LeftClean, Clean, AllPassed, AsBefore

LEMMA ClusterStarts == ClusterInit => ClusterInv
<1> SUFFICES ASSUME ClusterInit PROVE ClusterInv OBVIOUS
<1>1. todo \in Seq(Profile) BY ClusterAssumption DEF ClusterInit
<1>2. rows = << >> /\ rows \in Seq(Row) /\ DOMAIN rows = {} BY DEF ClusterInit
<1>3. NoneRuns BY DEF ClusterInit, NoneRuns, Idle
<1>4. Starting BY <1>2, <1>3 DEF Starting, Clean, ClusterInit, Capturing
<1> QED BY <1>1, <1>2, <1>4 DEF ClusterInv, ClusterInit

LEMMA ClusterKeeps == ClusterInv /\ [ClusterNext]_clusterVars => ClusterInv'
<1> SUFFICES ASSUME ClusterInv, [ClusterNext]_clusterVars PROVE ClusterInv' OBVIOUS
<1> USE DEF NothingElse, releaseVars
<1>1. ASSUME NEW s \in Working, Command(s), UNCHANGED <<todo, rows, exit, original>> PROVE ClusterInv'
  BY <1>1, StageKeeps DEF Command
<1>2. ASSUME NEW s \in Working, Step(s), UNCHANGED <<todo, rows, exit, original>> PROVE ClusterInv'
  BY <1>2, StageKeeps DEF Step
<1>3. ASSUME NEW s \in Working, Stage(s), Advance \/ Raise, UNCHANGED <<todo, rows, exit, original>>
      PROVE  ClusterInv'
  BY <1>3, StageKeeps
<1>4. CASE Prepare BY <1>1, <1>4 DEF Prepare, Working
<1>5. CASE CreateAgents BY <1>3, <1>5 DEF CreateAgents, Working
<1>6. CASE StartMockRasa BY <1>3, <1>6 DEF StartMockRasa, Working
<1>7. CASE Upgrade BY <1>3, <1>7 DEF Upgrade, Working
<1>8. CASE Rollout BY <1>3, <1>8 DEF Rollout, Working
<1>9. CASE Drain BY <1>3, <1>9 DEF Drain, Working
<1>10. CASE Fault BY <1>1, <1>10 DEF Fault, Working
<1>11. CASE StartCaptures BY <1>3, <1>11 DEF StartCaptures, Working
<1>12. CASE StartListeners BY <1>3, <1>12 DEF StartListeners, Working
<1>13. CASE \E n \in Processes : StartSender(n) BY <1>3, <1>13 DEF StartSender, Working
<1>14. CASE StartCall BY <1>3, <1>14 DEF StartCall, Working
<1>15. CASE RunStep BY <1>2, <1>15 DEF RunStep, Working
<1>16. CASE RunUnitTests BY <1>2, <1>16 DEF RunUnitTests, Working
<1>17. CASE Probe BY <1>1, <1>2, <1>17 DEF Probe, Working
<1>18. CASE WaitForProcesses
  <2>1. ASSUME NEW s \in Working, NEW names, Wait(s, names) PROVE ClusterInv'
    <3>1. CodeOf(names) \in {"zero", "bad"} BY DEF CodeOf
    <3>2. Stage(s) /\ Result(CodeOf(names)) /\ UNCHANGED <<todo, rows, exit, original>> BY <2>1 DEF Wait
    <3> QED BY <3>1, <3>2, StageKeeps
  <2> QED BY <1>18, <2>1 DEF WaitForProcesses, Working
<1>19. CASE Interrupt BY <1>19, InterruptKeeps
<1>20. CASE \E n \in Processes : ProcessEnds(n) BY <1>20, EndsKeeps
<1>21. CASE UNCHANGED clusterVars
  BY <1>21 DEF clusterVars, profileVars, ClusterInv, Running, Finishing, Aborting, Starting, Last, Aborted,
               Telling, Over, LeftClean, Clean, AllPassed, AsBefore, NoneRuns
<1> QED BY <1>4, <1>5, <1>6, <1>7, <1>8, <1>9, <1>10, <1>11, <1>12, <1>13, <1>14, <1>15, <1>16, <1>17, <1>18,
           <1>19, <1>20, <1>21, ReleaseKeeps, ReturnKeeps, TeardownKeeps, EvidenceKeeps, EvidenceRaisesKeeps,
           UnwindKeeps, CaptureKeeps, RestoreKeeps, ReportKeeps DEF ClusterNext, Runner

LEMMA ClusterTells == ClusterSpec => []ClusterTruthful
<1>1. ClusterSpec => []ClusterInv BY ClusterStarts, ClusterKeeps, PTL DEF ClusterSpec
<1> QED BY <1>1, ClusterInvTells, PTL

(***************************************************************************)
(* run_k8s_regression_job.py                                               *)
(***************************************************************************)

JobStages == {"images", "release", "balancers", "access", "deleteold", "apply"}
Waiting == <<"wait", "logs", "collect", "archive", "deletejob", "exit">>
Logging == <<"logs", "collect", "archive", "deletejob", "exit">>
Collecting == <<"collect", "archive", "deletejob", "exit">>
Archiving == <<"archive", "deletejob", "exit">>
Deleting == <<"deletejob", "exit">>
Exiting == <<"exit">>
Abandoning == <<"deletejob">>

\* The plan up to the wait for the runner, and after it.
Before(s) == Leads(s, JobStages, Waiting)
Waited == {Logging, Collecting, Archiving, Deleting, Exiting, Abandoning}

JobInv ==
  /\ DOMAIN runner = Pods /\ runner = [p \in Pods |-> runner[p]]
  /\ runner["old"] = "none" /\ listed \subseteq {"new"} /\ killed \subseteq {"new"}
  /\ Before(step) \/ step \in Waited \/ step = << >>
  /\ Before(step) => verdict = "none" /\ killed = {}
  /\ step # << >> => outcome = "none"
  /\ step \in Waited => verdict \in {"passed", "failed", "timeout"}
  /\ verdict \in {"none", "passed", "failed", "timeout"}
  /\ verdict = "passed" => runner["new"] = "ok"
  /\ verdict = "failed" => runner["new"] \in {"bad", "killed"}
  /\ runner["new"] = "ok" => release = "original"
  /\ step \in {Deleting, Exiting} => (Aks => archive = "this")
  /\ killed # {} => verdict = "timeout"
  /\ outcome \in {"none", "0", "1", "raised"}
  /\ outcome = "0" => verdict = "passed" /\ (Aks => archive = "this")

LEMMA JobInvTells == JobInv => JobTruthful
BY DEF JobInv, JobTruthful

LEMMA JobPlans ==
  /\ Waiting # << >> /\ Head(Waiting) = "wait" /\ Tail(Waiting) = Logging
  /\ Logging # << >> /\ Head(Logging) = "logs" /\ Tail(Logging) = Collecting
  /\ Collecting # << >> /\ Head(Collecting) = "collect" /\ Tail(Collecting) = Archiving
  /\ Archiving # << >> /\ Head(Archiving) = "archive" /\ Tail(Archiving) = Deleting
  /\ Deleting # << >> /\ Head(Deleting) = "deletejob" /\ Tail(Deleting) = Exiting /\ Len(Deleting) = 2
  /\ Exiting # << >> /\ Head(Exiting) = "exit" /\ Tail(Exiting) = << >>
  /\ Abandoning # << >> /\ Head(Abandoning) = "deletejob" /\ Len(Abandoning) = 1
<1>1. Waiting # << >> /\ Head(Waiting) = "wait" /\ Tail(Waiting) = Logging BY DEF Waiting, Logging
<1>2. Logging # << >> /\ Head(Logging) = "logs" /\ Tail(Logging) = Collecting BY DEF Logging, Collecting
<1>3. Collecting # << >> /\ Head(Collecting) = "collect" /\ Tail(Collecting) = Archiving
  BY DEF Collecting, Archiving
<1>4. Archiving # << >> /\ Head(Archiving) = "archive" /\ Tail(Archiving) = Deleting BY DEF Archiving, Deleting
<1>5. Deleting # << >> /\ Head(Deleting) = "deletejob" /\ Tail(Deleting) = Exiting /\ Len(Deleting) = 2
  BY DEF Deleting, Exiting
<1>6. Exiting # << >> /\ Head(Exiting) = "exit" /\ Tail(Exiting) = << >> BY DEF Exiting
<1>7. Abandoning # << >> /\ Head(Abandoning) = "deletejob" /\ Len(Abandoning) = 1 BY DEF Abandoning
<1> QED BY <1>1, <1>2, <1>3, <1>4, <1>5, <1>6, <1>7

LEMMA WaitingIs == Waiting \in Seq({"wait", "logs", "collect", "archive", "deletejob", "exit"})
BY DEF Waiting

LEMMA BeforeIs ==
  ASSUME NEW s, Before(s)
  PROVE  /\ s # << >> /\ s \notin Waited
         /\ \/ s = Waiting
            \/ Head(s) \in JobStages /\ Before(Tail(s))
<1>1. s # << >> /\ (s = Waiting \/ (Head(s) \in JobStages /\ Before(Tail(s))))
  BY WaitingIs, JobPlans, LeadsOn DEF Before
<1>2. Head(s) = "wait" \/ Head(s) \in JobStages BY <1>1, JobPlans
<1>3. s \notin Waited
  <2>1. SUFFICES ASSUME s \in Waited PROVE FALSE OBVIOUS
  <2>2. Head(s) \in {"logs", "collect", "archive", "deletejob", "exit"} BY <2>1, JobPlans, Zenon DEF Waited
  <2> QED BY <1>2, <2>2 DEF JobStages
<1> QED BY <1>1, <1>3

LEMMA StepIs ==
  ASSUME JobInv, step # << >>
  PROVE  /\ Head(step) \in JobStages => Before(step) /\ Before(Tail(step))
         /\ Head(step) = "wait" => step = Waiting /\ Before(step)
         /\ Head(step) = "logs" => step = Logging
         /\ Head(step) = "collect" => step = Collecting
         /\ Head(step) = "archive" => step = Archiving
         /\ Head(step) = "deletejob" => step = Deleting \/ step = Abandoning
         /\ Head(step) = "exit" => step = Exiting
<1>1. CASE Before(step)
  <2>1. step = Waiting \/ (Head(step) \in JobStages /\ Before(Tail(step))) BY <1>1, BeforeIs
  <2> QED BY <1>1, <2>1, JobPlans DEF JobStages
<1>2. CASE step \in Waited
  <2>1. step = Logging \/ step = Collecting \/ step = Archiving \/ step = Deleting \/ step = Exiting
        \/ step = Abandoning
    BY <1>2, Zenon DEF Waited
  <2> QED BY <2>1, JobPlans DEF JobStages
<1> QED BY <1>1, <1>2 DEF JobInv

LEMMA StepsBefore == Before(Steps)
<1> DEFINE a1 == <<"images", "release">>
           a2 == IF Aks THEN <<"balancers">> ELSE << >>
           a3 == <<"access", "deleteold", "apply">>
<1>1. a1 \in Seq(JobStages) /\ a3 \in Seq(JobStages) BY DEF JobStages
<1>2. a2 \in Seq(JobStages)
  <2>1. "balancers" \in JobStages BY DEF JobStages
  <2> QED BY <2>1, OneStep, EmptySeq
<1>3. Steps = ((a1 \o a2) \o a3) \o Waiting BY DEF Steps, Waiting
<1> HIDE DEF a1, a2, a3
<1>4. (a1 \o a2) \o a3 \in Seq(JobStages) BY <1>1, <1>2, ConcatProperties
<1> QED BY <1>3, <1>4 DEF Before, Leads

LEMMA JobBegins ==
  ASSUME ~NameReused, JobInit
  PROVE  JobInv
<1>1. /\ step = Steps /\ verdict = "none" /\ killed = {} /\ outcome = "none" /\ listed = {}
      /\ runner \in [Pods -> {"none", "running", "ok", "bad"}] /\ runner["new"] = "none" /\ runner["old"] = "none"
  BY DEF JobInit
<1>2. Before(step) /\ step # << >> /\ step \notin Waited /\ step # Deleting /\ step # Exiting
  <2>1. Before(step) BY <1>1, StepsBefore
  <2>2. step # << >> /\ step \notin Waited BY <2>1, BeforeIs
  <2> QED BY <2>1, <2>2, Zenon DEF Waited
<1> QED BY <1>1, <1>2 DEF JobInv

LEMMA JobKept ==
  ASSUME ~NameReused, JobInv, [JobNext]_jobVars
  PROVE  JobInv'
<1>0. /\ DOMAIN runner = Pods /\ runner = [p \in Pods |-> runner[p]]
      /\ runner["old"] = "none" /\ listed \subseteq {"new"} /\ killed \subseteq {"new"}
      /\ Before(step) => verdict = "none" /\ killed = {}
      /\ step # << >> => outcome = "none"
      /\ step \in Waited => verdict \in {"passed", "failed", "timeout"}
      /\ verdict \in {"none", "passed", "failed", "timeout"}
      /\ verdict = "passed" => runner["new"] = "ok"
      /\ verdict = "failed" => runner["new"] \in {"bad", "killed"}
      /\ runner["new"] = "ok" => release = "original"
      /\ step \in {Deleting, Exiting} => (Aks => archive = "this")
      /\ killed # {} => verdict = "timeout"
      /\ outcome \in {"none", "0", "1", "raised"}
      /\ outcome = "0" => verdict = "passed" /\ (Aks => archive = "this")
  BY DEF JobInv
<1>p. "old" \in Pods /\ "new" \in Pods /\ Pods = {"old", "new"} BY DEF Pods
<1>w. /\ Logging \in Waited /\ Collecting \in Waited /\ Archiving \in Waited /\ Deleting \in Waited
      /\ Exiting \in Waited /\ Abandoning \in Waited
  BY Zenon DEF Waited
<1>n. /\ << >> \notin Waited /\ ~Before(<< >>) /\ << >> # Deleting /\ << >> # Exiting
      /\ \A s \in Waited : ~Before(s)
      /\ Logging # Deleting /\ Collecting # Deleting /\ Archiving # Deleting /\ Abandoning # Deleting
      /\ Logging # Exiting /\ Collecting # Exiting /\ Archiving # Exiting /\ Abandoning # Exiting
  <2>1. << >> # Deleting /\ << >> # Exiting /\ << >> \notin Waited BY JobPlans, Zenon DEF Waited
  <2>2. ~Before(<< >>) BY BeforeIs
  <2>3. \A s \in Waited : ~Before(s) BY BeforeIs
  <2>4. /\ Logging # Deleting /\ Collecting # Deleting /\ Archiving # Deleting /\ Abandoning # Deleting
        /\ Logging # Exiting /\ Collecting # Exiting /\ Archiving # Exiting /\ Abandoning # Exiting
    BY JobPlans
  <2> QED BY <2>1, <2>2, <2>3, <2>4
\* A command before the wait.
<1>1. ASSUME step # << >>, Head(step) \in JobStages, Next1 \/ RaiseJob,
             UNCHANGED <<seen, verdict, copied, archive, release, killed>>,
             DOMAIN runner' = Pods, runner' = [p \in Pods |-> runner'[p]],
             runner'["old"] = "none", runner'["new"] = runner["new"] \/ runner'["new"] = "waiting",
             listed' \subseteq {"new"}
      PROVE  JobInv'
  <2>1. Before(step) /\ Before(Tail(step)) BY <1>1, StepIs
  <2>2. verdict = "none" /\ killed = {} /\ outcome = "none" BY <1>0, <1>1, <2>1
  <2>3. CASE Next1
    <3>1. Before(step') /\ outcome' = "none" BY <2>1, <2>2, <2>3 DEF Next1
    <3>2. step' \notin Waited /\ step' # << >> BY <3>1, BeforeIs
    <3>3. step' # Deleting /\ step' # Exiting BY <1>w, <3>2
    <3> QED BY <1>0, <1>1, <2>2, <3>1, <3>2, <3>3 DEF JobInv
  <2>4. CASE RaiseJob
    <3>1. step' = << >> /\ outcome' = "raised" BY <2>4 DEF RaiseJob
    <3> QED BY <1>0, <1>1, <1>n, <2>2, <3>1 DEF JobInv
  <2> QED BY <1>1, <2>3, <2>4
<1>2. CASE Commands
  <2>1. step # << >> /\ Head(step) \in JobStages BY <1>2 DEF Commands, At, JobStages
  <2>2. (Next1 \/ RaiseJob) /\ UNCHANGED <<runner, listed, seen, verdict, copied, archive, release, killed>>
    BY <1>2 DEF Commands
  <2> QED BY <1>0, <1>1, <2>1, <2>2
<1>3. CASE PrepareRelease
  <2>1. step # << >> /\ Head(step) \in JobStages BY <1>3 DEF PrepareRelease, At, JobStages
  <2>2. (Next1 \/ RaiseJob) /\ UNCHANGED <<runner, listed, seen, verdict, copied, archive, release, killed>>
    BY <1>3 DEF PrepareRelease
  <2> QED BY <1>0, <1>1, <2>1, <2>2
<1>4. CASE DeleteOldJob
  <2>1. step # << >> /\ Head(step) \in JobStages BY <1>4 DEF DeleteOldJob, At, JobStages
  <2>2. (Next1 \/ RaiseJob) /\ UNCHANGED <<listed, seen, verdict, copied, archive, release>>
    BY <1>4 DEF DeleteOldJob
  <2>3. UNCHANGED <<runner, killed>>
    <3>1. CASE Killing("old")
      <4>1. [runner EXCEPT !["old"] = runner["old"]] = runner BY <1>0
      <4> QED BY <1>0, <3>1, <4>1 DEF Killing
    <3> QED BY <1>4, <3>1 DEF DeleteOldJob
  <2> QED BY <1>0, <1>1, <2>1, <2>2, <2>3
<1>5. CASE ApplyJob
  <2>1. step # << >> /\ Head(step) \in JobStages BY <1>5 DEF ApplyJob, At, JobStages
  <2>2. (Next1 \/ RaiseJob) /\ UNCHANGED <<seen, verdict, copied, archive, release, killed>>
    BY <1>5 DEF ApplyJob
  <2>3. \/ runner' = [runner EXCEPT !["new"] = "waiting"] /\ listed' = listed \cup {"new"}
        \/ UNCHANGED <<runner, listed>>
    BY <1>5 DEF ApplyJob
  <2>4. /\ DOMAIN runner' = Pods /\ runner' = [p \in Pods |-> runner'[p]]
        /\ runner'["old"] = "none" /\ (runner'["new"] = runner["new"] \/ runner'["new"] = "waiting")
        /\ listed' \subseteq {"new"}
    BY <1>0, <1>p, <2>3
  <2> QED BY <1>1, <2>1, <2>2, <2>4
<1>6. CASE Poll
  <2>1. step = Waiting /\ Before(step) /\ step # << >> BY <1>6, StepIs DEF Poll, At
  <2>2. PICK p \in listed :
          /\ verdict' = VerdictOf(runner[p])
          /\ step' = IF Finished(runner[p]) THEN Tail(step) ELSE step
    BY <1>6 DEF Poll
  <2>3. p = "new" BY <1>0, <2>2
  <2>4. UNCHANGED <<runner, listed, archive, release, killed, outcome>> BY <1>6 DEF Poll
  <2>5. killed = {} /\ outcome = "none" BY <1>0, <2>1
  <2>6. CASE Finished(runner["new"])
    <3>1. step' = Logging BY <2>1, <2>2, <2>3, <2>6, JobPlans
    <3>2. \/ verdict' = "passed" /\ runner["new"] = "ok"
          \/ verdict' = "failed" /\ runner["new"] \in {"bad", "killed"}
      BY <2>2, <2>3, <2>6 DEF Finished, VerdictOf
    <3>3. step' \in Waited /\ ~Before(step') /\ step' # Deleting /\ step' # Exiting /\ step' # << >>
      BY <1>w, <1>n, <3>1
    <3> QED BY <1>0, <2>4, <2>5, <3>2, <3>3 DEF JobInv
  <2>7. CASE ~Finished(runner["new"])
    <3>1. step' = step /\ verdict' = "none" BY <2>2, <2>3, <2>7 DEF Finished, VerdictOf
    <3>2. step \notin Waited BY <2>1, BeforeIs
    <3>3. step # Deleting /\ step # Exiting BY <1>w, <3>2
    <3> QED BY <1>0, <2>1, <2>4, <2>5, <3>1, <3>2, <3>3 DEF JobInv
  <2> QED BY <2>6, <2>7
\* An exception after the Job was applied.
<1>7. ASSUME RaiseJob, UNCHANGED <<runner, listed, verdict, archive, release, killed>>
      PROVE  JobInv'
  <2>1. step' = << >> /\ outcome' = "raised" BY <1>7 DEF RaiseJob
  <2> QED BY <1>0, <1>7, <1>n, <2>1 DEF JobInv
<1>8. CASE PollFails BY <1>7, <1>8 DEF PollFails
<1>9. CASE Deadline
  <2>1. step = Waiting /\ Before(step) /\ step # << >> BY <1>9, StepIs DEF Deadline, At
  <2>2. /\ step' = Logging /\ outcome' = outcome /\ verdict' = "timeout"
        /\ UNCHANGED <<runner, listed, archive, release, killed>>
    BY <1>9, <2>1, JobPlans DEF Deadline, Next1
  <2>3. step' \in Waited /\ ~Before(step') /\ step' # Deleting /\ step' # Exiting /\ step' # << >>
    BY <1>w, <1>n, <2>2
  <2>4. outcome = "none" BY <1>0, <2>1
  <2> QED BY <1>0, <2>2, <2>3, <2>4 DEF JobInv
\* A step after the wait.
<1>10. ASSUME step \in Waited, step' \in Waited, outcome' = outcome, step # << >>,
              UNCHANGED <<runner, listed, verdict, release, killed>>,
              step' \in {Deleting, Exiting} => (Aks => archive' = "this")
       PROVE  JobInv'
  <2>1. ~Before(step') /\ step' # << >> BY <1>10, <1>n
  <2>2. outcome = "none" BY <1>0, <1>10
  <2> QED BY <1>0, <1>10, <2>1, <2>2 DEF JobInv
<1>11. CASE FetchLogs
  <2>0. step = Logging /\ step # << >> BY <1>11, StepIs DEF FetchLogs, At
  <2>1. UNCHANGED <<runner, listed, verdict, copied, archive, release, killed>> BY <1>11 DEF FetchLogs
  <2>2. CASE Next1
    <3>1. step' = Collecting /\ outcome' = outcome BY <2>0, <2>2, JobPlans DEF Next1
    <3> QED BY <1>10, <1>w, <1>n, <2>0, <2>1, <3>1
  <2> QED BY <1>7, <1>11, <2>1, <2>2 DEF FetchLogs
<1>12. CASE Collect
  <2>0. step = Collecting /\ step # << >> BY <1>12, StepIs DEF Collect, At
  <2>1. UNCHANGED <<runner, listed, verdict, archive, release, killed>> BY <1>12 DEF Collect
  <2>2. CASE Next1
    <3>1. step' = Archiving /\ outcome' = outcome BY <2>0, <2>2, JobPlans DEF Next1
    <3> QED BY <1>10, <1>w, <1>n, <2>0, <2>1, <3>1
  <2> QED BY <1>7, <1>12, <2>1, <2>2 DEF Collect
<1>13. CASE Archive
  <2>0. step = Archiving /\ step # << >> BY <1>13, StepIs DEF Archive, At
  <2>1. UNCHANGED <<runner, listed, verdict, release, killed, outcome>> BY <1>13 DEF Archive
  <2>2. \/ step' = Deleting /\ (Aks => archive' = "this")
        \/ step' = Abandoning
    BY <1>13, <2>0, JobPlans DEF Archive, Abandoning
  <2>3. step' \in Waited /\ (step' \in {Deleting, Exiting} => (Aks => archive' = "this"))
    BY <1>w, <1>n, <2>2
  <2> QED BY <1>10, <1>w, <2>0, <2>1, <2>3
<1>14. CASE DeleteJob
  <2>0. (step = Deleting \/ step = Abandoning) /\ step # << >> /\ step \in Waited
    BY <1>14, <1>w, StepIs DEF DeleteJob, At
  <2>1. UNCHANGED <<listed, seen, verdict, copied, archive, release>> BY <1>14 DEF DeleteJob
  <2>2. verdict \in {"passed", "failed", "timeout"} /\ outcome = "none" BY <1>0, <2>0
  <2>3. /\ DOMAIN runner' = Pods /\ runner' = [p \in Pods |-> runner'[p]]
        /\ runner'["old"] = runner["old"] /\ killed' \subseteq {"new"}
        /\ runner'["new"] = runner["new"] \/ (runner["new"] \in {"waiting", "running"} /\ runner'["new"] = "killed")
        /\ killed' = killed \/ runner["new"] = "running"
    <3>1. CASE UNCHANGED <<runner, killed>> BY <1>0, <3>1
    <3>2. CASE Killing("new")
      <4>1. /\ runner' = [runner EXCEPT !["new"] = IF @ \in {"waiting", "running"} THEN "killed" ELSE @]
            /\ killed' = killed \cup (IF runner["new"] = "running" THEN {"new"} ELSE {})
        BY <3>2 DEF Killing
      <4> QED BY <1>0, <1>p, <4>1
    <3> QED BY <1>14, <3>1, <3>2 DEF DeleteJob
  <2>4. killed' # {} => verdict = "timeout" BY <1>0, <2>2, <2>3
  <2>5. /\ verdict = "passed" => runner'["new"] = "ok"
        /\ verdict = "failed" => runner'["new"] \in {"bad", "killed"}
        /\ runner'["new"] = "ok" => release = "original"
    BY <1>0, <2>3
  <2>6. \/ step = Deleting /\ step' = Exiting /\ outcome' = outcome
        \/ RaiseJob
    BY <1>14, <2>0, JobPlans DEF DeleteJob, Next1
  <2>7. CASE step = Deleting /\ step' = Exiting /\ outcome' = outcome
    <3>1. step' \in Waited /\ ~Before(step') /\ step' # << >> BY <1>w, <1>n, <2>7
    <3>2. Aks => archive' = "this" BY <1>0, <2>1, <2>7
    <3> QED BY <1>0, <2>1, <2>2, <2>3, <2>4, <2>5, <2>7, <3>1, <3>2 DEF JobInv
  <2>8. CASE RaiseJob
    <3>1. step' = << >> /\ outcome' = "raised" BY <2>8 DEF RaiseJob
    <3> QED BY <1>0, <1>n, <2>1, <2>2, <2>3, <2>4, <2>5, <3>1 DEF JobInv
  <2> QED BY <2>6, <2>7, <2>8
<1>15. CASE Exit
  <2>0. step = Exiting /\ step # << >> BY <1>15, StepIs DEF Exit, At
  <2>1. /\ step' = << >> /\ outcome' = (IF verdict = "passed" THEN "0" ELSE "1")
        /\ UNCHANGED <<runner, listed, verdict, archive, release, killed>>
    BY <1>15 DEF Exit
  <2>2. Aks => archive = "this" BY <1>0, <2>0
  <2> QED BY <1>0, <1>n, <2>1, <2>2 DEF JobInv
<1>16. ASSUME NEW p \in Pods, PodSteps(p) PROVE JobInv'
  <2>1. p = "new" /\ runner["new"] \in {"waiting", "running"}
    BY <1>0, <1>p, <1>16 DEF PodSteps
  <2>2. UNCHANGED <<step, listed, verdict, archive, killed, outcome>> BY <1>16 DEF PodSteps
  <2>3. verdict \notin {"passed", "failed"} BY <1>0, <2>1
  <2>4. \/ runner' = [runner EXCEPT !["new"] = "running"] \/ runner' = runner
        \/ runner' = [runner EXCEPT !["new"] = "ok"] /\ release' = "original"
        \/ runner' = [runner EXCEPT !["new"] = "bad"]
    BY <1>16, <2>1 DEF PodSteps
  <2>5. /\ DOMAIN runner' = Pods /\ runner' = [q \in Pods |-> runner'[q]]
        /\ runner'["old"] = "none" /\ (runner'["new"] = "ok" => release' = "original")
    BY <1>0, <1>p, <2>1, <2>4
  <2>6. outcome # "0" BY <1>0, <2>3
  <2> QED BY <1>0, <2>2, <2>3, <2>5, <2>6 DEF JobInv
<1>17. ASSUME NEW p \in Pods, Vanish(p) PROVE JobInv'
  <2>1. /\ listed' \subseteq {"new"}
        /\ UNCHANGED <<step, runner, verdict, archive, release, killed, outcome>>
    BY <1>0, <1>17 DEF Vanish
  <2> QED BY <2>1 DEF JobInv
<1>18. CASE UNCHANGED jobVars BY <1>18 DEF JobInv, jobVars
<1> QED BY <1>2, <1>3, <1>4, <1>5, <1>6, <1>8, <1>9, <1>11, <1>12, <1>13, <1>14, <1>15, <1>16, <1>17, <1>18
       DEF JobNext, Launcher, Timely

LEMMA JobTells ==
  ASSUME ~NameReused
  PROVE  JobSpec => []JobTruthful
<1>1. JobInit => JobInv BY JobBegins
<1>2. JobInv /\ [JobNext]_jobVars => JobInv' BY JobKept
<1> QED BY <1>1, <1>2, JobInvTells, PTL DEF JobSpec

(***************************************************************************)
(* run_b2bua_sipp_smoke.py                                                 *)
(***************************************************************************)

SmokeStages ==
  {"preflight", "prepare", "captures", "server", "register", "callee", "sender", "caller",
   "reports", "callerwait", "senderwait", "reportswait", "calleewait"}

\* The call is waited for after it was started, and will be.
Precedes(s) ==
  \A i \in DOMAIN s : s[i] = "caller" => \E j \in DOMAIN s : i < j /\ s[j] = "callerwait"
Awaited(s) == \E j \in DOMAIN s : s[j] = "callerwait"
Lacks(s) == \A i \in DOMAIN s : s[i] # "caller"

SmokeInv ==
  /\ script \in Seq(SmokeStages \cup {"finally"})
  /\ raised \in BOOLEAN /\ mishap \in BOOLEAN
  /\ DOMAIN children = Children /\ children = [c \in Children |-> children[c]]
  /\ script # << >> => /\ Leads(script, SmokeStages, <<"finally">>)
                       /\ smokeExit = "none" /\ checks \subseteq {"passed", "failed"}
  /\ mishap => raised \/ "failed" \in checks \/ smokeExit = "2"
  /\ ~raised => /\ Precedes(script)
                /\ script # << >> /\ children["caller"] # "none" => Awaited(script)
  /\ SmokeTruthful

LEMMA TailOf ==
  ASSUME NEW A, NEW s \in Seq(A), s # << >>
  PROVE  /\ Tail(s) \in Seq(A)
         /\ Precedes(s) => Precedes(Tail(s)) /\ (Head(s) = "caller" => Awaited(Tail(s)))
         /\ Awaited(s) /\ Head(s) # "callerwait" => Awaited(Tail(s))
<1>1. /\ Tail(s) \in Seq(A) /\ Len(Tail(s)) = Len(s) - 1
      /\ \A i \in 1 .. Len(Tail(s)) : Tail(s)[i] = s[i + 1]
  BY HeadTailProperties
<1>2. /\ Len(s) \in Nat /\ Len(s) > 0 /\ Head(s) = s[1]
      /\ DOMAIN s = 1 .. Len(s) /\ DOMAIN Tail(s) = 1 .. Len(s) - 1
  BY <1>1
<1>3. \A j \in DOMAIN s : j # 1 => j - 1 \in DOMAIN Tail(s) /\ Tail(s)[j - 1] = s[j]
  BY <1>1, <1>2
<1>4. Precedes(s) => Precedes(Tail(s))
  <2>1. SUFFICES ASSUME Precedes(s), NEW i \in DOMAIN Tail(s), Tail(s)[i] = "caller"
                 PROVE  \E j \in DOMAIN Tail(s) : i < j /\ Tail(s)[j] = "callerwait"
    BY DEF Precedes
  <2>2. i + 1 \in DOMAIN s /\ s[i + 1] = "caller" BY <1>1, <1>2, <2>1
  <2>3. PICK j \in DOMAIN s : i + 1 < j /\ s[j] = "callerwait" BY <2>1, <2>2 DEF Precedes
  <2>4. j \in Nat /\ i \in Nat /\ j # 1 /\ i < j - 1 BY <1>2, <2>1, <2>3
  <2> QED BY <1>3, <2>3, <2>4
<1>5. Precedes(s) /\ Head(s) = "caller" => Awaited(Tail(s))
  <2>1. SUFFICES ASSUME Precedes(s), s[1] = "caller" PROVE Awaited(Tail(s)) BY <1>2
  <2>2. PICK j \in DOMAIN s : 1 < j /\ s[j] = "callerwait" BY <1>2, <2>1 DEF Precedes
  <2>3. j # 1 BY <1>2, <2>2
  <2> QED BY <1>3, <2>2, <2>3 DEF Awaited
<1>6. Awaited(s) /\ Head(s) # "callerwait" => Awaited(Tail(s)) BY <1>2, <1>3 DEF Awaited
<1> QED BY <1>1, <1>4, <1>5, <1>6

LEMMA LacksJoined ==
  ASSUME NEW A, NEW s \in Seq(A), NEW t \in Seq(A), Lacks(t)
  PROVE  /\ s \o t \in Seq(A)
         /\ Lacks(s) => Lacks(s \o t)
         /\ Precedes(s) => Precedes(s \o t)
<1>1. /\ s \o t \in Seq(A) /\ Len(s) \in Nat /\ Len(t) \in Nat /\ Len(s \o t) = Len(s) + Len(t)
      /\ DOMAIN s = 1 .. Len(s) /\ DOMAIN t = 1 .. Len(t) /\ DOMAIN (s \o t) = 1 .. Len(s) + Len(t)
      /\ \A i \in 1 .. Len(s) + Len(t) : (s \o t)[i] = IF i <= Len(s) THEN s[i] ELSE t[i - Len(s)]
  BY ConcatProperties, LenProperties
<1> DEFINE u == s \o t
<1> HIDE DEF u
<1>2. ASSUME NEW i \in DOMAIN u, u[i] = "caller" PROVE i \in DOMAIN s /\ s[i] = "caller"
  <2>1. i \in 1 .. Len(s) + Len(t) BY <1>1, <1>2 DEF u
  <2>2. ~(i <= Len(s)) => i - Len(s) \in DOMAIN t /\ u[i] = t[i - Len(s)] BY <1>1, <2>1 DEF u
  <2>3. i <= Len(s) BY <1>2, <2>2 DEF Lacks
  <2> QED BY <1>1, <1>2, <2>1, <2>3 DEF u
<1>3. \A j \in DOMAIN s : j \in DOMAIN u /\ u[j] = s[j] BY <1>1 DEF u
<1>4. Lacks(s) => Lacks(u) BY <1>2 DEF Lacks
<1>5. Precedes(s) => Precedes(u) BY <1>2, <1>3 DEF Precedes
<1> QED BY <1>1, <1>4, <1>5 DEF u

LEMMA PrecedesWait ==
  ASSUME NEW s \in Seq(SmokeStages)
  PROVE  s \o <<"callerwait">> \in Seq(SmokeStages) /\ Precedes(s \o <<"callerwait">>)
<1> DEFINE t == <<"callerwait">>
           u == s \o t
<1>0. t \in Seq(SmokeStages) /\ Len(t) = 1 /\ t[1] = "callerwait"
  <2>1. t \in Seq(SmokeStages)
    <3>1. "callerwait" \in SmokeStages BY DEF SmokeStages
    <3> QED BY <3>1, OneStep
  <2>2. Len(t) = 1 OBVIOUS
  <2>3. t[1] = "callerwait" OBVIOUS
  <2> QED BY <2>1, <2>2, <2>3
<1> HIDE DEF t
<1>1. /\ u \in Seq(SmokeStages) /\ Len(s) \in Nat /\ Len(u) = Len(s) + 1
      /\ DOMAIN u = 1 .. Len(s) + 1
      /\ \A i \in 1 .. Len(s) + 1 : u[i] = IF i <= Len(s) THEN s[i] ELSE t[i - Len(s)]
  <2>1. /\ u \in Seq(SmokeStages) /\ Len(u) = Len(s) + Len(t)
        /\ \A i \in 1 .. Len(s) + Len(t) : u[i] = IF i <= Len(s) THEN s[i] ELSE t[i - Len(s)]
    BY <1>0, ConcatProperties
  <2> HIDE DEF u
  <2>2. Len(s) \in Nat /\ DOMAIN u = 1 .. Len(u) BY <2>1, LenProperties
  <2> QED BY <1>0, <2>1, <2>2
<1> HIDE DEF u
<1>2. Len(s) + 1 \in DOMAIN u /\ u[Len(s) + 1] = "callerwait" BY <1>0, <1>1
<1>3. ASSUME NEW i \in DOMAIN u, u[i] = "caller" PROVE i < Len(s) + 1
  <2>1. i # Len(s) + 1 BY <1>2, <1>3
  <2> QED BY <1>1, <2>1
<1>4. Precedes(u) BY <1>2, <1>3 DEF Precedes
<1> QED BY <1>1, <1>4 DEF u, t

LEMMA Single ==
  ASSUME NEW f, NEW x \in SmokeStages
  PROVE  /\ Also(f, <<x>>) \in Seq(SmokeStages)
         /\ x # "caller" => Lacks(Also(f, <<x>>))
         /\ ~f => Lacks(Also(f, <<x>>))
<1>1. CASE f
  <2>1. Also(f, <<x>>) = <<x>> BY <1>1 DEF Also
  <2>2. <<x>> \in Seq(SmokeStages) BY OneStep
  <2>3. x # "caller" => Lacks(<<x>>) BY DEF Lacks
  <2> QED BY <1>1, <2>1, <2>2, <2>3
<1>2. CASE ~f
  <2>1. Also(f, <<x>>) = << >> BY <1>2 DEF Also
  <2>2. << >> \in Seq(SmokeStages) /\ Lacks(<< >>) BY EmptySeq DEF Lacks
  <2> QED BY <2>1, <2>2
<1> QED BY <1>1, <1>2
\* What main() goes through before its finally block.
Body(p) ==
  <<"preflight", "prepare">> \o Also(p.captures, <<"captures">>) \o <<"server">>
  \o Also(p.callee, <<"register", "callee">>) \o Also(p.caller, <<"register">>)
  \o Also(p.call /\ p.sender, <<"sender">>) \o Also(p.call, <<"caller">>)
  \o Also(p.call /\ p.reports, <<"reports">>) \o Also(p.call, <<"callerwait">>)
  \o Also(p.call /\ p.sender, <<"senderwait">>) \o Also(p.call /\ p.reports, <<"reportswait">>)
  \o Also(p.callee, <<"calleewait">>)

LEMMA BodyWaits ==
  ASSUME NEW p
  PROVE  Body(p) \in Seq(SmokeStages) /\ Precedes(Body(p))
<1> DEFINE a1 == <<"preflight", "prepare">>
           a2 == Also(p.captures, <<"captures">>)
           a3 == <<"server">>
           a4 == Also(p.callee, <<"register", "callee">>)
           a5 == Also(p.caller, <<"register">>)
           a6 == Also(p.call /\ p.sender, <<"sender">>)
           a7 == Also(p.call, <<"caller">>)
           a8 == Also(p.call /\ p.reports, <<"reports">>)
           a9 == Also(p.call, <<"callerwait">>)
           a10 == Also(p.call /\ p.sender, <<"senderwait">>)
           a11 == Also(p.call /\ p.reports, <<"reportswait">>)
           a12 == Also(p.callee, <<"calleewait">>)
<1>1. a1 \in Seq(SmokeStages) /\ Lacks(a1) BY DEF SmokeStages, Lacks
<1>2. a2 \in Seq(SmokeStages) /\ Lacks(a2) BY Single DEF SmokeStages
<1>3. a3 \in Seq(SmokeStages) /\ Lacks(a3) BY DEF SmokeStages, Lacks
<1>4. a4 \in Seq(SmokeStages) /\ Lacks(a4)
  <2>1. <<"register", "callee">> \in Seq(SmokeStages) /\ Lacks(<<"register", "callee">>)
    BY DEF SmokeStages, Lacks
  <2>2. << >> \in Seq(SmokeStages) /\ Lacks(<< >>) BY EmptySeq DEF Lacks
  <2> QED BY <2>1, <2>2 DEF Also
<1>5. a5 \in Seq(SmokeStages) /\ Lacks(a5) BY Single DEF SmokeStages
<1>6. a6 \in Seq(SmokeStages) /\ Lacks(a6) BY Single DEF SmokeStages
<1>7. a7 \in Seq(SmokeStages) /\ (~p.call => Lacks(a7)) BY Single DEF SmokeStages
<1>8. a8 \in Seq(SmokeStages) /\ Lacks(a8) BY Single DEF SmokeStages
<1>9. a9 \in Seq(SmokeStages) /\ Lacks(a9) BY Single DEF SmokeStages
<1>10. a10 \in Seq(SmokeStages) /\ Lacks(a10) BY Single DEF SmokeStages
<1>11. a11 \in Seq(SmokeStages) /\ Lacks(a11) BY Single DEF SmokeStages
<1>12. a12 \in Seq(SmokeStages) /\ Lacks(a12) BY Single DEF SmokeStages
<1>13. Body(p) = a1 \o a2 \o a3 \o a4 \o a5 \o a6 \o a7 \o a8 \o a9 \o a10 \o a11 \o a12
  BY DEF Body
<1>14. p.call => a9 = <<"callerwait">> BY DEF Also
<1> HIDE DEF a1, a2, a3, a4, a5, a6, a7, a8, a9, a10, a11, a12
<1> DEFINE b2 == a1 \o a2
           b3 == b2 \o a3
           b4 == b3 \o a4
           b5 == b4 \o a5
           b6 == b5 \o a6
           b7 == b6 \o a7
           b8 == b7 \o a8
           b9 == b8 \o a9
           b10 == b9 \o a10
           b11 == b10 \o a11
           b12 == b11 \o a12
<1>22. b2 \in Seq(SmokeStages) /\ Lacks(b2) BY <1>1, <1>2, LacksJoined
<1> HIDE DEF b2
<1>23. b3 \in Seq(SmokeStages) /\ Lacks(b3) BY <1>22, <1>3, LacksJoined
<1> HIDE DEF b3
<1>24. b4 \in Seq(SmokeStages) /\ Lacks(b4) BY <1>23, <1>4, LacksJoined
<1> HIDE DEF b4
<1>25. b5 \in Seq(SmokeStages) /\ Lacks(b5) BY <1>24, <1>5, LacksJoined
<1> HIDE DEF b5
<1>26. b6 \in Seq(SmokeStages) /\ Lacks(b6) BY <1>25, <1>6, LacksJoined
<1> HIDE DEF b6
<1>27. b7 \in Seq(SmokeStages) /\ (~p.call => Lacks(b7))
  <2>1. b7 \in Seq(SmokeStages) BY <1>26, <1>7, ConcatProperties
  <2>2. ASSUME ~p.call PROVE Lacks(b7) BY <1>26, <1>7, <2>2, LacksJoined
  <2> QED BY <2>1, <2>2
<1> HIDE DEF b7
<1>28. b8 \in Seq(SmokeStages) /\ (~p.call => Lacks(b8)) BY <1>27, <1>8, LacksJoined
<1> HIDE DEF b8
<1>29. b9 \in Seq(SmokeStages) /\ Precedes(b9)
  <2>1. CASE p.call BY <1>28, <1>14, <2>1, PrecedesWait
  <2>2. CASE ~p.call
    <3>1. b9 \in Seq(SmokeStages) /\ Lacks(b9) BY <1>28, <1>9, <2>2, LacksJoined
    <3> QED BY <3>1 DEF Lacks, Precedes
  <2> QED BY <2>1, <2>2
<1> HIDE DEF b9
<1>30. b10 \in Seq(SmokeStages) /\ Precedes(b10) BY <1>29, <1>10, LacksJoined
<1> HIDE DEF b10
<1>31. b11 \in Seq(SmokeStages) /\ Precedes(b11) BY <1>30, <1>11, LacksJoined
<1> HIDE DEF b11
<1>32. b12 \in Seq(SmokeStages) /\ Precedes(b12) BY <1>31, <1>12, LacksJoined
<1>33. Body(p) = b12 BY <1>13 DEF b2, b3, b4, b5, b6, b7, b8, b9, b10, b11
<1> QED BY <1>32, <1>33

LEMMA SmokeInvInit == SmokeInit => SmokeInv
<1> SUFFICES ASSUME SmokeInit PROVE SmokeInv OBVIOUS
<1> DEFINE b == Body(setup)
<1>1. b \in Seq(SmokeStages) /\ Precedes(b) BY BodyWaits
<1>2. script = b \o <<"finally">> BY DEF SmokeInit, Script, Body
<1>3. /\ children = NoChildren /\ checks = {} /\ raised = FALSE /\ mishap = FALSE
      /\ smokeExit = "none"
  BY DEF SmokeInit
<1> HIDE DEF b
<1>4. <<"finally">> \in Seq({"finally"}) BY OneStep
<1>5. Leads(script, SmokeStages, <<"finally">>) BY <1>1, <1>2 DEF Leads
<1> DEFINE A == SmokeStages \cup {"finally"}
<1>6. b \in Seq(A) /\ <<"finally">> \in Seq(A) BY <1>1, <1>4, SeqMonotonic
<1>7. script \in Seq(A) BY <1>2, <1>6, ConcatProperties
<1>8. Precedes(script)
  <2>1. Lacks(<<"finally">>) BY DEF Lacks
  <2> HIDE DEF A
  <2> QED BY <1>1, <1>2, <1>6, <2>1, LacksJoined
<1>9. children = [c \in Children |-> "none"] /\ "caller" \in Children
  BY <1>3 DEF NoChildren, Children
<1>10. DOMAIN children = Children /\ children = [c \in Children |-> children[c]] /\ children["caller"] = "none"
  BY <1>9
<1> QED BY <1>3, <1>5, <1>7, <1>8, <1>10 DEF SmokeInv, SmokeTruthful

\* One more step of main() is done.
LEMMA SmokeGoes ==
  ASSUME SmokeInv, script # << >>, Head(script) # "finally"
  PROVE  /\ Tail(script) \in Seq(SmokeStages \cup {"finally"}) /\ Tail(script) # << >>
         /\ Leads(Tail(script), SmokeStages, <<"finally">>)
         /\ Precedes(script) => Precedes(Tail(script)) /\ (Head(script) = "caller" => Awaited(Tail(script)))
         /\ Awaited(script) /\ Head(script) # "callerwait" => Awaited(Tail(script))
<1>1. /\ script \in Seq(SmokeStages \cup {"finally"})
      /\ Leads(script, SmokeStages, <<"finally">>)
  BY DEF SmokeInv
<1>2. <<"finally">> \in Seq({"finally"}) /\ <<"finally">> # << >> BY OneStep
<1>3. Head(<<"finally">>) = "finally" OBVIOUS
<1>4. script # <<"finally">> BY <1>3
<1>5. Leads(Tail(script), SmokeStages, <<"finally">>) BY <1>1, <1>2, <1>4, LeadsOn
<1>6. Tail(script) # << >> BY <1>2, <1>5, LeadsOn
<1> QED BY <1>1, <1>5, <1>6, TailOf

\* The finally block is the last that is left when it runs.
LEMMA SmokeLast ==
  ASSUME SmokeInv, script # << >>, Head(script) = "finally"
  PROVE  script = <<"finally">>
<1>1. Leads(script, SmokeStages, <<"finally">>) BY DEF SmokeInv
<1>2. <<"finally">> \in Seq({"finally"}) /\ <<"finally">> # << >> BY OneStep
<1>3. "finally" \notin SmokeStages BY DEF SmokeStages
<1> QED BY <1>1, <1>2, <1>3, LeadsOn

SmokeShape(s) ==
  /\ s \in Seq(SmokeStages \cup {"finally"})
  /\ s # << >> => Leads(s, SmokeStages, <<"finally">>)

LEMMA Shapes == SmokeShape(<<"finally">>) /\ SmokeShape(<< >>)
<1>1. <<"finally">> \in Seq({"finally"}) /\ <<"finally">> # << >> BY OneStep
<1>2. Leads(<<"finally">>, SmokeStages, <<"finally">>) BY <1>1, LeadsHere
<1>3. <<"finally">> \in Seq(SmokeStages \cup {"finally"}) BY OneStep
<1> QED BY <1>2, <1>3, EmptySeq DEF SmokeShape

LEMMA SmokeInvNext == SmokeInv /\ [SmokeNext]_smokeVars => SmokeInv'
<1> SUFFICES ASSUME SmokeInv, [SmokeNext]_smokeVars PROVE SmokeInv' OBVIOUS
<1> DEFINE Going == /\ script # << >> /\ Head(script) # "finally" /\ script' = Tail(script)
                    /\ smokeExit' = smokeExit
<1>0. /\ SmokeShape(script) /\ raised \in BOOLEAN /\ mishap \in BOOLEAN
      /\ DOMAIN children = Children /\ children = [c \in Children |-> children[c]]
      /\ script # << >> => smokeExit = "none" /\ checks \subseteq {"passed", "failed"}
      /\ mishap => raised \/ "failed" \in checks \/ smokeExit = "2"
      /\ ~raised => /\ Precedes(script)
                    /\ script # << >> /\ children["caller"] # "none" => Awaited(script)
      /\ smokeExit = "0" => ~mishap /\ logged \subseteq {"passed"} /\ children = NoChildren
  BY DEF SmokeInv, SmokeTruthful, SmokeShape
<1>i. ASSUME /\ SmokeShape(script') /\ raised' \in BOOLEAN /\ mishap' \in BOOLEAN
             /\ DOMAIN children' = Children /\ children' = [c \in Children |-> children'[c]]
             /\ script' # << >> => smokeExit' = "none" /\ checks' \subseteq {"passed", "failed"}
             /\ mishap' => raised' \/ "failed" \in checks' \/ smokeExit' = "2"
             /\ ~raised' => /\ Precedes(script')
                            /\ script' # << >> /\ children'["caller"] # "none" => Awaited(script')
             /\ smokeExit' = "0" => ~mishap' /\ logged' \subseteq {"passed"} /\ children' = NoChildren
      PROVE  SmokeInv'
  BY <1>i DEF SmokeInv, SmokeTruthful, SmokeShape
<1>e. \A v : \A c \in Children : LET h == [children EXCEPT ![c] = v] IN
        /\ DOMAIN h = Children /\ h = [d \in Children |-> h[d]]
        /\ h[c] = v /\ (c # "caller" => h["caller"] = children["caller"])
  BY <1>0
<1>g. ASSUME Going
      PROVE  /\ SmokeShape(script') /\ script' # << >> /\ smokeExit' = "none"
             /\ Precedes(script) => Precedes(script') /\ (Head(script) = "caller" => Awaited(script'))
             /\ Awaited(script) /\ Head(script) # "callerwait" => Awaited(script')
  BY <1>0, <1>g, SmokeGoes DEF SmokeShape
<1>h. ASSUME NEW c, Turns(WaitStep(c)), c \in Children
      PROVE  /\ script # << >> /\ Head(script) # "finally"
             /\ (c # "caller" => Head(script) # "callerwait")
  BY <1>h DEF Turns, WaitStep, Children
<1>p. Precedes(<< >>) /\ "caller" \in Children BY DEF Precedes, Children
<1>1. CASE Preflight
  <2>1. CASE Go /\ UNCHANGED <<logged, smokeExit>>
    <3>1. Going BY <1>1, <2>1 DEF Preflight, Turns, Go
    <3> QED BY <1>0, <1>1, <1>i, <1>g, <2>1, <3>1 DEF Preflight, Turns, Go
  <2>2. CASE /\ script' = << >> /\ mishap' = TRUE /\ UNCHANGED raised
             /\ checks' = {"blocked"} /\ logged' = {"blocked"} /\ smokeExit' = "2"
    BY <1>0, <1>1, <1>i, <1>p, <2>2, Shapes DEF Preflight
  <2> QED BY <1>1, <2>1, <2>2 DEF Preflight
<1>2. CASE PrepareScenarios
  <2>1. CASE Go /\ UNCHANGED <<logged, smokeExit>>
    <3>1. Going BY <1>2, <2>1 DEF PrepareScenarios, Turns, Go
    <3> QED BY <1>0, <1>2, <1>i, <1>g, <2>1, <3>1 DEF PrepareScenarios, Turns, Go
  <2>2. CASE Thrown(<< >>) /\ Quits("1")
    BY <1>0, <1>2, <1>i, <2>2, Shapes DEF PrepareScenarios, Thrown, Quits
  <2> QED BY <1>2, <2>1, <2>2 DEF PrepareScenarios
<1>3. CASE Registration
  <2>1. ASSUME NEW v \in {"passed", "failed"}, Verdicts(v) PROVE SmokeInv'
    <3>1. Going BY <1>3, <2>1 DEF Registration, Turns, Verdicts
    <3>2. Head(script) = "register" /\ children' = children /\ logged' = logged
      BY <1>3 DEF Registration, Turns
    <3>3. checks' = checks \cup {v} /\ mishap' = (mishap \/ v = "failed") /\ raised' = raised
      BY <2>1 DEF Verdicts
    <3> HIDE DEF Going
    <3> QED BY <1>0, <1>i, <1>g, <3>1, <3>2, <3>3, <2>1 DEF Going
  <2>2. CASE Thrown(<<"finally">>)
    BY <1>0, <1>3, <1>i, <2>2, Shapes DEF Registration, Thrown, Turns
  <2> QED BY <1>3, <2>1, <2>2 DEF Registration
<1>4. CASE Finally
  <2>1. script = <<"finally">> BY <1>4, SmokeLast DEF Finally, Turns
  <2>2. ~Awaited(script) BY <2>1 DEF Awaited
  <2>3. script # << >> BY <2>1
  <2>4. ~raised => children["caller"] = "none" BY <1>0, <2>2, <2>3
  <2>5. /\ children' = [c \in Children |-> IF c = "caller" THEN children[c] ELSE "none"]
        /\ script' = << >> /\ raised' = raised /\ logged' = checks'
    BY <1>4 DEF Finally, StopChildren
  <2>6. PICK found \in {{}, {"failed"}} :
          /\ checks' = checks \cup found /\ mishap' = (mishap \/ found # {})
          /\ smokeExit' = IF raised \/ "failed" \in checks' THEN "1" ELSE "0"
    BY <1>4 DEF Finally
  <2>7. DOMAIN children' = Children /\ children' = [c \in Children |-> children'[c]] BY <2>5
  <2>8. ~raised => children' = NoChildren BY <2>4, <2>5, <1>p DEF NoChildren
  <2>9. smokeExit = "none" /\ checks \subseteq {"passed", "failed"} BY <1>0, <2>3
  <2>10. found # {} => "failed" \in checks' BY <2>6
  <2>11. mishap' => raised' \/ "failed" \in checks' BY <1>0, <2>5, <2>6, <2>9, <2>10
  <2>12. mishap' \in BOOLEAN BY <1>0, <2>6
  <2>13. checks' \subseteq {"passed", "failed"} BY <2>6, <2>9
  <2>14. smokeExit' = "0" => ~raised /\ "failed" \notin checks' BY <2>6
  <2>15. smokeExit' = "0" => ~mishap' /\ logged' \subseteq {"passed"} /\ children' = NoChildren
    BY <2>5, <2>8, <2>11, <2>13, <2>14
  <2> QED BY <1>0, <1>i, <1>p, <2>5, <2>7, <2>11, <2>12, <2>15, Shapes
<1>5. CASE FinallyRaises
  <2>1. /\ children' = [c \in Children |-> IF c = "caller" THEN children[c] ELSE "none"]
        /\ script' = << >> /\ raised' = TRUE /\ mishap' = TRUE /\ smokeExit' = "1"
    BY <1>5 DEF FinallyRaises, StopChildren, Thrown, Quits
  <2>2. DOMAIN children' = Children /\ children' = [c \in Children |-> children'[c]] BY <2>1
  <2> QED BY <1>i, <2>1, <2>2, Shapes
<1>6. ASSUME NEW c \in Children, Start(c) PROVE SmokeInv'
  <2>0. script # << >> /\ Head(script) = c /\ c # "finally" /\ c # "callerwait"
        /\ UNCHANGED <<logged, smokeExit>>
    BY <1>6 DEF Start, Turns, Children
  <2>1. CASE Go /\ children' = [children EXCEPT ![c] = "running"]
    <3>1. Going BY <2>0, <2>1 DEF Go
    <3>2. checks' = checks /\ raised' = raised /\ mishap' = mishap BY <2>1 DEF Go
    <3>3. /\ DOMAIN children' = Children /\ children' = [d \in Children |-> children'[d]]
          /\ (c # "caller" => children'["caller"] = children["caller"])
      BY <1>e, <2>1
    <3> HIDE DEF Going
    <3>4. c = "caller" => (~raised => Awaited(script')) BY <1>0, <1>g, <2>0, <3>1
    <3> QED BY <1>0, <1>i, <1>g, <2>0, <3>1, <3>2, <3>3, <3>4
  <2>2. CASE /\ c \in {"captures", "server", "sender", "reports"} /\ Thrown(<<"finally">>)
             /\ children' = [children EXCEPT ![c] = IF c = "sender" THEN "running" ELSE "none"]
    <3>1. DOMAIN children' = Children /\ children' = [d \in Children |-> children'[d]]
      BY <1>e, <2>2
    <3>2. script' = <<"finally">> /\ raised' = TRUE /\ mishap' = TRUE /\ checks' = checks
      BY <2>2 DEF Thrown
    <3> QED BY <1>0, <1>i, <2>0, <3>1, <3>2, Shapes
  <2> QED BY <1>6, <2>1, <2>2 DEF Start
<1>7. ASSUME NEW c \in Children, Waits(c) PROVE SmokeInv'
  <2>0. /\ script # << >> /\ Head(script) # "finally" /\ (c # "caller" => Head(script) # "callerwait")
        /\ UNCHANGED <<logged, smokeExit>>
    BY <1>7, <1>h DEF Waits
  <2>1. Going BY <1>7, <2>0 DEF Waits, Verdicts
  <2>2. PICK v \in {"passed", "failed"} :
          checks' = checks \cup {v} /\ mishap' = (mishap \/ v = "failed") /\ raised' = raised
    BY <1>7 DEF Waits, Verdicts, ResultOf
  <2>3. /\ DOMAIN children' = Children /\ children' = [d \in Children |-> children'[d]]
        /\ children'[c] = "none" /\ (c # "caller" => children'["caller"] = children["caller"])
    BY <1>7, <1>e DEF Waits
  <2> HIDE DEF Going
  <2> QED BY <1>0, <1>i, <1>g, <2>0, <2>1, <2>2, <2>3
<1>8. ASSUME NEW c \in Children, Expires(c) PROVE SmokeInv'
  <2>0. /\ script # << >> /\ Head(script) # "finally" /\ Head(script) # "callerwait" /\ c # "caller"
        /\ UNCHANGED <<logged, smokeExit>>
    BY <1>8, <1>h DEF Expires
  <2>1. CASE c = "callee"
    <3>1. Thrown(<<"finally">>) /\ children' = children BY <1>8, <2>1 DEF Expires
    <3> QED BY <1>0, <1>i, <2>0, <3>1, Shapes DEF Thrown
  <2>2. CASE c # "callee"
    <3>0. Verdicts("failed") /\ children' = [children EXCEPT ![c] = "none"] BY <1>8, <2>2 DEF Expires
    <3>1. Going BY <2>0, <3>0 DEF Verdicts
    <3>2. checks' = checks \cup {"failed"} /\ mishap' \in BOOLEAN /\ raised' = raised
      BY <1>0, <3>0 DEF Verdicts
    <3>3. /\ DOMAIN children' = Children /\ children' = [d \in Children |-> children'[d]]
          /\ children'["caller"] = children["caller"]
      BY <2>0, <3>0, <1>e
    <3> HIDE DEF Going
    <3> QED BY <1>0, <1>i, <1>g, <2>0, <3>1, <3>2, <3>3
  <2> QED BY <2>1, <2>2
<1>9. ASSUME NEW c \in Children, ChildEnds(c) PROVE SmokeInv'
  <2>1. /\ children[c] = "running"
        /\ UNCHANGED <<setup, script, checks, raised, mishap, logged, smokeExit>>
    BY <1>9 DEF ChildEnds
  <2>2. PICK end \in {"zero", "bad"} : children' = [children EXCEPT ![c] = end] BY <1>9 DEF ChildEnds
  <2>3. /\ DOMAIN children' = Children /\ children' = [d \in Children |-> children'[d]]
        /\ (c # "caller" => children'["caller"] = children["caller"])
    BY <2>2, <1>e
  <2>4. smokeExit # "0" BY <1>0, <2>1 DEF NoChildren
  <2>5. c = "caller" => children["caller"] # "none" BY <2>1
  <2> QED BY <1>0, <1>i, <2>1, <2>3, <2>4, <2>5
<1>10. CASE UNCHANGED smokeVars
  BY <1>10 DEF SmokeInv, SmokeTruthful, smokeVars
<1> QED BY <1>1, <1>2, <1>3, <1>4, <1>5, <1>6, <1>7, <1>8, <1>9, <1>10 DEF SmokeNext, SmokeSteps

LEMMA SmokeTells == SmokeSpec => []SmokeTruthful
<1>1. SmokeInv => SmokeTruthful BY DEF SmokeInv
<1> QED BY <1>1, SmokeInvInit, SmokeInvNext, PTL DEF SmokeSpec

(***************************************************************************)
(* run_dual_realm_profile.py                                               *)
(***************************************************************************)

DualStages ==
  {"scenarios", "configure", "down", "up", "register", "uas", "srtp", "uac", "rtcp",
   "uacwait", "srtpwait", "rtcpwait", "uaswait"}
Merging == <<"merge", "validate", "cleanup", "results">>
Validating == <<"validate", "cleanup", "results">>
Cleaning == <<"cleanup", "results">>
Resulting == <<"results">>

\* The plan while the try block runs, and after the finally block.
Trying(s) == Leads(s, DualStages, Closing)
TornDown == {Merging, Validating, Cleaning, Resulting, << >>}

DualInv ==
  /\ Trying(ahead) \/ ahead \in TornDown
  /\ results \subseteq {"passed", "failed"} /\ failure \in BOOLEAN /\ faults \in BOOLEAN
  /\ failure \/ faults => "failed" \in results
  /\ DOMAIN clients = Clients /\ clients = [c \in Clients |-> clients[c]]
  /\ ahead \in TornDown /\ "failed" \notin results => clients = NoClients
  /\ code \in {"none", "0", "1"}
  /\ code = "none" => written = {}
  /\ code # "none" => ahead = << >> /\ written = results /\ code = ExitCode(failure, results)

LEMMA DualInvTells == DualInv => DualTruthful
<1> SUFFICES ASSUME DualInv, code = "0" PROVE ~faults /\ "failed" \notin written /\ clients = NoClients
  BY DEF DualTruthful
<1>1. ahead = << >> /\ written = results /\ "failed" \notin results
  BY DEF DualInv, ExitCode
<1>2. ahead \in TornDown BY <1>1 DEF TornDown
<1> QED BY <1>1, <1>2 DEF DualInv

LEMMA Plans ==
  /\ Closing # << >> /\ Head(Closing) = "teardown" /\ Tail(Closing) = Merging
  /\ Merging # << >> /\ Head(Merging) = "merge" /\ Tail(Merging) = Validating
  /\ Validating # << >> /\ Head(Validating) = "validate" /\ Tail(Validating) = Cleaning
  /\ Cleaning # << >> /\ Head(Cleaning) = "cleanup" /\ Tail(Cleaning) = Resulting
  /\ Resulting # << >> /\ Head(Resulting) = "results" /\ Tail(Resulting) = << >>
<1>1. Closing # << >> /\ Head(Closing) = "teardown" /\ Tail(Closing) = Merging BY DEF Closing, Merging
<1>2. Merging # << >> /\ Head(Merging) = "merge" /\ Tail(Merging) = Validating BY DEF Merging, Validating
<1>3. Validating # << >> /\ Head(Validating) = "validate" /\ Tail(Validating) = Cleaning
  BY DEF Validating, Cleaning
<1>4. Cleaning # << >> /\ Head(Cleaning) = "cleanup" /\ Tail(Cleaning) = Resulting BY DEF Cleaning, Resulting
<1>5. Resulting # << >> /\ Head(Resulting) = "results" /\ Tail(Resulting) = << >> BY DEF Resulting
<1> QED BY <1>1, <1>2, <1>3, <1>4, <1>5

LEMMA ClosingIs == Closing \in Seq({"teardown", "merge", "validate", "cleanup", "results"})
BY DEF Closing

\* A plan of the try block, and what follows a step of it.
LEMMA TryingIs ==
  ASSUME NEW s, Trying(s)
  PROVE  /\ s # << >> /\ s \notin TornDown
         /\ \/ s = Closing
            \/ Head(s) \in DualStages /\ Trying(Tail(s))
<1>1. s # << >> /\ (s = Closing \/ (Head(s) \in DualStages /\ Trying(Tail(s))))
  BY ClosingIs, Plans, LeadsOn DEF Trying
<1>2. s # << >> /\ (Head(s) = "teardown" \/ Head(s) \in DualStages) BY <1>1, Plans
<1>3. s \notin TornDown
  <2>1. SUFFICES ASSUME s \in TornDown PROVE FALSE OBVIOUS
  <2>2. Head(s) \in {"merge", "validate", "cleanup", "results"} BY <1>2, <2>1, Plans, Zenon DEF TornDown
  <2> QED BY <1>2, <2>2 DEF DualStages
<1> QED BY <1>1, <1>3

\* The plan is known from its first stage.
LEMMA AheadIs ==
  ASSUME DualInv, ahead # << >>
  PROVE  /\ Head(ahead) \in DualStages => Trying(ahead) /\ Trying(Tail(ahead))
         /\ Head(ahead) = "teardown" => ahead = Closing
         /\ Head(ahead) = "merge" => ahead = Merging
         /\ Head(ahead) = "validate" => ahead = Validating
         /\ Head(ahead) = "cleanup" => ahead = Cleaning
         /\ Head(ahead) = "results" => ahead = Resulting
<1>1. CASE Trying(ahead)
  <2>1. ahead = Closing \/ (Head(ahead) \in DualStages /\ Trying(Tail(ahead))) BY <1>1, TryingIs
  <2> QED BY <1>1, <2>1, Plans DEF DualStages
<1>2. CASE ahead \in TornDown
  <2>1. ahead = Merging \/ ahead = Validating \/ ahead = Cleaning \/ ahead = Resulting
    BY <1>2, Zenon DEF TornDown
  <2> QED BY <2>1, Plans DEF DualStages
<1> QED BY <1>1, <1>2 DEF DualInv

LEMMA MainTries == ASSUME NEW p PROVE Trying(Main(p))
<1> DEFINE a1 == <<"scenarios", "configure", "down", "up">>
           a2 == When(p.callee, <<"register">>)
           a3 == When(p.uas, <<"uas">>)
           a4 == When(p.caller, <<"register">>)
           a5 == When(p.call /\ p.srtp, <<"srtp">>)
           a6 == When(p.call, <<"uac">>)
           a7 == When(p.call /\ p.rtcp, <<"rtcp">>)
           a8 == When(p.call, <<"uacwait">>)
           a9 == When(p.call /\ p.srtp, <<"srtpwait">>)
           a10 == When(p.call /\ p.rtcp, <<"rtcpwait">>)
           a11 == When(p.uas, <<"uaswait">>)
<1>0. \A f : \A x \in DualStages : When(f, <<x>>) \in Seq(DualStages)
  BY OneStep, EmptySeq DEF When
<1>1. a1 \in Seq(DualStages) BY DEF DualStages
<1>2. /\ "register" \in DualStages /\ "uas" \in DualStages /\ "srtp" \in DualStages /\ "uac" \in DualStages
      /\ "rtcp" \in DualStages /\ "uacwait" \in DualStages /\ "srtpwait" \in DualStages
      /\ "rtcpwait" \in DualStages /\ "uaswait" \in DualStages
  BY DEF DualStages
<1>3. /\ a2 \in Seq(DualStages) /\ a3 \in Seq(DualStages) /\ a4 \in Seq(DualStages)
      /\ a5 \in Seq(DualStages) /\ a6 \in Seq(DualStages) /\ a7 \in Seq(DualStages)
      /\ a8 \in Seq(DualStages) /\ a9 \in Seq(DualStages) /\ a10 \in Seq(DualStages)
      /\ a11 \in Seq(DualStages)
  BY <1>0, <1>2
<1>4. Main(p) = a1 \o a2 \o a3 \o a4 \o a5 \o a6 \o a7 \o a8 \o a9 \o a10 \o a11 \o Closing BY DEF Main
<1> HIDE DEF a1, a2, a3, a4, a5, a6, a7, a8, a9, a10, a11
<1>5. \A s, t \in Seq(DualStages) : s \o t \in Seq(DualStages) BY ConcatProperties
<1>6. a1 \o a2 \o a3 \o a4 \o a5 \o a6 \o a7 \o a8 \o a9 \o a10 \o a11 \in Seq(DualStages)
  BY <1>1, <1>3, <1>5
<1> QED BY <1>4, <1>6 DEF Trying, Leads

LEMMA NoteKeeps ==
  ASSUME NEW v \in {"passed", "failed"}, Note(v), results \subseteq {"passed", "failed"},
         failure \in BOOLEAN, faults \in BOOLEAN, failure \/ faults => "failed" \in results
  PROVE  /\ results' \subseteq {"passed", "failed"} /\ failure' \in BOOLEAN /\ faults' \in BOOLEAN
         /\ failure' \/ faults' => "failed" \in results'
         /\ results \subseteq results'
<1>1. /\ results' = results \cup {v} /\ failure' = failure /\ faults' = (faults \/ v = "failed")
  BY DEF Note
<1>2. results' \subseteq {"passed", "failed"} /\ results \subseteq results' BY <1>1
<1>3. failure' \in BOOLEAN BY <1>1
<1>4. CASE v = "failed"
  <2>1. "failed" \in results' BY <1>1, <1>4
  <2>2. faults' \in BOOLEAN BY <1>1, <1>4
  <2> QED BY <1>2, <1>3, <2>1, <2>2
<1>5. CASE v # "failed"
  <2>1. faults' = faults BY <1>1, <1>5
  <2> QED BY <1>1, <1>2, <1>3, <2>1
<1> QED BY <1>4, <1>5

\* What the validations add.
Found(found) ==
  /\ results' = results \cup found /\ faults' = (faults \/ "failed" \in found)
  /\ failure' = failure \/ (failure' = TRUE /\ "failed" \in found)

LEMMA DualKept ==
  ASSUME DualInv, DualStep
  PROVE  DualInv'
<1>0. /\ Trying(ahead) \/ ahead \in TornDown
      /\ results \subseteq {"passed", "failed"} /\ failure \in BOOLEAN /\ faults \in BOOLEAN
      /\ failure \/ faults => "failed" \in results
      /\ DOMAIN clients = Clients /\ clients = [c \in Clients |-> clients[c]]
      /\ ahead \in TornDown /\ "failed" \notin results => clients = NoClients
      /\ code = "none" => written = {}
      /\ code \in {"none", "0", "1"}
      /\ code # "none" => ahead = << >>
  BY DEF DualInv
<1>1. Trying(Closing) BY ClosingIs, LeadsHere DEF Trying
<1>e. \A v : \A c \in Clients : LET h == [clients EXCEPT ![c] = v] IN
        DOMAIN h = Clients /\ h = [d \in Clients |-> h[d]]
  BY <1>0
\* A step of the try block, or one that raises there.
<1>2. ASSUME ahead # << >>, Head(ahead) \in DualStages, Same,
             DOMAIN clients' = Clients, clients' = [c \in Clients |-> clients'[c]],
             Done \/ (\E v \in {"passed", "failed"} : Note(v)) \/ Caught
      PROVE  DualInv'
  <2>1. code' = "none" /\ written' = {} BY <1>0, <1>2 DEF Same
  <2>2. Trying(ahead') /\ ahead' \notin TornDown
    <3>1. Trying(Tail(ahead)) BY <1>2, AheadIs
    <3>2. ahead' = Tail(ahead) \/ ahead' = Closing BY <1>2 DEF Done, Note, Caught
    <3>3. Trying(ahead') BY <1>1, <3>1, <3>2
    <3> QED BY <3>3, TryingIs
  <2>4. /\ results' \subseteq {"passed", "failed"} /\ failure' \in BOOLEAN /\ faults' \in BOOLEAN
        /\ failure' \/ faults' => "failed" \in results'
    <3>1. CASE Done BY <1>0, <3>1 DEF Done
    <3>2. ASSUME NEW v \in {"passed", "failed"}, Note(v)
          PROVE  /\ results' \subseteq {"passed", "failed"} /\ failure' \in BOOLEAN /\ faults' \in BOOLEAN
                 /\ failure' \/ faults' => "failed" \in results'
      BY <1>0, <3>2, NoteKeeps
    <3>3. CASE Caught BY <1>0, <3>3 DEF Caught
    <3> QED BY <1>2, <3>1, <3>2, <3>3
  <2> QED BY <1>2, <2>1, <2>2, <2>4 DEF DualInv
\* A step after it.
<1>3. ASSUME ahead # << >>, Head(ahead) \in DualStages => FALSE, ahead' = Tail(ahead), Same,
             DOMAIN clients' = Clients, clients' = [c \in Clients |-> clients'[c]],
             Done \/ (\E v \in {"passed", "failed"} : Note(v)) \/ (\E found \in SUBSET {"passed", "failed"} : Found(found))
             \/ (faults' = TRUE /\ failure' = TRUE /\ results' = results \cup IF failure /\ ahead = Merging THEN {} ELSE {"failed"}),
             ahead # Closing => clients' = clients,
             ahead = Closing => clients' = NoClients \/ "failed" \in results',
             ahead # Resulting
      PROVE  DualInv'
  <2>1. code' = "none" /\ written' = {} BY <1>0, <1>3 DEF Same
  <2>2. ahead = Closing \/ ahead = Merging \/ ahead = Validating \/ ahead = Cleaning
    <3>1. CASE Trying(ahead) BY <1>3, <3>1, TryingIs
    <3>2. CASE ahead \in TornDown BY <1>3, <3>2, Zenon DEF TornDown
    <3> QED BY <1>0, <3>1, <3>2
  <2>3. ahead' = Merging \/ ahead' = Validating \/ ahead' = Cleaning \/ ahead' = Resulting
    BY <1>3, <2>2, Plans
  <2>4. ahead' \in TornDown BY <2>3, Zenon DEF TornDown
  <2>5. /\ results' \subseteq {"passed", "failed"} /\ failure' \in BOOLEAN /\ faults' \in BOOLEAN
        /\ failure' \/ faults' => "failed" \in results' 
        /\ results \subseteq results'
    <3>1. CASE Done BY <1>0, <3>1 DEF Done
    <3>2. ASSUME NEW v \in {"passed", "failed"}, Note(v)
          PROVE  /\ results' \subseteq {"passed", "failed"} /\ failure' \in BOOLEAN /\ faults' \in BOOLEAN
                 /\ failure' \/ faults' => "failed" \in results'
                 /\ results \subseteq results'
      BY <1>0, <3>2, NoteKeeps
    <3>3. CASE faults' = TRUE /\ failure' = TRUE /\ results' = results \cup IF failure /\ ahead = Merging THEN {} ELSE {"failed"}
      BY <1>0, <3>3
    <3>4. ASSUME NEW found \in SUBSET {"passed", "failed"}, Found(found)
          PROVE  /\ results' \subseteq {"passed", "failed"} /\ failure' \in BOOLEAN /\ faults' \in BOOLEAN
                 /\ failure' \/ faults' => "failed" \in results'
                 /\ results \subseteq results'
      <4>1. /\ results' = results \cup found /\ found \subseteq {"passed", "failed"}
            /\ failure' = failure \/ (failure' = TRUE /\ "failed" \in found)
        BY <3>4 DEF Found
      <4>2. faults' \in BOOLEAN /\ (faults' => faults \/ "failed" \in found) BY <1>0, <3>4 DEF Found
      <4>3. results' \subseteq {"passed", "failed"} /\ results \subseteq results' BY <1>0, <4>1
      <4>4. failure' \in BOOLEAN /\ (failure' => failure \/ "failed" \in found)
        <5>1. CASE failure' = failure BY <1>0, <5>1
        <5>2. CASE failure' = TRUE /\ "failed" \in found BY <5>2
        <5> QED BY <4>1, <5>1, <5>2
      <4> QED BY <1>0, <4>1, <4>2, <4>3, <4>4
    <3> QED BY <1>3, <3>1, <3>2, <3>3, <3>4
  <2>6. "failed" \notin results' => clients' = NoClients
    <3>1. SUFFICES ASSUME "failed" \notin results' PROVE clients' = NoClients OBVIOUS
    <3>2. CASE ahead = Closing BY <1>3, <3>1, <3>2
    <3>3. CASE ahead # Closing
      <4>1. ahead \in TornDown BY <2>2, <3>3, Zenon DEF TornDown
      <4> QED BY <1>0, <1>3, <2>5, <3>1, <3>3, <4>1
    <3> QED BY <3>2, <3>3
  <2> QED BY <1>3, <2>1, <2>4, <2>5, <2>6 DEF DualInv
<1>h. /\ Head(Closing) \notin DualStages /\ Head(Merging) \notin DualStages
      /\ Head(Validating) \notin DualStages /\ Head(Cleaning) \notin DualStages
      /\ Closing # Merging /\ Closing # Validating
      /\ Closing # Resulting /\ Merging # Resulting /\ Validating # Resulting /\ Cleaning # Resulting
      /\ Cleaning # Closing /\ Cleaning # Merging
  <2>1. /\ Head(Closing) = "teardown" /\ Head(Merging) = "merge" /\ Head(Validating) = "validate"
        /\ Head(Cleaning) = "cleanup" /\ Head(Resulting) = "results"
    BY Plans
  <2>2. /\ Head(Closing) \notin DualStages /\ Head(Merging) \notin DualStages
        /\ Head(Validating) \notin DualStages /\ Head(Cleaning) \notin DualStages
    BY <2>1 DEF DualStages
  <2> QED BY <2>1, <2>2
<1>4. CASE Scenarios
  BY <1>0, <1>2, <1>4 DEF Scenarios, Ran, DualStages
<1>5. CASE Configure BY <1>0, <1>2, <1>5 DEF Configure, Ran, DualStages
<1>6. CASE Down BY <1>0, <1>2, <1>6 DEF Down, Ran, DualStages
<1>7. CASE Up BY <1>0, <1>2, <1>7 DEF Up, Ran, DualStages
<1>8. CASE RegisterUser
  <2>1. ahead # << >> /\ Head(ahead) \in DualStages /\ Same /\ clients' = clients
    BY <1>8 DEF RegisterUser, Ran, DualStages
  <2>2. \E v \in {"passed", "failed"} : Note(v) BY <1>8 DEF RegisterUser
  <2> QED BY <1>0, <1>2, <2>1, <2>2
<1>9. ASSUME NEW c \in Clients, StartClient(c) PROVE DualInv'
  <2>1. ahead # << >> /\ Head(ahead) \in DualStages /\ Same
    BY <1>9 DEF StartClient, Ran, DualStages, Clients
  <2>2. Done \/ Caught BY <1>9 DEF StartClient
  <2>3. clients' = clients \/ clients' = [clients EXCEPT ![c] = "running"] BY <1>9 DEF StartClient
  <2>4. DOMAIN clients' = Clients /\ clients' = [d \in Clients |-> clients'[d]] BY <1>0, <1>e, <2>3
  <2> QED BY <1>2, <2>1, <2>2, <2>4
<1>10. ASSUME NEW s \in DualStages, NEW c \in Clients, WaitFor(s, c) PROVE DualInv'
  <2>1. ahead # << >> /\ Head(ahead) \in DualStages /\ Same
    BY <1>10 DEF WaitFor, WaitEnded, WaitExpires, Ran
  <2>2. (\E v \in {"passed", "failed"} : Note(v)) \/ Caught
    BY <1>10 DEF WaitFor, WaitEnded, WaitExpires, StatusOf
  <2>3. clients' = clients \/ clients' = [clients EXCEPT ![c] = "none"]
    BY <1>10 DEF WaitFor, WaitEnded, WaitExpires
  <2>4. DOMAIN clients' = Clients /\ clients' = [d \in Clients |-> clients'[d]] BY <1>0, <1>e, <2>3
  <2> QED BY <1>2, <2>1, <2>2, <2>4
<1>11. CASE WaitForClients
  <2>1. /\ "uacwait" \in DualStages /\ "srtpwait" \in DualStages /\ "rtcpwait" \in DualStages
        /\ "uaswait" \in DualStages
        /\ "uac" \in Clients /\ "srtp" \in Clients /\ "rtcp" \in Clients /\ "uas" \in Clients
    BY DEF DualStages, Clients
  <2> QED BY <1>10, <1>11, <2>1 DEF WaitForClients
<1>12. CASE TeardownDual
  <2>1. ahead = Closing /\ ahead # << >> BY <1>12, AheadIs DEF TeardownDual, Ran
  <2>2. ahead' = Tail(ahead) /\ Same BY <1>12 DEF TeardownDual, Done
  <2>3. \/ Done /\ clients' = NoClients
        \/ /\ failure' = TRUE /\ faults' = TRUE /\ clients' = clients
           /\ results' = results \cup IF failure /\ ahead = Merging THEN {} ELSE {"failed"}
    BY <1>12, <1>h, <2>1 DEF TeardownDual
  <2>4. DOMAIN NoClients = Clients /\ NoClients = [c \in Clients |-> NoClients[c]] BY DEF NoClients
  <2>5. ~(Head(ahead) \in DualStages) /\ ahead # Resulting BY <1>h, <2>1
  <2>6. clients' = NoClients \/ "failed" \in results' BY <1>h, <2>1, <2>3
  <2> QED BY <1>0, <1>3, <2>1, <2>2, <2>3, <2>4, <2>5, <2>6
<1>13. CASE Merge
  <2>1. ahead = Merging /\ ahead # << >> BY <1>13, AheadIs DEF Merge, Ran
  <2>2. ahead' = Tail(ahead) /\ Same /\ clients' = clients BY <1>13 DEF Merge, Done
  <2>3. \/ Done
        \/ /\ failure' = TRUE /\ faults' = TRUE
           /\ results' = results \cup IF failure /\ ahead = Merging THEN {} ELSE {"failed"}
    BY <1>13, <2>1 DEF Merge
  <2>5. ~(Head(ahead) \in DualStages) /\ ahead # Resulting /\ ahead # Closing
    BY <1>h, <2>1
  <2> QED BY <1>0, <1>3, <2>1, <2>2, <2>3, <2>5
<1>14. CASE Validate
  <2>1. ahead = Validating /\ ahead # << >> BY <1>14, AheadIs DEF Validate, Ran
  <2>2. ahead' = Tail(ahead) /\ Same /\ clients' = clients BY <1>14 DEF Validate
  <2>3. \E found \in SUBSET {"passed", "failed"} : Found(found) BY <1>14 DEF Validate, Found
  <2>5. ~(Head(ahead) \in DualStages) /\ ahead # Resulting /\ ahead # Closing
    BY <1>h, <2>1
  <2> QED BY <1>0, <1>3, <2>1, <2>2, <2>3, <2>5
<1>15. CASE CleanWork
  <2>1. ahead = Cleaning /\ ahead # << >> BY <1>15, AheadIs DEF CleanWork, Ran
  <2>2. ahead' = Tail(ahead) /\ Same /\ clients' = clients BY <1>15 DEF CleanWork, Note, Done
  <2>3. Done \/ \E v \in {"passed", "failed"} : Note(v) BY <1>15 DEF CleanWork
  <2>5. ~(Head(ahead) \in DualStages) /\ ahead # Resulting /\ ahead # Closing
    BY <1>h, <2>1
  <2> QED BY <1>0, <1>3, <2>1, <2>2, <2>3, <2>5
<1>16. CASE AppendResults
  <2>1. ahead = Resulting /\ ahead # << >> BY <1>16, AheadIs DEF AppendResults, Ran
  <2>2. /\ ahead' = << >> /\ UNCHANGED <<results, failure, faults, clients>>
        /\ written' = results /\ code' = ExitCode(failure, results)
    BY <1>16, <2>1, Plans DEF AppendResults, Done
  <2>3. ahead \in TornDown /\ ahead' \in TornDown BY <2>1, <2>2, Zenon DEF TornDown
  <2>5. code' \in {"0", "1"} BY <2>2 DEF ExitCode
  <2>6. code' # "none" BY <2>5
  <2>8. code' \in {"none", "0", "1"} BY <2>5
  <2>9. code' = ExitCode(failure', results') /\ written' = results' BY <2>2
  <2> QED BY <1>0, <2>2, <2>3, <2>6, <2>8, <2>9 DEF DualInv
<1>17. ASSUME NEW c \in Clients, ClientEnds(c) PROVE DualInv'
  <2>1. clients[c] = "running" /\ UNCHANGED <<ahead, results, failure, faults, written, code>>
    BY <1>17 DEF ClientEnds, mainVars
  <2>2. clients # NoClients BY <2>1 DEF NoClients
  <2>3. PICK v \in {"zero", "bad"} : clients' = [clients EXCEPT ![c] = v] BY <1>17 DEF ClientEnds
  <2>4. DOMAIN clients' = Clients /\ clients' = [d \in Clients |-> clients'[d]] BY <1>e, <2>3
  <2> QED BY <1>0, <2>1, <2>2, <2>4 DEF DualInv
<1> QED BY <1>4, <1>5, <1>6, <1>7, <1>8, <1>9, <1>11, <1>12, <1>13, <1>14, <1>15, <1>16, <1>17 DEF DualStep

LEMMA DualStarts ==
  ASSUME DualInv, NEW p, StartDual(p), clients' = clients
  PROVE  DualInv'
<1>1. Trying(ahead') /\ ahead' \notin TornDown
  <2>1. Trying(Main(p)) BY MainTries
  <2> QED BY <2>1, TryingIs DEF StartDual
<1> QED BY <1>1 DEF DualInv, StartDual

LEMMA DualGone ==
  ASSUME GoneDual
  PROVE  DualInv'
<1>1. << >> \in TornDown BY Zenon DEF TornDown
<1>2. DOMAIN NoClients = Clients /\ NoClients = [c \in Clients |-> NoClients[c]] BY DEF NoClients
<1> QED BY <1>1, <1>2 DEF DualInv, GoneDual

LEMMA DualBegins ==
  ASSUME DualInit
  PROVE  DualInv
<1>1. << >> \in TornDown BY Zenon DEF TornDown
<1>2. DOMAIN NoClients = Clients /\ NoClients = [c \in Clients |-> NoClients[c]] BY DEF NoClients
<1> QED BY <1>1, <1>2 DEF DualInv, DualInit

(***************************************************************************)
(* run_regression_suite.py                                                 *)
(***************************************************************************)

\* The number of runs that have ended.
Past == Len(RunIds) - Len(runs)

RunsOK ==
  /\ runs \in Seq(Ids) /\ Len(runs) <= Len(RunIds)
  /\ \A i \in 1 .. Len(runs) : runs[i] = RunIds[Past + i]
  /\ stage # "idle" => runs # << >> /\ suiteExit = "none"

Awaits(n) == \E i \in DOMAIN pending : pending[i] = n
PendingOK ==
  /\ pending \in Seq(Names)
  /\ stage \in {"bundles", "reports", "smoke"} => pending = Profiles

\* While a profile runs, its bundle is the one of the head of pending.
BundleOK ==
  /\ DualInv
  /\ ahead # << >> \/ code # "none" =>
       /\ stage = "profile" /\ pending # << >>
       /\ Bundle \in DOMAIN bundles /\ bundles[Bundle] = written
       /\ Bundle \in DOMAIN outcomes /\ outcomes[Bundle] = code

\* What a row says of the profile n of the run id.
Told(rs, out, id, n) ==
  /\ n \in DOMAIN rs /\ rs[n] \in {"passed", "failed"}
  /\ rs[n] = "passed" => <<id, n>> \in DOMAIN out /\ out[<<id, n>>] = "0"

RowsOK == stage = "profile" => \A n \in Names : Awaits(n) \/ Told(table, outcomes, Id, n)
ExitOK == suiteExit = "0" => \A n \in Names : table[n] = "passed" /\ outcomes[<<LastId, n>>] = "0"

SuiteInv == RunsOK /\ PendingOK /\ BundleOK /\ RowsOK /\ ExitOK

LEMMA RowStatusIs ==
  ASSUME NEW statuses, statuses \subseteq {"passed", "failed"}, NEW end
  PROVE  /\ RowStatus(statuses, end) \in {"passed", "failed"}
         /\ RowStatus(statuses, end) = "passed" => end = "0"
<1>1. Summary(statuses) \in {"unknown", "failed", "passed"} BY DEF Summary
<1> QED BY <1>1 DEF RowStatus

LEMMA PendingIs ==
  ASSUME PendingOK, pending # << >>
  PROVE  /\ Head(pending) \in Names /\ Tail(pending) \in Seq(Names)
         /\ \A n : Awaits(n) => n = Head(pending) \/ \E i \in DOMAIN Tail(pending) : Tail(pending)[i] = n
<1>1. pending \in Seq(Names) BY DEF PendingOK
<1> DEFINE t == Tail(pending)
<1>2. /\ Head(pending) \in Names /\ t \in Seq(Names) /\ Len(t) = Len(pending) - 1
      /\ \A i \in 1 .. Len(t) : t[i] = pending[i + 1]
  BY <1>1, HeadTailProperties
<1>3. Head(pending) = pending[1] /\ Len(pending) \in Nat /\ Len(pending) > 0
      /\ DOMAIN pending = 1 .. Len(pending) /\ DOMAIN t = 1 .. Len(t)
  BY <1>1, <1>2
<1> HIDE DEF t
<1>4. ASSUME NEW n, NEW i \in DOMAIN pending, pending[i] = n, n # Head(pending)
      PROVE  \E j \in DOMAIN t : t[j] = n
  <2>1. i \in 2 .. Len(pending) BY <1>3, <1>4
  <2>2. i - 1 \in DOMAIN t /\ t[i - 1] = pending[(i - 1) + 1] BY <1>2, <1>3, <2>1
  <2>3. (i - 1) + 1 = i BY <2>1
  <2> QED BY <1>4, <2>2, <2>3
<1> QED BY <1>2, <1>4 DEF Awaits, t

LEMMA RunsIs ==
  ASSUME RunsOK, runs # << >>
  PROVE  /\ Past \in Nat /\ Past + 1 \in 1 .. Len(RunIds) /\ Id = RunIds[Past + 1] /\ Id \in Ids
         /\ \A h : h = Tail(runs) => /\ h \in Seq(Ids) /\ Len(h) <= Len(RunIds)
                                     /\ Len(RunIds) - Len(h) = Past + 1
                                     /\ \A i \in 1 .. Len(h) : h[i] = RunIds[Past + 1 + i]
<1>1. runs \in Seq(Ids) /\ Len(runs) <= Len(RunIds) /\ \A i \in 1 .. Len(runs) : runs[i] = RunIds[Past + i]
  BY DEF RunsOK
<1>2. Len(RunIds) \in Nat /\ Len(runs) \in Nat /\ Len(runs) > 0 /\ Head(runs) = runs[1] /\ Head(runs) \in Ids
  BY <1>1, SuiteAssumption
<1>3. Past \in Nat /\ Past + 1 \in 1 .. Len(RunIds) BY <1>1, <1>2 DEF Past
<1>4. ASSUME NEW h, h = Tail(runs)
      PROVE  /\ h \in Seq(Ids) /\ Len(h) <= Len(RunIds)
             /\ Len(RunIds) - Len(h) = Past + 1
             /\ \A i \in 1 .. Len(h) : h[i] = RunIds[Past + 1 + i]
  <2>1. h \in Seq(Ids) /\ Len(h) = Len(runs) - 1 /\ \A i \in 1 .. Len(h) : h[i] = runs[i + 1]
    BY <1>1, <1>4, HeadTailProperties
  <2>2. Len(h) <= Len(RunIds) /\ Len(RunIds) - Len(h) = Past + 1 BY <1>1, <1>2, <2>1 DEF Past
  <2>3. ASSUME NEW i \in 1 .. Len(h) PROVE h[i] = RunIds[Past + 1 + i]
    <3>1. i + 1 \in 1 .. Len(runs) BY <1>2, <2>1, <2>3
    <3>2. h[i] = RunIds[Past + (i + 1)] BY <1>1, <2>1, <3>1
    <3>3. Past + (i + 1) = Past + 1 + i BY <1>3, <2>3
    <3> QED BY <3>2, <3>3
  <2> QED BY <2>1, <2>2, <2>3
<1>5. Id = RunIds[Past + 1] BY <1>1, <1>2 DEF Id
<1> QED BY <1>2, <1>3, <1>4, <1>5 DEF Id

LEMMA NextRunIs ==
  ASSUME RunsOK, runs # << >>, NEW e, NextRun(e)
  PROVE  RunsOK' /\ LastId' = Id /\ Past' = Past + 1
<1>1. /\ runs' \in Seq(Ids) /\ Len(runs') <= Len(RunIds) /\ Len(RunIds) - Len(runs') = Past + 1
      /\ \A i \in 1 .. Len(runs') : runs'[i] = RunIds[Past + 1 + i]
  BY RunsIs DEF NextRun
<1>2. Past' = Past + 1 BY <1>1 DEF Past
<1>3. LastId' = Id
  <2>1. LastId' = RunIds[Past + 1] BY <1>1 DEF LastId
  <2> QED BY <2>1, RunsIs
<1>4. stage' = "idle" BY DEF NextRun
<1> QED BY <1>1, <1>2, <1>3, <1>4 DEF RunsOK

LEMMA SuiteBegins == SuiteInit => SuiteInv
<1> SUFFICES ASSUME SuiteInit PROVE SuiteInv OBVIOUS
<1>1. /\ DualInit /\ runs = RunIds /\ stage = "idle" /\ pending = << >> /\ suiteExit = "none"
  BY DEF SuiteInit
<1>2. RunsOK
  <2>1. Past = 0 BY <1>1, SuiteAssumption DEF Past
  <2>2. Len(RunIds) \in Nat /\ \A i \in 1 .. Len(RunIds) : 0 + i = i BY SuiteAssumption
  <2> QED BY <1>1, <2>1, <2>2, SuiteAssumption DEF RunsOK
<1>3. ahead = << >> /\ code = "none" BY <1>1 DEF DualInit
<1>4. BundleOK BY <1>1, <1>3, DualBegins DEF BundleOK
<1>5. PendingOK BY <1>1, EmptySeq DEF PendingOK
<1> QED BY <1>1, <1>2, <1>4, <1>5 DEF SuiteInv, RowsOK, ExitOK

\* Steps that leave the process of a profile as it is while none runs.
LEMMA NoProfile ==
  ASSUME BundleOK, ahead = << >>, code = "none", UNCHANGED dualVars
  PROVE  BundleOK'
<1>1. UNCHANGED <<ahead, results, failure, faults, clients, written, code>> BY DEF dualVars, mainVars
<1>2. DualInv' BY <1>1 DEF BundleOK, DualInv
<1> QED BY <1>1, <1>2 DEF BundleOK

LEMMA Idles ==
  ASSUME BundleOK, stage # "profile" \/ pending = << >>
  PROVE  ahead = << >> /\ code = "none"
BY DEF BundleOK

LEMMA SuiteKept == SuiteInv /\ [SuiteNext]_suiteVars => SuiteInv'
<1> SUFFICES ASSUME SuiteInv, [SuiteNext]_suiteVars PROVE SuiteInv' OBVIOUS
<1>0. RunsOK /\ PendingOK /\ BundleOK /\ RowsOK /\ ExitOK BY DEF SuiteInv
\* The first stages of a run.
<1>1. ASSUME stage \in {"bundles", "reports"}, stage' \in {"reports", "smoke"},
             UNCHANGED <<runs, pending, table, outcomes, suiteExit>>, UNCHANGED dualVars
      PROVE  SuiteInv'
  <2>1. RunsOK' BY <1>0, <1>1 DEF RunsOK, Past
  <2>2. PendingOK' BY <1>0, <1>1 DEF PendingOK
  <2>3. BundleOK' BY <1>0, <1>1, Idles, NoProfile
  <2>4. suiteExit' = "none" BY <1>0, <1>1 DEF RunsOK
  <2> QED BY <1>1, <2>1, <2>2, <2>3, <2>4 DEF SuiteInv, RowsOK, ExitOK
<1>2. CASE CleanBundles BY <1>1, <1>2 DEF CleanBundles
<1>3. CASE CleanReports BY <1>1, <1>3 DEF CleanReports
<1>4. CASE RunSmokeSuite
  <2>0. /\ stage = "smoke" /\ UNCHANGED <<pending, bundles, reports, outcomes, lost>> /\ UNCHANGED dualVars
        /\ runs # << >> /\ suiteExit = "none" /\ pending = Profiles
    BY <1>0, <1>4 DEF RunSmokeSuite, RunsOK, PendingOK
  <2>1. BundleOK' BY <1>0, <2>0, Idles, NoProfile
  <2>2. PendingOK'
    <3>1. stage' \in {"profile", "idle"} BY <1>4 DEF RunSmokeSuite, NextRun
    <3> QED BY <1>0, <2>0, <3>1 DEF PendingOK
  <2>3. CASE stage' = "profile" /\ UNCHANGED <<runs, suiteExit>>
    <3>1. RunsOK' BY <1>0, <2>0, <2>3 DEF RunsOK, Past
    <3>2. \A n \in Names : Awaits(n)' BY <2>0 DEF Names, Awaits
    <3>3. RowsOK' BY <3>2 DEF RowsOK
    <3>4. ExitOK' BY <2>0, <2>3 DEF ExitOK
    <3> QED BY <2>1, <2>2, <3>1, <3>3, <3>4 DEF SuiteInv
  <2>4. CASE NextRun("raised") /\ UNCHANGED table
    <3>1. RunsOK' BY <1>0, <2>0, <2>4, NextRunIs
    <3>2. RowsOK' /\ ExitOK' BY <2>4 DEF NextRun, RowsOK, ExitOK
    <3> QED BY <2>1, <2>2, <3>1, <3>2 DEF SuiteInv
  <2> QED BY <1>4, <2>3, <2>4 DEF RunSmokeSuite
<1>5. CASE StartProfile
  <2>0. /\ stage = "profile" /\ pending # << >> /\ Bundle \notin DOMAIN bundles
        /\ StartDual(Flags[Head(pending)]) /\ clients' = clients
        /\ bundles' = With(bundles, Bundle, {}) /\ outcomes' = With(outcomes, Bundle, "none")
        /\ UNCHANGED <<runs, stage, pending, table, suiteExit>>
    BY <1>5 DEF StartProfile
  <2>1. RunsOK' BY <1>0, <2>0 DEF RunsOK, Past
  <2>2. PendingOK' BY <1>0, <2>0 DEF PendingOK
  <2>3. Bundle' = Bundle BY <2>0 DEF Bundle, Id
  <2>4. BundleOK'
    <3>1. DualInv' BY <1>0, <2>0, DualStarts DEF BundleOK
    <3>2. code' = "none" /\ written' = {} BY <2>0 DEF StartDual
    <3>3. Bundle \in DOMAIN bundles' /\ bundles'[Bundle] = {} BY <2>0 DEF With
    <3>4. Bundle \in DOMAIN outcomes' /\ outcomes'[Bundle] = "none" BY <2>0 DEF With
    <3> QED BY <2>0, <2>3, <3>1, <3>2, <3>3, <3>4 DEF BundleOK
  <2>5. RowsOK'
    <3>1. ASSUME NEW n \in Names, Told(table, outcomes, Id, n), ~Awaits(n)
          PROVE  Told(table, outcomes', Id, n)
      <4>1. n # Head(pending)
        <5>1. pending \in Seq(Names) BY <1>0 DEF PendingOK
        <5>2. 1 \in DOMAIN pending /\ Head(pending) = pending[1] BY <2>0, <5>1
        <5> QED BY <3>1, <5>2 DEF Awaits
      <4>2. <<Id, n>> # Bundle BY <4>1 DEF Bundle
      <4>3. \A k \in DOMAIN outcomes : k \in DOMAIN outcomes' /\ (k # Bundle => outcomes'[k] = outcomes[k])
        BY <2>0 DEF With
      <4> QED BY <3>1, <4>2, <4>3 DEF Told
    <3>2. \A n \in Names : Awaits(n) \/ Told(table, outcomes, Id, n) BY <1>0, <2>0 DEF RowsOK
    <3>3. \A n \in Names : Awaits(n)' \/ Told(table', outcomes', Id', n)
      BY <2>0, <3>1, <3>2 DEF Awaits, Id
    <3> QED BY <3>3 DEF RowsOK, Told
  <2>6. ExitOK'
    <3>1. suiteExit' = "none" BY <1>0, <2>0 DEF RunsOK
    <3> QED BY <3>1 DEF ExitOK
  <2> QED BY <2>1, <2>2, <2>4, <2>5, <2>6 DEF SuiteInv
\* The row of the first profile that is awaited.
<1>6. ASSUME NEW v \in {"passed", "failed"}, stage = "profile", pending # << >>,
             table' = With(table, Head(pending), v), pending' = Tail(pending),
             UNCHANGED <<runs, stage, outcomes, suiteExit>>, BundleOK',
             v = "passed" => Bundle \in DOMAIN outcomes /\ outcomes[Bundle] = "0"
      PROVE  SuiteInv'
  <2>1. RunsOK' BY <1>0, <1>6 DEF RunsOK, Past
  <2>2. PendingOK' BY <1>0, <1>6, PendingIs DEF PendingOK
  <2>3. ASSUME NEW n \in Names PROVE Awaits(n)' \/ Told(table', outcomes', Id', n)
    <3>0. outcomes' = outcomes /\ Id' = Id BY <1>6 DEF Id
    <3>1. DOMAIN table' = DOMAIN table \cup {Head(pending)} /\ table'[Head(pending)] = v
          /\ \A k \in DOMAIN table : k # Head(pending) => table'[k] = table[k]
      BY <1>6 DEF With
    <3>2. Awaits(n) => n = Head(pending) \/ Awaits(n)' BY <1>0, <1>6, PendingIs DEF Awaits
    <3>3. Awaits(n) \/ Told(table, outcomes, Id, n) BY <1>0, <1>6 DEF RowsOK
    <3>4. CASE n = Head(pending) BY <1>6, <3>0, <3>1, <3>4 DEF Told, Bundle
    <3>5. CASE n # Head(pending) BY <3>0, <3>1, <3>2, <3>3, <3>5 DEF Told
    <3> QED BY <3>4, <3>5
  <2>4. RowsOK' BY <2>3 DEF RowsOK, Told
  <2>5. suiteExit' = "none" BY <1>0, <1>6 DEF RunsOK
  <2> QED BY <1>6, <2>1, <2>2, <2>4, <2>5 DEF SuiteInv, ExitOK
<1>7. CASE Refused
  <2>0. /\ stage = "profile" /\ pending # << >> /\ ahead = << >> /\ code = "none"
        /\ table' = With(table, Head(pending), "failed") /\ pending' = Tail(pending)
        /\ UNCHANGED <<runs, stage, outcomes, suiteExit>> /\ UNCHANGED dualVars
    BY <1>7 DEF Refused
  <2>1. BundleOK' BY <1>0, <2>0, NoProfile
  <2> QED BY <1>6, <2>0, <2>1
<1>8. CASE ProfileSteps
  <2>0. /\ DualStep /\ bundles' = IF written' = written THEN bundles ELSE With(bundles, Bundle, written')
        /\ outcomes' = IF code' = code THEN outcomes ELSE With(outcomes, Bundle, code')
        /\ UNCHANGED <<runs, stage, pending, table, suiteExit>>
    BY <1>8 DEF ProfileSteps
  <2>1. DualInv' BY <1>0, <2>0, DualKept DEF BundleOK
  <2>2. (ahead' # << >> \/ code' # "none") => (ahead # << >> \/ code # "none")
    <3>1. ahead = << >> => \E c \in Clients : ClientEnds(c)
      BY <2>0 DEF DualStep, Scenarios, Configure, Down, Up, RegisterUser, StartClient, WaitForClients,
                  WaitFor, WaitEnded, WaitExpires, TeardownDual, Merge, Validate, CleanWork,
                  AppendResults, Ran
    <3> QED BY <3>1 DEF ClientEnds, mainVars
  <2>3. RunsOK' BY <1>0, <2>0 DEF RunsOK, Past
  <2>4. PendingOK' BY <1>0, <2>0 DEF PendingOK
  <2>5. /\ Bundle' = Bundle /\ Id' = Id BY <2>0 DEF Bundle, Id
  <2>6. BundleOK'
    <3>1. SUFFICES ASSUME ahead' # << >> \/ code' # "none"
                   PROVE  /\ stage' = "profile" /\ pending' # << >>
                          /\ Bundle \in DOMAIN bundles' /\ bundles'[Bundle] = written'
                          /\ Bundle \in DOMAIN outcomes' /\ outcomes'[Bundle] = code'
      BY <2>1, <2>5 DEF BundleOK
    <3>2. /\ stage = "profile" /\ pending # << >>
          /\ Bundle \in DOMAIN bundles /\ bundles[Bundle] = written
          /\ Bundle \in DOMAIN outcomes /\ outcomes[Bundle] = code
      BY <1>0, <2>2, <3>1 DEF BundleOK
    <3>3. Bundle \in DOMAIN bundles' /\ bundles'[Bundle] = written' BY <2>0, <3>2 DEF With
    <3>4. Bundle \in DOMAIN outcomes' /\ outcomes'[Bundle] = code' BY <2>0, <3>2 DEF With
    <3> QED BY <2>0, <3>2, <3>3, <3>4
  <2>7. RowsOK'
    <3>1. SUFFICES ASSUME stage' = "profile", NEW n \in Names
                   PROVE  Awaits(n)' \/ Told(table', outcomes', Id', n)
      BY DEF RowsOK, Told
    <3>2. Awaits(n) \/ Told(table, outcomes, Id, n) BY <1>0, <2>0, <3>1 DEF RowsOK
    <3>3. CASE code' = code
      <4>1. outcomes' = outcomes BY <2>0, <3>3
      <4> QED BY <2>0, <2>5, <3>2, <4>1 DEF Awaits
    <3>4. CASE code' # code
      <4>1. ahead # << >> \/ code # "none" BY <2>2, <3>4
      <4>2. pending # << >> BY <1>0, <4>1 DEF BundleOK
      <4>3. ~Awaits(n) => n # Head(pending)
        <5>1. pending \in Seq(Names) BY <1>0 DEF PendingOK
        <5>2. 1 \in DOMAIN pending /\ Head(pending) = pending[1] BY <4>2, <5>1
        <5> QED BY <5>2 DEF Awaits
      <4>4. ~Awaits(n) => <<Id, n>> # Bundle BY <4>3 DEF Bundle
      <4>5. \A k \in DOMAIN outcomes : k \in DOMAIN outcomes' /\ (k # Bundle => outcomes'[k] = outcomes[k])
        BY <2>0, <3>4 DEF With
      <4>6. ~Awaits(n) => Told(table, outcomes', Id, n) BY <3>2, <4>4, <4>5 DEF Told
      <4>7. Awaits(n) => Awaits(n)' BY <2>0 DEF Awaits
      <4> QED BY <2>0, <2>5, <4>6, <4>7
    <3> QED BY <3>3, <3>4
  <2>8. ExitOK'
    <3>1. CASE code' = code
      <4>1. outcomes' = outcomes /\ LastId' = LastId BY <2>0, <3>1 DEF LastId
      <4> QED BY <1>0, <2>0, <4>1 DEF ExitOK
    <3>2. CASE code' # code
      <4>1. ahead # << >> \/ code # "none" BY <2>2, <3>2
      <4>2. suiteExit' = "none" BY <1>0, <2>0, <4>1 DEF BundleOK, RunsOK
      <4> QED BY <4>2 DEF ExitOK
    <3> QED BY <3>1, <3>2
  <2> QED BY <2>3, <2>4, <2>6, <2>7, <2>8 DEF SuiteInv
<1>9. CASE ProfileEnded
  <2>0. /\ stage = "profile" /\ code \in {"0", "1"}
        /\ table' = With(table, Head(pending), RowStatus(written, code)) /\ pending' = Tail(pending)
        /\ GoneDual /\ UNCHANGED <<runs, stage, outcomes, suiteExit>>
    BY <1>9 DEF ProfileEnded
  <2>1. code # "none" BY <2>0
  <2>2. pending # << >> /\ Bundle \in DOMAIN outcomes /\ outcomes[Bundle] = code BY <1>0, <2>1 DEF BundleOK
  <2>3. written \subseteq {"passed", "failed"} BY <1>0, <2>1 DEF BundleOK, DualInv
  <2>4. RowStatus(written, code) \in {"passed", "failed"} /\ (RowStatus(written, code) = "passed" => code = "0")
    BY <2>3, RowStatusIs
  <2>5. BundleOK'
    <3>1. DualInv' BY <2>0, DualGone
    <3> QED BY <2>0, <3>1 DEF BundleOK, GoneDual
  <2> QED BY <1>6, <2>0, <2>2, <2>4, <2>5
<1>10. CASE TimeoutExpired
  <2>0. /\ stage = "profile" /\ GoneDual /\ NextRun("raised") /\ UNCHANGED <<pending, table>>
    BY <1>10 DEF TimeoutExpired
  <2>1. RunsOK' BY <1>0, <2>0, NextRunIs DEF RunsOK
  <2>2. PendingOK' BY <1>0, <2>0 DEF PendingOK, NextRun
  <2>3. BundleOK'
    <3>1. DualInv' BY <2>0, DualGone
    <3> QED BY <2>0, <3>1 DEF BundleOK, GoneDual
  <2>4. RowsOK' /\ ExitOK' BY <2>0 DEF NextRun, RowsOK, ExitOK
  <2> QED BY <2>1, <2>2, <2>3, <2>4 DEF SuiteInv
<1>11. CASE WriteReports
  <2>0. /\ stage = "profile" /\ pending = << >> /\ UNCHANGED <<pending, table, bundles, outcomes>>
        /\ NextRun(IF \A n \in DOMAIN table : table[n] = "passed" THEN "0" ELSE "1") /\ UNCHANGED dualVars
    BY <1>11 DEF WriteReports
  <2>1. RunsOK' /\ LastId' = Id BY <1>0, <2>0, NextRunIs DEF RunsOK
  <2>2. PendingOK' BY <1>0, <2>0 DEF PendingOK, NextRun
  <2>3. BundleOK' BY <1>0, <2>0, Idles, NoProfile
  <2>4. \A n \in Names : Told(table, outcomes, Id, n) BY <1>0, <2>0 DEF RowsOK, Awaits
  <2>5. ExitOK'
    <3>1. SUFFICES ASSUME suiteExit' = "0", NEW n \in Names
                   PROVE  table[n] = "passed" /\ outcomes[<<Id, n>>] = "0"
      BY <2>0, <2>1 DEF ExitOK
    <3>2. \A m \in DOMAIN table : table[m] = "passed" BY <2>0, <3>1 DEF NextRun
    <3> QED BY <2>4, <3>2 DEF Told
  <2>6. RowsOK' BY <2>0 DEF NextRun, RowsOK
  <2> QED BY <2>1, <2>2, <2>3, <2>5, <2>6 DEF SuiteInv
<1>12. CASE StartRun
  <2>0. /\ stage = "idle" /\ runs # << >> /\ stage' = "bundles" /\ pending' = Profiles /\ suiteExit' = "none"
        /\ UNCHANGED <<runs, bundles, outcomes, dualVars>>
    BY <1>12 DEF StartRun
  <2>1. RunsOK' BY <1>0, <2>0 DEF RunsOK, Past
  <2>2. PendingOK' BY <2>0, SuiteAssumption DEF PendingOK
  <2>3. BundleOK' BY <1>0, <2>0, Idles, NoProfile
  <2> QED BY <2>0, <2>1, <2>2, <2>3 DEF SuiteInv, RowsOK, ExitOK
<1>13. CASE UNCHANGED suiteVars
  <2>1. UNCHANGED <<runs, stage, pending, table, bundles, outcomes, suiteExit, dualVars>>
    BY <1>13 DEF suiteVars, suiteOnly
  <2>2. UNCHANGED <<ahead, results, failure, faults, clients, written, code>> BY <2>1 DEF dualVars, mainVars
  <2>3. BundleOK' BY <1>0, <2>1, <2>2 DEF BundleOK, DualInv, Bundle, Id
  <2>4. RunsOK' /\ PendingOK' BY <1>0, <2>1 DEF RunsOK, Past, PendingOK
  <2>5. RowsOK' /\ ExitOK' BY <1>0, <2>1 DEF RowsOK, ExitOK, Awaits, Told, Id, LastId
  <2> QED BY <2>3, <2>4, <2>5 DEF SuiteInv
<1> QED BY <1>2, <1>3, <1>4, <1>5, <1>7, <1>8, <1>9, <1>10, <1>11, <1>12, <1>13 DEF SuiteNext, SuiteSteps

LEMMA SuiteTells == SuiteSpec => []SuiteTruthful
<1>1. SuiteInv => SuiteTruthful BY DualInvTells DEF SuiteInv, SuiteTruthful, BundleOK, ExitOK
<1> QED BY <1>1, SuiteBegins, SuiteKept, PTL DEF SuiteSpec

\* No id is given to two runs.
DistinctRuns == \A i, j \in DOMAIN RunIds : RunIds[i] = RunIds[j] => i = j

\* The bundles of the suite's profiles: what their logs say is true, and what a
\* report says of them.
LogTold(log, out, b) ==
  /\ "blocked" \notin log
  /\ log # {} /\ "failed" \notin log => b \in DOMAIN out /\ out[b] = "0"
BundlesOK ==
  \A b \in DOMAIN bundles \ {SmokeBundle} :
    /\ b = <<b[1], b[2]>> /\ b[2] \in Names
    /\ LogTold(bundles[b], outcomes, b)
    /\ b[1] \in DOMAIN reports => Told(reports[b[1]], outcomes, b[1], b[2])
\* Each report is that of a run that has ended.
ReportsPast == \A i \in DOMAIN reports : \E k \in 1 .. Past : i = RunIds[k]

KeptInv == BundlesOK /\ ReportsPast /\ FailedKept

\* The current run has no report yet.
LEMMA NoReportYet ==
  ASSUME DistinctRuns, SuiteInv, ReportsPast, runs # << >>
  PROVE  Id \notin DOMAIN reports
<1>1. /\ Past \in Nat /\ Past + 1 \in 1 .. Len(RunIds) /\ Id = RunIds[Past + 1]
  BY RunsIs DEF SuiteInv
<1>2. DOMAIN RunIds = 1 .. Len(RunIds) /\ Len(RunIds) \in Nat BY SuiteAssumption
<1>3. SUFFICES ASSUME NEW k \in 1 .. Past, Id = RunIds[k] PROVE FALSE BY DEF ReportsPast
<1>4. k \in 1 .. Len(RunIds) /\ k # Past + 1 BY <1>1, <1>2, <1>3
<1> QED BY <1>1, <1>2, <1>3, <1>4 DEF DistinctRuns

LEMMA KeptBegins == SuiteInit => KeptInv
<1> SUFFICES ASSUME SuiteInit PROVE KeptInv OBVIOUS
<1>1. reports = NoMap /\ lost = {} /\ \E o \in Others : bundles = With(NoMap, SmokeBundle, o.logged)
  BY DEF SuiteInit
<1>2. DOMAIN reports = {} BY <1>1 DEF NoMap
<1>3. DOMAIN bundles \subseteq {SmokeBundle} BY <1>1 DEF With, NoMap
<1> QED BY <1>1, <1>2, <1>3 DEF KeptInv, BundlesOK, ReportsPast, FailedKept

LEMMA SummaryIs ==
  ASSUME NEW s
  PROVE  /\ s = {} => Summary(s) = "unknown"
         /\ "failed" \in s => Summary(s) = "failed"
<1>1. CASE s = {} BY <1>1 DEF Summary
<1>2. CASE "failed" \in s
  <2>1. s # {} BY <1>2
  <2> QED BY <1>2, <2>1 DEF Summary
<1>3. CASE s # {} /\ "failed" \notin s BY <1>3
<1> QED BY <1>1, <1>2, <1>3

\* A bundle that is taken for one that passed has passed.
LEMMA PassedIs ==
  ASSUME KeptInv, NEW b \in DOMAIN bundles, b # SmokeBundle, BundleStatus(b) \in {"passed", "blocked"}
  PROVE  outcomes[b] = "0"
<1>1. /\ LogTold(bundles[b], outcomes, b) /\ b = <<b[1], b[2]>>
      /\ b[1] \in DOMAIN reports => Told(reports[b[1]], outcomes, b[1], b[2])
  BY DEF KeptInv, BundlesOK
<1>2. CASE b[1] \in DOMAIN reports
  <2>1. /\ b[2] \in DOMAIN reports[b[1]] /\ reports[b[1]][b[2]] \in {"passed", "failed"}
        /\ reports[b[1]][b[2]] = "passed" => outcomes[b] = "0"
    BY <1>1, <1>2 DEF Told
  <2>2. Reported(b) = {reports[b[1]][b[2]]} BY <1>2, <2>1 DEF Reported
  <2>3. CASE reports[b[1]][b[2]] = "passed" BY <2>1, <2>3
  <2>4. CASE reports[b[1]][b[2]] = "failed"
    <3>1. Summary(Reported(b)) = "failed" BY <2>2, <2>4 DEF Summary
    <3> QED BY <3>1 DEF BundleStatus
  <2> QED BY <2>1, <2>3, <2>4
<1>3. CASE b[1] \notin DOMAIN reports
  <2>1. Reported(b) = {} BY <1>3 DEF Reported
  <2>2. BundleStatus(b) = Summary(bundles[b]) BY <2>1 DEF BundleStatus, Summary
  <2>3. bundles[b] # {} /\ "failed" \notin bundles[b]
    <3>1. Summary(bundles[b]) \in {"passed", "blocked"} BY <2>2
    <3>2. bundles[b] = {} => Summary(bundles[b]) = "unknown" BY SummaryIs
    <3>3. "failed" \in bundles[b] => Summary(bundles[b]) = "failed" BY SummaryIs
    <3> QED BY <3>1, <3>2, <3>3
  <2> QED BY <1>1, <2>3 DEF LogTold
<1> QED BY <1>2, <1>3

LEMMA KeptKept ==
  ASSUME DistinctRuns, SuiteInv, SuiteInv', KeptInv, [SuiteNext]_suiteVars
  PROVE  KeptInv'
<1>0. BundlesOK /\ ReportsPast /\ FailedKept BY DEF KeptInv
<1>a. ASSUME UNCHANGED <<bundles, reports, outcomes>>
      PROVE  BundlesOK'
  BY <1>0, <1>a DEF BundlesOK, LogTold, Told, SmokeBundle
<1>b. ASSUME UNCHANGED <<runs, reports>> PROVE ReportsPast'
  BY <1>0, <1>b DEF ReportsPast, Past
<1>c. ASSUME lost' = lost PROVE FailedKept' BY <1>0, <1>c DEF FailedKept, SmokeBundle
<1>d. ASSUME NEW e, NextRun(e), runs # << >>, \A i \in DOMAIN reports' : i \in DOMAIN reports \/ i = Id
      PROVE  ReportsPast'
  <2>1. Past' = Past + 1 /\ Past \in Nat /\ Id = RunIds[Past + 1] BY <1>d, NextRunIs, RunsIs DEF SuiteInv
  <2>2. \A k \in 1 .. Past : k \in 1 .. Past + 1 BY <2>1
  <2>3. Past + 1 \in 1 .. Past + 1 BY <2>1
  <2> QED BY <1>0, <1>d, <2>1, <2>2, <2>3 DEF ReportsPast
<1>1. CASE CleanBundles
  <2> DEFINE gone == {b \in DOMAIN bundles : BundleStatus(b) \in {"passed", "blocked"}}
  <2>1. /\ bundles' = Without(bundles, gone) /\ lost' = lost \cup {b \in gone : outcomes[b] \notin {"0", "2"}}
        /\ UNCHANGED <<runs, reports, outcomes>>
    BY <1>1 DEF CleanBundles
  <2>2. BundlesOK'
    <3>1. \A b \in DOMAIN bundles' : b \in DOMAIN bundles /\ bundles'[b] = bundles[b] BY <2>1 DEF Without
    <3> QED BY <1>0, <2>1, <3>1 DEF BundlesOK, LogTold, Told, SmokeBundle
  <2>3. ReportsPast' BY <1>b, <2>1
  <2>4. \A b \in gone : b # SmokeBundle => outcomes[b] = "0" BY PassedIs
  <2>5. FailedKept' BY <1>0, <2>1, <2>4 DEF FailedKept, SmokeBundle
  <2> QED BY <2>2, <2>3, <2>5 DEF KeptInv
<1>2. CASE CleanReports
  <2>1. /\ reports' = Without(reports, DOMAIN reports \ {Id}) /\ UNCHANGED <<runs, bundles, outcomes, lost>>
    BY <1>2 DEF CleanReports
  <2>2. \A i \in DOMAIN reports' : i \in DOMAIN reports /\ reports'[i] = reports[i] BY <2>1 DEF Without
  <2>3. BundlesOK' BY <1>0, <2>1, <2>2 DEF BundlesOK, LogTold, Told, SmokeBundle
  <2>4. ReportsPast' BY <1>0, <2>1, <2>2 DEF ReportsPast, Past
  <2> QED BY <1>c, <2>1, <2>3, <2>4 DEF KeptInv
<1>3. CASE RunSmokeSuite
  <2>1. UNCHANGED <<bundles, reports, outcomes, lost>> /\ stage = "smoke" BY <1>3 DEF RunSmokeSuite
  <2>2. runs # << >> BY <2>1 DEF SuiteInv, RunsOK
  <2>3. UNCHANGED runs \/ NextRun("raised") BY <1>3 DEF RunSmokeSuite
  <2> QED BY <1>a, <1>b, <1>c, <1>d, <2>1, <2>2, <2>3 DEF KeptInv
\* The bundle of the profile that runs.
<1>4. ASSUME runs # << >>, pending # << >>, UNCHANGED reports,
             \A b \in DOMAIN bundles' : b # Bundle => b \in DOMAIN bundles /\ bundles'[b] = bundles[b],
             \A b : b # Bundle => (b \in DOMAIN outcomes => b \in DOMAIN outcomes' /\ outcomes'[b] = outcomes[b]),
             Bundle \in DOMAIN bundles' => LogTold(bundles'[Bundle], outcomes', Bundle)
      PROVE  BundlesOK'
  <2>1. Id \notin DOMAIN reports BY <1>0, <1>4, NoReportYet
  <2>2. Head(pending) \in Names BY <1>4, PendingIs DEF SuiteInv
  <2> SUFFICES ASSUME NEW b \in DOMAIN bundles', b # SmokeBundle
               PROVE  /\ b = <<b[1], b[2]>> /\ b[2] \in Names
                      /\ LogTold(bundles'[b], outcomes', b)
                      /\ b[1] \in DOMAIN reports => Told(reports[b[1]], outcomes', b[1], b[2])
    BY <1>4 DEF BundlesOK, SmokeBundle, Told
  <2>3. CASE b = Bundle
    <3>1. b[1] = Id /\ b[2] = Head(pending) /\ b = <<b[1], b[2]>> BY <2>3 DEF Bundle
    <3>2. LogTold(bundles'[b], outcomes', b) BY <1>4, <2>3 DEF LogTold
    <3> QED BY <2>1, <2>2, <3>1, <3>2
  <2>4. CASE b # Bundle
    <3>1. b \in DOMAIN bundles /\ bundles'[b] = bundles[b] BY <1>4, <2>4
    <3>2. /\ b = <<b[1], b[2]>> /\ b[2] \in Names /\ LogTold(bundles[b], outcomes, b)
          /\ b[1] \in DOMAIN reports => Told(reports[b[1]], outcomes, b[1], b[2])
      BY <1>0, <3>1 DEF BundlesOK
    <3>3. b \in DOMAIN outcomes => b \in DOMAIN outcomes' /\ outcomes'[b] = outcomes[b] BY <1>4, <2>4
    <3>4. LogTold(bundles'[b], outcomes', b) BY <3>1, <3>2, <3>3 DEF LogTold
    <3>5. b[1] \in DOMAIN reports => Told(reports[b[1]], outcomes', b[1], b[2]) BY <3>2, <3>3 DEF Told
    <3> QED BY <3>2, <3>4, <3>5
  <2> QED BY <2>3, <2>4
<1>5. CASE StartProfile
  <2>1. /\ stage = "profile" /\ pending # << >> /\ UNCHANGED <<runs, reports, lost>>
        /\ bundles' = With(bundles, Bundle, {}) /\ outcomes' = With(outcomes, Bundle, "none")
    BY <1>5 DEF StartProfile
  <2>2. runs # << >> BY <2>1 DEF SuiteInv, RunsOK
  <2>3. bundles'[Bundle] = {} BY <2>1 DEF With
  <2>4. \A b \in DOMAIN bundles' : b # Bundle => b \in DOMAIN bundles /\ bundles'[b] = bundles[b]
    BY <2>1 DEF With
  <2>5. \A b : b # Bundle => (b \in DOMAIN outcomes => b \in DOMAIN outcomes' /\ outcomes'[b] = outcomes[b])
    BY <2>1 DEF With
  <2>6. LogTold(bundles'[Bundle], outcomes', Bundle) BY <2>3 DEF LogTold
  <2> QED BY <1>4, <1>b, <1>c, <2>1, <2>2, <2>4, <2>5, <2>6 DEF KeptInv
<1>6. CASE Refused
  <2>1. UNCHANGED <<runs, bundles, reports, outcomes, lost>> BY <1>6 DEF Refused
  <2> QED BY <1>a, <1>b, <1>c, <2>1 DEF KeptInv
<1>7. CASE ProfileSteps
  <2>0. /\ DualStep /\ bundles' = IF written' = written THEN bundles ELSE With(bundles, Bundle, written')
        /\ outcomes' = IF code' = code THEN outcomes ELSE With(outcomes, Bundle, code')
        /\ UNCHANGED <<runs, stage, pending, reports, lost>>
    BY <1>7 DEF ProfileSteps
  <2>1. CASE UNCHANGED <<written, code>>
    <3>1. UNCHANGED <<bundles, outcomes>> BY <2>0, <2>1
    <3> QED BY <1>a, <1>b, <1>c, <2>0, <3>1 DEF KeptInv
  <2>2. CASE AppendResults
    <3>1. ahead # << >> /\ code' \in {"0", "1"} BY <2>2 DEF AppendResults, Ran, ExitCode
    <3>2. code' # "none" BY <3>1
    <3>3. pending # << >> /\ runs # << >> BY <3>1 DEF SuiteInv, BundleOK, RunsOK
    <3>4. Bundle' = Bundle BY <2>0 DEF Bundle, Id
    <3>5. bundles'[Bundle] = written' /\ Bundle \in DOMAIN outcomes' /\ outcomes'[Bundle] = code'
      BY <3>2, <3>4 DEF SuiteInv, BundleOK
    <3>6. /\ written' = results' /\ results' \subseteq {"passed", "failed"}
          /\ failure' => "failed" \in results'
          /\ code' = ExitCode(failure', results')
      BY <3>2 DEF SuiteInv, BundleOK, DualInv
    <3>7. "failed" \notin written' => code' = "0" BY <3>6 DEF ExitCode
    <3>8. LogTold(bundles'[Bundle], outcomes', Bundle) BY <3>5, <3>6, <3>7 DEF LogTold
    <3>9. \A b \in DOMAIN bundles' : b # Bundle => b \in DOMAIN bundles /\ bundles'[b] = bundles[b]
      BY <2>0 DEF With
    <3>10. \A b : b # Bundle => (b \in DOMAIN outcomes => b \in DOMAIN outcomes' /\ outcomes'[b] = outcomes[b])
      BY <2>0 DEF With
    <3> QED BY <1>4, <1>b, <1>c, <2>0, <3>3, <3>8, <3>9, <3>10 DEF KeptInv
  <2>3. UNCHANGED <<written, code>> \/ AppendResults
    BY <2>0 DEF DualStep, Scenarios, Configure, Down, Up, RegisterUser, StartClient, WaitForClients,
                WaitFor, WaitEnded, WaitExpires, TeardownDual, Merge, Validate, CleanWork, ClientEnds, Same
  <2> QED BY <2>1, <2>2, <2>3
<1>8. CASE ProfileEnded
  <2>1. UNCHANGED <<runs, bundles, reports, outcomes, lost>> BY <1>8 DEF ProfileEnded
  <2> QED BY <1>a, <1>b, <1>c, <2>1 DEF KeptInv
<1>9. CASE TimeoutExpired
  <2>0. /\ stage = "profile" /\ ahead # << >> /\ NextRun("raised")
        /\ outcomes' = With(outcomes, Bundle, "killed") /\ UNCHANGED <<pending, bundles, reports, lost>>
    BY <1>9 DEF TimeoutExpired
  <2>1. runs # << >> /\ pending # << >> /\ bundles[Bundle] = written
    BY <2>0 DEF SuiteInv, BundleOK, RunsOK
  <2>2. written = {} BY <2>0 DEF SuiteInv, BundleOK, DualInv
  <2>3. LogTold(bundles'[Bundle], outcomes', Bundle) BY <2>0, <2>1, <2>2 DEF LogTold
  <2>4. \A b : b # Bundle => (b \in DOMAIN outcomes => b \in DOMAIN outcomes' /\ outcomes'[b] = outcomes[b])
    BY <2>0 DEF With
  <2>5. BundlesOK' BY <1>4, <2>0, <2>1, <2>3, <2>4
  <2>6. ReportsPast' BY <1>d, <2>0, <2>1
  <2> QED BY <1>c, <2>0, <2>5, <2>6 DEF KeptInv
<1>10. CASE WriteReports
  <2>0. /\ stage = "profile" /\ pending = << >> /\ UNCHANGED <<pending, table, bundles, outcomes, lost>>
        /\ reports' = With(reports, Id, table)
        /\ \E e \in {"0", "1"} : NextRun(e)
    BY <1>10 DEF WriteReports
  <2>1. runs # << >> BY <2>0 DEF SuiteInv, RunsOK
  <2>2. \A n \in Names : Told(table, outcomes, Id, n) BY <2>0 DEF SuiteInv, RowsOK, Awaits
  <2>3. /\ \A i \in DOMAIN reports' : i \in DOMAIN reports \/ i = Id
        /\ reports'[Id] = table /\ \A i \in DOMAIN reports : i # Id => reports'[i] = reports[i]
    BY <2>0 DEF With
  <2>4. ReportsPast' BY <1>d, <2>0, <2>1, <2>3
  <2>5. BundlesOK'
    <3> SUFFICES ASSUME NEW b \in DOMAIN bundles, b # SmokeBundle
                 PROVE  /\ b = <<b[1], b[2]>> /\ b[2] \in Names
                        /\ LogTold(bundles[b], outcomes, b)
                        /\ b[1] \in DOMAIN reports' => Told(reports'[b[1]], outcomes, b[1], b[2])
      BY <2>0 DEF BundlesOK, SmokeBundle
    <3>1. /\ b = <<b[1], b[2]>> /\ b[2] \in Names /\ LogTold(bundles[b], outcomes, b)
          /\ b[1] \in DOMAIN reports => Told(reports[b[1]], outcomes, b[1], b[2])
      BY <1>0 DEF BundlesOK
    <3>2. CASE b[1] = Id BY <2>2, <2>3, <3>1, <3>2
    <3>3. CASE b[1] # Id BY <2>3, <3>1, <3>3
    <3> QED BY <3>2, <3>3
  <2> QED BY <1>c, <2>0, <2>4, <2>5 DEF KeptInv
<1>11. CASE StartRun
  <2>1. UNCHANGED <<runs, bundles, reports, outcomes, lost>> BY <1>11 DEF StartRun
  <2> QED BY <1>a, <1>b, <1>c, <2>1 DEF KeptInv
<1>12. CASE UNCHANGED suiteVars
  <2>1. UNCHANGED <<runs, bundles, reports, outcomes, lost>> BY <1>12 DEF suiteVars, suiteOnly
  <2> QED BY <1>a, <1>b, <1>c, <2>1 DEF KeptInv
<1> QED BY <1>1, <1>2, <1>3, <1>5, <1>6, <1>7, <1>8, <1>9, <1>10, <1>11, <1>12 DEF SuiteNext, SuiteSteps

\* No run of the suite deletes the bundle of a profile that did not pass,
\* whatever its report said before or says now, when each run has its own id.
THEOREM FailedAlwaysKept ==
  ASSUME DistinctRuns
  PROVE  SuiteSpec => []FailedKept
<1>1. KeptInv => FailedKept BY DEF KeptInv
<1>2. SuiteInit => SuiteInv /\ KeptInv BY SuiteBegins, KeptBegins
<1>3. SuiteInv /\ KeptInv /\ [SuiteNext]_suiteVars => (SuiteInv /\ KeptInv)'
  BY SuiteKept, KeptKept
<1> QED BY <1>1, <1>2, <1>3, PTL DEF SuiteSpec

\* The runners, each of which moves by itself, say that a profile or a run passed
\* only if nothing went wrong in it, in its teardown and in its evidence, and
\* then leave no pod, no process and no other values behind: run_k8s_regression,
\* the Job that carries it, run_b2bua_sipp_smoke and run_regression_suite.
THEOREM RunsAlwaysTruthful ==
  ASSUME ~NameReused
  PROVE  ClusterSpec /\ JobSpec /\ SmokeSpec /\ SuiteSpec => []RunsTruthful
<1>1. ClusterTruthful /\ JobTruthful /\ SmokeTruthful /\ SuiteTruthful <=> RunsTruthful BY DEF RunsTruthful
<1> QED BY <1>1, ClusterTells, JobTells, SmokeTells, SuiteTells, PTL
===============================================================================
