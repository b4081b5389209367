-------------------------- MODULE Capacity_proofs --------------------------
(***************************************************************************)
(* Theorems about the way of an INVITE.                                    *)
(*                                                                         *)
(* Routes: InDialog's Route and the network's two kinds of router make a   *)
(* recursion, HostsPassed.  Its closed form is Reaches: what the n-th      *)
(* proxy of the route receives.  PassesRouter is the step of one proxy,    *)
(* of either kind, before a proxy of either kind; Passes concludes by the  *)
(* least proxy at which the recursion would differ from the closed form.   *)
(*                                                                         *)
(* Forwarding: the names that resolve_invite_target visits are a walk      *)
(* under the rules without a repetition, and a walk is the beginning of    *)
(* the path that the rules make from its first name.  Path, the reference, *)
(* is a recursion: PathIs gives its closed form.                           *)
(*                                                                         *)
(* Capacity: a counter may fall short of the calls it counts, since a      *)
(* cleanup and the handler both release, and never exceeds them.  A round  *)
(* over a group has used the last places up to its cursor.                 *)
(*                                                                         *)
(* The gate: every admission in the window has an event of its own in each *)
(* limiter that counts it, as old as it is, and no limiter holds more      *)
(* events than its limit.                                                  *)
(*                                                                         *)
(* The session timer: one node at a time holds anything of a caller's      *)
(* dialog, so a step there is a step of HereOnly; while its task sleeps,   *)
(* the dialog and the caller's session expire together.                    *)
(***************************************************************************)
EXTENDS MCCallAdmission, WellFoundedInduction, SequenceTheorems, FiniteSetTheorems, TLAPS

\* A set of natural numbers has a least one.
LEMMA Least ==
  ASSUME NEW T \in SUBSET Nat, T # {}
  PROVE  \E n \in T : \A m \in T : n <= m
<1>1. PICK n \in T : \A m \in T : ~ (<<m, n>> \in OpToRel(<, Nat))
  BY NatLessThanWellFounded, WFMin, Zenon
<1>2. \A m \in T : ~(m < n)
  <2>1. SUFFICES ASSUME NEW m \in T, m < n PROVE FALSE OBVIOUS
  <2>2. <<m, n>> \in OpToRel(<, Nat) BY <2>1, Zenon DEF OpToRel
  <2> QED BY <1>1, <2>2
<1> QED BY <1>2

\* The proxies of a route from its n-th on.
From(p, n) == SubSeq(p, n, Len(p))

\* A request that reaches proxy n + 1 of its route: as a loose router expects
\* it, with the target in front, or as a strict one does, with the target last.
Reaches(r, p, target, n) ==
  IF n = Len(p) THEN With(r, target, << >>, target.host)
  ELSE IF p[n + 1].lr /\ (n = 0 \/ p[n].lr)
  THEN With(r, target, From(p, n + 1), p[n + 1].host)
  ELSE With(r, p[n + 1], Append(From(p, n + 2), target), p[n + 1].host)

Route(p) ==
  /\ p \in Seq(Proxies) /\ p # << >>
  /\ \A i \in 1 .. Len(p) - 1 : p[i].host # p[i + 1].host

LEMMA RouteIs ==
  ASSUME NEW p, Route(p)
  PROVE  Len(p) \in Nat /\ Len(p) > 0 /\ \A i \in 1 .. Len(p) : p[i] \in Proxies /\ p[i].lr \in BOOLEAN
BY RouteAssumption DEF Route

LEMMA RouteFrom ==
  ASSUME NEW p, Route(p), NEW n \in 1 .. Len(p)
  PROVE  /\ From(p, n) # << >> /\ From(p, n) \in Seq(Proxies)
         /\ Head(From(p, n)) = p[n]
         /\ Tail(From(p, n)) = From(p, n + 1)
<1> USE DEF From
<1>1. p \in Seq(Proxies) /\ Len(p) \in n .. Len(p) BY RouteIs DEF Route
<1>2. Len(SubSeq(p, n, Len(p))) > 0 /\ SubSeq(p, n, Len(p)) \in Seq(Proxies)
  BY <1>1, RouteIs, SubSeqProperties
<1>3. SubSeq(p, n, Len(p)) # << >>
  <2> DEFINE q == SubSeq(p, n, Len(p))
  <2>1. q \in Seq(Proxies) /\ Len(q) > 0 BY <1>2
  <2> HIDE DEF q
  <2>2. q # << >> BY <2>1
  <2> QED BY <2>2 DEF q
<1>4. /\ Head(SubSeq(p, n, Len(p))) = p[n]
      /\ Tail(SubSeq(p, n, Len(p))) = SubSeq(p, n + 1, Len(p))
  <2>1. n \in 1 .. Len(p) OBVIOUS
  <2> QED BY <1>1, <2>1, HeadTailOfSubSeq
<1> QED BY <1>2, <1>3, <1>4

LEMMA RouteEnds ==
  ASSUME NEW p, Route(p), NEW n, n = Len(p) + 1 PROVE From(p, n) = << >>
<1>1. Len(p) < n /\ n \in Int /\ Len(p) \in Int BY RouteIs
<1> QED BY <1>1, SubSeqEmpty DEF From

LEMMA WithIs ==
  ASSUME NEW r, NEW uri, NEW routes, NEW dest
  PROVE  /\ With(r, uri, routes, dest).uri = uri
         /\ With(r, uri, routes, dest).routes = routes
         /\ With(r, uri, routes, dest).dest = dest
BY DEF With, Request

LEMMA WithAgain ==
  ASSUME NEW r, NEW uri, NEW routes, NEW dest, NEW uri2, NEW routes2, NEW dest2
  PROVE  With(With(r, uri, routes, dest), uri2, routes2, dest2) = With(r, uri2, routes2, dest2)
BY DEF With, Request

\* Out of a loose router, without its own Route and with the target in front.
LEMMA LeavesLoose ==
  ASSUME NEW p, Route(p), NEW target, NEW r,
         NEW n \in 0 .. Len(p) - 1, p[n + 1].lr = TRUE,
         NEW s, s = With(r, target, From(p, n + 2), p[n + 1].host)
  PROVE  LooselyForwarded(s) = Reaches(r, p, target, n + 1)
<1>0. Len(p) \in Nat /\ \A i \in 1 .. Len(p) : p[i] \in Proxies /\ p[i].lr \in BOOLEAN BY RouteIs
<1>2. s.routes = From(p, n + 2) /\ s.uri = target
  BY WithIs
<1>2a. \A u, t, d : With(s, u, t, d) = With(r, u, t, d)
  BY WithAgain
<1>3. CASE n + 1 = Len(p)
  <2>1. s.routes = << >> BY <1>2, <1>3, <1>0, RouteEnds
  <2>2. LooselyForwarded(s) = With(s, target, << >>, target.host)
    BY <2>1, <1>2 DEF LooselyForwarded
  <2> QED BY <2>2, <1>2a, <1>3 DEF Reaches
<1>4. CASE n + 1 # Len(p)
  <2>1. n + 2 \in 1 .. Len(p) /\ (n + 2) + 1 = n + 3 /\ (n + 1) + 1 = n + 2 /\ (n + 1) + 2 = n + 3 BY <1>0, <1>4
  <2>2. /\ Head(s.routes) = p[n + 2] /\ Tail(s.routes) = From(p, n + 3)
        /\ s.routes # << >>
    <3>1. /\ Head(From(p, n + 2)) = p[n + 2]
          /\ Tail(From(p, n + 2)) = From(p, n + 3)
          /\ From(p, n + 2) # << >>
      BY <2>1, RouteFrom
    <3> QED BY <3>1, <1>2
  <2>3. CASE p[n + 2].lr = TRUE
    <3>1. LooselyForwarded(s) = With(s, target, From(p, n + 2), p[n + 2].host)
      BY <1>2, <2>2, <2>3 DEF LooselyForwarded
    <3> QED BY <3>1, <1>2a, <1>4, <2>1, <2>3 DEF Reaches
  <2>4. CASE p[n + 2].lr = FALSE
    <3>1. LooselyForwarded(s) = With(s, p[n + 2], Append(From(p, n + 3), target), p[n + 2].host)
      BY <1>2, <2>2, <2>4 DEF LooselyForwarded
    <3> QED BY <3>1, <1>2a, <1>4, <2>1, <2>4 DEF Reaches
  <2> QED BY <2>1, <2>3, <2>4, <1>0
<1> QED BY <1>3, <1>4

LEMMA Appended ==
  ASSUME NEW S, NEW s \in Seq(S), NEW e \in S
  PROVE  /\ Append(s, e) # << >> /\ Last(Append(s, e)) = e /\ Front(Append(s, e)) = s
         /\ s # << >> => Head(Append(s, e)) = Head(s) /\ Tail(Append(s, e)) = Append(Tail(s), e)
         /\ s = << >> => Head(Append(s, e)) = e /\ Tail(Append(s, e)) = << >>
<1> DEFINE a == Append(s, e)
<1>1. /\ a \in Seq(S) /\ Len(a) = Len(s) + 1 /\ a[Len(s) + 1] = e /\ Len(s) \in Nat
      /\ \A i \in 1 .. Len(s) : a[i] = s[i]
  OBVIOUS
<1> HIDE DEF a
<1>2. a # << >> /\ Last(a) = e BY <1>1 DEF Last
<1>3. Front(a) = s
  <2>1. Front(a) \in Seq(S) /\ Len(Front(a)) = Len(s) /\ \A i \in 1 .. Len(s) : Front(a)[i] = s[i]
    BY <1>1, SubSeqProperties DEF Front
  <2> QED BY <2>1, SeqEqual
<1>4. /\ Tail(a) \in Seq(S) /\ Len(Tail(a)) = Len(s) /\ Head(a) = a[1]
      /\ \A i \in 1 .. Len(s) : Tail(a)[i] = a[i + 1]
  BY <1>1, <1>2, HeadTailProperties
<1>5. ASSUME s # << >> PROVE Head(a) = Head(s) /\ Tail(a) = Append(Tail(s), e)
  <2>1. Head(a) = Head(s) BY <1>1, <1>4, <1>5
  <2>2. /\ Tail(s) \in Seq(S) /\ Len(Tail(s)) = Len(s) - 1
        /\ \A i \in 1 .. Len(s) - 1 : Tail(s)[i] = s[i + 1]
    BY <1>5, HeadTailProperties
  <2> DEFINE t == Append(Tail(s), e)
  <2>3. /\ t \in Seq(S) /\ Len(t) = Len(s) /\ t[Len(s)] = e
        /\ \A i \in 1 .. Len(s) - 1 : t[i] = s[i + 1]
    BY <2>2, <1>1
  <2> HIDE DEF t
  <2>4. \A i \in 1 .. Len(s) : Tail(a)[i] = t[i]
    BY <1>1, <1>4, <2>3
  <2>5. Tail(a) = t BY <1>4, <2>3, <2>4, SeqEqual
  <2> QED BY <2>1, <2>5 DEF t
<1>6. ASSUME s = << >> PROVE Head(a) = e /\ Tail(a) = << >>
  <2>1. Len(s) = 0 BY <1>6
  <2>2. Head(a) = e BY <2>1, <1>1, <1>4
  <2>3. Tail(a) = << >> BY <2>1, <1>4, EmptySeq
  <2> QED BY <2>2, <2>3
<1> QED BY <1>2, <1>3, <1>5, <1>6 DEF a

Phones == Contacts \cup Targets

LEMMA PassesRouter ==
  ASSUME NEW p, Route(p), NEW target \in Phones, NEW r,
         NEW n \in 0 .. Len(p) - 1
  PROVE  Forwarded(Reaches(r, p, target, n), p[n + 1].lr) = Reaches(r, p, target, n + 1)
<1>0. Len(p) \in Nat /\ \A i \in 1 .. Len(p) : p[i] \in Proxies /\ p[i].lr \in BOOLEAN BY RouteIs
<1>1. n + 1 \in 1 .. Len(p) /\ n # Len(p) /\ (n + 1) + 1 = n + 2 /\ (n + 1) + 2 = n + 3
      /\ (n + 2) + 1 = n + 3
  BY <1>0
<1>2. target.host # p[n + 1].host /\ target # p[n + 1]
  BY <1>0, <1>1, HostAssumption DEF Phones
<1> DEFINE h == p[n + 1].host
           s == With(r, target, From(p, n + 2), h)
           loose == With(r, target, From(p, n + 1), h)
           strict == With(r, p[n + 1], Append(From(p, n + 2), target), h)
<1>3. /\ s.uri = target /\ s.routes = From(p, n + 2) /\ s.dest = h
      /\ loose.uri = target /\ loose.routes = From(p, n + 1) /\ loose.dest = h
      /\ strict.uri = p[n + 1] /\ strict.routes = Append(From(p, n + 2), target)
      /\ strict.dest = h
  <2> HIDE DEF h
  <2>1. /\ With(r, target, From(p, n + 2), h).uri = target
        /\ With(r, target, From(p, n + 2), h).routes = From(p, n + 2)
        /\ With(r, target, From(p, n + 2), h).dest = h
    BY WithIs
  <2>2. /\ With(r, target, From(p, n + 1), h).uri = target
        /\ With(r, target, From(p, n + 1), h).routes = From(p, n + 1)
        /\ With(r, target, From(p, n + 1), h).dest = h
    BY WithIs
  <2>3. /\ strict.uri = p[n + 1] /\ strict.routes = Append(From(p, n + 2), target)
        /\ strict.dest = h
    <3> DEFINE u == p[n + 1]
               l == Append(From(p, n + 2), target)
    <3> HIDE DEF u, l
    <3>1. /\ With(r, u, l, h).uri = u /\ With(r, u, l, h).routes = l
          /\ With(r, u, l, h).dest = h
      BY WithIs
    <3> QED BY <3>1 DEF u, l
  <2> QED BY <2>1, <2>2, <2>3
<1>4. \A u, t, d : With(s, u, t, d) = With(r, u, t, d)
  BY WithAgain
<1>5. \A u, t, d : With(loose, u, t, d) = With(r, u, t, d)
  BY WithAgain
<1>6. \A u, t, d : With(strict, u, t, d) = With(r, u, t, d)
  BY WithAgain
<1>7. /\ From(p, n + 2) \in Seq(Proxies \cup Phones)
      /\ n + 1 = Len(p) => From(p, n + 2) = << >>
      /\ n + 1 # Len(p) =>
           /\ From(p, n + 2) # << >> /\ Head(From(p, n + 2)) = p[n + 2]
           /\ Tail(From(p, n + 2)) = From(p, n + 3) /\ p[n + 2].host # h
  <2>1. CASE n + 1 = Len(p)
    <3>1. From(p, n + 2) = << >>
      <4>1. n + 2 = Len(p) + 1 BY <2>1, <1>0
      <4> QED BY <4>1, RouteEnds
    <3>2. << >> \in Seq(Proxies \cup Phones) BY EmptySeq
    <3> QED BY <3>1, <3>2, <2>1
  <2>2. CASE n + 1 # Len(p)
    <3>1. n + 2 \in 1 .. Len(p) /\ n + 1 \in 1 .. Len(p) - 1 BY <1>0, <2>2
    <3>2. p[n + 1].host # p[(n + 1) + 1].host BY <3>1 DEF Route
    <3>3. From(p, n + 2) \in Seq(Proxies) /\ From(p, n + 2) # << >> /\ Head(From(p, n + 2)) = p[n + 2]
          /\ Tail(From(p, n + 2)) = From(p, n + 3)
      BY <3>1, <1>1, RouteFrom
    <3>4. From(p, n + 2) \in Seq(Proxies \cup Phones) BY <3>3, SeqMonotonic
    <3> QED BY <2>2, <3>2, <3>3, <3>4, <1>1
  <2> QED BY <2>1, <2>2
<1>8. /\ From(p, n + 1) # << >> /\ Head(From(p, n + 1)) = p[n + 1]
      /\ Tail(From(p, n + 1)) = From(p, n + 2)
  BY <1>1, RouteFrom
<1> DEFINE routes == Append(From(p, n + 2), target)
<1>9. /\ routes # << >> /\ Last(routes) = target /\ Front(routes) = From(p, n + 2)
      /\ From(p, n + 2) # << >> =>
           Head(routes) = Head(From(p, n + 2)) /\ Tail(routes) = Append(Tail(From(p, n + 2)), target)
      /\ From(p, n + 2) = << >> => Head(routes) = target /\ Tail(routes) = << >>
  <2>1. target \in Proxies \cup Phones OBVIOUS
  <2> QED BY <1>7, <2>1, Appended
<1>10. strict.routes = routes BY <1>3
<1> HIDE DEF h, s, loose, strict, routes
<1>11. CASE p[n + 1].lr = TRUE
  <2>1. LooselyForwarded(s) = Reaches(r, p, target, n + 1)
    BY <1>11, LeavesLoose DEF s, h
  <2>2. Reaches(r, p, target, n) \in {loose, strict}
    BY <1>1, <1>11 DEF Reaches, loose, strict, h
  <2>3. RouteAway(TargetBack(loose)) = s
    <3>1. TargetBack(loose) = loose BY <1>2, <1>3 DEF TargetBack, Own, h
    <3>2. RouteAway(loose) = With(loose, target, From(p, n + 2), h)
      BY <1>3, <1>8 DEF RouteAway, h
    <3> QED BY <3>1, <3>2, <1>5 DEF s
  <2>4. RouteAway(TargetBack(strict)) = s
    <3>1. TargetBack(strict) = With(strict, target, From(p, n + 2), h)
      BY <1>2, <1>3, <1>9, <1>10 DEF TargetBack, Own, h
    <3>2. TargetBack(strict) = s BY <3>1, <1>6 DEF s
    <3>3. RouteAway(s) = s BY <1>3, <1>7 DEF RouteAway
    <3> QED BY <3>2, <3>3
  <2> QED BY <1>11, <2>1, <2>2, <2>3, <2>4 DEF Forwarded
<1>12. CASE p[n + 1].lr = FALSE
  <2>1. Reaches(r, p, target, n) = strict
    BY <1>1, <1>12 DEF Reaches, strict, h
  <2>2. StrictlyForwarded(strict) = With(r, Head(routes), Tail(routes), Head(routes).host)
    <3>1. StrictlyForwarded(strict)
            = With(strict, Head(routes), Tail(routes), Head(routes).host)
      BY <1>9, <1>10 DEF StrictlyForwarded
    <3>2. With(strict, Head(routes), Tail(routes), Head(routes).host)
            = With(r, Head(routes), Tail(routes), Head(routes).host)
      BY <1>6, Zenon
    <3> QED BY <3>1, <3>2, Zenon
  <2>3. CASE n + 1 = Len(p)
    <3>1. StrictlyForwarded(strict) = With(r, target, << >>, target.host)
      BY <2>2, <2>3, <1>7, <1>9
    <3> QED BY <3>1, <2>1, <2>3, <1>12 DEF Reaches, Forwarded
  <2>4. CASE n + 1 # Len(p)
    <3>1. StrictlyForwarded(strict) = With(r, p[n + 2], Append(From(p, n + 3), target), p[n + 2].host)
      BY <2>2, <2>4, <1>7, <1>9
    <3>2. Reaches(r, p, target, n + 1) = With(r, p[n + 2], Append(From(p, n + 3), target), p[n + 2].host)
      BY <1>1, <1>12, <2>4 DEF Reaches
    <3> QED BY <3>1, <3>2, <2>1, <1>12 DEF Forwarded
  <2> QED BY <2>3, <2>4
<1> QED BY <1>0, <1>1, <1>11, <1>12

\* What the recursion of HostsPassed is: the proxies forward what reaches them.
LEMMA Passes ==
  ASSUME NEW p, Route(p), NEW target \in Phones, NEW r, r = Reaches(r, p, target, 0)
  PROVE  HostsPassed(r, p) = [n \in 1 .. Len(p) + 1 |-> Reaches(r, p, target, n - 1).dest]
<1>0. Len(p) \in Nat BY RouteIs
<1> DEFINE Goes(at) == at = [n \in 0 .. Len(p) |-> IF n = 0 THEN r ELSE Forwarded(at[n - 1], p[n].lr)]
           f == [n \in 0 .. Len(p) |-> Reaches(r, p, target, n)]
<1>1. \A n \in 1 .. Len(p) : f[n] = Forwarded(f[n - 1], p[n].lr)
  <2>1. TAKE n \in 1 .. Len(p)
  <2>2. n - 1 \in 0 .. Len(p) - 1 /\ (n - 1) + 1 = n /\ n \in 0 .. Len(p) /\ n - 1 \in 0 .. Len(p)
    BY <1>0
  <2>3. Forwarded(Reaches(r, p, target, n - 1), p[(n - 1) + 1].lr) = Reaches(r, p, target, (n - 1) + 1)
    BY <2>2, PassesRouter
  <2> QED BY <2>2, <2>3
<1>2. f[0] = r BY <1>0
<1>3. DOMAIN f = 0 .. Len(p) OBVIOUS
<1>4. ASSUME NEW g, Goes(g) PROVE g = f
  <2> HIDE DEF f
  <2> DEFINE T == {n \in 0 .. Len(p) : g[n] # f[n]}
  <2>1. g = [n \in 0 .. Len(p) |-> g[n]] BY <1>4
  <2>2. g[0] = r BY <1>4, <1>0
  <2>3. \A n \in 1 .. Len(p) : g[n] = Forwarded(g[n - 1], p[n].lr) BY <1>4, <1>0
  <2>4. T = {}
    <3>1. SUFFICES ASSUME T # {} PROVE FALSE OBVIOUS
    <3>2. PICK n \in T : \A m \in T : n <= m
      <4>1. T \in SUBSET Nat BY <1>0
      <4> HIDE DEF T
      <4> QED BY <4>1, <3>1, Least
    <3>3. n \in 1 .. Len(p) /\ n - 1 \in 0 .. Len(p) /\ ~(n <= n - 1) BY <1>0, <1>2, <2>2
    <3>4. g[n - 1] = f[n - 1] BY <3>2, <3>3
    <3>5. g[n] = f[n] BY <3>3, <3>4, <2>3, <1>1
    <3> QED BY <3>5
  <2>5. \A n \in 0 .. Len(p) : g[n] = f[n] BY <2>4
  <2>6. f = [n \in 0 .. Len(p) |-> f[n]] BY DEF f
  <2> QED BY <2>1, <2>5, <2>6
<1>5. Goes(f)
  <2> HIDE DEF f
  <2>1. f = [n \in 0 .. Len(p) |-> f[n]] BY DEF f
  <2>2. \A n \in 0 .. Len(p) : f[n] = IF n = 0 THEN r ELSE Forwarded(f[n - 1], p[n].lr)
    BY <1>0, <1>1, <1>2
  <2> QED BY <2>1, <2>2
<1>6. (CHOOSE at : Goes(at)) = f
  <2> HIDE DEF f, Goes
  <2> QED BY <1>4, <1>5
<1>7. HostsPassed(r, p) = [n \in 1 .. Len(p) + 1 |-> f[n - 1].dest]
  <2> DEFINE g == CHOOSE at : Goes(at)
  <2>1. HostsPassed(r, p) = [n \in 1 .. Len(p) + 1 |-> g[n - 1].dest]
    BY Zenon DEF HostsPassed
  <2>2. g = f BY <1>6, Zenon
  <2> HIDE DEF g, f, Goes
  <2> QED BY <2>1, <2>2, Zenon
<1>8. \A n \in 1 .. Len(p) + 1 : f[n - 1] = Reaches(r, p, target, n - 1)
  <2>1. TAKE n \in 1 .. Len(p) + 1
  <2>2. n - 1 \in 0 .. Len(p) BY <1>0
  <2> QED BY <2>2
<1> HIDE DEF f
<1> QED BY <1>7, <1>8

LEMMA InDialogIs ==
  ASSUME NEW p, Route(p), NEW target
  PROVE  /\ InDialog(target, p).routes # << >>
         /\ p[1].lr = TRUE => InDialog(target, p) = [uri |-> target, routes |-> p, hop |-> p[1]]
         /\ p[1].lr = FALSE => InDialog(target, p)
              = [uri |-> p[1], routes |-> Append(From(p, 2), target), hop |-> p[1]]
<1>1. Len(p) \in Nat /\ Len(p) > 0 /\ p # << >> /\ p[1].lr \in BOOLEAN BY RouteIs DEF Route
<1>2. 1 \in 1 .. Len(p) BY <1>1
<1>3. From(p, 1) = p
  <2>1. p \in Seq(Proxies) BY DEF Route
  <2> QED BY <2>1, SubSeqFull DEF From
<1>4. Head(p) = p[1] /\ Tail(p) = From(p, 2)
  <2>1. /\ Head(From(p, 1)) = p[1] /\ Tail(From(p, 1)) = From(p, 1 + 1)
    BY <1>2, RouteFrom
  <2> QED BY <2>1, <1>3
<1>5. Append(From(p, 2), target) # << >> BY DEF From
<1> QED BY <1>1, <1>4, <1>5 DEF InDialog

\* A request with the Route that in_dialog_route gives it passes the route.
LEMMA FollowsRoute ==
  ASSUME NEW p, Route(p), NEW target \in Phones, NEW r, NEW to, NEW method, NEW tcp,
         r = Request(to, method, InDialog(target, p).uri, InDialog(target, p).routes,
                     InDialog(target, p).hop.host, tcp)
  PROVE  HostsPassed(r, p) = HostsOf(p) \o <<target.host>>
<1>0. Len(p) \in Nat /\ Len(p) > 0 /\ p[1].lr \in BOOLEAN /\ p \in Seq(Proxies)
  <2>1. p \in Seq(Proxies) BY DEF Route
  <2>2. Len(p) \in Nat /\ Len(p) > 0 /\ \A i \in 1 .. Len(p) : p[i].lr \in BOOLEAN BY RouteIs
  <2>3. 1 \in 1 .. Len(p) BY <2>2
  <2> QED BY <2>1, <2>2, <2>3
<1>1. \A u, t, d : With(r, u, t, d) = Request(to, method, u, t, d, tcp)
  BY DEF With, Request
<1>2. r = Reaches(r, p, target, 0)
  <2>1. From(p, 1) = p BY <1>0, SubSeqFull DEF From
  <2>2. CASE p[1].lr = TRUE
    <3>1. InDialog(target, p) = [uri |-> target, routes |-> p, hop |-> p[1]]
      BY <2>2, InDialogIs
    <3>2. r = With(r, target, p, p[1].host) BY <3>1, <1>1
    <3> QED BY <3>2, <2>1, <2>2, <1>0 DEF Reaches
  <2>3. CASE p[1].lr = FALSE
    <3>1. InDialog(target, p)
            = [uri |-> p[1], routes |-> Append(From(p, 2), target), hop |-> p[1]]
      BY <2>3, InDialogIs
    <3>2. r = With(r, p[1], Append(From(p, 2), target), p[1].host) BY <3>1, <1>1
    <3> QED BY <3>2, <2>3, <1>0 DEF Reaches
  <2> QED BY <1>0, <2>2, <2>3
<1>3. HostsPassed(r, p) = [n \in 1 .. Len(p) + 1 |-> Reaches(r, p, target, n - 1).dest]
  BY <1>2, Passes
<1>4. Reaches(r, p, target, Len(p)).dest = target.host
  <2>1. Reaches(r, p, target, Len(p)) = With(r, target, << >>, target.host) BY DEF Reaches
  <2>2. With(r, target, << >>, target.host).dest = target.host BY DEF With, Request
  <2> QED BY <2>1, <2>2
<1>5. \A n \in 1 .. Len(p) : Reaches(r, p, target, n - 1).dest = p[n].host
  <2>1. TAKE n \in 1 .. Len(p)
  <2>2. n - 1 # Len(p) /\ (n - 1) + 1 = n BY <1>0
  <2>3. \E u, t : Reaches(r, p, target, n - 1) = With(r, u, t, p[n].host)
    BY <2>2 DEF Reaches
  <2>4. \A u, t : With(r, u, t, p[n].host).dest = p[n].host BY DEF With, Request
  <2> QED BY <2>3, <2>4, Zenon
<1> DEFINE H == {u.host : u \in Proxies \cup Phones}
<1>6. HostsOf(p) \in Seq(H) /\ Len(HostsOf(p)) = Len(p) /\ \A n \in 1 .. Len(p) : HostsOf(p)[n] = p[n].host
  BY <1>0 DEF HostsOf
<1>7. <<target.host>> \in Seq(H) /\ Len(<<target.host>>) = 1 /\ <<target.host>>[1] = target.host
  OBVIOUS
<1> HIDE DEF H
<1>8. /\ HostsOf(p) \o <<target.host>> \in Seq(H)
      /\ Len(HostsOf(p) \o <<target.host>>) = Len(p) + 1
      /\ \A n \in 1 .. Len(p) : (HostsOf(p) \o <<target.host>>)[n] = p[n].host
      /\ (HostsOf(p) \o <<target.host>>)[Len(p) + 1] = target.host
  <2> DEFINE hs == HostsOf(p)
             t == <<target.host>>
  <2>1. hs \in Seq(H) /\ t \in Seq(H) /\ Len(hs) = Len(p) /\ Len(t) = 1 BY <1>6, <1>7
  <2>2. /\ hs \o t \in Seq(H) /\ Len(hs \o t) = Len(hs) + Len(t)
        /\ \A i \in 1 .. Len(hs) + Len(t) : (hs \o t)[i] = IF i <= Len(hs) THEN hs[i] ELSE t[i - Len(hs)]
    <3> HIDE DEF hs, t
    <3> QED BY <2>1, ConcatProperties
  <2>3. t[1] = target.host /\ \A n \in 1 .. Len(p) : hs[n] = p[n].host BY <1>6, <1>7
  <2> HIDE DEF hs, t
  <2>4. /\ hs \o t \in Seq(H) /\ Len(hs \o t) = Len(p) + 1
        /\ \A n \in 1 .. Len(p) : (hs \o t)[n] = p[n].host
        /\ (hs \o t)[Len(p) + 1] = target.host
    BY <2>1, <2>2, <2>3, <1>0
  <2> QED BY <2>4 DEF hs, t
<1> DEFINE s == HostsOf(p) \o <<target.host>>
           g == [n \in 1 .. Len(p) + 1 |-> Reaches(r, p, target, n - 1).dest]
<1>9. s = [n \in 1 .. Len(p) + 1 |-> s[n]] 
  <2>1. s \in Seq(H) /\ Len(s) = Len(p) + 1 BY <1>8
  <2> HIDE DEF s
  <2> QED BY <2>1
<1>10. \A n \in 1 .. Len(p) + 1 : Reaches(r, p, target, n - 1).dest = s[n]
  <2>1. TAKE n \in 1 .. Len(p) + 1
  <2>2. CASE n = Len(p) + 1
    <3>1. n - 1 = Len(p) BY <1>0, <2>2
    <3> QED BY <3>1, <2>2, <1>4, <1>8
  <2>3. CASE n # Len(p) + 1
    <3>1. n \in 1 .. Len(p) BY <1>0, <2>3
    <3> QED BY <3>1, <1>5, <1>8
  <2> QED BY <2>2, <2>3
<1> HIDE DEF s
<1>11. [n \in 1 .. Len(p) + 1 |-> Reaches(r, p, target, n - 1).dest] = [n \in 1 .. Len(p) + 1 |-> s[n]]
  BY <1>10
<1> QED BY <1>3, <1>9, <1>11 DEF s

LEMMA PhoneIsNone ==
  ASSUME NEW u \in Phones PROVE u # NoUri
BY HostAssumption DEF Phones, NoUri

LEMMA OrIs ==
  ASSUME NEW c \in Phones \cup {NoUri}, NEW u \in Phones PROVE Or(c, u) \in Phones
BY DEF Or

LEMMA Recorded ==
  ASSUME NEW q \in Records \cup Paths \cup {<< >>}
  PROVE  /\ q \in Seq(Proxies) /\ Reverse(q) \in Seq(Proxies)
         /\ q # << >> => Route(q)
         /\ Reverse(q) # << >> => Route(Reverse(q))
<1>1. q \in Seq(Proxies) /\ Len(q) \in Nat
  BY RouteAssumption, EmptySeq
<1>2. \A i \in 1 .. Len(q) - 1 : q[i].host # q[i + 1].host
  <2>1. CASE q = << >>
    <3>1. Len(q) = 0 BY <2>1
    <3> QED BY <3>1
  <2>2. CASE q # << >> BY <2>2, HostAssumption
  <2> QED BY <2>1, <2>2
<1> DEFINE v == Reverse(q)
<1>3. v \in Seq(Proxies) /\ Len(v) = Len(q) /\ \A i \in 1 .. Len(q) : v[i] = q[(Len(q) - i) + 1]
  BY <1>1 DEF Reverse
<1> HIDE DEF v
<1>4. \A i \in 1 .. Len(v) - 1 : v[i].host # v[i + 1].host
  <2>1. TAKE i \in 1 .. Len(v) - 1
  <2>2. Len(q) - i \in 1 .. Len(q) - 1 /\ (Len(q) - (i + 1)) + 1 = Len(q) - i
        /\ i \in 1 .. Len(q) /\ i + 1 \in 1 .. Len(q)
    BY <1>1, <1>3
  <2>3. q[Len(q) - i].host # q[(Len(q) - i) + 1].host BY <2>2, <1>2
  <2>4. v[i] = q[(Len(q) - i) + 1] /\ v[i + 1] = q[Len(q) - i] BY <2>2, <1>3
  <2> QED BY <2>3, <2>4
<1>5. v # << >> => Route(v) BY <1>3, <1>4 DEF Route
<1>6. q # << >> => Route(q) BY <1>1, <1>2 DEF Route
<1> QED BY <1>1, <1>3, <1>5, <1>6 DEF v

LEMMA NothingReversed == Reverse(<< >>) = << >>
<1>1. Reverse(<< >>) \in Seq({}) /\ Len(Reverse(<< >>)) = 0 BY DEF Reverse
<1> QED BY <1>1, EmptySeq

LEMMA RequestIs ==
  ASSUME NEW to, NEW method, NEW uri, NEW routes, NEW dest, NEW tcp
  PROVE  /\ Request(to, method, uri, routes, dest, tcp).to = to
         /\ Request(to, method, uri, routes, dest, tcp).method = method
         /\ Request(to, method, uri, routes, dest, tcp).routes = routes
         /\ Request(to, method, uri, routes, dest, tcp).dest = dest
BY DEF Request

LEMMA ToBIs ==
  ASSUME NEW l, NEW m, l.contact \in Phones
  PROVE  /\ ToB(m, l).to = "B" /\ ToB(m, l).method = m
         /\ Route(l.routes) =>
              /\ ToB(m, l).routes # << >>
              /\ HostsPassed(ToB(m, l), l.routes) = HostsOf(l.routes) \o <<l.contact.host>>
         /\ ToB(m, l).routes = << >> /\ ToB(m, l).dest \in Hidden
              => ToB(m, l).dest = IF l.destination # NoHost THEN l.destination ELSE l.target.host
<1> DEFINE route == InDialog(Or(l.contact, l.target), l.routes)
<1>1. Or(l.contact, l.target) = l.contact /\ l.contact # NoUri BY PhoneIsNone DEF Or
<1>2. CASE route.routes # << >>
  <2>1. ToB(m, l) = Request("B", m, route.uri, route.routes, route.hop.host, route.hop.tcp \/ OutboundTcp(l))
    BY <1>2 DEF ToB
  <2>2. ToB(m, l).to = "B" /\ ToB(m, l).method = m /\ ToB(m, l).routes # << >>
    <3> HIDE DEF route
    <3> QED BY <2>1, <1>2, RequestIs
  <2>3. Route(l.routes) => HostsPassed(ToB(m, l), l.routes) = HostsOf(l.routes) \o <<l.contact.host>>
    BY <2>1, <1>1, FollowsRoute
  <2> QED BY <2>2, <2>3
<1>3. CASE route.routes = << >>
  <2>1. ~Route(l.routes) BY <1>3, InDialogIs
  <2>2. ToB(m, l) \in {Request("B", m, route.uri, << >>, l.contact.host, l.contact.tcp \/ OutboundTcp(l)),
                       Request("B", m, route.uri, << >>, OutboundDestination(l), OutboundTcp(l))}
        /\ (l.contact.host \notin Hidden =>
             ToB(m, l) = Request("B", m, route.uri, << >>, l.contact.host, l.contact.tcp \/ OutboundTcp(l)))
        /\ (l.contact.host \in Hidden =>
             ToB(m, l) = Request("B", m, route.uri, << >>, OutboundDestination(l), OutboundTcp(l)))
    BY <1>3, <1>1 DEF ToB
  <2> HIDE DEF route
  <2>3. ToB(m, l).to = "B" /\ ToB(m, l).method = m BY <2>2, RequestIs
  <2>4. CASE l.contact.host \notin Hidden
    <3>1. ToB(m, l).dest = l.contact.host BY <2>2, <2>4, RequestIs
    <3> QED BY <3>1, <2>1, <2>3, <2>4
  <2>5. CASE l.contact.host \in Hidden
    <3>1. ToB(m, l).dest = OutboundDestination(l) BY <2>2, <2>5, RequestIs
    <3>2. OutboundDestination(l) = IF l.destination # NoHost THEN l.destination ELSE l.target.host
      BY <2>5 DEF OutboundDestination
    <3> QED BY <3>1, <3>2, <2>1, <2>3
  <2> QED BY <2>4, <2>5
<1> QED BY <1>2, <1>3

LEMMA ToAIs ==
  ASSUME NEW l, NEW m, l.contact \in Phones
  PROVE  /\ ToA(m, l).to = "A"
         /\ Route(l.routes) =>
              HostsPassed(ToA(m, l), l.routes) = HostsOf(l.routes) \o <<l.contact.host>>
         /\ ToA(m, l).routes = << >> /\ ToA(m, l).dest \in Hidden => ToA(m, l).dest = Caller
<1> DEFINE route == InDialog(l.contact, l.routes)
<1>1. CASE route.routes # << >>
  <2>1. ToA(m, l) = Request("A", m, route.uri, route.routes, route.hop.host, route.hop.tcp \/ l.contact.tcp)
    BY <1>1 DEF ToA
  <2>2. ToA(m, l).to = "A" /\ ToA(m, l).routes # << >>
    <3> HIDE DEF route
    <3> QED BY <2>1, <1>1, RequestIs
  <2>3. Route(l.routes) => HostsPassed(ToA(m, l), l.routes) = HostsOf(l.routes) \o <<l.contact.host>>
    BY <2>1, FollowsRoute
  <2> QED BY <2>2, <2>3
<1>2. CASE route.routes = << >>
  <2>1. ~Route(l.routes) BY <1>2, InDialogIs
  <2>2. ToA(m, l) = Request("A", m, route.uri, << >>, InboundDestination(l), l.contact.tcp)
    BY <1>2 DEF ToA
  <2>3. ToA(m, l).to = "A" /\ ToA(m, l).dest = InboundDestination(l)
    <3> HIDE DEF route
    <3> QED BY <2>2, RequestIs
  <2> QED BY <2>1, <2>3 DEF InboundDestination
<1> QED BY <1>1, <1>2

LEMMA OfInviteIs ==
  ASSUME NEW l, NEW m
  PROVE  /\ OfInvite(m, l).to = "B" /\ OfInvite(m, l).method = m
         /\ OfInvite(m, l).dest \in Hidden
              => OfInvite(m, l).dest = IF l.destination # NoHost THEN l.destination ELSE l.target.host
<1>1. OfInvite(m, l).to = "B" /\ OfInvite(m, l).method = m /\ OfInvite(m, l).dest = OutboundDestination(l)
  BY RequestIs DEF OfInvite
<1> QED BY <1>1 DEF OutboundDestination

Legs(invites) ==
  [target : Targets \cup {NoUri}, destination : Hops \cup {NoHost},
   contact : Phones \cup {NoUri}, routes : Seq(Proxies), invite : invites]
ALegs == [contact : Phones \cup {NoUri}, routes : Paths \cup {<< >>}]
Said == [contact : Phones \cup {NoUri}, record : Records \cup {<< >>}]

RouteTypes ==
  /\ leg \in Legs({leg.invite}) /\ aLeg \in ALegs /\ b \in Said
  /\ step \in {"idle", "trying", "failed", "up"}

\* What the two legs and B's last word are to each other: before the INVITE the
\* outbound leg is empty, so that the INVITE goes to the hop it was given, and an
\* answered call knows B's Contact.
LegsAgree ==
  /\ step = "idle" =>
       leg.contact = NoUri /\ leg.routes = << >> /\ b.record = << >> /\ b.contact = NoUri
  /\ step # "idle" =>
       /\ leg.target \in Targets
       /\ leg.invite.dest = IF leg.destination # NoHost THEN leg.destination ELSE leg.target.host
  /\ step = "up" => b.contact # NoUri

RouteInv == RouteTypes /\ LegsAgree /\ RoutesSafe

LEMMA NobodyIs == Nobody.to = "nobody" /\ Nobody.dest = NoHost /\ Nobody.dest \notin Hidden
<1>1. Nobody = [to |-> "nobody", method |-> "none", uri |-> NoUri, routes |-> << >>,
                dest |-> NoHost, tcp |-> FALSE]
  BY DEF Nobody, Request
<1> QED BY <1>1, HostAssumption

LEMMA RouteInvInit ==
  RouteInit => RouteInv
<1> SUFFICES ASSUME RouteInit PROVE RouteInv OBVIOUS
<1>1. << >> \in Seq(Proxies) BY EmptySeq
<1>2. RouteTypes BY <1>1 DEF RouteInit, RouteTypes, Legs, ALegs, Said
<1>3. LegsAgree BY DEF RouteInit, LegsAgree
<1>4. out.to = "nobody" /\ out.dest = NoHost BY NobodyIs DEF RouteInit
<1>5. RoutesSafe
  <2>1. RouteSetFollowed BY <1>4 DEF RouteSetFollowed, InTheDialog
  <2>2. RouteSetKept BY DEF RouteInit, RouteSetKept
  <2>3. HiddenAvoided BY <1>4, HostAssumption DEF HiddenAvoided
  <2> QED BY <2>1, <2>2, <2>3 DEF RoutesSafe
<1> QED BY <1>2, <1>3, <1>5 DEF RouteInv

LEMMA LegOnly ==
  ASSUME NEW S, NEW l \in Legs(S), NEW m,
         NEW c \in Phones \cup {NoUri}, m = [l EXCEPT !.contact = c]
  PROVE  /\ m.target = l.target /\ m.destination = l.destination
         /\ m.contact = c /\ m.routes = l.routes /\ m.invite = l.invite
         /\ m \in Legs({m.invite})
BY DEF Legs

LEMMA InvitePreserves ==
  ASSUME RouteInv, NEW t \in Targets, NEW d \in Hops \cup {NoHost}, NEW p \in Paths,
         NEW r \in Paths, NEW c \in Contacts, Invite(t, d, p, c, r)
  PROVE  RouteInv'
<1> DEFINE l == [leg EXCEPT !.target = t, !.destination = d]
           i == Request("B", "INVITE", t, p, OutboundDestination(l), t.tcp)
<1>0. /\ step = "idle" /\ step' = "trying" /\ out' = i /\ leg' = [l EXCEPT !.invite = i]
      /\ aLeg' = [contact |-> c, routes |-> r] /\ b' = b
  BY DEF Invite, Sends
<1>1. /\ leg \in Legs({leg.invite}) /\ b \in Said /\ leg.contact = NoUri /\ leg.routes = << >>
      /\ b.record = << >> /\ b.contact = NoUri
  BY <1>0 DEF RouteInv, RouteTypes, LegsAgree
<1>2. /\ l \in Legs({l.invite}) /\ l.target = t /\ l.destination = d /\ l.contact = NoUri
      /\ l.routes = << >>
  BY <1>1 DEF Legs
<1>3. /\ i.to = "B" /\ i.dest = OutboundDestination(l) BY RequestIs
<1> HIDE DEF l, i
<1>4. /\ leg' \in Legs({leg'.invite}) /\ leg'.target = t /\ leg'.destination = d
      /\ leg'.contact = NoUri /\ leg'.routes = << >> /\ leg'.invite = i
  BY <1>0, <1>2 DEF Legs
<1>5. i.dest = IF d # NoHost THEN d ELSE t.host BY <1>2, <1>3 DEF OutboundDestination
<1>6. RouteTypes'
  <2>1. aLeg' \in ALegs BY <1>0 DEF ALegs, Phones
  <2> QED BY <2>1, <1>0, <1>1, <1>4 DEF RouteTypes
<1>7. LegsAgree' BY <1>0, <1>4, <1>5 DEF LegsAgree
<1>8. RouteSetFollowed' BY <1>0, <1>3, <1>4 DEF RouteSetFollowed, InTheDialog
<1>9. RouteSetKept' BY <1>0, <1>1, <1>4, NothingReversed DEF RouteSetKept
<1>10. HiddenAvoided' BY <1>0, <1>3, <1>4 DEF HiddenAvoided
<1> QED BY <1>6, <1>7, <1>8, <1>9, <1>10 DEF RouteInv, RoutesSafe

\* An answer and a reliable provisional response both teach the leg a Contact
\* and a route.
LEMMA LegLearns ==
  ASSUME RouteInv, step = "trying", NEW c \in Contacts \cup {NoUri}, NEW r \in Records,
         leg' = [leg EXCEPT !.contact = Or(c, leg.target), !.routes = Reverse(r)],
         b' = [contact |-> Or(c, leg.target), record |-> r], aLeg' = aLeg,
         step' \in {"trying", "up"}
  PROVE  /\ RouteTypes' /\ LegsAgree' /\ RouteSetKept'
         /\ leg'.contact \in Phones /\ b'.contact = leg'.contact
         /\ leg'.routes = Reverse(b'.record)
<1>1. leg \in Legs({leg.invite}) /\ aLeg \in ALegs /\ leg.target \in Targets
      /\ leg.invite.dest = IF leg.destination # NoHost THEN leg.destination ELSE leg.target.host
  BY DEF RouteInv, RouteTypes, LegsAgree
<1>2. Or(c, leg.target) \in Phones
  <2>1. c \in Phones \cup {NoUri} /\ leg.target \in Phones BY <1>1 DEF Phones
  <2> QED BY <2>1, OrIs
<1>3. Reverse(r) \in Seq(Proxies) BY Recorded
<1>4. /\ leg'.target = leg.target /\ leg'.destination = leg.destination
      /\ leg'.contact = Or(c, leg.target) /\ leg'.routes = Reverse(r) /\ leg'.invite = leg.invite
      /\ leg' \in Legs({leg'.invite})
  <2> DEFINE u == Or(c, leg.target)
             q == Reverse(r)
  <2>1. u \in Phones \cup {NoUri} /\ q \in Seq(Proxies) BY <1>2, <1>3
  <2>2. leg' = [leg EXCEPT !.contact = u, !.routes = q] OBVIOUS
  <2> HIDE DEF u, q
  <2>3. /\ leg'.target = leg.target /\ leg'.destination = leg.destination
        /\ leg'.contact = u /\ leg'.routes = q /\ leg'.invite = leg.invite
        /\ leg' \in Legs({leg'.invite})
    <3>1. \A S : \A l \in Legs(S) : \A m : m = [l EXCEPT !.contact = u, !.routes = q] =>
            /\ m.target = l.target /\ m.destination = l.destination
            /\ m.contact = u /\ m.routes = q /\ m.invite = l.invite
            /\ m \in Legs({m.invite})
      <4>1. TAKE S
      <4>2. TAKE l \in Legs(S)
      <4>3. TAKE m
      <4>4. HAVE m = [l EXCEPT !.contact = u, !.routes = q]
      <4> QED BY <2>1, <4>4 DEF Legs
    <3> QED BY <1>1, <2>2, <3>1
  <2> QED BY <2>3 DEF u, q
<1>5. b' \in Said /\ b'.contact = Or(c, leg.target) /\ b'.record = r BY <1>2 DEF Said
<1>6. Or(c, leg.target) # NoUri BY <1>2, PhoneIsNone
<1>7. RouteTypes' BY <1>1, <1>4, <1>5 DEF RouteTypes
<1>8. LegsAgree' BY <1>1, <1>4, <1>5, <1>6 DEF LegsAgree
<1>9. RouteSetKept' BY <1>4, <1>5 DEF RouteSetKept
<1> QED BY <1>2, <1>4, <1>5, <1>7, <1>8, <1>9

\* What goes to B inside the dialog passes the routes that B recorded.
LEMMA ToBFollowed ==
  ASSUME NEW m, out' = ToB(m, leg'), leg'.contact \in Phones, b'.contact = leg'.contact,
         leg'.routes = Reverse(b'.record), b'.record \in Records \cup {<< >>},
         LegsAgree', step' # "idle"
  PROVE  RouteSetFollowed' /\ HiddenAvoided'
<1> DEFINE l == leg'
<1>1. Route(l.routes) \/ l.routes = << >> BY Recorded
<1>2. /\ out'.to = "B"
      /\ Route(l.routes) => HostsPassed(out', l.routes) = HostsOf(l.routes) \o <<l.contact.host>>
      /\ out'.routes = << >> /\ out'.dest \in Hidden
           => out'.dest = IF l.destination # NoHost THEN l.destination ELSE l.target.host
  BY ToBIs
<1>3. RouteSetFollowed' BY <1>1, <1>2 DEF RouteSetFollowed
<1>4. HiddenAvoided' BY <1>2 DEF HiddenAvoided, LegsAgree
<1> QED BY <1>3, <1>4

LEMMA OfInviteFollowed ==
  ASSUME NEW m, out' = OfInvite(m, leg'), m = "CANCEL" \/ step' = "failed", LegsAgree', step' # "idle"
  PROVE  RouteSetFollowed' /\ HiddenAvoided'
<1> DEFINE l == leg'
<1>1. /\ out'.to = "B" /\ out'.method = m
      /\ out'.dest \in Hidden
           => out'.dest = IF l.destination # NoHost THEN l.destination ELSE l.target.host
  BY OfInviteIs
<1>2. RouteSetFollowed' BY <1>1 DEF RouteSetFollowed, InTheDialog
<1>3. HiddenAvoided' BY <1>1 DEF HiddenAvoided, LegsAgree
<1> QED BY <1>2, <1>3

LEMMA NobodyFollowed ==
  ASSUME out' = Nobody PROVE RouteSetFollowed' /\ HiddenAvoided'
BY NobodyIs DEF RouteSetFollowed, InTheDialog, HiddenAvoided

LEMMA ToAFollowed ==
  ASSUME NEW m, out' = ToA(m, aLeg'), aLeg' \in ALegs, aLeg'.contact # NoUri
  PROVE  RouteSetFollowed' /\ HiddenAvoided'
<1> DEFINE l == aLeg'
<1>1. l.contact \in Phones /\ (Route(l.routes) \/ l.routes = << >>) BY Recorded DEF ALegs
<1>2. /\ out'.to = "A"
      /\ Route(l.routes) => HostsPassed(out', l.routes) = HostsOf(l.routes) \o <<l.contact.host>>
      /\ out'.routes = << >> /\ out'.dest \in Hidden => out'.dest = Caller
  BY <1>1, ToAIs
<1>3. RouteSetFollowed' BY <1>1, <1>2 DEF RouteSetFollowed
<1>4. HiddenAvoided' BY <1>2 DEF HiddenAvoided
<1> QED BY <1>3, <1>4

LEMMA SameLegs ==
  ASSUME RouteInv, UNCHANGED <<leg, aLeg, b, step>>
  PROVE  RouteTypes' /\ LegsAgree' /\ RouteSetKept'
BY DEF RouteInv, RoutesSafe, RouteTypes, LegsAgree, RouteSetKept, Legs, ALegs, Said

LEMMA FailurePreserves ==
  ASSUME RouteInv, NEW c \in Contacts \cup {NoUri}, Failure(c) PROVE RouteInv'
<1>0. /\ step = "trying" /\ step' = "failed" /\ leg' = [leg EXCEPT !.contact = Or(c, leg.target)]
      /\ out' = OfInvite("ACK", leg') /\ aLeg' = aLeg /\ b' = b
  BY DEF Failure, Sends
<1>1. leg \in Legs({leg.invite}) /\ aLeg \in ALegs /\ b \in Said /\ leg.target \in Targets
      /\ leg.invite.dest = IF leg.destination # NoHost THEN leg.destination ELSE leg.target.host
  BY <1>0 DEF RouteInv, RouteTypes, LegsAgree
<1>2. Or(c, leg.target) \in Phones
  <2>1. c \in Phones \cup {NoUri} /\ leg.target \in Phones BY <1>1 DEF Phones
  <2> QED BY <2>1, OrIs
<1>3. /\ leg'.target = leg.target /\ leg'.destination = leg.destination
      /\ leg'.invite = leg.invite /\ leg' \in Legs({leg'.invite})
  BY <1>0, <1>1, <1>2, LegOnly
<1>4. RouteTypes' BY <1>0, <1>1, <1>3 DEF RouteTypes
<1>5. LegsAgree' BY <1>0, <1>1, <1>3 DEF LegsAgree
<1>6. RouteSetFollowed' /\ HiddenAvoided' BY <1>0, <1>5, OfInviteFollowed
<1>7. RouteSetKept' BY <1>0 DEF RouteSetKept
<1> QED BY <1>4, <1>5, <1>6, <1>7 DEF RouteInv, RoutesSafe

LEMMA RefreshPreserves ==
  ASSUME RouteInv, NEW c \in Contacts \cup {NoUri}, NEW d \in Contacts \cup {NoUri},
         TargetRefresh(c, d)
  PROVE  RouteInv'
<1>0. /\ step = "up" /\ step' = "up" /\ leg' = [leg EXCEPT !.contact = Or(d, leg.contact)]
      /\ aLeg' = [aLeg EXCEPT !.contact = Or(c, aLeg.contact)]
      /\ b' = [b EXCEPT !.contact = Or(d, b.contact)] /\ out' = Nobody
  BY DEF TargetRefresh, Retargeted
<1>1. leg \in Legs({leg.invite}) /\ aLeg \in ALegs /\ b \in Said /\ leg.target \in Targets
      /\ leg.invite.dest = (IF leg.destination # NoHost THEN leg.destination ELSE leg.target.host)
      /\ b.contact # NoUri /\ leg.contact = b.contact /\ leg.routes = Reverse(b.record)
  BY <1>0 DEF RouteInv, RouteTypes, LegsAgree, RoutesSafe, RouteSetKept
<1>2. Or(d, b.contact) \in Phones /\ Or(c, aLeg.contact) \in Phones \cup {NoUri}
  <2>1. c \in Phones \cup {NoUri} /\ d \in Phones \cup {NoUri} BY DEF Phones
  <2>2. b.contact \in Phones /\ aLeg.contact \in Phones \cup {NoUri} BY <1>1 DEF Said, ALegs
  <2> QED BY <2>1, <2>2, OrIs DEF Or
<1>3. /\ leg'.target = leg.target /\ leg'.destination = leg.destination
      /\ leg'.contact = Or(d, b.contact) /\ leg'.routes = leg.routes /\ leg'.invite = leg.invite
      /\ leg' \in Legs({leg'.invite})
  <2> DEFINE u == Or(d, b.contact)
  <2>1. u \in Phones \cup {NoUri} /\ leg' = [leg EXCEPT !.contact = u] BY <1>0, <1>1, <1>2
  <2> HIDE DEF u
  <2>2. /\ leg'.target = leg.target /\ leg'.destination = leg.destination
        /\ leg'.contact = u /\ leg'.routes = leg.routes /\ leg'.invite = leg.invite
        /\ leg' \in Legs({leg'.invite})
    <3>1. leg \in Legs({leg.invite}) BY <1>1
    <3>2. u \in Phones \cup {NoUri} BY <2>1
    <3>3. leg' = [leg EXCEPT !.contact = u] BY <2>1
    <3>4. \A S : \A l \in Legs(S) : \A m : m = [l EXCEPT !.contact = u] =>
            /\ m.target = l.target /\ m.destination = l.destination
            /\ m.contact = u /\ m.routes = l.routes /\ m.invite = l.invite
            /\ m \in Legs({m.invite})
      <4>1. TAKE S
      <4>2. TAKE l \in Legs(S)
      <4>3. TAKE m
      <4>4. HAVE m = [l EXCEPT !.contact = u]
      <4> QED BY <3>2, <4>4 DEF Legs
    <3> QED BY <3>1, <3>3, <3>4
  <2> QED BY <2>2 DEF u
<1>4. aLeg' \in ALegs BY <1>0, <1>1, <1>2 DEF ALegs
<1>5. b' \in Said /\ b'.contact = Or(d, b.contact) /\ b'.record = b.record
  BY <1>0, <1>1, <1>2 DEF Said
<1>6. Or(d, b.contact) # NoUri BY <1>2, PhoneIsNone
<1>7. RouteTypes' BY <1>0, <1>3, <1>4, <1>5 DEF RouteTypes
<1>8. LegsAgree' BY <1>0, <1>1, <1>3, <1>5, <1>6 DEF LegsAgree
<1>9. RouteSetFollowed' /\ HiddenAvoided' BY <1>0, NobodyFollowed
<1>10. RouteSetKept' BY <1>1, <1>3, <1>5 DEF RouteSetKept
<1> QED BY <1>7, <1>8, <1>9, <1>10 DEF RouteInv, RoutesSafe

LEMMA RouteInvNext ==
  RouteInv /\ ~RingsAgain /\ [RouteNext]_hopVars => RouteInv'
<1> SUFFICES ASSUME RouteInv, ~RingsAgain, [RouteNext]_hopVars PROVE RouteInv' OBVIOUS
<1>1. ASSUME NEW t \in Targets, NEW d \in Hops \cup {NoHost}, NEW p \in Paths,
             NEW r \in Paths, NEW c \in Contacts, Invite(t, d, p, c, r)
      PROVE  RouteInv'
  BY <1>1, InvitePreserves
<1>2. ASSUME NEW c \in Contacts \cup {NoUri}, Failure(c) PROVE RouteInv'
  BY <1>2, FailurePreserves
<1>3. ASSUME NEW c \in Contacts \cup {NoUri}, NEW r \in Records, Provisional(c, r)
      PROVE  RouteInv'
  <2>1. RouteTypes' /\ LegsAgree' /\ RouteSetKept'
    BY <1>3, LegLearns DEF Provisional
  <2>2. RouteSetFollowed' /\ HiddenAvoided' BY <1>3, NobodyFollowed DEF Provisional
  <2> QED BY <2>1, <2>2 DEF RouteInv, RoutesSafe
<1>4. ASSUME NEW c \in Contacts \cup {NoUri}, NEW r \in Records, Answer(c, r)
      PROVE  RouteInv'
  <2>1. /\ RouteTypes' /\ LegsAgree' /\ RouteSetKept'
        /\ leg'.contact \in Phones /\ b'.contact = leg'.contact
        /\ leg'.routes = Reverse(b'.record)
    BY <1>4, LegLearns DEF Answer
  <2>2. b'.record \in Records \cup {<< >>} BY <2>1 DEF RouteTypes, Said
  <2>3. out' = ToB("ACK", leg') /\ step' = "up" BY <1>4 DEF Answer, Sends
  <2>4. RouteSetFollowed' /\ HiddenAvoided' BY <2>1, <2>2, <2>3, ToBFollowed
  <2> QED BY <2>1, <2>4 DEF RouteInv, RoutesSafe
<1>5. ASSUME Cancel PROVE RouteInv'
  <2>1. /\ UNCHANGED <<leg, aLeg, b, step>> /\ out' = OfInvite("CANCEL", leg') /\ step' = "trying"
    BY <1>5 DEF Cancel, Sends
  <2>2. RouteTypes' /\ LegsAgree' /\ RouteSetKept' BY <2>1, SameLegs
  <2>3. RouteSetFollowed' /\ HiddenAvoided' BY <2>1, <2>2, OfInviteFollowed
  <2> QED BY <2>2, <2>3 DEF RouteInv, RoutesSafe
<1>6. ASSUME NEW m \in {"BYE", "INVITE", "ACK", "PRACK"}, RequestToB(m) PROVE RouteInv'
  <2>1. /\ UNCHANGED <<leg, aLeg, b, step>> /\ out' = ToB(m, leg')
        /\ step = "up" \/ (step = "trying" /\ b.contact # NoUri)
    BY <1>6 DEF RequestToB, Sends
  <2>2. RouteTypes' /\ LegsAgree' /\ RouteSetKept' BY <2>1, SameLegs
  <2>3. /\ leg'.contact \in Phones /\ b'.contact = leg'.contact
        /\ leg'.routes = Reverse(b'.record) /\ b'.record \in Records \cup {<< >>} /\ step' # "idle"
    <3>1. /\ b \in Said /\ b.contact # NoUri /\ leg.contact = b.contact
          /\ leg.routes = Reverse(b.record) /\ step # "idle"
      BY <2>1 DEF RouteInv, RouteTypes, LegsAgree, RoutesSafe, RouteSetKept
    <3> QED BY <2>1, <3>1 DEF Said
  <2>4. RouteSetFollowed' /\ HiddenAvoided' BY <2>1, <2>2, <2>3, ToBFollowed
  <2> QED BY <2>2, <2>4 DEF RouteInv, RoutesSafe
<1>7. ASSUME NEW m \in {"BYE", "NOTIFY"}, RequestToA(m) PROVE RouteInv'
  <2>1. /\ UNCHANGED <<leg, aLeg, b, step>> /\ out' = ToA(m, aLeg') /\ aLeg.contact # NoUri
    BY <1>7 DEF RequestToA, Sends
  <2>2. RouteTypes' /\ LegsAgree' /\ RouteSetKept' BY <2>1, SameLegs
  <2>3. aLeg' \in ALegs /\ aLeg'.contact # NoUri BY <2>1 DEF RouteInv, RouteTypes
  <2>4. RouteSetFollowed' /\ HiddenAvoided' BY <2>1, <2>3, ToAFollowed
  <2> QED BY <2>2, <2>4 DEF RouteInv, RoutesSafe
<1>8. ASSUME NEW c \in Contacts \cup {NoUri}, NEW d \in Contacts \cup {NoUri}, TargetRefresh(c, d)
      PROVE  RouteInv'
  BY <1>8, RefreshPreserves
<1>9. CASE UNCHANGED hopVars
  <2>1. UNCHANGED <<leg, aLeg, b, step>> /\ out' = out BY <1>9 DEF hopVars
  <2>2. RouteTypes' /\ LegsAgree' /\ RouteSetKept' BY <2>1, SameLegs
  <2>3. RouteSetFollowed' /\ HiddenAvoided'
    BY <2>1 DEF RouteInv, RoutesSafe, RouteSetFollowed, InTheDialog, HiddenAvoided
  <2> QED BY <2>2, <2>3 DEF RouteInv, RoutesSafe
<1> QED BY <1>1, <1>2, <1>3, <1>4, <1>5, <1>6, <1>7, <1>8, <1>9 DEF RouteNext

\* Whatever the record routes and the paths are, and whichever of their proxies
\* route strictly: each request inside a dialog passes them all in their order and
\* ends at the Contact its peer gave last, and none goes to a hidden host that the
\* INVITE did not go to, as long as no re-INVITE is refused (the model has none)
\* or gets a reliable provisional response.
THEOREM RoutesAlwaysSafe == ASSUME ~RingsAgain PROVE RouteSpec => []RoutesSafe
<1>1. RouteInv => RoutesSafe BY DEF RouteInv
<1>2. RouteInv /\ [RouteNext]_hopVars => RouteInv' BY RouteInvNext
<1> QED BY RouteInvInit, <1>1, <1>2, PTL DEF RouteSpec

(***************************************************************************)
(* The rules of forwarding                                                 *)
(***************************************************************************)
\* What select can find: a target, or nothing.
Rules == always \in [Names -> Target \cup {NoTarget}]

\* The rule of a name leads to another name.
Leads(n) == always[n] # NoTarget /\ ~always[n].uri

\* The names that the rules lead to, one after the other, from n.
IsWalk(s, n) ==
  /\ s \in Seq(Names) /\ Len(s) > 0 /\ s[1] = n
  /\ \A i \in 1 .. Len(s) - 1 : Leads(s[i]) /\ s[i + 1] = always[s[i]].user

\* All of them, up to k steps from n.
IsPath(s, n, k) ==
  /\ IsWalk(s, n) /\ Len(s) <= k + 1
  /\ Len(s) <= k => ~Leads(s[Len(s)])

\* Where a rule leads, and the target that is none.
LEMMA LeadsIs ==
  ASSUME Rules, NEW n \in Names
  PROVE  /\ always[n] \in Target \cup {NoTarget} /\ NoTarget.uri = FALSE
         /\ always[n] # NoTarget => always[n].user \in Names /\ always[n].uri \in BOOLEAN
         /\ Leads(n) => always[n].user \in Names
BY DEF Rules, Leads, Target, NoTarget

\* Two walks from one name are one, as far as both go.
LEMMA WalksAgree ==
  ASSUME NEW n, NEW s, IsWalk(s, n), NEW t, IsWalk(t, n)
  PROVE  \A i \in 1 .. Len(s) : i <= Len(t) => s[i] = t[i]
<1>1. Len(s) \in Nat /\ Len(t) \in Nat /\ s[1] = t[1] BY DEF IsWalk
<1> DEFINE T == {i \in 1 .. Len(s) : i <= Len(t) /\ s[i] # t[i]}
<1>2. SUFFICES ASSUME T # {} PROVE FALSE OBVIOUS
<1>3. PICK i \in T : \A j \in T : i <= j
  <2>1. T \in SUBSET Nat BY <1>1
  <2> HIDE DEF T
  <2> QED BY <2>1, <1>2, Least
<1>4. i \in 1 .. Len(s) /\ i <= Len(t) /\ s[i] # t[i] /\ i \in Int OBVIOUS
<1>5. i # 1 BY <1>1, <1>4
<1>6. /\ i - 1 \in 1 .. Len(s) - 1 /\ i - 1 \in 1 .. Len(t) - 1 /\ (i - 1) + 1 = i
      /\ i - 1 \in 1 .. Len(s) /\ i - 1 <= Len(t) /\ ~(i <= i - 1)
  BY <1>1, <1>4, <1>5
<1>7. s[i - 1] = t[i - 1] BY <1>3, <1>6
<1>8. s[(i - 1) + 1] = always[s[i - 1]].user BY <1>6 DEF IsWalk
<1>9. t[(i - 1) + 1] = always[t[i - 1]].user BY <1>6 DEF IsWalk
<1> QED BY <1>4, <1>6, <1>7, <1>8, <1>9

\* A walk that is not longer than a path is its beginning.
LEMMA WalkBegins ==
  ASSUME NEW n, NEW k \in Nat, NEW p, IsPath(p, n, k), NEW s, IsWalk(s, n), Len(s) <= k + 1
  PROVE  Len(s) <= Len(p) /\ \A i \in 1 .. Len(s) : s[i] = p[i]
<1>0. IsWalk(p, n) BY DEF IsPath
<1>4. s \in Seq(Names) /\ p \in Seq(Names) /\ p # << >> BY <1>0 DEF IsWalk
<1>1. Len(s) \in Nat /\ Len(p) \in Nat /\ Len(p) > 0 /\ IsWalk(p, n) BY <1>0, <1>4
<1>2. \A i \in 1 .. Len(s) : i <= Len(p) => s[i] = p[i] BY <1>1, WalksAgree
<1>3. Len(s) <= Len(p)
  <2>1. SUFFICES ASSUME Len(p) < Len(s) PROVE FALSE BY <1>1
  <2>2. Len(p) \in 1 .. Len(s) - 1 /\ Len(p) <= k /\ Len(p) \in 1 .. Len(s) BY <1>1, <2>1
  <2>3. Leads(s[Len(p)]) BY <2>2 DEF IsWalk
  <2>4. ~Leads(p[Len(p)]) BY <2>2 DEF IsPath
  <2>5. s[Len(p)] = p[Len(p)] BY <1>2, <2>2
  <2> QED BY <2>3, <2>4, <2>5
<1> QED BY <1>1, <1>2, <1>3

\* There is one path of a length from a name.
LEMMA PathUnique ==
  ASSUME NEW n, NEW k \in Nat, NEW s, IsPath(s, n, k), NEW t, IsPath(t, n, k)
  PROVE  s = t
<1>1. /\ s \in Seq(Names) /\ t \in Seq(Names) /\ Len(s) \in Nat /\ Len(t) \in Nat
      /\ Len(s) <= k + 1 /\ Len(t) <= k + 1 /\ IsWalk(s, n) /\ IsWalk(t, n)
  BY DEF IsPath, IsWalk
<1>2. Len(s) <= Len(t) /\ \A i \in 1 .. Len(s) : s[i] = t[i] BY <1>1, WalkBegins
<1>3. Len(t) <= Len(s) BY <1>1, WalkBegins
<1>4. Len(s) = Len(t) BY <1>1, <1>2, <1>3
<1> QED BY <1>1, <1>2, <1>4, SeqEqual

\* A name whose rule leads nowhere, or no step at all: the name itself.
LEMMA PathEnds ==
  ASSUME NEW n \in Names, NEW k \in Nat, k = 0 \/ ~Leads(n)
  PROVE  IsPath(<<n>>, n, k)
<1>1. <<n>> \in Seq(Names) /\ Len(<<n>>) = 1 /\ <<n>>[1] = n OBVIOUS
<1> DEFINE s == <<n>>
<1> HIDE DEF s
<1>2. s \in Seq(Names) /\ Len(s) = 1 /\ s[1] = n BY <1>1 DEF s
<1>3. IsWalk(s, n) BY <1>2 DEF IsWalk
<1>4. IsPath(s, n, k) BY <1>2, <1>3 DEF IsPath
<1> QED BY <1>4 DEF s

\* A name in front of the path of the name it leads to.
LEMMA PathGoesOn ==
  ASSUME Rules, NEW n \in Names, NEW k \in Nat \ {0}, Leads(n),
         NEW s, IsPath(s, always[n].user, k - 1)
  PROVE  IsPath(<<n>> \o s, n, k)
<1>1. /\ s \in Seq(Names) /\ Len(s) \in Nat /\ Len(s) > 0 /\ s[1] = always[n].user
      /\ Len(s) <= k /\ (Len(s) <= k - 1 => ~Leads(s[Len(s)]))
      /\ \A i \in 1 .. Len(s) - 1 : Leads(s[i]) /\ s[i + 1] = always[s[i]].user
  BY DEF IsPath, IsWalk
<1> DEFINE h == <<n>>
           p == h \o s
<1>2. h \in Seq(Names) /\ Len(h) = 1 /\ h[1] = n OBVIOUS
<1> HIDE DEF h
<1>3. /\ p \in Seq(Names) /\ Len(p) = Len(s) + 1
      /\ \A i \in 1 .. Len(s) + 1 : p[i] = IF i = 1 THEN n ELSE s[i - 1]
  <2>1. /\ p \in Seq(Names) /\ Len(p) = Len(h) + Len(s)
        /\ \A i \in 1 .. Len(h) + Len(s) : p[i] = IF i <= Len(h) THEN h[i] ELSE s[i - Len(h)]
    BY <1>1, <1>2, ConcatProperties
  <2> HIDE DEF p
  <2> QED BY <1>1, <1>2, <2>1
<1> HIDE DEF p
<1>4. p[1] = n BY <1>1, <1>3
<1>5. \A i \in 1 .. Len(p) - 1 : Leads(p[i]) /\ p[i + 1] = always[p[i]].user
  <2>1. TAKE i \in 1 .. Len(p) - 1
  <2>2. i \in 1 .. Len(s) + 1 /\ i + 1 \in 1 .. Len(s) + 1 /\ i + 1 # 1 /\ (i + 1) - 1 = i
    BY <1>1, <1>3
  <2>3. p[i + 1] = s[i] BY <1>3, <2>2
  <2>4. CASE i = 1 BY <2>3, <2>4, <1>1, <1>4
  <2>5. CASE i # 1
    <3>1. i - 1 \in 1 .. Len(s) - 1 /\ (i - 1) + 1 = i BY <1>1, <1>3, <2>5
    <3>2. p[i] = s[i - 1] BY <1>3, <2>2, <2>5
    <3>3. Leads(s[i - 1]) /\ s[(i - 1) + 1] = always[s[i - 1]].user BY <3>1, <1>1
    <3> QED BY <2>3, <3>1, <3>2, <3>3
  <2> QED BY <2>4, <2>5
<1>6. IsWalk(p, n) BY <1>1, <1>3, <1>4, <1>5 DEF IsWalk
<1>7. Len(p) <= k + 1 BY <1>1, <1>3
<1>8. p[Len(p)] = s[Len(s)]
  <2>1. Len(p) \in 1 .. Len(s) + 1 /\ Len(p) # 1 /\ Len(p) - 1 = Len(s) BY <1>1, <1>3
  <2> QED BY <2>1, <1>3
<1>9. Len(p) <= k => ~Leads(p[Len(p)]) BY <1>1, <1>3, <1>8
<1>10. IsPath(p, n, k) BY <1>6, <1>7, <1>9 DEF IsPath
<1> QED BY <1>10 DEF p, h

\* Every name has a path, however many steps it may take.
LEMMA PathExists ==
  ASSUME Rules
  PROVE  \A k \in Nat : \A n \in Names : \E s : IsPath(s, n, k)
<1> DEFINE T == {k \in Nat : \E n \in Names : ~\E s : IsPath(s, n, k)}
<1>1. SUFFICES ASSUME T # {} PROVE FALSE OBVIOUS
<1>2. PICK k \in T : \A j \in T : k <= j
  <2>1. T \in SUBSET Nat OBVIOUS
  <2> HIDE DEF T
  <2> QED BY <2>1, <1>1, Least
<1>3. k \in Nat OBVIOUS
<1>4. PICK n \in Names : ~\E s : IsPath(s, n, k) OBVIOUS
<1>5. CASE k = 0 \/ ~Leads(n) BY <1>3, <1>4, <1>5, PathEnds
<1>6. CASE k # 0 /\ Leads(n)
  <2>1. k - 1 \in Nat /\ k \in Nat \ {0} /\ ~(k <= k - 1) BY <1>3, <1>6
  <2>2. always[n].user \in Names BY <1>6, LeadsIs
  <2>3. k - 1 \notin T
    <3> HIDE DEF T
    <3> QED BY <2>1, <1>2
  <2>4. PICK s : IsPath(s, always[n].user, k - 1) BY <2>1, <2>2, <2>3
  <2>5. IsPath(<<n>> \o s, n, k) BY <2>1, <2>4, <1>6, PathGoesOn
  <2> QED BY <2>5, <1>4
<1> QED BY <1>5, <1>6

\* Path is a recursion that one function satisfies; its values are the paths.
LEMMA PathIs ==
  ASSUME Rules, NEW n \in Names, NEW k \in 0 .. MaxHops
  PROVE  IsPath(Path[k][n], n, k)
<1>0. MaxHops \in Nat BY ForwardAssumption
<1> DEFINE From1(g, j, m) == IF j = 0 \/ always[m] = NoTarget \/ always[m].uri THEN <<m>>
                             ELSE <<m>> \o g[j - 1][always[m].user]
           Goes(g) == g = [j \in 0 .. MaxHops |-> [m \in Names |-> From1(g, j, m)]]
           f == [j \in 0 .. MaxHops |-> [m \in Names |-> CHOOSE s : IsPath(s, m, j)]]
<1>1. \A j \in 0 .. MaxHops : \A m \in Names : IsPath(f[j][m], m, j)
  <2>1. TAKE j \in 0 .. MaxHops
  <2>2. TAKE m \in Names
  <2>3. f[j][m] = CHOOSE s : IsPath(s, m, j) OBVIOUS
  <2>4. j \in Nat BY <1>0
  <2>5. \E s : IsPath(s, m, j) BY <2>4, PathExists
  <2> HIDE DEF f
  <2> QED BY <2>3, <2>5
<1>2. f = [j \in 0 .. MaxHops |-> [m \in Names |-> f[j][m]]] OBVIOUS
<1>3. Goes(f)
  <2> HIDE DEF f
  <2>1. ASSUME NEW j \in 0 .. MaxHops, NEW m \in Names PROVE f[j][m] = From1(f, j, m)
    <3>1. j \in Nat /\ (j # 0 => j \in Nat \ {0} /\ j - 1 \in 0 .. MaxHops) BY <1>0
    <3>2. IsPath(f[j][m], m, j) BY <1>1
    <3>3. CASE j = 0 \/ ~Leads(m)
      <4>1. IsPath(<<m>>, m, j) BY <3>1, <3>3, PathEnds
      <4>2. f[j][m] = <<m>> BY <3>1, <3>2, <4>1, PathUnique
      <4> QED BY <4>2, <3>3 DEF Leads
    <3>4. CASE j # 0 /\ Leads(m)
      <4>1. always[m].user \in Names BY <3>4, LeadsIs
      <4>2. IsPath(f[j - 1][always[m].user], always[m].user, j - 1)
        BY <4>1, <3>1, <3>4, <1>1
      <4>3. IsPath(<<m>> \o f[j - 1][always[m].user], m, j)
        BY <4>2, <3>1, <3>4, PathGoesOn
      <4>4. f[j][m] = <<m>> \o f[j - 1][always[m].user]
        BY <3>1, <3>2, <4>3, PathUnique
      <4> QED BY <4>4, <3>4 DEF Leads
    <3> QED BY <3>3, <3>4
  <2> HIDE DEF From1
  <2> QED BY <1>2, <2>1
<1>4. Goes(Path)
  <2>1. Path = CHOOSE g : Goes(g) BY Zenon DEF Path
  <2> HIDE DEF Goes, f
  <2> QED BY <2>1, <1>3
<1> HIDE DEF f
<1>5. \A j \in 0 .. MaxHops : \A m \in Names : Path[j][m] = From1(Path, j, m)
  <2> DEFINE g == Path
  <2>1. g = [j \in 0 .. MaxHops |-> [m \in Names |-> From1(g, j, m)]] BY <1>4
  <2> HIDE DEF g, From1
  <2>2. \A j \in 0 .. MaxHops : g[j] = [m \in Names |-> From1(g, j, m)] BY <2>1
  <2>3. \A j \in 0 .. MaxHops : \A m \in Names : g[j][m] = From1(g, j, m) BY <2>2
  <2> QED BY <2>3 DEF g
<1> DEFINE T == {j \in 0 .. MaxHops : \E m \in Names : ~IsPath(Path[j][m], m, j)}
<1>6. T = {}
  <2>1. SUFFICES ASSUME T # {} PROVE FALSE OBVIOUS
  <2>2. PICK j \in T : \A i \in T : j <= i
    <3>1. T \in SUBSET Nat BY <1>0
    <3> HIDE DEF T
    <3> QED BY <3>1, <2>1, Least
  <2>3. j \in 0 .. MaxHops /\ j \in Nat BY <1>0
  <2>4. PICK m \in Names : ~IsPath(Path[j][m], m, j) OBVIOUS
  <2>5. CASE j = 0 \/ ~Leads(m)
    <3>1. Path[j][m] = <<m>> BY <1>5, <2>3, <2>5 DEF Leads
    <3>2. IsPath(<<m>>, m, j) BY <2>3, <2>5, PathEnds
    <3> QED BY <3>1, <3>2, <2>4
  <2>6. CASE j # 0 /\ Leads(m)
    <3>1. j \in Nat \ {0} /\ j - 1 \in 0 .. MaxHops /\ ~(j <= j - 1) BY <1>0, <2>3, <2>6
    <3>2. always[m].user \in Names BY <2>6, LeadsIs
    <3>3. j - 1 \notin T
      <4> HIDE DEF T
      <4> QED BY <3>1, <2>2
    <3>4. IsPath(Path[j - 1][always[m].user], always[m].user, j - 1) BY <3>1, <3>2, <3>3
    <3>5. IsPath(<<m>> \o Path[j - 1][always[m].user], m, j)
      BY <3>1, <3>4, <2>6, PathGoesOn
    <3>6. Path[j][m] = <<m>> \o Path[j - 1][always[m].user]
      BY <1>5, <2>3, <2>6 DEF Leads
    <3> QED BY <3>5, <3>6, <2>4
  <2> QED BY <2>5, <2>6
<1> QED BY <1>6

\* The rules lead in a circle, or too far.
Astray(p) ==
  LET end == always[p[Len(p)]]
  IN Repeats(p) \/ (end.uri /\ In(end.user, p)) \/ Len(p) > MaxHops

\* The names of the search are a walk from its candidate, none of them twice.
SearchWalks ==
  /\ search \in [from : Names, rest : Seq(Names), at : Names, history : Seq(Names)]
  /\ Len(search.history) <= MaxHops
  /\ IsWalk(Visited, search.from) /\ ~Repeats(Visited)

Judged(c) ==
  c.kind \in {"rejected", "uri", "user"} =>
    /\ c.from \in Names /\ c.name \in Names
    /\ \E p : IsPath(p, c.from, MaxHops) /\ (c.kind = "rejected" <=> Astray(p))
    /\ c.kind = "user" => always[c.name] = NoTarget /\ c.target \in Target

ChosenTypes ==
  [kind : {"none", "rejected", "uri", "user", "failed", "elsewhere"},
   from : Names \cup {NoName}, name : Names \cup {NoName}, target : Target \cup {NoTarget}]

ForwardInv ==
  /\ Rules /\ onFailure \in [Names -> Target \cup {NoTarget}]
  /\ dialled \in Seq(Names) /\ Len(dialled) <= MaxRedirects + 1
  /\ search = NoSearch \/ SearchWalks
  /\ chosen \in ChosenTypes /\ Judged(chosen)

\* The names of a search: its history, and the one it is at.
LEMMA VisitedIs ==
  ASSUME SearchWalks
  PROVE  /\ Visited \in Seq(Names) /\ Len(Visited) = Len(search.history) + 1
         /\ Len(search.history) \in Nat /\ Visited[Len(Visited)] = search.at
         /\ \A i \in 1 .. Len(search.history) : Visited[i] = search.history[i]
BY DEF SearchWalks, Visited

\* A search that goes on is one that walks.
LEMMA SearchIs ==
  ASSUME ForwardInv, Searching PROVE SearchWalks
BY DEF ForwardInv, Searching, NoSearch

\* In and Repeats, of a sequence of names.
LEMMA WithinIs ==
  ASSUME NEW s \in Seq(Names), NEW x
  PROVE  /\ In(x, s) <=> \E i \in 1 .. Len(s) : s[i] = x
         /\ Repeats(s) <=> \E i, j \in 1 .. Len(s) : i # j /\ s[i] = s[j]
BY DEF In, Repeats

\* What select rejects, the rules lead astray; what it resolves, they do not.
LEMMA SearchEnds ==
  ASSUME ForwardInv, Searching, NEW p, IsPath(p, search.from, MaxHops)
  PROVE  /\ Rejects => Astray(p)
         /\ ~Rejects /\ ~Leads(search.at) => ~Astray(p)
<1> DEFINE v == Visited
           L == Len(v)
<1>0. SearchWalks /\ Rules /\ MaxHops \in Nat /\ search.at \in Names
  BY SearchIs, ForwardAssumption DEF ForwardInv, SearchWalks
<1>1. /\ v \in Seq(Names) /\ L \in Nat /\ L > 0 /\ L <= MaxHops + 1 /\ v[L] = search.at
      /\ IsWalk(v, search.from) /\ ~Repeats(v)
  BY <1>0, VisitedIs DEF SearchWalks
<1>2. /\ p \in Seq(Names) /\ Len(p) \in Nat /\ Len(p) <= MaxHops + 1
      /\ Len(p) <= MaxHops => ~Leads(p[Len(p)])
      /\ \A i \in 1 .. Len(p) - 1 : Leads(p[i]) /\ p[i + 1] = always[p[i]].user
  BY DEF IsPath, IsWalk
<1>3. /\ TooLong <=> L > MaxHops
      /\ \A t : Looping(t) <=> \E i \in 1 .. L : v[i] = t.user
  <2>1. \A x : In(x, v) <=> \E i \in 1 .. L : v[i] = x BY <1>1, WithinIs
  <2> QED BY <2>1 DEF TooLong, Looping
<1> HIDE DEF v
<1>4. L <= Len(p) /\ \A i \in 1 .. L : v[i] = p[i]
  <2> HIDE DEF L
  <2>1. Len(v) <= Len(p) /\ \A i \in 1 .. Len(v) : v[i] = p[i]
    BY <1>0, <1>1, WalkBegins DEF L
  <2> QED BY <2>1 DEF L
<1> HIDE DEF L
<1>5. p[L] = search.at BY <1>1, <1>4
<1>6. L < Len(p) => Leads(search.at) /\ p[L + 1] = always[search.at].user
  BY <1>1, <1>2, <1>5
<1>7. /\ \A x : In(x, p) <=> \E i \in 1 .. Len(p) : p[i] = x
      /\ Repeats(p) <=> \E i, j \in 1 .. Len(p) : i # j /\ p[i] = p[j]
  BY <1>2, WithinIs
<1>8. ASSUME Rejects PROVE Astray(p)
  <2>1. CASE L > MaxHops
    <3>1. Len(p) > MaxHops BY <2>1, <1>0, <1>1, <1>2, <1>4
    <3> QED BY <3>1 DEF Astray
  <2>2. CASE ~(L > MaxHops)
    <3> DEFINE t == always[search.at]
    <3>1. t # NoTarget /\ Looping(t) BY <1>3, <1>8, <2>2 DEF Rejects
    <3>2. t.user \in Names /\ t.uri \in BOOLEAN BY <3>1, <1>0, LeadsIs
    <3>3. PICK i \in 1 .. L : v[i] = t.user BY <3>1, <1>3
    <3>4. p[i] = t.user /\ i \in 1 .. Len(p) BY <3>3, <1>1, <1>2, <1>4
    <3>5. CASE Leads(search.at)
      <4>1. L < Len(p)
        <5>1. SUFFICES ASSUME L = Len(p) PROVE FALSE BY <1>1, <1>2, <1>4
        <5> QED BY <5>1, <3>5, <2>2, <1>0, <1>1, <1>2, <1>5
      <4>2. p[L + 1] = t.user /\ L + 1 \in 1 .. Len(p) /\ L + 1 # i
        BY <4>1, <3>3, <1>1, <1>2, <1>6
      <4>3. Repeats(p) BY <4>2, <3>4, <1>7
      <4> QED BY <4>3 DEF Astray
    <3>6. CASE ~Leads(search.at)
      <4>1. t.uri BY <3>1, <3>6 DEF Leads
      <4>2. L = Len(p) BY <3>6, <1>1, <1>2, <1>4, <1>6
      <4>3. always[p[Len(p)]] = t BY <4>2, <1>5
      <4>4. In(t.user, p) BY <3>4, <1>7
      <4> QED BY <4>1, <4>3, <4>4 DEF Astray
    <3> QED BY <3>5, <3>6
  <2> QED BY <2>1, <2>2
<1>9. ASSUME ~Rejects, ~Leads(search.at) PROVE ~Astray(p)
  <2> DEFINE t == always[search.at]
  <2>1. L = Len(p) BY <1>9, <1>1, <1>2, <1>4, <1>6
  <2>2. p = v
    <3>1. Len(v) = Len(p) BY <2>1 DEF L
    <3>2. \A i \in 1 .. Len(v) : v[i] = p[i] BY <1>4 DEF L
    <3> QED BY <3>1, <3>2, <1>1, <1>2, SeqEqual
  <2>3. ~Repeats(p) /\ ~(Len(p) > MaxHops) BY <1>1, <1>3, <1>9, <2>1, <2>2 DEF Rejects
  <2>4. always[p[Len(p)]] = t BY <2>1, <1>5
  <2>5. ~(t.uri /\ In(t.user, p))
    <3>1. CASE t = NoTarget BY <3>1, <1>0, LeadsIs
    <3>2. CASE t # NoTarget
      <4>1. ~Looping(t) BY <3>2, <1>9 DEF Rejects
      <4> QED BY <4>1, <1>3, <1>4, <1>7, <2>1
    <3> QED BY <3>1, <3>2
  <2> QED BY <2>3, <2>4, <2>5 DEF Astray
<1> QED BY <1>8, <1>9

\* A search that starts.
LEMMA SearchStarts ==
  ASSUME NEW c \in Names, NEW rest \in Seq(Names), search' = SearchFor(c, rest)
  PROVE  SearchWalks'
<1>1. /\ search'.from = c /\ search'.at = c /\ search'.rest = rest /\ search'.history = << >>
  BY DEF SearchFor
<1>2. PICK v : v = Visited' OBVIOUS
<1>3. v \in Seq(Names) /\ Len(v) = 1 /\ v[1] = c
  <2>1. v = Append(<< >>, c) BY <1>1, <1>2 DEF Visited
  <2> QED BY <2>1
<1>4. ~Repeats(v) BY <1>3, WithinIs
<1>5. IsWalk(Visited, search.from)' BY <1>1, <1>2, <1>3 DEF IsWalk
<1>6. MaxHops \in Nat /\ << >> \in Seq(Names) /\ Len(<< >>) = 0
  BY ForwardAssumption
<1>7. (~Repeats(Visited))' BY <1>2, <1>4 DEF Repeats
<1> QED BY <1>1, <1>5, <1>6, <1>7 DEF SearchWalks, SearchFor

\* A search that goes on.
LEMMA SearchGoesOn ==
  ASSUME ForwardInv, Searching, ~Rejects, Leads(search.at), always' = always,
         search' = [search EXCEPT !.at = always[search.at].user, !.history = Visited]
  PROVE  SearchWalks'
<1> DEFINE t == always[search.at]
           v == Visited
<1>0. SearchWalks /\ Rules /\ search.at \in Names BY SearchIs DEF ForwardInv, SearchWalks
<1>1. t # NoTarget /\ t.user \in Names BY <1>0, LeadsIs DEF Leads
<1>2. /\ v \in Seq(Names) /\ Len(v) \in Nat /\ Len(v) > 0 /\ v[Len(v)] = search.at
      /\ IsWalk(v, search.from) /\ ~Repeats(v)
  BY <1>0, VisitedIs DEF SearchWalks
<1>3. /\ Len(v) <= MaxHops /\ MaxHops \in Nat
      /\ \A i \in 1 .. Len(v) : v[i] # t.user
  <2>1. In(t.user, v) <=> \E i \in 1 .. Len(v) : v[i] = t.user BY <1>2, WithinIs
  <2>2. ~TooLong /\ ~Looping(t) BY <1>1 DEF Rejects
  <2> QED BY <2>1, <2>2, <1>2, ForwardAssumption DEF TooLong, Looping
<1> HIDE DEF t
<1>4. /\ search'.from = search.from /\ search'.at = t.user /\ search'.rest = search.rest
      /\ search'.history = v
  <2>1. search' = [search EXCEPT !.at = t.user, !.history = v] BY DEF t
  <2> HIDE DEF v
  <2> QED BY <2>1, <1>0 DEF SearchWalks
<1> HIDE DEF v
<1>5. PICK w : w = Visited' OBVIOUS
<1>6. /\ w \in Seq(Names) /\ Len(w) = Len(v) + 1 /\ w[Len(v) + 1] = t.user
      /\ \A i \in 1 .. Len(v) : w[i] = v[i]
  <2>1. w = Append(v, t.user) BY <1>4, <1>5 DEF Visited
  <2> QED BY <2>1, <1>1, <1>2
<1>7. ~Repeats(w)
  <2>1. \A i, j \in 1 .. Len(v) : i # j => v[i] # v[j] BY <1>2, WithinIs
  <2>2. \A i, j \in 1 .. Len(w) : i # j => w[i] # w[j]
    <3>1. TAKE i, j \in 1 .. Len(w)
    <3>2. i \in 1 .. Len(v) \/ i = Len(v) + 1 BY <1>2, <1>6
    <3>3. j \in 1 .. Len(v) \/ j = Len(v) + 1 BY <1>2, <1>6
    <3> QED BY <3>2, <3>3, <2>1, <1>3, <1>6
  <2> QED BY <2>2, <1>6, WithinIs
<1>8. \A i \in 1 .. Len(w) - 1 : Leads(w[i]) /\ w[i + 1] = always[w[i]].user
  <2>1. TAKE i \in 1 .. Len(w) - 1
  <2>2. i \in 1 .. Len(v) /\ w[i] = v[i] BY <1>2, <1>6
  <2>3. CASE i = Len(v) BY <2>2, <2>3, <1>2, <1>6 DEF t
  <2>4. CASE i # Len(v)
    <3>1. i \in 1 .. Len(v) - 1 /\ i + 1 \in 1 .. Len(v) BY <2>2, <2>4, <1>2
    <3>2. Leads(v[i]) /\ v[i + 1] = always[v[i]].user BY <3>1, <1>2 DEF IsWalk
    <3> QED BY <3>1, <3>2, <2>2, <1>6
  <2> QED BY <2>3, <2>4
<1>9. IsWalk(w, search.from)
  BY <1>2, <1>6, <1>8 DEF IsWalk
<1>10. IsWalk(Visited, search.from)' BY <1>4, <1>5, <1>9 DEF IsWalk, Leads
<1>11. (~Repeats(Visited))' BY <1>5, <1>7 DEF Repeats
<1> QED BY <1>0, <1>1, <1>2, <1>3, <1>4, <1>10, <1>11 DEF SearchWalks

\* The invariant holds before the first call.
LEMMA ForwardInvInit == ForwardInit => ForwardInv
<1> SUFFICES ASSUME ForwardInit PROVE ForwardInv OBVIOUS
<1>1. /\ Rules /\ onFailure \in [Names -> Target \cup {NoTarget}]
      /\ search = NoSearch /\ chosen = NotChosen /\ dialled = << >>
  BY DEF ForwardInit, Rules
<1>2. MaxRedirects \in Nat /\ Len(<< >>) = 0 /\ << >> \in Seq(Names) BY ForwardAssumption
<1>3. Judged(chosen) BY <1>1 DEF Judged, NotChosen
<1>4. Len(dialled) <= MaxRedirects + 1 BY <1>1, <1>2
<1> QED BY <1>1, <1>2, <1>3, <1>4 DEF ForwardInv, NotChosen, ChosenTypes

\* What is judged stays so, for the rules of a call do not change.
LEMMA JudgedStays ==
  ASSUME NEW c, Judged(c), always' = always PROVE Judged(c)'
BY Zenon DEF Judged, IsPath, IsWalk, Astray, Leads

\* A call begins, or its caller follows a 302 back.
LEMMA StartPreserves ==
  ASSUME ForwardInv, NEW c \in Names, NEW to \in Names, Len(dialled) <= MaxRedirects,
         StartSearch(c, to), UNCHANGED <<always, onFailure>>
  PROVE  ForwardInv'
<1>1. Rules /\ onFailure \in [Names -> Target \cup {NoTarget}] /\ dialled \in Seq(Names)
  BY DEF ForwardInv
<1>2. Tail(Candidates(c, to)) \in Seq(Names) BY DEF Candidates
<1>3. SearchWalks' BY <1>2, SearchStarts DEF StartSearch
<1>4. dialled' \in Seq(Names) /\ Len(dialled') <= MaxRedirects + 1
  BY <1>1, ForwardAssumption DEF StartSearch
<1>5. chosen' \in ChosenTypes /\ chosen'.kind = "none"
  BY DEF StartSearch, NotChosen, ChosenTypes
<1>6. Judged(chosen)' BY <1>5 DEF Judged
<1> QED BY <1>1, <1>3, <1>4, <1>5, <1>6 DEF ForwardInv, Rules

\* The search ends.
LEMMA ChosenIs ==
  ASSUME ForwardInv, Searching, NEW kind, NEW target, Chose(kind, target),
         UNCHANGED <<always, onFailure, dialled>>,
         kind \in {"rejected", "uri", "user", "failed"}, target \in Target \cup {NoTarget},
         kind = "rejected" => Rejects,
         kind \in {"uri", "user"} => ~Rejects /\ ~Leads(search.at),
         kind = "user" => always[search.at] = NoTarget /\ target \in Target
  PROVE  ForwardInv'
<1>1. SearchWalks /\ Rules /\ search.from \in Names /\ search.at \in Names
  BY SearchIs DEF ForwardInv, SearchWalks
<1>2. chosen' = [kind |-> kind, from |-> search.from, name |-> search.at, target |-> target]
  BY DEF Chose
<1>3. search' = NoSearch BY DEF Chose
<1>4. PICK c : c = chosen' OBVIOUS
<1>5. /\ c.kind = kind /\ c.from = search.from /\ c.name = search.at /\ c.target = target
      /\ c \in ChosenTypes
  BY <1>1, <1>2, <1>4 DEF ChosenTypes
<1>6. Judged(c)
  <2>1. PICK p : IsPath(p, search.from, MaxHops)
    <3>1. MaxHops \in Nat BY ForwardAssumption
    <3> QED BY <3>1, <1>1, PathExists
  <2>2. /\ Rejects => Astray(p)
        /\ ~Rejects /\ ~Leads(search.at) => ~Astray(p)
    BY <2>1, SearchEnds
  <2> QED BY <1>1, <1>5, <2>1, <2>2 DEF Judged
<1>7. Judged(chosen)'
  <2>1. Judged(c)' BY <1>6, JudgedStays
  <2> QED BY <2>1, <1>4 DEF Judged
<1> QED BY <1>3, <1>4, <1>5, <1>7 DEF ForwardInv, Rules

\* Each action of the forwarding keeps the invariant.
LEMMA ForwardInvNext == ForwardInv /\ [ForwardNext]_forwardVars => ForwardInv'
<1> SUFFICES ASSUME ForwardInv, [ForwardNext]_forwardVars PROVE ForwardInv' OBVIOUS
<1>0. /\ Rules /\ onFailure \in [Names -> Target \cup {NoTarget}]
      /\ dialled \in Seq(Names) /\ Judged(chosen) /\ chosen \in ChosenTypes
      /\ MaxRedirects \in Nat
  BY ForwardAssumption DEF ForwardInv
<1>1. ASSUME NEW ruri \in Names, NEW to \in Names, Dial(ruri, to) PROVE ForwardInv'
  <2>1. Len(dialled) = 0 BY <1>1 DEF Dial
  <2>2. Len(dialled) <= MaxRedirects BY <2>1, <1>0
  <2> QED BY <1>1, <2>2, StartPreserves DEF Dial
<1>2. CASE Reject
  <2>1. /\ Searching /\ Rejects /\ Chose("rejected", NoTarget)
        /\ UNCHANGED <<always, onFailure, dialled>>
    BY <1>2 DEF Reject
  <2> QED BY <2>1, ChosenIs
<1>3. CASE Forward
  <2> DEFINE t == always[search.at]
  <2>1. /\ Searching /\ ~Rejects /\ t # NoTarget /\ UNCHANGED <<always, onFailure, dialled>>
    BY <1>3 DEF Forward
  <2>2. CASE t.uri
    <3>1. Chose("uri", t) BY <1>3, <2>2 DEF Forward
    <3>2. ~Leads(search.at) BY <2>2 DEF Leads
    <3>3. t \in Target \cup {NoTarget}
      BY <2>1, <1>0, SearchIs DEF SearchWalks, Rules
    <3> QED BY <2>1, <3>1, <3>2, <3>3, ChosenIs
  <2>3. CASE ~t.uri
    <3>1. /\ search' = [search EXCEPT !.at = t.user, !.history = Visited] /\ UNCHANGED chosen
      BY <1>3, <2>3 DEF Forward
    <3>2. Leads(search.at) BY <2>1, <2>3 DEF Leads
    <3>3. SearchWalks' BY <2>1, <3>1, <3>2, SearchGoesOn
    <3>4. Judged(chosen)'
      <4>1. Judged(chosen) /\ chosen' = chosen /\ always' = always BY <1>0, <2>1, <3>1
      <4> QED BY <4>1 DEF Judged, IsPath, IsWalk, Astray, Leads
    <3> QED BY <2>1, <3>1, <3>3, <3>4 DEF ForwardInv, Rules
  <2> QED BY <2>2, <2>3
<1>4. CASE Resolve
  <2>1. /\ Searching /\ ~Rejects /\ always[search.at] = NoTarget
        /\ UNCHANGED <<always, onFailure, dialled>> /\ ~Leads(search.at)
    BY <1>4 DEF Resolve, Unforwarded, Leads
  <2>2. SearchWalks /\ search.at \in Names /\ search.rest \in Seq(Names)
    BY <2>1, SearchIs DEF SearchWalks
  <2>3. CASE Chose("user", Normalised)
    <3>1. Normalised \in Target BY <2>2, ForwardAssumption DEF Normalised, Target
    <3> QED BY <2>1, <2>3, <3>1, ChosenIs
  <2>4. CASE /\ search.rest # << >> /\ search' = SearchFor(Head(search.rest), Tail(search.rest))
             /\ UNCHANGED chosen
    <3>1. Head(search.rest) \in Names /\ Tail(search.rest) \in Seq(Names)
      BY <2>2, <2>4, HeadTailProperties
    <3>2. SearchWalks' BY <2>4, <3>1, SearchStarts
    <3>3. Judged(chosen)'
      <4>1. Judged(chosen) /\ chosen' = chosen /\ always' = always BY <1>0, <2>1, <2>4
      <4> QED BY <4>1 DEF Judged, IsPath, IsWalk, Astray, Leads
    <3> QED BY <2>1, <2>4, <3>2, <3>3 DEF ForwardInv, Rules
  <2>5. CASE search.rest = << >> /\ Chose("failed", NoTarget)
    BY <2>1, <2>5, ChosenIs
  <2> QED BY <1>4, <2>3, <2>4, <2>5 DEF Resolve
<1>5. CASE DivertedElsewhere
  <2>1. /\ chosen' = [chosen EXCEPT !.kind = "elsewhere", !.target = Diverted]
        /\ UNCHANGED <<always, onFailure, search, dialled>> /\ chosen.kind = "user"
    BY <1>5 DEF DivertedElsewhere, Diverts
  <2>2. Diverted \in Target \cup {NoTarget}
    BY <1>0, <1>5 DEF DivertedElsewhere, Diverts, Diverted, Judged, Target
  <2>3. chosen' \in ChosenTypes /\ chosen'.kind = "elsewhere" BY <1>0, <2>1, <2>2 DEF ChosenTypes
  <2>4. Judged(chosen)' BY <2>3 DEF Judged
  <2> QED BY <2>1, <2>3, <2>4
    DEF ForwardInv, Rules, SearchWalks, Visited, IsWalk, Leads
<1>6. CASE DivertedBack
  <2>1. chosen.kind = "user" /\ chosen.target.user \in Names
    BY <1>6, <1>0 DEF DivertedBack, Diverts, Judged, Target
  <2>2. Diverted.user \in Names
    BY <1>6, <1>0, <2>1 DEF DivertedBack, Diverts, Diverted, Target
  <2> QED BY <1>6, <2>2, StartPreserves DEF DivertedBack
<1>7. CASE UNCHANGED forwardVars
  <2>1. UNCHANGED <<always, onFailure, search, chosen, dialled>> BY <1>7 DEF forwardVars
  <2>2. Judged(chosen)'
    BY <1>0, <2>1 DEF Judged, IsPath, IsWalk, Astray, Leads
  <2> QED BY <2>1, <2>2 DEF ForwardInv, Rules, SearchWalks, Visited, IsWalk, Leads
<1> QED BY <1>1, <1>2, <1>3, <1>4, <1>5, <1>6, <1>7 DEF ForwardNext

\* What the search found out is what the reference says.
LEMMA ForwardIsSafe == ForwardInv => ForwardingSafe
<1> SUFFICES ASSUME ForwardInv PROVE ForwardingSafe OBVIOUS
<1>0. Rules /\ MaxHops \in Nat BY ForwardAssumption DEF ForwardInv
<1>1. ForwardTypeOK
  <2>1. search.at \in Names \cup {NoName} /\ Len(search.history) <= MaxHops
    <3>1. CASE search = NoSearch
      <4>1. Len(<< >>) = 0 OBVIOUS
      <4> QED BY <3>1, <4>1, <1>0 DEF NoSearch
    <3>2. CASE SearchWalks BY <3>2 DEF SearchWalks
    <3> QED BY <3>1, <3>2 DEF ForwardInv
  <2> QED BY <2>1 DEF ForwardInv, ForwardTypeOK, ChosenTypes
<1>2. RejectedRightly
  <2>1. SUFFICES ASSUME chosen.kind \in {"rejected", "uri", "user"}
        PROVE  chosen.kind = "rejected" <=> Astray(Path[MaxHops][chosen.from])
    BY Zenon DEF RejectedRightly, Astray
  <2>2. chosen.from \in Names /\ Judged(chosen) BY <2>1 DEF ForwardInv, Judged
  <2>3. PICK p : IsPath(p, chosen.from, MaxHops) /\ (chosen.kind = "rejected" <=> Astray(p))
    BY <2>1, <2>2 DEF Judged
  <2>4. IsPath(Path[MaxHops][chosen.from], chosen.from, MaxHops)
    <3>1. MaxHops \in 0 .. MaxHops BY <1>0
    <3> QED BY <3>1, <2>2, <1>0, PathIs
  <2>5. p = Path[MaxHops][chosen.from] BY <2>3, <2>4, <1>0, PathUnique
  <2> QED BY <2>3, <2>5
<1>3. ForwardedNotOffered BY DEF ForwardInv, Judged, ForwardedNotOffered
<1> QED BY <1>1, <1>2, <1>3 DEF ForwardingSafe

\* However many names, rules and hops there are, and however often the caller
\* follows a 302 back: an INVITE is rejected by select exactly when the rules
\* lead it in a circle or through more than max_hops names, and a name that has
\* an unconditional rule is never rung.
THEOREM ForwardingAlwaysSafe == ForwardSpec => []ForwardingSafe
BY ForwardInvInit, ForwardInvNext, ForwardIsSafe, PTL DEF ForwardSpec

(***************************************************************************)
(* Capacity                                                                *)
(***************************************************************************)
\* What the recursion of Available makes of the first n members.
Entry(g, n) ==
  IF n = 0 THEN << >>
  ELSE IF Usable(Members[n]) THEN Append(g[n - 1], Members[n]) ELSE g[n - 1]

Lists(g, n) == g = [k \in 0 .. n |-> Entry(g, k)]

\* The recursion, value by value.
LEMMA ListsIs ==
  ASSUME NEW n \in Nat, NEW g
  PROVE  Lists(g, n) <=> g = [k \in 0 .. n |-> g[k]] /\ \A k \in 0 .. n : g[k] = Entry(g, k)
<1>1. ASSUME Lists(g, n) PROVE g = [k \in 0 .. n |-> g[k]] /\ \A k \in 0 .. n : g[k] = Entry(g, k)
  BY <1>1 DEF Lists
<1>2. ASSUME g = [k \in 0 .. n |-> g[k]], \A k \in 0 .. n : g[k] = Entry(g, k) PROVE Lists(g, n)
  BY <1>2 DEF Lists
<1> QED BY <1>1, <1>2

\* There is such a function, whatever the number of members.
LEMMA ListsExist == \A n \in Nat : \E g : Lists(g, n)
<1> DEFINE T == {n \in Nat : ~\E g : Lists(g, n)}
<1>1. SUFFICES ASSUME T # {} PROVE FALSE OBVIOUS
<1>2. PICK n \in T : \A j \in T : n <= j
  <2>1. T \in SUBSET Nat OBVIOUS
  <2> HIDE DEF T
  <2> QED BY <2>1, <1>1, Least
<1>3. n \in Nat /\ ~\E g : Lists(g, n) OBVIOUS
<1>4. CASE n = 0
  <2> DEFINE g == [k \in 0 .. 0 |-> << >>]
  <2>1. g = [k \in 0 .. 0 |-> g[k]] /\ \A k \in 0 .. 0 : g[k] = Entry(g, k) BY DEF Entry
  <2> HIDE DEF g
  <2>2. Lists(g, n) BY <2>1, <1>3, <1>4, ListsIs
  <2> QED BY <2>2, <1>3
<1>5. CASE n # 0
  <2>1. n - 1 \in Nat /\ ~(n <= n - 1) BY <1>3, <1>5
  <2>2. n - 1 \notin T
    <3> HIDE DEF T
    <3> QED BY <2>1, <1>2
  <2>3. PICK g : Lists(g, n - 1) BY <2>1, <2>2
  <2>4. \A k \in 0 .. n - 1 : g[k] = Entry(g, k) BY <2>1, <2>3, ListsIs
  <2> DEFINE h == [k \in 0 .. n |-> IF k = n THEN Entry(g, n) ELSE g[k]]
  <2>5. h = [k \in 0 .. n |-> h[k]] OBVIOUS
  <2>6. \A k \in 0 .. n : h[k] = IF k = n THEN Entry(g, n) ELSE g[k] OBVIOUS
  <2> HIDE DEF h
  <2>7. ASSUME NEW k \in 0 .. n PROVE h[k] = Entry(h, k)
    <3>1. k # 0 => k - 1 \in 0 .. n /\ k - 1 # n BY <1>3
    <3>2. k # 0 => h[k - 1] = g[k - 1] BY <3>1, <2>6
    <3>3. Entry(h, k) = Entry(g, k) BY <3>2 DEF Entry
    <3>4. CASE k = n BY <3>3, <3>4, <2>6
    <3>5. CASE k # n
      <4>1. k \in 0 .. n - 1 BY <3>5, <1>3
      <4> QED BY <4>1, <3>3, <3>5, <2>4, <2>6
    <3> QED BY <3>4, <3>5
  <2>8. Lists(h, n) BY <2>5, <2>7, <1>3, ListsIs
  <2> QED BY <2>8, <1>3
<1> QED BY <1>4, <1>5

\* A sequence of trunks, each of which is one of the first n members, once.
Listed(s, n) ==
  /\ s \in Seq(Trunks) /\ Len(s) <= n
  /\ \A i \in 1 .. Len(s) : \E k \in 1 .. n : s[i] = Members[k]
  /\ \A i, j \in 1 .. Len(s) : s[i] = s[j] => i = j

\* No trunk is in the group twice; _load_groups gives the second member of one
\* name a name of its own.
Distinct == \A i, j \in 1 .. Len(Members) : Members[i] = Members[j] => i = j

\* The members of the group that can take a call, in their order: some of the
\* trunks, and each of them once if no trunk is a member twice.
LEMMA AvailableIs == Distinct => Listed(Available, Len(Members))
<1> SUFFICES ASSUME Distinct PROVE Listed(Available, Len(Members)) OBVIOUS
<1> DEFINE N == Len(Members)
<1>0. N \in Nat /\ \A n \in 1 .. N : Members[n] \in Trunks BY TrunkAssumption
<1>1. \A i, j \in 1 .. N : Members[i] = Members[j] => i = j BY DEF Distinct
<1>2. PICK g : Lists(g, N) /\ Available = g[N]
  <2>1. Available = (CHOOSE g : Lists(g, N))[N] BY Zenon DEF Available, Lists, Entry
  <2>2. \E g : Lists(g, N) BY <1>0, ListsExist
  <2> QED BY <2>1, <2>2
<1> HIDE DEF N
<1>3. \A n \in 0 .. N : g[n] = Entry(g, n) BY <1>0, <1>2, ListsIs
<1> DEFINE T == {n \in 0 .. N : ~Listed(g[n], n)}
<1>4. T = {}
  <2>1. SUFFICES ASSUME T # {} PROVE FALSE OBVIOUS
  <2>2. PICK n \in T : \A j \in T : n <= j
    <3>1. T \in SUBSET Nat BY <1>0
    <3> HIDE DEF T
    <3> QED BY <3>1, <2>1, Least
  <2>3. n \in 0 .. N /\ n \in Nat /\ ~Listed(g[n], n) BY <1>0
  <2>4. n # 0
    <3>1. SUFFICES ASSUME n = 0 PROVE FALSE OBVIOUS
    <3>2. g[n] = << >> BY <1>3, <2>3, <3>1 DEF Entry
    <3>3. << >> \in Seq(Trunks) /\ Len(<< >>) = 0 OBVIOUS
    <3> DEFINE e == << >>
    <3> HIDE DEF e
    <3>4. e \in Seq(Trunks) /\ Len(e) = 0 BY <3>3 DEF e
    <3>5. Listed(e, n) BY <3>1, <3>4 DEF Listed
    <3> QED BY <3>2, <3>5, <2>3 DEF e
  <2>5. n - 1 \in 0 .. N /\ ~(n <= n - 1) /\ n \in 1 .. N BY <1>0, <2>3, <2>4
  <2>6. n - 1 \notin T
    <3> HIDE DEF T
    <3> QED BY <2>5, <2>2
  <2> DEFINE s == g[n - 1]
  <2>7. Listed(s, n - 1) BY <2>5, <2>6
  <2>8. g[n] = IF Usable(Members[n]) THEN Append(s, Members[n]) ELSE s
    BY <1>3, <2>3, <2>4 DEF Entry
  <2> HIDE DEF s
  <2>9. /\ s \in Seq(Trunks) /\ Len(s) \in Nat /\ Len(s) <= n - 1
        /\ \A i \in 1 .. Len(s) : \E k \in 1 .. n - 1 : s[i] = Members[k]
        /\ \A i, j \in 1 .. Len(s) : s[i] = s[j] => i = j
    BY <2>7 DEF Listed
  <2>10. Listed(s, n)
    <3>1. Len(s) <= n BY <2>3, <2>9
    <3>2. \A k \in 1 .. n - 1 : k \in 1 .. n BY <2>3
    <3> QED BY <3>1, <3>2, <2>9 DEF Listed
  <2>11. Listed(Append(s, Members[n]), n)
    <3> DEFINE a == Append(s, Members[n])
    <3>1. /\ a \in Seq(Trunks) /\ Len(a) = Len(s) + 1 /\ a[Len(s) + 1] = Members[n]
          /\ \A i \in 1 .. Len(s) : a[i] = s[i]
      <4>1. Members[n] \in Trunks BY <1>0, <2>5
      <4> QED BY <4>1, <2>9, AppendProperties
    <3> HIDE DEF a
    <3>2. \A i \in 1 .. Len(a) : i \in 1 .. Len(s) \/ i = Len(s) + 1 BY <2>9, <3>1
    <3>3. \A i \in 1 .. Len(s) : a[i] # Members[n]
      <4>1. TAKE i \in 1 .. Len(s)
      <4>2. PICK k \in 1 .. n - 1 : s[i] = Members[k] BY <2>9
      <4>3. k \in 1 .. N /\ k # n BY <2>3, <2>5, <1>0
      <4>4. Members[k] # Members[n] BY <4>3, <2>5, <1>1
      <4> QED BY <3>1, <4>2, <4>4
    <3>4. \A i, j \in 1 .. Len(a) : a[i] = a[j] => i = j
      BY <3>1, <3>2, <3>3, <2>9
    <3>5. \A i \in 1 .. Len(a) : \E k \in 1 .. n : a[i] = Members[k]
      <4>1. \A k \in 1 .. n - 1 : k \in 1 .. n BY <2>3
      <4>2. n \in 1 .. n BY <2>5
      <4> QED BY <4>1, <4>2, <3>1, <3>2, <2>9
    <3>6. Len(a) <= n BY <3>1, <2>3, <2>9
    <3> QED BY <3>1, <3>4, <3>5, <3>6 DEF Listed, a
  <2> QED BY <2>3, <2>8, <2>10, <2>11
<1>5. N \in 0 .. N BY <1>0
<1>6. Listed(g[N], N) BY <1>4, <1>5
<1> QED BY <1>2, <1>6 DEF N

\* One element more or less.
LEMMA Recount ==
  ASSUME NEW S, IsFiniteSet(S), NEW D, NEW c, \A d : d # c => (d \in S <=> d \in D)
  PROVE  /\ IsFiniteSet(D) /\ Cardinality(S) \in Nat /\ Cardinality(D) \in Nat
         /\ Cardinality(D) = (Cardinality(S) - (IF c \in S THEN 1 ELSE 0))
                               + (IF c \in D THEN 1 ELSE 0)
<1> DEFINE R == S \ {c}
<1>1. IsFiniteSet(R) /\ Cardinality(R) \in Nat /\ Cardinality(S) \in Nat
  BY FS_RemoveElement, FS_CardinalityType
<1>2. Cardinality(S) = Cardinality(R) + (IF c \in S THEN 1 ELSE 0)
  <2>1. CASE c \in S
    <3>1. Cardinality(R) = Cardinality(S) - 1 BY <2>1, FS_RemoveElement
    <3> HIDE DEF R
    <3> QED BY <2>1, <3>1, <1>1
  <2>2. CASE c \notin S
    <3>1. R = S BY <2>2
    <3> HIDE DEF R
    <3> QED BY <2>2, <3>1, <1>1
  <2> QED BY <2>1, <2>2
<1>3. /\ IsFiniteSet(D) /\ Cardinality(D) \in Nat
      /\ Cardinality(D) = Cardinality(R) + (IF c \in D THEN 1 ELSE 0)
  <2>1. CASE c \in D
    <3>1. D = R \cup {c} /\ c \notin R BY <2>1
    <3> HIDE DEF R
    <3>2. IsFiniteSet(R \cup {c}) /\ Cardinality(R \cup {c}) = Cardinality(R) + 1
      BY <1>1, <3>1, FS_AddElement
    <3> QED BY <2>1, <3>1, <3>2, <1>1
  <2>2. CASE c \notin D
    <3>1. D = R BY <2>2
    <3> HIDE DEF R
    <3> QED BY <2>2, <3>1, <1>1
  <2> QED BY <2>1, <2>2
<1> HIDE DEF R
<1> QED BY <1>1, <1>2, <1>3

(***************************************************************************)
(* A round over the group                                                  *)
(***************************************************************************)
\* The last m of L places, counted back from place c, the first following the
\* last.
Recently(c, m, L) == {i \in 1 .. L : (i <= c /\ c - m < i) \/ (c - m) + L < i}

\* The trunks that a round over a group has used, the last of them at place c.
UsedUpTo(group, c, used) ==
  /\ \A i, j \in 1 .. Len(group) : group[i] = group[j] => i = j
  /\ c \in 1 .. Len(group)
  /\ \E m \in 1 .. Len(group) - 1 :
       /\ used = {group[i] : i \in Recently(c, m, Len(group))}
       /\ IsFiniteSet(used) /\ Cardinality(used) = m

\* The cursor stands where the last trunk of the round is.
RoundInv ==
  /\ cursor \in Nat
  /\ round \in [group : Seq(Trunks), used : SUBSET Trunks, again : BOOLEAN]
  /\ round.again = FALSE
  /\ round.group # << >> => UsedUpTo(round.group, cursor, round.used)

\* The place that Turn makes of a cursor.
LEMMA Modulo ==
  ASSUME NEW L \in Nat \ {0}, NEW c \in Nat
  PROVE  /\ c % L \in 0 .. L - 1
         /\ c \in 1 .. L => c % L = IF c = L THEN 0 ELSE c
<1>1. c % L \in 0 .. L - 1 OBVIOUS
<1>2. ASSUME c \in 1 .. L PROVE c % L = IF c = L THEN 0 ELSE c BY <1>2
<1> QED BY <1>1, <1>2

\* The place after c, and the places it makes recent.
After(c, L) == IF c = L THEN 1 ELSE c + 1

LEMMA RecentlyMore ==
  ASSUME NEW L \in Nat \ {0}, NEW c \in 1 .. L, NEW m \in 1 .. L - 1
  PROVE  /\ After(c, L) \notin Recently(c, m, L)
         /\ Recently(After(c, L), m + 1, L) = Recently(c, m, L) \cup {After(c, L)}
<1> DEFINE n == After(c, L)
<1>0. n \in 1 .. L /\ n = IF c = L THEN 1 ELSE c + 1 BY DEF After
<1> HIDE DEF n
<1>1. n \notin Recently(c, m, L) BY <1>0 DEF Recently
<1>2. ASSUME NEW i \in 1 .. L
      PROVE  ((i <= n /\ n - (m + 1) < i) \/ (n - (m + 1)) + L < i)
               <=> ((i <= c /\ c - m < i) \/ (c - m) + L < i) \/ i = n
  BY <1>0
<1>3. Recently(n, m + 1, L) = Recently(c, m, L) \cup {n} BY <1>0, <1>2 DEF Recently
<1> QED BY <1>1, <1>3 DEF n

\* A call takes the next trunk of the group, if it takes one.
LEMMA RoundGoesOn ==
  ASSUME RoundInv, Distinct, NEW t, Resolved(t) PROVE RoundInv'
<1> DEFINE A == Available
           L == Len(A)
           n == (cursor % L) + 1
<1>1. CASE UNCHANGED <<cursor, round>>
  <2>1. cursor' = cursor /\ round' = round BY <1>1
  <2> QED BY <2>1 DEF RoundInv
<1>2. CASE A # << >> /\ t = A[n] /\ cursor' = n /\ round' = NextRound(t)
  <2>1. Listed(A, Len(Members)) BY AvailableIs
  <2> HIDE DEF A
  <2>2. /\ A \in Seq(Trunks) /\ L \in Nat \ {0}
        /\ \A i, j \in 1 .. L : A[i] = A[j] => i = j
    BY <2>1, <1>2, EmptySeq DEF Listed
  <2> HIDE DEF L
  <2>3. cursor \in Nat BY DEF RoundInv
  <2>4. /\ n \in 1 .. L
        /\ cursor \in 1 .. L => n = IF cursor = L THEN 1 ELSE cursor + 1
    <3>1. /\ cursor % L \in 0 .. L - 1
          /\ cursor \in 1 .. L => cursor % L = IF cursor = L THEN 0 ELSE cursor
      BY <2>2, <2>3, Modulo
    <3> DEFINE r == cursor % L
    <3> HIDE DEF r
    <3>2. r \in 0 .. L - 1 /\ (cursor \in 1 .. L => r = IF cursor = L THEN 0 ELSE cursor)
      BY <3>1 DEF r
    <3>3. r + 1 \in 1 .. L BY <3>2, <2>2
    <3>4. cursor \in 1 .. L => r + 1 = IF cursor = L THEN 1 ELSE cursor + 1 BY <3>2, <2>2
    <3> QED BY <3>3, <3>4 DEF r
  <2> HIDE DEF n
  <2>5. t \in Trunks /\ n \in Nat BY <1>2, <2>2, <2>4 DEF L
  <2> DEFINE used == (IF round.group = A THEN round.used ELSE {}) \cup {t}
  <2>6. /\ round'.group = IF L = Cardinality(used) THEN << >> ELSE A
        /\ round'.used = IF L = Cardinality(used) THEN {} ELSE used
        /\ round'.again = (round.again \/ (round.group = A /\ t \in round.used))
        /\ round' = [group |-> round'.group, used |-> round'.used, again |-> round'.again]
    BY <1>2 DEF NextRound, A, L
  <2>7. \E m \in 1 .. L :
          /\ used = {A[i] : i \in Recently(n, m, L)}
          /\ IsFiniteSet(used) /\ Cardinality(used) = m
          /\ ~(round.group = A /\ t \in round.used)
    <3>1. CASE round.group = A
      <4>1. PICK m \in 1 .. L - 1 :
              /\ round.used = {A[i] : i \in Recently(cursor, m, L)}
              /\ IsFiniteSet(round.used) /\ Cardinality(round.used) = m
        BY <1>2, <3>1 DEF RoundInv, UsedUpTo, L
      <4>2. cursor \in 1 .. L BY <1>2, <3>1 DEF RoundInv, UsedUpTo, L
      <4>3. /\ n \notin Recently(cursor, m, L)
            /\ Recently(n, m + 1, L) = Recently(cursor, m, L) \cup {n}
        <5>1. L \in Nat \ {0} /\ m \in 1 .. L - 1 BY <2>2
        <5>2. n = After(cursor, L) BY <2>4, <4>2 DEF After
        <5> QED BY <4>2, <5>1, <5>2, RecentlyMore
      <4>4. Recently(cursor, m, L) \subseteq 1 .. L BY Zenon DEF Recently
      <4>5. t \notin round.used
        <5>1. SUFFICES ASSUME NEW i \in Recently(cursor, m, L), t = A[i] PROVE FALSE BY <4>1
        <5> QED BY <5>1, <4>3, <4>4, <1>2, <2>2, <2>4
      <4>6. IsFiniteSet(round.used \cup {t}) /\ Cardinality(round.used \cup {t}) = m + 1
        BY <4>1, <4>5, FS_AddElement
      <4>7. used = {A[i] : i \in Recently(n, m + 1, L)}
        BY <3>1, <4>1, <4>3, <1>2
      <4>8. m + 1 \in 1 .. L BY <4>1, <2>2
      <4> QED BY <3>1, <4>5, <4>6, <4>7, <4>8
    <3>2. CASE round.group # A
      <4>1. used = {t} /\ IsFiniteSet({t}) /\ Cardinality({t}) = 1
        BY <3>2, FS_Singleton
      <4>2. Recently(n, 1, L) = {n}
        <5>1. \A i \in 1 .. L : ((i <= n /\ n - 1 < i) \/ (n - 1) + L < i) <=> i = n
          BY <2>2, <2>4
        <5> QED BY <5>1, <2>4 DEF Recently
      <4>3. used = {A[i] : i \in Recently(n, 1, L)} BY <4>1, <4>2, <1>2
      <4>4. 1 \in 1 .. L BY <2>2
      <4> QED BY <3>2, <4>1, <4>3, <4>4
    <3> QED BY <3>1, <3>2
  <2> HIDE DEF used
  <2>8. used \in SUBSET Trunks BY <2>5 DEF used, RoundInv
  <2>9. round'.again = FALSE BY <2>6, <2>7 DEF RoundInv
  <2>10. round' \in [group : Seq(Trunks), used : SUBSET Trunks, again : BOOLEAN]
    <3>1. << >> \in Seq(Trunks) OBVIOUS
    <3>2. round'.group \in Seq(Trunks) /\ round'.used \in SUBSET Trunks
      BY <2>6, <2>8, <2>2, <3>1
    <3> QED BY <2>6, <2>9, <3>2
  <2>11. CASE L = Cardinality(used)
    <3>1. round'.group = << >> BY <2>6, <2>11
    <3> QED BY <3>1, <2>5, <2>9, <2>10, <1>2 DEF RoundInv
  <2>12. CASE L # Cardinality(used)
    <3>1. round'.group = A /\ round'.used = used BY <2>6, <2>12
    <3>2. PICK m \in 1 .. L :
            /\ used = {A[i] : i \in Recently(n, m, L)}
            /\ IsFiniteSet(used) /\ Cardinality(used) = m
      BY <2>7
    <3>3. m \in 1 .. L - 1 BY <2>2, <2>12, <3>2
    <3>4. UsedUpTo(A, n, used) BY <2>2, <2>4, <3>2, <3>3 DEF L, UsedUpTo
    <3>5. cursor' = n /\ n \in Nat BY <1>2, <2>5 DEF n
    <3> QED BY <3>1, <3>4, <3>5, <2>9, <2>10 DEF RoundInv
  <2> QED BY <2>11, <2>12
<1>3. UNCHANGED <<cursor, round>> \/ (A # << >> /\ t = A[n] /\ cursor' = n /\ round' = NextRound(t))
  BY Zenon DEF Resolved, Chosen, Turn
<1> HIDE DEF A, n
<1> QED BY <1>1, <1>2, <1>3

(***************************************************************************)
(* The counters                                                            *)
(***************************************************************************)
Routings == Trunks \cup {NoTrunk}

\* The counters of the node and of its trunks against the calls they count.
CountInv ==
  /\ calls \in [Calls -> Call] /\ trunk \in [Trunks -> Trunk] /\ active \in Nat
  /\ NeverOvercounted

\* The gate's counter against the tasks it counts.
GateInv == inflight \in Nat /\ tasks \in SUBSET Requests /\ InflightExact

SlotsInv == GateInv /\ CountInv /\ RoundInv

\* What a task that begins or ends, or another event of the gate, does to the count.
LEMMA GateCounts ==
  ASSUME GateInv,
         \/ \E r \in Requests : Admitted(r) \/ Done(r) \/ Refused(r)
         \/ GateTick \/ UNCHANGED gateVars
  PROVE  GateInv'
<1> DEFINE I(T) == {r \in T : ~r.priority}
<1>0. /\ inflight \in Nat /\ tasks \in SUBSET Requests /\ inflight = Cardinality(I(tasks))
      /\ IsFiniteSet(I(tasks)) /\ \A r \in Requests : r.priority \in BOOLEAN
  <2>1. inflight \in Nat /\ tasks \in SUBSET Requests /\ inflight = Cardinality(I(tasks))
    BY DEF GateInv, InflightExact
  <2>2. I(tasks) \subseteq Requests BY <2>1
  <2>3. IsFiniteSet(Requests) /\ \A r \in Requests : r.priority \in BOOLEAN BY RequestAssumption
  <2>4. IsFiniteSet(I(tasks)) BY <2>2, <2>3, FS_Subset
  <2> QED BY <2>1, <2>3, <2>4
<1>1. ASSUME NEW r \in Requests, Admitted(r) PROVE GateInv'
  <2>1. r \notin tasks /\ tasks' = tasks \cup {r} BY <1>1 DEF Admitted
  <2>2. inflight' = IF r.priority THEN inflight ELSE inflight + 1 BY <1>1 DEF Admitted
  <2>3. tasks' \in SUBSET Requests BY <2>1, <1>0
  <2> DEFINE S == I(tasks)
             D == I(tasks')
  <2>4. \A d : d # r => (d \in S <=> d \in D) BY <2>1
  <2>5. r \notin S /\ (r \in D <=> ~r.priority) BY <2>1
  <2>6. IsFiniteSet(S) /\ inflight = Cardinality(S) /\ inflight \in Nat BY <1>0
  <2> HIDE DEF S, D
  <2>7. /\ Cardinality(D) \in Nat
        /\ Cardinality(D) = (Cardinality(S) - (IF r \in S THEN 1 ELSE 0)) + (IF r \in D THEN 1 ELSE 0)
    BY <2>4, <2>6, Recount
  <2>8. inflight' = Cardinality(D) BY <2>2, <2>5, <2>6, <2>7, <1>0
  <2> QED BY <2>3, <2>7, <2>8 DEF GateInv, InflightExact, D
<1>2. ASSUME NEW r \in Requests, Done(r) PROVE GateInv'
  <2>1. r \in tasks /\ tasks' = tasks \ {r} BY <1>2 DEF Done
  <2>2. inflight' = IF r.priority THEN inflight ELSE IF inflight > 0 THEN inflight - 1 ELSE 0
    BY <1>2, <1>0 DEF Done, Counted, Release
  <2>3. tasks' \in SUBSET Requests BY <2>1, <1>0
  <2> DEFINE S == I(tasks)
             D == I(tasks')
  <2>4. \A d : d # r => (d \in S <=> d \in D) BY <2>1
  <2>5. r \notin D /\ (r \in S <=> ~r.priority) BY <2>1
  <2>6. IsFiniteSet(S) /\ inflight = Cardinality(S) /\ inflight \in Nat BY <1>0
  <2> HIDE DEF S, D
  <2>7. /\ Cardinality(D) \in Nat
        /\ Cardinality(D) = (Cardinality(S) - (IF r \in S THEN 1 ELSE 0)) + (IF r \in D THEN 1 ELSE 0)
    BY <2>4, <2>6, Recount
  <2>8. inflight' = Cardinality(D) BY <2>2, <2>5, <2>6, <2>7, <1>0
  <2> QED BY <2>3, <2>7, <2>8 DEF GateInv, InflightExact, D
<1>3. CASE UNCHANGED <<inflight, tasks>> BY <1>3 DEF GateInv, InflightExact
<1> QED BY <1>1, <1>2, <1>3 DEF Refused, GateTick, gateVars

\* One call goes from one stage to another, and no counter takes more than one
\* slot for it, or keeps one that it gives back.
LEMMA CountHolds ==
  ASSUME CountInv, NEW c \in Calls, NEW new \in Call, calls' = [calls EXCEPT ![c] = new],
         trunk' \in [Trunks -> Trunk], active' \in Nat,
         \/ active' = 0
         \/ active' <= (active - (IF calls[c].stage \in Admittable THEN 1 ELSE 0))
                         + (IF new.stage \in Admittable THEN 1 ELSE 0),
         \A u \in Trunks :
           \/ trunk'[u].active = 0
           \/ trunk'[u].active
                <= (trunk[u].active
                      - (IF calls[c].stage \in Admittable /\ calls[c].trunk = u THEN 1 ELSE 0))
                   + (IF new.stage \in Admittable /\ new.trunk = u THEN 1 ELSE 0)
  PROVE  CountInv'
<1>0. /\ calls \in [Calls -> Call] /\ trunk \in [Trunks -> Trunk] /\ active \in Nat
      /\ active <= Cardinality(InProgress)
      /\ \A u \in Trunks : trunk[u].active <= Cardinality(Occupying(u))
  BY DEF CountInv, NeverOvercounted
<1>1. calls' \in [Calls -> Call] /\ calls'[c] = new /\ \A d \in Calls : d # c => calls'[d] = calls[d]
  BY <1>0
<1>2. IsFiniteSet(Calls)
  <2>1. Calls \subseteq Requests BY DEF Calls
  <2> QED BY <2>1, RequestAssumption, FS_Subset
<1>3. active' <= Cardinality(InProgress')
  <2> DEFINE S == InProgress
             D == InProgress'
  <2>1. S \subseteq Calls /\ \A d : d # c => (d \in S <=> d \in D) BY <1>1 DEF InProgress
  <2>2. (c \in S <=> calls[c].stage \in Admittable) /\ (c \in D <=> new.stage \in Admittable)
    BY <1>1 DEF InProgress
  <2>3. active <= Cardinality(S) BY <1>0
  <2> HIDE DEF S, D
  <2>4. IsFiniteSet(S) BY <1>2, <2>1, FS_Subset
  <2>5. /\ Cardinality(S) \in Nat /\ Cardinality(D) \in Nat
        /\ Cardinality(D) = (Cardinality(S) - (IF c \in S THEN 1 ELSE 0)) + (IF c \in D THEN 1 ELSE 0)
    BY <2>1, <2>4, Recount
  <2>6. active' <= Cardinality(D) BY <2>2, <2>3, <2>5, <1>0
  <2> QED BY <2>6 DEF D
<1>4. ASSUME NEW u \in Trunks PROVE trunk'[u].active <= Cardinality(Occupying(u)')
  <2> DEFINE S == Occupying(u)
             D == Occupying(u)'
  <2>1. S \subseteq Calls /\ \A d : d # c => (d \in S <=> d \in D) BY <1>1 DEF Occupying
  <2>2. /\ c \in S <=> calls[c].stage \in Admittable /\ calls[c].trunk = u
        /\ c \in D <=> new.stage \in Admittable /\ new.trunk = u
    BY <1>1 DEF Occupying
  <2>3. trunk[u].active <= Cardinality(S) BY <1>0
  <2>4. trunk[u].active \in Nat /\ trunk'[u].active \in Nat BY <1>0 DEF Trunk
  <2> HIDE DEF S, D
  <2>5. IsFiniteSet(S) BY <1>2, <2>1, FS_Subset
  <2>6. /\ Cardinality(S) \in Nat /\ Cardinality(D) \in Nat
        /\ Cardinality(D) = (Cardinality(S) - (IF c \in S THEN 1 ELSE 0)) + (IF c \in D THEN 1 ELSE 0)
    BY <2>1, <2>5, Recount
  <2> DEFINE o == trunk[u].active
             n == trunk'[u].active
  <2>7. \/ n = 0
        \/ n <= (o - (IF c \in S THEN 1 ELSE 0)) + (IF c \in D THEN 1 ELSE 0)
    BY <2>2
  <2>8. o \in Nat /\ n \in Nat /\ o <= Cardinality(S) BY <2>3, <2>4
  <2> HIDE DEF o, n
  <2>9. n <= Cardinality(D) BY <2>6, <2>7, <2>8
  <2> QED BY <2>9 DEF D, n
<1> QED BY <1>1, <1>3, <1>4 DEF CountInv, NeverOvercounted

\* The thresholds are positive, and a count may be zero.
LEMMA Thresholds ==
  /\ FailureThreshold \in Nat \ {0} /\ ProbeFailures \in Nat \ {0} /\ ProbeRecovery \in Nat \ {0}
  /\ 0 \in 0 .. FailureThreshold /\ 0 \in 0 .. ProbeFailures /\ 0 \in 0 .. ProbeRecovery
<1>1. FailureThreshold \in Nat \ {0} /\ ProbeFailures \in Nat \ {0} /\ ProbeRecovery \in Nat \ {0}
  BY ThresholdAssumption
<1> QED BY <1>1

\* What the operators on trunks do to a counter.
LEMMA FreedIs ==
  ASSUME NEW tr \in [Trunks -> Trunk], NEW t \in Routings
  PROVE  /\ Freed(tr, t) \in [Trunks -> Trunk]
         /\ \A u \in Trunks :
              Freed(tr, t)[u].active = IF u = t THEN Less(tr[u].active) ELSE tr[u].active
<1>1. CASE t = NoTrunk BY <1>1, TrunkAssumption DEF Freed
<1>2. CASE t \in Trunks
  <2> DEFINE n == [tr[t] EXCEPT !.active = Less(@)]
  <2>1. tr[t] \in Trunk /\ Less(tr[t].active) \in Nat BY <1>2 DEF Trunk, Less
  <2>2. n \in Trunk /\ n.active = Less(tr[t].active) BY <2>1 DEF Trunk
  <2>3. Freed(tr, t) = [tr EXCEPT ![t] = n] BY <1>2, TrunkAssumption DEF Freed
  <2> HIDE DEF n
  <2> QED BY <2>2, <2>3, <1>2
<1> QED BY <1>1, <1>2 DEF Routings

\* A slot that is taken.
LEMMA TakenIs ==
  ASSUME trunk \in [Trunks -> Trunk], NEW t \in Routings
  PROVE  /\ Taken(t) \in [Trunks -> Trunk]
         /\ \A u \in Trunks :
              Taken(t)[u].active = IF u = t THEN trunk[u].active + 1 ELSE trunk[u].active
<1>1. CASE t = NoTrunk BY <1>1, TrunkAssumption DEF Taken
<1>2. CASE t \in Trunks
  <2> DEFINE n == [trunk[t] EXCEPT !.active = @ + 1]
  <2>1. trunk[t] \in Trunk /\ trunk[t].active + 1 \in Nat BY <1>2 DEF Trunk
  <2>2. n \in Trunk /\ n.active = trunk[t].active + 1 BY <2>1 DEF Trunk
  <2>3. Taken(t) = [trunk EXCEPT ![t] = n] BY <1>2, TrunkAssumption DEF Taken
  <2> HIDE DEF n
  <2> QED BY <2>2, <2>3, <1>2
<1> QED BY <1>1, <1>2 DEF Routings

\* The outcome of a call counts no slot.
LEMMA OutcomeIs ==
  ASSUME trunk \in [Trunks -> Trunk], NEW t \in Routings, NEW success \in BOOLEAN
  PROVE  /\ Outcome(t, success) \in [Trunks -> Trunk]
         /\ \A u \in Trunks : Outcome(t, success)[u].active = trunk[u].active
<1>1. CASE t = NoTrunk BY <1>1, TrunkAssumption DEF Outcome
<1>2. CASE t \in Trunks /\ success
  <2> DEFINE n == [trunk[t] EXCEPT !.failed = 0, !.healthy = TRUE]
  <2>1. trunk[t] \in Trunk BY <1>2
  <2>2. n \in Trunk /\ n.active = trunk[t].active BY <2>1, Thresholds DEF Trunk
  <2>3. Outcome(t, success) = [trunk EXCEPT ![t] = n] BY <1>2, TrunkAssumption DEF Outcome
  <2> HIDE DEF n
  <2> QED BY <2>2, <2>3, <1>2
<1>3. CASE t \in Trunks /\ ~success
  <2> DEFINE k == AtMost(FailureThreshold, trunk[t].failed + 1)
             n == [trunk[t] EXCEPT !.failed = k, !.healthy = @ /\ k < FailureThreshold]
  <2>1. trunk[t] \in Trunk BY <1>3
  <2>2. k \in 0 .. FailureThreshold BY <2>1, Thresholds DEF Trunk, AtMost
  <2>3. n \in Trunk /\ n.active = trunk[t].active
    <3> HIDE DEF k
    <3> QED BY <2>1, <2>2 DEF Trunk
  <2>4. Outcome(t, success) = [trunk EXCEPT ![t] = n] BY <1>3, TrunkAssumption DEF Outcome
  <2> HIDE DEF n
  <2> QED BY <2>3, <2>4, <1>3
<1> QED BY <1>1, <1>2, <1>3 DEF Routings

\* Nor does a probe.
LEMMA ProbeIs ==
  ASSUME trunk \in [Trunks -> Trunk], NEW t \in Trunks, NEW success \in BOOLEAN
  PROVE  /\ Probe(t, success) \in [Trunks -> Trunk]
         /\ \A u \in Trunks : Probe(t, success)[u].active = trunk[u].active
<1>0. trunk[t] \in Trunk OBVIOUS
<1>1. CASE success
  <2> DEFINE k == AtMost(ProbeRecovery, trunk[t].good + 1)
             heals == ~trunk[t].healthy /\ k >= ProbeRecovery
             n == [trunk[t] EXCEPT !.good = k, !.bad = 0, !.healthy = @ \/ heals,
                                   !.failed = IF heals THEN 0 ELSE @]
  <2>1. k \in 0 .. ProbeRecovery BY <1>0, Thresholds DEF Trunk, AtMost
  <2>2. heals \in BOOLEAN OBVIOUS
  <2>3. n \in Trunk /\ n.active = trunk[t].active
    <3> HIDE DEF k, heals
    <3> QED BY <1>0, <2>1, <2>2, Thresholds DEF Trunk
  <2>4. Probe(t, success) = [trunk EXCEPT ![t] = n] BY <1>1, Zenon DEF Probe
  <2> HIDE DEF n
  <2> QED BY <2>3, <2>4
<1>2. CASE ~success
  <2> DEFINE k == AtMost(ProbeFailures, trunk[t].bad + 1)
             n == [trunk[t] EXCEPT !.bad = k, !.good = 0, !.healthy = @ /\ k < ProbeFailures]
  <2>1. k \in 0 .. ProbeFailures BY <1>0, Thresholds DEF Trunk, AtMost
  <2>3. n \in Trunk /\ n.active = trunk[t].active
    <3> HIDE DEF k
    <3> QED BY <1>0, <2>1, Thresholds DEF Trunk
  <2>4. Probe(t, success) = [trunk EXCEPT ![t] = n] BY <1>2, Zenon DEF Probe
  <2> HIDE DEF n
  <2> QED BY <2>3, <2>4
<1> QED BY <1>1, <1>2

\* A call leaves the calls in progress, or has left them: its slot goes back.
LEMMA SlotGoesBack ==
  ASSUME CountInv, NEW c \in Calls, NEW new \in Call, calls' = [calls EXCEPT ![c] = new],
         new.stage \notin Admittable,
         NEW tr \in [Trunks -> Trunk], \A u \in Trunks : tr[u].active = trunk[u].active,
         \/ trunk' = Freed(tr, calls[c].trunk) /\ active' = Less(active)
         \/ /\ trunk' = Freed(Freed(tr, calls[c].trunk), calls[c].trunk)
            /\ active' = Less(Less(active))
  PROVE  CountInv'
<1>0. /\ active \in Nat /\ calls[c] \in Call /\ calls[c].trunk \in Routings
      /\ trunk \in [Trunks -> Trunk] /\ \A u \in Trunks : trunk[u].active \in Nat
  BY DEF CountInv, Call, Routings, Trunk
<1> DEFINE t == calls[c].trunk
           once == Freed(tr, t)
           twice == Freed(once, t)
<1> HIDE DEF t
<1>1. t \in Routings BY <1>0 DEF t
<1>2. /\ once \in [Trunks -> Trunk]
      /\ \A u \in Trunks : once[u].active = IF u = t THEN Less(tr[u].active) ELSE tr[u].active
  BY <1>1, FreedIs
<1>3. /\ twice \in [Trunks -> Trunk]
      /\ \A u \in Trunks : twice[u].active = IF u = t THEN Less(once[u].active) ELSE once[u].active
  <2> HIDE DEF once
  <2> QED BY <1>1, <1>2, FreedIs
<1>4. \A n \in Nat : /\ Less(n) \in Nat /\ (Less(n) = 0 \/ Less(n) <= n - 1)
                     /\ Less(Less(n)) \in Nat /\ (Less(Less(n)) = 0 \/ Less(Less(n)) <= n - 1)
  BY DEF Less
<1>5. active' \in Nat /\ (active' = 0 \/ active' <= active - 1) BY <1>0, <1>4
<1>6. /\ trunk' \in [Trunks -> Trunk]
      /\ \A u \in Trunks :
           \/ trunk'[u].active = 0
           \/ trunk'[u].active <= trunk[u].active - (IF u = t THEN 1 ELSE 0)
  <2>1. CASE trunk' = once
    <3>1. \A u \in Trunks :
            \/ once[u].active = 0
            \/ once[u].active <= trunk[u].active - (IF u = t THEN 1 ELSE 0)
      <4> HIDE DEF once
      <4> QED BY <1>0, <1>2, <1>4
    <3> QED BY <2>1, <3>1, <1>2
  <2>2. CASE trunk' = twice
    <3>1. \A u \in Trunks :
            \/ twice[u].active = 0
            \/ twice[u].active <= trunk[u].active - (IF u = t THEN 1 ELSE 0)
      <4> HIDE DEF once, twice
      <4>1. TAKE u \in Trunks
      <4>2. CASE u = t
        <5>1. twice[u].active = Less(Less(trunk[u].active)) BY <4>2, <1>2, <1>3
        <5> QED BY <5>1, <4>2, <1>0, <1>4
      <4>3. CASE u # t
        <5>1. twice[u].active = trunk[u].active BY <4>3, <1>2, <1>3
        <5> QED BY <5>1, <4>3, <1>0
      <4> QED BY <4>2, <4>3
    <3> QED BY <2>2, <3>1, <1>3
  <2> QED BY <2>1, <2>2 DEF t
<1> DEFINE was == IF calls[c].stage \in Admittable THEN 1 ELSE 0
<1>7. active' = 0 \/ active' <= (active - was) + (IF new.stage \in Admittable THEN 1 ELSE 0)
  BY <1>0, <1>5
<1>8. \A u \in Trunks :
        \/ trunk'[u].active = 0
        \/ trunk'[u].active
             <= (trunk[u].active
                   - (IF calls[c].stage \in Admittable /\ calls[c].trunk = u THEN 1 ELSE 0))
                + (IF new.stage \in Admittable /\ new.trunk = u THEN 1 ELSE 0)
  <2>1. TAKE u \in Trunks
  <2> DEFINE n == trunk'[u].active
             o == trunk[u].active
  <2>2. n = 0 \/ n <= o - (IF u = t THEN 1 ELSE 0) BY <1>6
  <2>3. n \in Nat /\ o \in Nat BY <1>0, <1>6 DEF Trunk
  <2> HIDE DEF n, o
  <2>4. n = 0 \/ n <= (o - (IF calls[c].stage \in Admittable /\ calls[c].trunk = u THEN 1 ELSE 0))
                        + (IF new.stage \in Admittable /\ new.trunk = u THEN 1 ELSE 0)
    BY <2>2, <2>3 DEF t
  <2> QED BY <2>4 DEF n, o
<1> QED BY <1>5, <1>6, <1>7, <1>8, CountHolds

\* A call takes a slot, or goes on with the one it has.
LEMMA SlotIsHeld ==
  ASSUME CountInv, NEW c \in Calls, NEW stage \in Admittable, calls[c].stage \in Admittable,
         Moved(c, stage), active' = active,
         trunk' \in [Trunks -> Trunk], \A u \in Trunks : trunk'[u].active = trunk[u].active
  PROVE  CountInv'
<1>0. /\ active \in Nat /\ calls[c] \in Call /\ calls \in [Calls -> Call]
      /\ \A u \in Trunks : trunk[u].active \in Nat
  BY DEF CountInv, Trunk
<1> DEFINE new == [stage |-> stage, trunk |-> calls[c].trunk]
<1>1. new \in Call /\ new.stage = stage /\ new.trunk = calls[c].trunk
  BY <1>0 DEF Call, Stages, Admittable, Awaiting
<1>2. calls' = [calls EXCEPT ![c] = new]
  <2>1. new = [calls[c] EXCEPT !.stage = stage] BY <1>0 DEF Call
  <2>2. calls' = [calls EXCEPT ![c] = [calls[c] EXCEPT !.stage = stage]] BY DEF Moved
  <2> QED BY <2>1, <2>2, Zenon
<1> HIDE DEF new
<1>3. active' <= (active - (IF calls[c].stage \in Admittable THEN 1 ELSE 0))
                   + (IF new.stage \in Admittable THEN 1 ELSE 0)
  BY <1>0, <1>1
<1>4. \A u \in Trunks :
        trunk'[u].active
          <= (trunk[u].active
                - (IF calls[c].stage \in Admittable /\ calls[c].trunk = u THEN 1 ELSE 0))
             + (IF new.stage \in Admittable /\ new.trunk = u THEN 1 ELSE 0)
  BY <1>0, <1>1
<1>5. active' \in Nat BY <1>0
<1> QED BY <1>1, <1>2, <1>3, <1>4, <1>5, CountHolds

\* An INVITE that is admitted takes a slot of the node and of its trunk.
LEMMA CountsAdmitted ==
  ASSUME CountInv, NEW c \in Calls, InviteAdmitted(c) PROVE CountInv'
<1>0. /\ active \in Nat /\ calls[c] \in Call /\ trunk \in [Trunks -> Trunk]
      /\ calls[c].stage = "idle" /\ \A u \in Trunks : trunk[u].active \in Nat
  BY DEF CountInv, Trunk, InviteAdmitted
<1>1. PICK t \in Routings :
        /\ trunk' = Taken(t) /\ calls' = [calls EXCEPT ![c] = [stage |-> "offering", trunk |-> t]]
  BY DEF InviteAdmitted, Routings
<1> DEFINE new == [stage |-> "offering", trunk |-> t]
<1>2. new \in Call /\ new.stage \in Admittable /\ new.trunk = t
  BY DEF Call, Stages, Awaiting, Admittable, Routings
<1>3. calls' = [calls EXCEPT ![c] = new] BY <1>1
<1> HIDE DEF new
<1>4. active' = active + 1 BY DEF InviteAdmitted
<1>5. "idle" \notin Admittable BY DEF Admittable
<1>6. active' <= (active - (IF calls[c].stage \in Admittable THEN 1 ELSE 0))
                   + (IF new.stage \in Admittable THEN 1 ELSE 0)
  BY <1>0, <1>2, <1>4, <1>5
<1>7. /\ trunk' \in [Trunks -> Trunk]
      /\ \A u \in Trunks :
           trunk'[u].active = IF u = t THEN trunk[u].active + 1 ELSE trunk[u].active
  BY <1>0, <1>1, TakenIs
<1>8. \A u \in Trunks :
        trunk'[u].active
          <= (trunk[u].active
                - (IF calls[c].stage \in Admittable /\ calls[c].trunk = u THEN 1 ELSE 0))
             + (IF new.stage \in Admittable /\ new.trunk = u THEN 1 ELSE 0)
  BY <1>0, <1>2, <1>5, <1>7
<1>9. active' \in Nat BY <1>0, <1>4
<1> QED BY <1>2, <1>3, <1>6, <1>7, <1>8, <1>9, CountHolds

\* What ends an await of a call's handler keeps the counters true.
LEMMA CountsEnded ==
  ASSUME CountInv, NEW c \in Calls,
         \/ OfferAnswered(c) \/ OfferFailed(c) \/ NoAnswer(c) \/ CalleeRefused(c)
         \/ CalleeAnswered(c) \/ AnswerDone(c) \/ AnswerFailed(c) \/ HungUp(c)
  PROVE  CountInv'
<1>0. /\ calls[c] \in Call /\ calls[c].trunk \in Routings /\ trunk \in [Trunks -> Trunk]
      /\ calls \in [Calls -> Call]
  BY DEF CountInv, Call, Routings
<1>1. \A u \in Trunks : trunk[u].active = trunk[u].active OBVIOUS
<1> DEFINE idle == [stage |-> "idle", trunk |-> NoTrunk]
<1>2. idle \in Call /\ idle.stage \notin Admittable BY DEF Call, Stages, Admittable
<1>3. Over(c) => calls' = [calls EXCEPT ![c] = idle] BY DEF Over
<1> HIDE DEF idle
<1>4. ASSUME Over(c), Released(c, trunk) PROVE CountInv'
  BY <1>0, <1>1, <1>2, <1>3, <1>4, SlotGoesBack DEF Released
<1>5. ASSUME NEW tr \in [Trunks -> Trunk], \A u \in Trunks : tr[u].active = trunk[u].active,
             CleanedUp(c, tr)
      PROVE  CountInv'
  BY <1>2, <1>3, <1>5, SlotGoesBack DEF CleanedUp
<1>6. ASSUME NEW stage \in {"orphan", "lost"}, Moved(c, stage), Released(c, trunk)
      PROVE  CountInv'
  <2> DEFINE new == [stage |-> stage, trunk |-> calls[c].trunk]
  <2>1. new \in Call /\ new.stage \notin Admittable
    BY <1>0 DEF Call, Stages, Admittable, Awaiting
  <2>2. calls' = [calls EXCEPT ![c] = new]
    <3>1. new = [calls[c] EXCEPT !.stage = stage] BY <1>0 DEF Call
    <3>2. calls' = [calls EXCEPT ![c] = [calls[c] EXCEPT !.stage = stage]] BY <1>6 DEF Moved
    <3> QED BY <3>1, <3>2, Zenon
  <2> HIDE DEF new
  <2> QED BY <2>1, <2>2, <1>0, <1>1, <1>6, SlotGoesBack DEF Released
<1>7. ASSUME NEW stage \in Admittable, calls[c].stage \in Admittable, Moved(c, stage),
             UNCHANGED <<trunk, active>>
      PROVE  CountInv'
  BY <1>0, <1>7, SlotIsHeld
<1>8. \A s \in {"offering", "ringing", "answering", "up"} : s \in Admittable BY DEF Admittable
<1>9. CASE OfferAnswered(c) BY <1>7, <1>8, <1>9 DEF OfferAnswered
<1>10. CASE OfferFailed(c) BY <1>4, <1>10 DEF OfferFailed
<1>11. CASE NoAnswer(c) BY <1>0, <1>1, <1>4, <1>5, <1>11 DEF NoAnswer, FinalizedBefore
<1>12. CASE CalleeRefused(c)
  <2>1. CleanedUp(c, Outcome(calls[c].trunk, FALSE)) BY <1>12 DEF CalleeRefused
  <2> QED BY <2>1, <1>0, <1>5, OutcomeIs
<1>13. CASE CalleeAnswered(c)
  <2>1. /\ Moved(c, "answering") /\ trunk' = Outcome(calls[c].trunk, TRUE) /\ active' = active
        /\ calls[c].stage = "ringing"
    BY <1>13 DEF CalleeAnswered
  <2>2. trunk' \in [Trunks -> Trunk] /\ \A u \in Trunks : trunk'[u].active = trunk[u].active
    BY <2>1, <1>0, OutcomeIs
  <2> QED BY <2>1, <2>2, <1>8, SlotIsHeld
<1>14. CASE AnswerDone(c) BY <1>4, <1>7, <1>8, <1>14 DEF AnswerDone, FinalizedBefore
<1>15. CASE AnswerFailed(c) BY <1>0, <1>1, <1>4, <1>5, <1>15 DEF AnswerFailed, FinalizedBefore
<1>16. CASE HungUp(c) BY <1>4, <1>6, <1>16 DEF HungUp
<1> QED BY <1>9, <1>10, <1>11, <1>12, <1>13, <1>14, <1>15, <1>16

\* The invariant holds before the first INVITE.
LEMMA SlotsInvInit == Init => SlotsInv
<1> SUFFICES ASSUME Init PROVE SlotsInv OBVIOUS
<1>1. GateInv
  <2>1. tasks = {} /\ inflight = 0 BY DEF Init, GateInit
  <2>2. {r \in tasks : ~r.priority} = {} BY <2>1
  <2> QED BY <2>1, <2>2, FS_EmptySet DEF GateInv, InflightExact
<1>2. CountInv
  <2>1. calls \in [Calls -> Call] /\ active = 0 BY DEF Init, Call, Stages
  <2>2. trunk \in [Trunks -> Trunk] /\ \A u \in Trunks : trunk[u].active = 0
    BY Thresholds DEF Init, Trunk
  <2>3. IsFiniteSet(Calls)
    <3>1. Calls \subseteq Requests BY DEF Calls
    <3> QED BY <3>1, RequestAssumption, FS_Subset
  <2>4. Cardinality(InProgress) \in Nat
    <3>1. InProgress \subseteq Calls BY DEF InProgress
    <3> QED BY <3>1, <2>3, FS_Subset, FS_CardinalityType
  <2>5. \A u \in Trunks : Cardinality(Occupying(u)) \in Nat
    <3>1. \A u \in Trunks : Occupying(u) \subseteq Calls BY DEF Occupying
    <3> QED BY <3>1, <2>3, FS_Subset, FS_CardinalityType
  <2> QED BY <2>1, <2>2, <2>4, <2>5 DEF CountInv, NeverOvercounted
<1>3. RoundInv
  <2>1. << >> \in Seq(Trunks) OBVIOUS
  <2> QED BY <2>1 DEF RoundInv, Init
<1> QED BY <1>1, <1>2, <1>3 DEF SlotsInv

\* Each action keeps the invariant.
LEMMA SlotsInvNext ==
  Distinct /\ SlotsInv /\ [Next]_vars => SlotsInv'
<1> SUFFICES ASSUME Distinct, SlotsInv, [Next]_vars PROVE SlotsInv' OBVIOUS
<1>0. GateInv /\ CountInv /\ RoundInv BY DEF SlotsInv
<1>1. ASSUME UNCHANGED <<cursor, round>> PROVE RoundInv'
  <2>1. cursor' = cursor /\ round' = round BY <1>1
  <2> QED BY <2>1, <1>0 DEF RoundInv
<1>2. ASSUME UNCHANGED <<calls, trunk, active>> PROVE CountInv'
  BY <1>0, <1>2 DEF CountInv, NeverOvercounted, InProgress, Occupying
<1>3. ASSUME NEW c \in Calls, InviteTurnedAway(c) PROVE SlotsInv'
  <2>1. GateInv' BY <1>0, <1>3, GateCounts DEF InviteTurnedAway, Calls
  <2>2. CountInv' BY <1>2, <1>3 DEF InviteTurnedAway
  <2>3. RoundInv' BY <1>0, <1>1, <1>3, RoundGoesOn DEF InviteTurnedAway
  <2> QED BY <2>1, <2>2, <2>3 DEF SlotsInv
<1>4. ASSUME NEW c \in Calls, InviteNoMedia(c) PROVE SlotsInv'
  <2>1. GateInv' BY <1>0, <1>4, GateCounts DEF InviteNoMedia, Calls
  <2>2. CountInv' BY <1>2, <1>4 DEF InviteNoMedia
  <2>3. RoundInv' BY <1>0, <1>4, RoundGoesOn DEF InviteNoMedia
  <2> QED BY <2>1, <2>2, <2>3 DEF SlotsInv
<1>5. ASSUME NEW c \in Calls, InviteAdmitted(c) PROVE SlotsInv'
  <2>1. GateInv' BY <1>0, <1>5, GateCounts DEF InviteAdmitted, Calls
  <2>2. CountInv' BY <1>0, <1>5, CountsAdmitted
  <2>3. RoundInv' BY <1>0, <1>5, RoundGoesOn DEF InviteAdmitted
  <2> QED BY <2>1, <2>2, <2>3 DEF SlotsInv
<1>6. ASSUME NEW c \in Calls,
             \/ OfferAnswered(c) \/ OfferFailed(c) \/ NoAnswer(c) \/ CalleeRefused(c)
             \/ CalleeAnswered(c) \/ AnswerDone(c) \/ AnswerFailed(c) \/ HungUp(c)
      PROVE  SlotsInv'
  <2>1. CountInv' BY <1>0, <1>6, CountsEnded
  <2>2. UNCHANGED gateVars /\ UNCHANGED <<cursor, round>>
    BY <1>6 DEF OfferAnswered, OfferFailed, NoAnswer, CalleeRefused, CalleeAnswered,
                AnswerDone, AnswerFailed, HungUp, KeepRouting
  <2>3. GateInv' BY <1>0, <2>2, GateCounts
  <2> QED BY <1>1, <2>1, <2>2, <2>3 DEF SlotsInv
<1>7. ASSUME NEW t \in Trunks, NEW ok \in BOOLEAN, ProbeSent(t) \/ ProbeEnded(t, ok)
      PROVE  SlotsInv'
  <2>1. UNCHANGED <<calls, active, cursor, round>> /\ UNCHANGED gateVars
    BY <1>7 DEF ProbeSent, ProbeEnded, KeepCalls
  <2>2. trunk' \in [Trunks -> Trunk] /\ \A u \in Trunks : trunk'[u].active = trunk[u].active
    <3>1. trunk \in [Trunks -> Trunk] BY <1>0 DEF CountInv
    <3>2. trunk' = trunk \/ trunk' = Probe(t, ok) BY <1>7 DEF ProbeSent, ProbeEnded
    <3> QED BY <3>1, <3>2, ProbeIs
  <2>3. CountInv'
    BY <1>0, <2>1, <2>2 DEF CountInv, NeverOvercounted, InProgress, Occupying
  <2>4. GateInv' BY <1>0, <2>1, GateCounts
  <2> QED BY <1>1, <2>1, <2>3, <2>4 DEF SlotsInv
<1>8. ASSUME NEW r \in Requests, GateRefuses(r) \/ OtherRequest(r) \/ TaskDone(r) PROVE SlotsInv'
  <2>1. GateInv' BY <1>0, <1>8, GateCounts DEF GateRefuses, OtherRequest, TaskDone
  <2>2. UNCHANGED routeVars BY <1>8 DEF GateRefuses, OtherRequest, TaskDone
  <2> QED BY <1>1, <1>2, <2>1, <2>2 DEF SlotsInv, routeVars
<1>9. CASE Tick
  <2>1. GateInv' BY <1>0, <1>9, GateCounts DEF Tick
  <2>2. UNCHANGED routeVars BY <1>9 DEF Tick
  <2> QED BY <1>1, <1>2, <2>1, <2>2 DEF SlotsInv, routeVars
<1>10. CASE UNCHANGED vars
  <2>1. GateInv' BY <1>0, <1>10, GateCounts DEF vars
  <2> QED BY <1>1, <1>2, <1>10, <2>1 DEF SlotsInv, vars, routeVars
<1> QED BY <1>3, <1>4, <1>5, <1>6, <1>7, <1>8, <1>9, <1>10 DEF Next

\* However many requests, calls and trunks there are, and however high the
\* limits: no slot of the node or of a trunk outlives its call, whichever await
\* it ends in and whoever cleans up; the gate counts its running tasks; and round
\* robin over different trunks uses each of them once before one comes again.
THEOREM SlotsAlwaysSafe == ASSUME Distinct PROVE Spec => []SlotsSafe
<1>1. SlotsInv => SlotsSafe
  BY DEF SlotsInv, GateInv, CountInv, RoundInv, SlotsSafe, RoundRobinSpread
<1>2. SlotsInv /\ [Next]_vars => SlotsInv' BY SlotsInvNext
<1> QED BY SlotsInvInit, <1>1, <1>2, PTL DEF Spec

(***************************************************************************)
(* The session timer                                                       *)
(***************************************************************************)
Ticks == Never .. Interval
Numbers == 1 .. MaxInvites
DialogRecords ==
  [state : {"none", "RINGING", "ANSWERED", "TERMINATED"}, cseq : Nat, expires : Ticks]
LegRecords == [of : Numbers \cup {0}, a : BOOLEAN, b : BOOLEAN]
Finalizers == [of : Numbers, left : Nat]
CallerRecords ==
  [of : Numbers \cup {0}, state : {"idle", "calling", "talking", "refused"},
   cseq : Nat, timed : BOOLEAN, left : Ticks, ack : Nat]

SessionTypes ==
  /\ home \in Nodes /\ up \subseteq Nodes /\ owner \in Nodes \cup {NoNode}
  /\ dialogs \in [Nodes -> DialogRecords]
  /\ row \in DialogRecords
  /\ timer \in [Nodes -> Ticks]
  /\ legs \in [Nodes -> LegRecords]
  /\ callRow \in Numbers \cup {0}
  /\ final \in [Nodes -> SUBSET Finalizers]
  /\ gone \in [Nodes -> SUBSET Numbers]
  /\ caller \in CallerRecords

\* A node that the caller's requests have not reached, or that died, holds nothing.
Elsewhere ==
  \A n \in Nodes : n # home \/ n \notin up =>
    /\ dialogs[n] = NoDialog /\ timer[n] = Never /\ legs[n] = NoCall
    /\ final[n] = {} /\ gone[n] = {}

\* A node that serves the dialog owns it, unless it was fenced.
OwnedHere ==
  /\ owner \in {home, NoNode} \cup (Nodes \ up)
  /\ ~Absent(dialogs[home]) /\ caller.state # "refused" => owner = home
  /\ timer[home] # Never => owner = home /\ ~Absent(dialogs[home])

\* While a task sleeps, the dialog expires when the session does that the caller
\* agreed to.
InStep ==
  /\ caller.ack # 0 => caller.state = "talking"
  /\ caller.state \in {"calling", "talking"} => caller.of # 0
  /\ caller.state = "talking" /\ caller.timed =>
       /\ caller.left # Never
       /\ timer[home] # Never => dialogs[home].expires = caller.left

SessionInv == SessionTypes /\ Elsewhere /\ OwnedHere /\ InStep /\ RowCurrent

USE DEF DialogRecords, LegRecords, Finalizers, CallerRecords

LEMMA SessionBasics ==
  /\ Never = -1 /\ Interval \in Nat /\ Interval # 0 /\ MaxInvites \in Nat /\ FinalDelay \in Nat
  /\ 0 \notin Numbers /\ NoNode \notin Nodes
  /\ Never \in Ticks /\ Interval \in Ticks /\ Interval # Never
  /\ NoDialog \in DialogRecords
  /\ NoCall \in LegRecords
BY SessionAssumption DEF Never, Numbers, Ticks, NoDialog, NoCall

\* A countdown stays one, and one that is not set stays unset.
LEMMA LaterIs ==
  /\ \A left \in Ticks : Later(left) \in Ticks /\ (Later(left) = Never <=> left = Never)
  /\ \A left \in Nat : Later(left) \in Nat
BY SessionBasics DEF Ticks, Later, Never

LEMMA SessionInvInit == SessionInit => SessionInv
<1> SUFFICES ASSUME SessionInit PROVE SessionInv OBVIOUS
<1>1. SessionTypes BY SessionBasics DEF SessionInit, SessionTypes
<1>2. Elsewhere BY DEF SessionInit, Elsewhere
<1>3. OwnedHere BY <1>1 DEF SessionInit, OwnedHere, SessionTypes, Absent, NoDialog
<1>4. InStep BY DEF SessionInit, InStep
<1>5. RowCurrent BY DEF SessionInit, RowCurrent
<1> QED BY <1>1, <1>2, <1>3, <1>4, <1>5 DEF SessionInv

\* A handler, or a task, at the node that the caller's requests reach.
HereOnly ==
  /\ home \in up /\ UNCHANGED <<up, home>>
  /\ \A n \in Nodes \ {home} :
       /\ dialogs'[n] = dialogs[n] /\ timer'[n] = timer[n] /\ legs'[n] = legs[n]
       /\ final'[n] = final[n] /\ gone'[n] = gone[n]

LEMMA ElsewhereStays ==
  ASSUME SessionInv, HereOnly PROVE Elsewhere'
BY DEF SessionInv, Elsewhere, HereOnly

\* What changes at the caller's node, named by its new values.
LEMMA HereIs ==
  ASSUME SessionInv, NEW n \in Nodes, n \in up, UNCHANGED <<up, home>>, n = home,
         \/ UNCHANGED dialogs
         \/ \E d : dialogs' = [dialogs EXCEPT ![n] = d],
         UNCHANGED timer \/ \E d : timer' = [timer EXCEPT ![n] = d],
         UNCHANGED legs \/ \E d : legs' = [legs EXCEPT ![n] = d],
         UNCHANGED final \/ \E d : final' = [final EXCEPT ![n] = d],
         UNCHANGED gone \/ \E d : gone' = [gone EXCEPT ![n] = d]
  PROVE  HereOnly
BY DEF SessionInv, SessionTypes, HereOnly

\* The invariant, of a step at the caller's node.
LEMMA HereKeeps ==
  ASSUME SessionInv, HereOnly, SessionTypes', OwnedHere', InStep',
         owner' = home /\ ~Absent(dialogs'[home]) => row' = dialogs'[home]
  PROVE  SessionInv'
<1>1. RowCurrent'
  <2>1. SUFFICES ASSUME owner' \in up', ~Absent(dialogs[owner])' PROVE (row = dialogs[owner])'
    BY DEF RowCurrent
  <2>2. owner' = home BY <2>1, SessionBasics DEF OwnedHere, HereOnly, SessionInv, SessionTypes
  <2> QED BY <2>1, <2>2 DEF HereOnly
<1> QED BY <1>1, ElsewhereStays DEF SessionInv

\* The node that has a call or a dialog is the one the caller reaches.
LEMMA HereServes ==
  ASSUME SessionInv, NEW n \in Nodes, n \in up,
         n = home \/ ~Absent(dialogs[n]) \/ timer[n] # Never \/ legs[n].of # 0 \/ final[n] # {}
  PROVE  n = home
BY DEF SessionInv, Elsewhere, NoDialog, NoCall, Absent

LEMMA InviteArrivesKeeps ==
  ASSUME SessionInv, NEW n \in Nodes, InviteArrives(n) PROVE SessionInv'
<1>0. /\ n = home /\ n \in up /\ caller.state = "idle" /\ caller.of < MaxInvites
      /\ caller.of + 1 \in Numbers
  BY SessionBasics DEF InviteArrives, CallsNow, SessionInv, SessionTypes, Numbers
<1> DEFINE d == [state |-> "RINGING", cseq |-> 1, expires |-> Never]
<1>1. /\ dialogs' = [dialogs EXCEPT ![n] = d] /\ row' = dialogs'[n] /\ owner' = n
      /\ legs' = [legs EXCEPT ![n] = CallNumber(caller.of + 1)]
      /\ UNCHANGED <<up, home, timer, final, gone, callRow>>
  BY DEF InviteArrives
<1>2. PICK timed \in BOOLEAN :
        caller' = [of |-> caller.of + 1, state |-> "calling", cseq |-> 1,
                   timed |-> timed, left |-> Never, ack |-> 0]
  BY DEF InviteArrives
<1>3. HereOnly BY <1>0, <1>1, HereIs
<1>4. SessionTypes'
  BY <1>0, <1>1, <1>2, SessionBasics DEF SessionInv, SessionTypes, CallNumber
<1>5. dialogs'[home] = d BY <1>0, <1>1 DEF SessionInv, SessionTypes
<1>6. OwnedHere' BY <1>0, <1>1, <1>5 DEF OwnedHere, Absent
<1>7. InStep' BY <1>0, <1>2, SessionBasics DEF InStep
<1> QED BY <1>0, <1>1, <1>3, <1>4, <1>6, <1>7, HereKeeps

LEMMA InvitePendingKeeps ==
  ASSUME SessionInv, NEW n \in Nodes, InvitePending(n) PROVE SessionInv'
<1>0. /\ n = home /\ n \in up /\ caller.state = "idle" /\ caller.of < MaxInvites
      /\ caller.of + 1 \in Numbers
  BY SessionBasics DEF InvitePending, CallsNow, SessionInv, SessionTypes, Numbers
<1>1. /\ caller' = [caller EXCEPT !.of = @ + 1, !.state = "refused"]
      /\ legs' = [legs EXCEPT ![n] = CallAt(n)] /\ owner' = OwnerAfter(n)
      /\ UNCHANGED <<up, home, dialogs, timer, final, gone, row, callRow>>
  BY DEF InvitePending
<1>2. owner = home /\ owner' = home
  BY <1>0, <1>1 DEF InvitePending, Reusable, Absent, OwnedHere, SessionInv, OwnerAfter
<1>3. HereOnly BY <1>0, <1>1, HereIs
<1>4. SessionTypes'
  <2>1. CallAt(n) \in LegRecords
    BY DEF SessionInv, SessionTypes, CallAt, CallNumber
  <2> QED BY <1>0, <1>1, <1>2, <2>1 DEF SessionInv, SessionTypes
<1>5. OwnedHere' BY <1>0, <1>1, <1>2 DEF SessionInv, OwnedHere
<1>6. InStep' BY <1>0, <1>1 DEF SessionInv, SessionTypes, InStep
<1>7. owner' = home /\ ~Absent(dialogs'[home]) => row' = dialogs'[home]
  BY <1>0, <1>1, <1>2 DEF SessionInv, RowCurrent
<1> QED BY <1>3, <1>4, <1>5, <1>6, <1>7, HereKeeps

LEMMA InviteFencedKeeps ==
  ASSUME SessionInv, NEW n \in Nodes, InviteFenced(n) PROVE SessionInv'
<1>0. /\ n = home /\ n \in up /\ caller.state = "idle" /\ caller.of < MaxInvites
      /\ caller.of + 1 \in Numbers
  BY SessionBasics DEF InviteFenced, CallsNow, SessionInv, SessionTypes, Numbers
<1> DEFINE d == [state |-> "RINGING", cseq |-> 1, expires |-> Never]
<1>1. /\ caller' = [caller EXCEPT !.of = @ + 1, !.state = "refused"]
      /\ dialogs' = [dialogs EXCEPT ![n] = d]
      /\ UNCHANGED <<up, home, timer, legs, final, gone, row, callRow, owner>>
  BY DEF InviteFenced
<1>2. owner # home
  BY <1>0 DEF InviteFenced, OwnerAfter, MayClaim
<1>3. HereOnly BY <1>0, <1>1, HereIs
<1>4. SessionTypes' BY <1>0, <1>1, SessionBasics DEF SessionInv, SessionTypes
<1>5. OwnedHere' BY <1>0, <1>1, <1>2 DEF SessionInv, SessionTypes, OwnedHere
<1>6. InStep' BY <1>0, <1>1 DEF SessionInv, SessionTypes, InStep
<1> QED BY <1>1, <1>2, <1>3, <1>4, <1>5, <1>6, HereKeeps

LEMMA AnswerInviteKeeps ==
  ASSUME SessionInv, NEW n \in Nodes, AnswerInvite(n) PROVE SessionInv'
<1>0. /\ n \in up /\ caller.state = "calling" /\ dialogs[n].state = "RINGING" /\ owner = n
      /\ n = home /\ caller.of \in Numbers
  <2>1. n \in up /\ caller.state = "calling" /\ dialogs[n].state = "RINGING" /\ owner = n
    BY DEF AnswerInvite
  <2>2. n = home BY <2>1, HereServes DEF Absent
  <2> QED BY <2>1, <2>2 DEF SessionInv, SessionTypes, InStep
<1> DEFINE d == [dialogs[n] EXCEPT !.state = "ANSWERED"]
           e == IF caller.timed THEN Refreshed(d) ELSE d
<1>1. /\ dialogs' = [dialogs EXCEPT ![n] = e] /\ row' = dialogs'[n] /\ callRow' = caller.of
      /\ timer' = IF caller.timed THEN [timer EXCEPT ![n] = Interval] ELSE timer
      /\ caller' = [caller EXCEPT !.state = "talking", !.ack = 1,
                                  !.left = IF caller.timed THEN Interval ELSE Never]
      /\ UNCHANGED <<up, home, legs, final, gone, owner>>
  BY DEF AnswerInvite, Reset
<1>2. /\ e \in DialogRecords
      /\ ~Absent(e)
      /\ caller.timed => e.expires = Interval
  BY SessionBasics DEF SessionInv, SessionTypes, Refreshed, Absent
<1> HIDE DEF e
<1>3. HereOnly BY <1>0, <1>1, HereIs
<1>4. SessionTypes' BY <1>0, <1>1, <1>2, SessionBasics DEF SessionInv, SessionTypes
<1>5. dialogs'[home] = e BY <1>0, <1>1 DEF SessionInv, SessionTypes
<1>6. OwnedHere' BY <1>0, <1>1, <1>2, <1>5 DEF SessionInv, OwnedHere
<1>7. InStep' BY <1>0, <1>1, <1>2, <1>5, SessionBasics DEF SessionInv, SessionTypes, InStep
<1> QED BY <1>0, <1>1, <1>3, <1>4, <1>6, <1>7, HereKeeps

LEMMA RefuseKeeps ==
  ASSUME SessionInv, NEW n \in Nodes, Refuse(n) PROVE SessionInv'
<1>0. /\ n \in up /\ caller.state = "calling" /\ dialogs[n].state = "RINGING" /\ owner = n
      /\ n = home /\ caller.of \in Numbers
  <2>1. n \in up /\ caller.state = "calling" /\ dialogs[n].state = "RINGING" /\ owner = n
    BY DEF Refuse
  <2>2. n = home BY <2>1, HereServes DEF Absent
  <2> QED BY <2>1, <2>2 DEF SessionInv, SessionTypes, InStep
<1>1. /\ legs' = [legs EXCEPT ![n] = NoCall] /\ gone' = [gone EXCEPT ![n] = @ \cup {caller.of}]
      /\ timer' = [timer EXCEPT ![n] = Never] /\ callRow' = 0
      /\ caller' = [caller EXCEPT !.state = "idle"]
      /\ UNCHANGED <<up, home, dialogs, final, row, owner>>
  BY DEF Refuse
<1>3. HereOnly BY <1>0, <1>1, HereIs
<1>4. SessionTypes' BY <1>0, <1>1, SessionBasics DEF SessionInv, SessionTypes
<1>6. OwnedHere' BY <1>0, <1>1 DEF SessionInv, SessionTypes, OwnedHere
<1>7. InStep' BY <1>0, <1>1 DEF SessionInv, SessionTypes, InStep
<1>8. owner' = home /\ ~Absent(dialogs'[home]) => row' = dialogs'[home]
  BY <1>0, <1>1 DEF SessionInv, RowCurrent
<1> QED BY <1>3, <1>4, <1>6, <1>7, <1>8, HereKeeps

LEMMA AckArrivesKeeps ==
  ASSUME SessionInv, NEW n \in Nodes, AckArrives(n) PROVE SessionInv'
<1> DEFINE mine == Acknowledgeable(caller.ack, dialogs[n])
           found == Fitting(n, mine, Acknowledgeable(caller.ack, row))
           held == IF TakesOver(mine) THEN n ELSE OwnerAfter(n)
<1>0. n = home /\ n \in up /\ caller.state = "talking" /\ caller.state # "refused"
  BY DEF AckArrives, SessionInv, InStep
<1>1. /\ caller' = [caller EXCEPT !.ack = 0] /\ legs' = [legs EXCEPT ![n] = CallAt(n)]
      /\ UNCHANGED <<up, home, timer, final, gone, callRow>>
  BY DEF AckArrives
<1>2. /\ ~Absent(dialogs[n]) => owner = n /\ row = dialogs[n] /\ OwnerAfter(n) = n
      /\ OwnerAfter(n) \in {owner, n}
  BY <1>0 DEF SessionInv, OwnedHere, RowCurrent, OwnerAfter
<1>3. \/ UNCHANGED <<dialogs, owner, row>>
      \/ /\ dialogs' = [dialogs EXCEPT ![n] = row] /\ owner' = n /\ row' = row
      \/ UNCHANGED <<dialogs, row>> /\ owner' \in {owner, n}
  <2>1. CASE CallAt(n).of = 0 BY <2>1 DEF AckArrives
  <2>2. CASE CallAt(n).of # 0
    <3>1. /\ dialogs' = IF TakesOver(mine) THEN [dialogs EXCEPT ![n] = row] ELSE dialogs
          /\ owner' = IF Absent(found) THEN held ELSE Claimed(n, held)
          /\ row' = IF Absent(found) THEN row ELSE Saved(n, found, held)
      BY <2>2 DEF AckArrives
    <3>2. CASE TakesOver(mine)
      <4>1. ~mine /\ held = n /\ found \in {row, NoDialog} BY <3>2 DEF TakesOver, Fitting
      <4> HIDE DEF mine, found, held
      <4> QED BY <3>1, <3>2, <4>1 DEF Claimed, MayClaim, Saved, Absent, NoDialog
    <3>3. CASE mine
      <4>1. ~TakesOver(mine) /\ found = dialogs[n] /\ held = n /\ row = dialogs[n]
        BY <3>3, <1>2 DEF TakesOver, Fitting, Acknowledgeable, Absent
      <4> HIDE DEF mine, found, held
      <4> QED BY <3>1, <4>1, <1>2 DEF Claimed, MayClaim, Saved
    <3>4. CASE ~mine /\ Absent(row)
      <4>1. ~TakesOver(mine) /\ Absent(found) /\ held \in {owner, n}
        BY <3>4, <1>2 DEF TakesOver, Fitting, Acknowledgeable, Absent, NoDialog
      <4> HIDE DEF mine, found, held
      <4> QED BY <3>1, <4>1
    <3> QED BY <3>2, <3>3, <3>4 DEF TakesOver
  <2> QED BY <2>1, <2>2
<1>4. /\ owner' \in {owner, n}
      /\ dialogs' = [dialogs EXCEPT ![n] = dialogs'[n]]
      /\ \/ dialogs'[n] = dialogs[n] /\ row' = row
         \/ dialogs'[n] = row /\ row' = row /\ owner' = n
      /\ ~Absent(dialogs[n]) => dialogs'[n] = dialogs[n]
  BY <1>2, <1>3 DEF SessionInv, SessionTypes
<1>5. HereOnly BY <1>0, <1>1, <1>3, HereIs
<1>6. SessionTypes'
  <2>1. CallAt(n) \in LegRecords
    BY DEF SessionInv, SessionTypes, CallAt, CallNumber
  <2>2. /\ owner' \in Nodes \cup {NoNode}
        /\ row' \in DialogRecords
        /\ dialogs' \in [Nodes -> DialogRecords]
    BY <1>3 DEF SessionInv, SessionTypes
  <2> QED BY <1>1, <2>1, <2>2 DEF SessionInv, SessionTypes
<1>7. OwnedHere' BY <1>0, <1>1, <1>2, <1>3, <1>4 DEF SessionInv, OwnedHere
<1>8. InStep'
  BY <1>0, <1>1, <1>4 DEF SessionInv, SessionTypes, OwnedHere, InStep
<1>9. owner' = home /\ ~Absent(dialogs'[home]) => row' = dialogs'[home]
  BY <1>0, <1>2, <1>4
<1> QED BY <1>5, <1>6, <1>7, <1>8, <1>9, HereKeeps

LEMMA RefreshKeeps ==
  ASSUME SessionInv, NEW n \in Nodes, Refresh(n) PROVE SessionInv'
<1>0. /\ n = home /\ n \in up /\ caller.state = "talking" /\ caller.timed
      /\ OwnerAfter(n) = n
  BY DEF Refresh
<1>1. /\ legs' = [legs EXCEPT ![n] = CallAt(n)] /\ owner' = n
      /\ UNCHANGED <<up, home, final, gone, callRow>>
  BY DEF Refresh
<1>2. PICK ack \in {0, caller.cseq + 1} :
        caller' = [caller EXCEPT !.cseq = @ + 1, !.ack = ack, !.left = Interval]
  BY DEF Refresh
<1>3. \/ Absent(dialogs[n]) /\ UNCHANGED <<dialogs, row, timer>>
      \/ /\ ~Absent(dialogs[n]) /\ dialogs' = [dialogs EXCEPT ![n] = Refreshed(dialogs[n])]
         /\ row' = dialogs'[n] /\ timer' = [timer EXCEPT ![n] = Interval]
  BY DEF Refresh, Reset
<1>4. /\ Refreshed(dialogs[n]) \in DialogRecords
      /\ ~Absent(dialogs[n]) => ~Absent(Refreshed(dialogs[n]))
      /\ Refreshed(dialogs[n]).expires = Interval
  BY SessionBasics DEF SessionInv, SessionTypes, Refreshed, Absent
<1>5. HereOnly BY <1>0, <1>1, <1>3, HereIs
<1>6. SessionTypes'
  <2>1. CallAt(n) \in LegRecords
    BY DEF SessionInv, SessionTypes, CallAt, CallNumber
  <2>2. caller' \in CallerRecords
    <3>1. caller \in CallerRecords BY DEF SessionInv, SessionTypes
    <3>2. caller.cseq + 1 \in Nat /\ ack \in Nat BY <3>1
    <3> QED BY <1>2, <3>1, <3>2, SessionBasics
  <2>3. dialogs' \in [Nodes -> DialogRecords] /\ row' \in DialogRecords
    <3> DEFINE e == Refreshed(dialogs[n])
    <3>1. e \in DialogRecords BY <1>4
    <3> HIDE DEF e
    <3>2. UNCHANGED <<dialogs, row>> \/ (dialogs' = [dialogs EXCEPT ![n] = e] /\ row' = dialogs'[n])
      BY <1>3 DEF e
    <3> QED BY <3>1, <3>2 DEF SessionInv, SessionTypes
  <2>4. timer' \in [Nodes -> Ticks] BY <1>3, SessionBasics DEF SessionInv, SessionTypes
  <2> QED BY <1>1, <2>1, <2>2, <2>3, <2>4 DEF SessionInv, SessionTypes
<1>7. \/ Absent(dialogs[n]) /\ UNCHANGED <<dialogs, row, timer>>
      \/ dialogs'[n] = Refreshed(dialogs[n]) /\ row' = dialogs'[n] /\ ~Absent(dialogs[n])
  BY <1>3 DEF SessionInv, SessionTypes
<1>8. OwnedHere' BY <1>0, <1>1, <1>4, <1>7 DEF SessionInv, OwnedHere
<1>9. InStep'
  BY <1>0, <1>1, <1>2, <1>4, <1>7, SessionBasics DEF SessionInv, SessionTypes, OwnedHere, InStep
<1>10. owner' = home /\ ~Absent(dialogs'[home]) => row' = dialogs'[home]
  BY <1>0, <1>7
<1> QED BY <1>5, <1>6, <1>8, <1>9, <1>10, HereKeeps

LEMMA ByeFromAKeeps ==
  ASSUME SessionInv, NEW n \in Nodes, ByeFromA(n) PROVE SessionInv'
<1> DEFINE mine == Terminable(caller.cseq + 1, dialogs[n])
           found == Fitting(n, mine, Terminable(caller.cseq + 1, row))
           over == Terminated(found, caller.cseq + 1)
           c == CallAt(n)
           knows == c.of # 0 \/ gone[n] = {}
           held == IF knows /\ TakesOver(mine) THEN n ELSE OwnerAfter(n)
<1>0. n = home /\ n \in up /\ caller.state = "talking" BY DEF ByeFromA
<1>1. /\ caller' = [caller EXCEPT !.state = "idle", !.left = Never, !.ack = 0]
      /\ UNCHANGED <<up, home, timer, gone, callRow>>
  BY DEF ByeFromA
<1>2. /\ ~Absent(dialogs[n]) => owner = n /\ row = dialogs[n] /\ OwnerAfter(n) = n
      /\ OwnerAfter(n) \in {owner, n}
  BY <1>0 DEF SessionInv, OwnedHere, RowCurrent, OwnerAfter
<1>3. /\ c \in LegRecords
      /\ \/ UNCHANGED <<legs, final>>
         \/ /\ c.of # 0 /\ legs' = [legs EXCEPT ![n] = [c EXCEPT !.b = TRUE]]
            /\ final' = [final EXCEPT ![n] = @ \cup {[of |-> c.of, left |-> FinalDelay]}]
  BY DEF ByeFromA, Hanging, SessionInv, SessionTypes, CallAt, CallNumber
<1>4. \/ /\ dialogs' = [dialogs EXCEPT ![n] = over] /\ owner' = n /\ row' = over
         /\ found \in {row, dialogs[n]} /\ ~Absent(over)
      \/ /\ dialogs' = [dialogs EXCEPT ![n] = row] /\ owner' = n /\ row' = row
      \/ UNCHANGED <<dialogs, row>> /\ owner' \in {owner, n}
  <2>1. CASE knows /\ ~Absent(found)
    <3>1. dialogs' = [dialogs EXCEPT ![n] = over] /\ owner' = Claimed(n, held)
          /\ row' = Saved(n, over, held)
      BY <2>1 DEF ByeFromA
    <3>2. found \in {row, dialogs[n]} /\ held = n
      <4>1. CASE mine
        <5>1. found = dialogs[n] BY <4>1 DEF Fitting
        <5>2. OwnerAfter(n) = n BY <5>1, <2>1, <1>2
        <5> QED BY <5>1, <5>2
      <4>2. CASE ~mine
        <5>1. found = row /\ ~Absent(row) BY <4>2, <2>1 DEF Fitting, Absent, NoDialog
        <5> QED BY <4>2, <5>1, <2>1 DEF TakesOver
      <4> QED BY <4>1, <4>2
    <3>3. ~Absent(over) BY <3>2 DEF Terminated, Absent, SessionInv, SessionTypes
    <3> HIDE DEF over, held, found
    <3> QED BY <3>1, <3>2, <3>3 DEF Claimed, MayClaim, Saved
  <2>2. CASE ~(knows /\ ~Absent(found))
    <3>1. /\ dialogs' = IF knows /\ TakesOver(mine) THEN [dialogs EXCEPT ![n] = row] ELSE dialogs
          /\ owner' = held /\ UNCHANGED row
      BY <2>2 DEF ByeFromA
    <3> QED BY <3>1, <1>2
  <2> QED BY <2>1, <2>2
<1>5. found \in {row, dialogs[n]} =>
        over \in DialogRecords
  <2>1. caller.cseq + 1 \in Nat /\ row \in DialogRecords /\ dialogs[n] \in DialogRecords
    BY DEF SessionInv, SessionTypes
  <2>2. \A d \in DialogRecords : Terminated(d, caller.cseq + 1) \in DialogRecords
    BY <2>1 DEF Terminated
  <2> HIDE DEF found
  <2> QED BY <2>1, <2>2
<1> HIDE DEF mine, found, over, c, knows, held
<1>6. HereOnly BY <1>0, <1>1, <1>3, <1>4, HereIs
<1>7. SessionTypes'
  <2>1. dialogs' \in [Nodes -> DialogRecords]
    BY <1>4, <1>5 DEF SessionInv, SessionTypes
  <2>2. row' \in DialogRecords
        /\ owner' \in Nodes \cup {NoNode}
    BY <1>4, <1>5 DEF SessionInv, SessionTypes
  <2>3. legs' \in [Nodes -> LegRecords]
    <3>1. [c EXCEPT !.b = TRUE] \in LegRecords BY <1>3
    <3> QED BY <1>3, <3>1 DEF SessionInv, SessionTypes
  <2>5. final' \in [Nodes -> SUBSET Finalizers]
    <3>1. c.of # 0 => [of |-> c.of, left |-> FinalDelay] \in Finalizers BY <1>3, SessionBasics
    <3> QED BY <1>3, <3>1 DEF SessionInv, SessionTypes
  <2>4. caller' \in CallerRecords
    BY <1>1, SessionBasics DEF SessionInv, SessionTypes
  <2> QED BY <1>1, <2>1, <2>2, <2>3, <2>4, <2>5 DEF SessionInv, SessionTypes
<1>8. /\ owner' \in {owner, n}
      /\ ~Absent(dialogs[n]) => ~Absent(dialogs'[n])
      /\ ~Absent(dialogs'[n]) => owner' = n /\ row' = dialogs'[n]
  BY <1>2, <1>4 DEF SessionInv, SessionTypes
<1>9. OwnedHere' BY <1>0, <1>1, <1>8 DEF SessionInv, OwnedHere
<1>10. InStep' BY <1>1 DEF SessionInv, SessionTypes, InStep
<1> QED BY <1>0, <1>6, <1>7, <1>8, <1>9, <1>10, HereKeeps

LEMMA ByeFromBKeeps ==
  ASSUME SessionInv, NEW n \in Nodes, ByeFromB(n) PROVE SessionInv'
<1>0. /\ n \in up /\ caller.state = "talking" /\ legs[n].of \in Numbers /\ n = home
  <2>1. n \in up /\ caller.state = "talking" /\ legs[n].of = caller.of BY DEF ByeFromB
  <2>2. legs[n].of \in Numbers BY <2>1 DEF SessionInv, SessionTypes, InStep
  <2> QED BY <2>1, <2>2, HereServes, SessionBasics
<1>1. /\ legs' = [legs EXCEPT ![n].a = TRUE]
      /\ final' = [final EXCEPT ![n] = @ \cup {[of |-> legs[n].of, left |-> FinalDelay]}]
      /\ \/ UNCHANGED caller
         \/ caller' = [caller EXCEPT !.state = "idle", !.left = Never, !.ack = 0]
      /\ UNCHANGED <<up, home, dialogs, timer, gone, row, callRow, owner>>
  BY DEF ByeFromB, Hanging
<1>2. HereOnly BY <1>0, <1>1, HereIs
<1>3. SessionTypes'
  <2>1. caller' \in CallerRecords
    <3>1. caller \in CallerRecords BY DEF SessionInv, SessionTypes
    <3>2. [caller EXCEPT !.state = "idle", !.left = Never, !.ack = 0] \in CallerRecords BY <3>1, SessionBasics
    <3> QED BY <1>1, <3>1, <3>2
  <2>2. legs' \in [Nodes -> LegRecords]
    <3>1. legs[n] \in LegRecords /\ legs \in [Nodes -> LegRecords] BY DEF SessionInv, SessionTypes
    <3>2. [legs[n] EXCEPT !.a = TRUE] \in LegRecords BY <3>1
    <3>3. legs' = [legs EXCEPT ![n] = [legs[n] EXCEPT !.a = TRUE]] BY <1>1, <3>1
    <3> QED BY <3>1, <3>2, <3>3
  <2>3. final' \in [Nodes -> SUBSET Finalizers]
    <3>1. [of |-> legs[n].of, left |-> FinalDelay] \in Finalizers BY <1>0, SessionBasics
    <3> QED BY <1>1, <3>1 DEF SessionInv, SessionTypes
  <2> QED BY <1>1, <2>1, <2>2, <2>3 DEF SessionInv, SessionTypes
<1>4. OwnedHere' BY <1>0, <1>1 DEF SessionInv, SessionTypes, OwnedHere
<1>5. InStep' BY <1>1 DEF SessionInv, SessionTypes, InStep
<1>6. owner' = home /\ ~Absent(dialogs'[home]) => row' = dialogs'[home]
  BY <1>0, <1>1 DEF SessionInv, RowCurrent
<1> QED BY <1>2, <1>3, <1>4, <1>5, <1>6, HereKeeps

LEMMA ExpireKeeps ==
  ASSUME SessionInv, NEW n \in Nodes, Expire(n) PROVE SessionInv'
<1>0. /\ n \in up /\ timer[n] = 0 /\ n = home /\ owner = n /\ ~Absent(dialogs[n])
      /\ row = dialogs[n]
  <2>1. n \in up /\ timer[n] = 0 BY DEF Expire
  <2>2. timer[n] # Never BY <2>1, SessionBasics
  <2>3. n = home BY <2>1, <2>2, HereServes
  <2> QED BY <2>1, <2>2, <2>3 DEF SessionInv, OwnedHere, RowCurrent
<1> DEFINE d == dialogs[n]
           c == legs[n]
           e == [d EXCEPT !.state = "TERMINATED"]
<1>1. /\ timer' = [timer EXCEPT ![n] = Never] /\ UNCHANGED <<up, home, gone, callRow>>
      /\ \/ UNCHANGED <<dialogs, legs, final, row, owner, caller>>
         \/ /\ c.of # 0 /\ owner' = owner /\ UNCHANGED <<dialogs, row>>
            /\ legs' = [legs EXCEPT ![n].a = TRUE, ![n].b = TRUE]
            /\ final' = [final EXCEPT ![n] = @ \cup {[of |-> c.of, left |-> FinalDelay]}]
            /\ \/ UNCHANGED caller
               \/ caller' = [caller EXCEPT !.state = "idle", !.left = Never, !.ack = 0]
         \/ /\ dialogs' = [dialogs EXCEPT ![n] = e] /\ row' = Saved(n, dialogs'[n], owner)
            /\ owner' = Claimed(n, owner) /\ UNCHANGED <<legs, final, caller>>
  BY DEF Expire, Hanging
<1>2. e \in DialogRecords /\ ~Absent(e) BY DEF Absent, SessionInv, SessionTypes
<1>3. HereOnly
  <2>1. legs' = [legs EXCEPT ![n] = [legs[n] EXCEPT !.a = TRUE, !.b = TRUE]] \/ UNCHANGED legs
    BY <1>1 DEF SessionInv, SessionTypes
  <2> HIDE DEF e, c, d
  <2> QED BY <1>0, <1>1, <2>1, HereIs
<1>4. owner' = owner
  BY <1>0, <1>1 DEF Claimed, MayClaim
<1>5. \/ UNCHANGED <<dialogs, row>>
      \/ dialogs' = [dialogs EXCEPT ![n] = e] /\ row' = dialogs'[n] /\ UNCHANGED caller
  BY <1>0, <1>1 DEF Saved, MayClaim
<1> HIDE DEF e
<1>6. SessionTypes'
  <2>1. caller' \in CallerRecords
    <3>1. caller \in CallerRecords BY DEF SessionInv, SessionTypes
    <3>2. [caller EXCEPT !.state = "idle", !.left = Never, !.ack = 0] \in CallerRecords BY <3>1, SessionBasics
    <3> QED BY <1>1, <3>1, <3>2
  <2>2. legs' \in [Nodes -> LegRecords]
    <3>1. legs[n] \in LegRecords /\ legs \in [Nodes -> LegRecords] BY DEF SessionInv, SessionTypes
    <3>2. [legs[n] EXCEPT !.a = TRUE, !.b = TRUE] \in LegRecords BY <3>1
    <3>3. \/ UNCHANGED legs
          \/ legs' = [legs EXCEPT ![n] = [legs[n] EXCEPT !.a = TRUE, !.b = TRUE]]
      BY <1>1, <3>1
    <3> QED BY <3>1, <3>2, <3>3
  <2>3. final' \in [Nodes -> SUBSET Finalizers]
    <3>1. c.of # 0 => [of |-> c.of, left |-> FinalDelay] \in Finalizers
      BY SessionBasics DEF SessionInv, SessionTypes
    <3> QED BY <1>1, <3>1 DEF SessionInv, SessionTypes
  <2>4. dialogs' \in [Nodes -> DialogRecords] /\ row' \in DialogRecords
    BY <1>2, <1>5 DEF SessionInv, SessionTypes
  <2>5. timer' \in [Nodes -> Ticks] BY <1>1, SessionBasics DEF SessionInv, SessionTypes
  <2> QED BY <1>1, <1>4, <2>1, <2>2, <2>3, <2>4, <2>5 DEF SessionInv, SessionTypes
<1>7. timer'[home] = Never /\ (dialogs'[n] = e \/ UNCHANGED dialogs)
  BY <1>0, <1>1, <1>5 DEF SessionInv, SessionTypes
<1>8. OwnedHere' BY <1>0, <1>1, <1>4, <1>7 DEF SessionInv, OwnedHere
<1>9. InStep' BY <1>1, <1>7 DEF SessionInv, SessionTypes, InStep
<1>10. owner' = home /\ ~Absent(dialogs'[home]) => row' = dialogs'[home]
  BY <1>0, <1>5
<1> QED BY <1>3, <1>6, <1>8, <1>9, <1>10, HereKeeps

LEMMA FinalizeLaterKeeps ==
  ASSUME SessionInv, NEW n \in Nodes, NEW f \in final[n], FinalizeLater(n, f) PROVE SessionInv'
<1>0. n \in up /\ n = home /\ f.of \in Numbers
  <2>1. n \in up BY DEF FinalizeLater
  <2> QED BY <2>1, HereServes DEF SessionInv, SessionTypes
<1>1. /\ final' = [final EXCEPT ![n] = @ \ {f}]
      /\ UNCHANGED gone \/ gone' = [gone EXCEPT ![n] = @ \cup {f.of}]
      /\ UNCHANGED legs \/ legs' = [legs EXCEPT ![n] = NoCall]
      /\ callRow' \in {callRow, 0}
      /\ UNCHANGED <<up, home, dialogs, timer, row, owner, caller>>
  BY DEF FinalizeLater
<1>2. HereOnly
  <2>1. UNCHANGED gone \/ \E d : gone' = [gone EXCEPT ![n] = d] BY <1>1
  <2>2. \E d : final' = [final EXCEPT ![n] = d] BY <1>1
  <2> QED BY <1>0, <1>1, <2>1, <2>2, HereIs
<1>3. SessionTypes'
  <2>1. final' \in [Nodes -> SUBSET Finalizers] BY <1>1 DEF SessionInv, SessionTypes
  <2>2. gone' \in [Nodes -> SUBSET Numbers] BY <1>0, <1>1 DEF SessionInv, SessionTypes
  <2>3. legs' \in [Nodes -> LegRecords] BY <1>1, SessionBasics DEF SessionInv, SessionTypes
  <2> QED BY <1>1, <2>1, <2>2, <2>3 DEF SessionInv, SessionTypes
<1>4. OwnedHere' BY <1>1 DEF SessionInv, OwnedHere
<1>5. InStep' BY <1>1 DEF SessionInv, InStep
<1>6. owner' = home /\ ~Absent(dialogs'[home]) => row' = dialogs'[home]
  BY <1>0, <1>1 DEF SessionInv, RowCurrent
<1> QED BY <1>2, <1>3, <1>4, <1>5, <1>6, HereKeeps

LEMMA SessionTickKeeps ==
  ASSUME SessionInv, SessionTick PROVE SessionInv'
<1> DEFINE Aged(d) == [d EXCEPT !.expires = Later(@)]
           Nearer(f) == [f EXCEPT !.left = Later(@)]
<1>1. /\ timer' = [n \in Nodes |-> Later(timer[n])]
      /\ final' = [n \in Nodes |-> {Nearer(f) : f \in final[n]}]
      /\ dialogs' = [n \in Nodes |-> Aged(dialogs[n])]
      /\ row' = Aged(row)
      /\ caller' = [caller EXCEPT !.left = Later(@)]
      /\ UNCHANGED <<up, home, legs, gone, callRow, owner>>
  BY DEF SessionTick
<1>2. /\ \A d \in DialogRecords : /\ Aged(d) \in DialogRecords /\ Aged(d).expires = Later(d.expires)
                                  /\ Absent(Aged(d)) <=> Absent(d)
      /\ Aged(NoDialog) = NoDialog
  BY LaterIs, SessionBasics DEF Absent, NoDialog, Later
<1>3. \A f \in Finalizers : Nearer(f) \in Finalizers BY LaterIs
<1> HIDE DEF Aged, Nearer
<1>4. SessionTypes'
  <2>1. timer' \in [Nodes -> Ticks] BY <1>1, LaterIs DEF SessionInv, SessionTypes
  <2>2. dialogs' \in [Nodes -> DialogRecords] /\ row' \in DialogRecords
    BY <1>1, <1>2 DEF SessionInv, SessionTypes
  <2>3. final' \in [Nodes -> SUBSET Finalizers]
    <3>1. \A n \in Nodes : \A f \in final[n] : f \in Finalizers BY DEF SessionInv, SessionTypes
    <3> QED BY <1>1, <1>3, <3>1
  <2>4. caller' \in CallerRecords BY <1>1, LaterIs DEF SessionInv, SessionTypes
  <2> QED BY <1>1, <2>1, <2>2, <2>3, <2>4 DEF SessionInv, SessionTypes
<1>5. \A n \in Nodes : /\ timer'[n] = Later(timer[n]) /\ dialogs'[n] = Aged(dialogs[n])
                       /\ timer'[n] = Never <=> timer[n] = Never
                       /\ Absent(dialogs'[n]) <=> Absent(dialogs[n])
                       /\ dialogs'[n].expires = Later(dialogs[n].expires)
  BY <1>1, <1>2, LaterIs DEF SessionInv, SessionTypes
<1>6. Elsewhere'
  <2>1. \A n \in Nodes : final[n] = {} => final'[n] = {} BY <1>1
  <2> QED BY <1>1, <1>2, <1>5, <2>1 DEF SessionInv, Elsewhere
<1>7. /\ caller'.state = caller.state /\ caller'.ack = caller.ack /\ caller'.of = caller.of
      /\ caller'.timed = caller.timed /\ caller'.left = Later(caller.left)
      /\ caller'.left = Never <=> caller.left = Never
  <2>1. caller \in CallerRecords BY DEF SessionInv, SessionTypes
  <2> QED BY <1>1, <2>1, LaterIs
<1>8. OwnedHere' BY <1>1, <1>5, <1>7 DEF SessionInv, SessionTypes, OwnedHere
<1>9. InStep' BY <1>1, <1>5, <1>7 DEF SessionInv, SessionTypes, InStep
<1>10. RowCurrent' BY <1>1, <1>5 DEF SessionInv, SessionTypes, RowCurrent
<1> QED BY <1>4, <1>6, <1>8, <1>9, <1>10 DEF SessionInv

LEMMA EnvironmentKeeps ==
  ASSUME SessionInv, ~Balanced, Lapse \/ Reroute \/ \E n \in Nodes : Die(n) PROVE SessionInv'
<1>1. CASE Lapse
  <2>1. /\ owner \in Nodes \ up /\ owner' = NoNode
        /\ UNCHANGED <<up, home, dialogs, timer, legs, final, gone, row, callRow, caller>>
    BY <1>1 DEF Lapse
  <2>2. Absent(dialogs[home]) \/ caller.state = "refused" \/ owner = home
    BY DEF SessionInv, OwnedHere
  <2>3. Absent(dialogs[owner]) BY <2>1 DEF SessionInv, Elsewhere, Absent, NoDialog
  <2>4. OwnedHere' BY <2>1, <2>2, <2>3 DEF SessionInv, SessionTypes, OwnedHere
  <2> QED BY <2>1, <2>4, SessionBasics
    DEF SessionInv, SessionTypes, Elsewhere, InStep, RowCurrent
<1>2. CASE Reroute
  <2>1. /\ home \notin up /\ home' \in up
        /\ UNCHANGED <<up, dialogs, timer, legs, final, gone, row, callRow, owner, caller>>
    BY <1>2 DEF Reroute
  <2>2. \A n \in Nodes : /\ dialogs[n] = NoDialog /\ timer[n] = Never /\ legs[n] = NoCall
                         /\ final[n] = {} /\ gone[n] = {}
    BY <2>1 DEF SessionInv, Elsewhere
  <2>3. home' \in Nodes BY <2>1 DEF SessionInv, SessionTypes
  <2>4. OwnedHere' BY <2>1, <2>2, <2>3 DEF SessionInv, SessionTypes, OwnedHere, Absent, NoDialog
  <2>5. InStep' BY <2>1, <2>2, <2>3 DEF SessionInv, SessionTypes, InStep
  <2> QED BY <2>1, <2>2, <2>3, <2>4, <2>5
    DEF SessionInv, SessionTypes, Elsewhere, RowCurrent
<1>3. ASSUME NEW n \in Nodes, Die(n) PROVE SessionInv'
  <2>1. /\ n \in up /\ up' = up \ {n}
        /\ dialogs' = [dialogs EXCEPT ![n] = NoDialog] /\ timer' = [timer EXCEPT ![n] = Never]
        /\ legs' = [legs EXCEPT ![n] = NoCall] /\ final' = [final EXCEPT ![n] = {}]
        /\ gone' = [gone EXCEPT ![n] = {}]
        /\ UNCHANGED <<home, row, callRow, owner, caller>>
    BY <1>3 DEF Die
  <2>2. SessionTypes' BY <2>1, SessionBasics DEF SessionInv, SessionTypes
  <2>3. \A m \in Nodes : \/ /\ m = n /\ dialogs'[m] = NoDialog /\ timer'[m] = Never
                            /\ legs'[m] = NoCall /\ final'[m] = {} /\ gone'[m] = {}
                         \/ /\ m # n /\ dialogs'[m] = dialogs[m] /\ timer'[m] = timer[m]
                            /\ legs'[m] = legs[m] /\ final'[m] = final[m] /\ gone'[m] = gone[m]
    BY <2>1 DEF SessionInv, SessionTypes
  <2>4. Elsewhere' BY <2>1, <2>3 DEF SessionInv, Elsewhere
  <2>5. OwnedHere' BY <2>1, <2>3 DEF SessionInv, SessionTypes, OwnedHere, Absent, NoDialog
  <2>6. InStep' BY <2>1, <2>3 DEF SessionInv, SessionTypes, InStep
  <2>7. RowCurrent' BY <2>1, <2>3 DEF SessionInv, SessionTypes, RowCurrent
  <2> QED BY <2>2, <2>4, <2>5, <2>6, <2>7 DEF SessionInv
<1> QED BY <1>1, <1>2, <1>3

LEMMA SessionInvNext ==
  SessionInv /\ ~Balanced /\ [SessionNext]_sessionVars => SessionInv'
<1> SUFFICES ASSUME SessionInv, ~Balanced, [SessionNext]_sessionVars PROVE SessionInv' OBVIOUS
<1>1. CASE UNCHANGED sessionVars
  BY <1>1 DEF sessionVars, SessionInv, SessionTypes, Elsewhere, OwnedHere, InStep, RowCurrent
<1>2. ASSUME NEW n \in Nodes,
             \/ InviteArrives(n) \/ InvitePending(n) \/ InviteFenced(n) \/ AnswerInvite(n)
             \/ Refuse(n) \/ AckArrives(n) \/ Refresh(n) \/ ByeFromA(n) \/ ByeFromB(n)
             \/ TaskRuns(n)
      PROVE  SessionInv'
  BY <1>2, InviteArrivesKeeps, InvitePendingKeeps, InviteFencedKeeps, AnswerInviteKeeps,
     RefuseKeeps, AckArrivesKeeps, RefreshKeeps, ByeFromAKeeps, ByeFromBKeeps, ExpireKeeps,
     FinalizeLaterKeeps DEF TaskRuns
<1> QED BY <1>1, <1>2, SessionTickKeeps, EnvironmentKeeps DEF SessionNext

\* Only an expiry whose dialog is due sends a BYE for the timer.
LEMMA TimelyStep ==
  ASSUME SessionInv, [SessionNext]_sessionVars, NEW k, NEW p, <<k, p, "timer">> \in byes' \ byes
  PROVE  ~(caller.of = k /\ caller.state = "talking" /\ caller.timed /\ caller.left # 0)
<1>1. PICK n \in Nodes : Expire(n)
  <2>1. byes' # byes OBVIOUS
  <2>2. ASSUME NEW n \in Nodes, NEW c, NEW q, NEW why, why # "timer",
               byes' = byes \/ byes' = Sent(n, c, {q}, why)
        PROVE  FALSE
    <3>1. byes' = byes \cup {<<c, q, why>>} BY <2>1, <2>2 DEF Sent
    <3>2. <<k, p, "timer">> = <<c, q, why>> BY <3>1
    <3> QED BY <2>2, <3>2
  <2>3. ASSUME NEW n \in Nodes, ByeFromA(n) PROVE FALSE
    <3>1. byes' = byes \/ byes' = Sent(n, CallAt(n).of, {"B"}, "A") BY <2>3 DEF ByeFromA
    <3> QED BY <3>1, <2>2
  <2>4. ASSUME NEW n \in Nodes, ByeFromB(n) PROVE FALSE
    <3>1. byes' = byes \/ byes' = Sent(n, legs[n].of, {"A"}, "B") BY <2>4 DEF ByeFromB
    <3> QED BY <3>1, <2>2
  <2>5. ASSUME NEW n \in Nodes, NEW f, FinalizeLater(n, f) PROVE FALSE
    BY <2>1, <2>5 DEF FinalizeLater
  <2> QED BY <2>1, <2>3, <2>4, <2>5, Zenon
    DEF SessionNext, sessionVars, TaskRuns, InviteArrives, InvitePending, InviteFenced,
        AnswerInvite, Refuse, AckArrives, Refresh, Die, SessionTick, Lapse, Reroute
<1>2. n \in up /\ timer[n] = 0 /\ timer[n] # Never BY <1>1, SessionBasics DEF Expire
<1>3. n = home BY <1>2, HereServes
<1>4. Due(dialogs[n]) BY <1>1 DEF Expire
<1>5. dialogs[n].expires \in {Never, 0} BY <1>4 DEF Due
<1> QED BY <1>2, <1>3, <1>5 DEF SessionInv, InStep

\* For any nodes that die at any time, sessions, calls and delays, as long as the
\* requests of a caller reach one node until it dies: no timer hangs a session up
\* before its interval is over, and the row has the dialog as its owner left it.
THEOREM TimerAlwaysSafe == ASSUME ~Balanced PROVE SessionSpec => TimerSafe
<1>1. SessionInv => SessionTypeOK /\ RowCurrent
  BY SessionBasics DEF SessionInv, SessionTypes, SessionTypeOK, Numbers, Ticks
<1>2. SessionInv /\ [SessionNext]_sessionVars => SessionInv' BY SessionInvNext
<1>3. SessionInv /\ [SessionNext]_sessionVars =>
        [\A k \in 1 .. MaxInvites, p \in {"A", "B"} :
           <<k, p, "timer">> \in byes' \ byes
             => ~(caller.of = k /\ caller.state = "talking" /\ caller.timed /\ caller.left # 0)]_sessionVars
  BY TimelyStep
<1> QED BY SessionInvInit, <1>1, <1>2, <1>3, PTL DEF SessionSpec, TimerSafe, NotHungUpEarly

(***************************************************************************)
(* The rates                                                               *)
(***************************************************************************)
Ages == 0 .. Window

\* The events of a limiter account for a set of admissions: each has an event of
\* its own, as old as it is.
AccountsFor(ages, tokens) ==
  \E f \in [tokens -> 1 .. Len(ages)] :
    /\ \A t, u \in tokens : f[t] = f[u] => t = u
    /\ \A t \in tokens : ages[f[t]] = t[2]

\* What the limiters hold accounts for what they let through, and is no longer
\* than the limit.
RateInv ==
  /\ events \in [AllChecks -> Seq(Ages)]
  /\ recent \in [Requests -> [0 .. Window - 1 -> Nat]]
  /\ \A c \in AllChecks :
       Limited(c) => Len(events[c]) <= Limit[c[1]] /\ AccountsFor(events[c], Admissions(c))

\* Which events allow drops.
LEMMA FreshIs ==
  ASSUME NEW ages \in Seq(Ages)
  PROVE  \E n \in 1 .. Len(ages) + 1 :
           /\ \A j \in 1 .. n - 1 : ages[j] >= Window
           /\ Fresh(ages) \in Seq(Ages) /\ Len(Fresh(ages)) = Len(ages) - n + 1
           /\ \A i \in 1 .. Len(ages) - n + 1 : Fresh(ages)[i] = ages[n + i - 1]
<1> DEFINE first(i) == /\ i <= Len(ages) => InWindow(ages[i])
                       /\ \A j \in 1 .. i - 1 : ~InWindow(ages[j])
           T == {i \in 1 .. Len(ages) + 1 : i <= Len(ages) => InWindow(ages[i])}
<1>1. Len(ages) \in Nat /\ Window \in Nat /\ \A i \in 1 .. Len(ages) : ages[i] \in Ages
  BY LimitAssumption
<1>2. T \in SUBSET Nat /\ Len(ages) + 1 \in T BY <1>1
<1>3. PICK m \in T : \A i \in T : m <= i BY <1>2, Least
<1>4. first(m)
  <2>1. SUFFICES ASSUME NEW j \in 1 .. m - 1, InWindow(ages[j]) PROVE FALSE BY <1>3
  <2>2. j \in T BY <1>1, <1>3, <2>1
  <2> QED BY <1>1, <1>3, <2>2
<1>5. PICK n \in 1 .. Len(ages) + 1 : first(n) /\ Fresh(ages) = SubSeq(ages, n, Len(ages))
  <2> DEFINE n == CHOOSE i \in 1 .. Len(ages) + 1 : first(i)
  <2>1. n \in 1 .. Len(ages) + 1 /\ first(n) BY <1>3, <1>4
  <2>2. Fresh(ages) = SubSeq(ages, n, Len(ages)) BY DEF Fresh
  <2> HIDE DEF n, first
  <2> QED BY <2>1, <2>2
<1>6. \A j \in 1 .. n - 1 : ages[j] >= Window BY <1>1, <1>5 DEF InWindow, Ages
<1>7. \A i \in n .. Len(ages) : ages[i] \in Ages BY <1>1, <1>5
<1>8. /\ Fresh(ages) \in Seq(Ages) /\ Len(Fresh(ages)) = IF n <= Len(ages) THEN Len(ages) - n + 1 ELSE 0
      /\ \A i \in 1 .. Len(ages) - n + 1 : Fresh(ages)[i] = ages[n + i - 1]
  <2>1. n \in Int /\ Len(ages) \in Int BY <1>1, <1>5
  <2> QED BY <1>5, <1>7, <2>1, SubSeqProperties
<1>9. Len(Fresh(ages)) = Len(ages) - n + 1 BY <1>1, <1>5, <1>8
<1> QED BY <1>5, <1>6, <1>8, <1>9

\* No event of an admission in the window is dropped.
LEMMA FreshAccounts ==
  ASSUME NEW ages \in Seq(Ages), NEW tokens, \A t \in tokens : t[2] \in 0 .. Window - 1,
         AccountsFor(ages, tokens)
  PROVE  AccountsFor(Fresh(ages), tokens)
<1>1. Len(ages) \in Nat /\ Window \in Nat /\ \A i \in 1 .. Len(ages) : ages[i] \in Ages
  BY LimitAssumption
<1>2. PICK f \in [tokens -> 1 .. Len(ages)] :
        /\ \A t, u \in tokens : f[t] = f[u] => t = u
        /\ \A t \in tokens : ages[f[t]] = t[2]
  BY DEF AccountsFor
<1>3. PICK n \in 1 .. Len(ages) + 1 :
           /\ \A j \in 1 .. n - 1 : ages[j] >= Window
           /\ Fresh(ages) \in Seq(Ages) /\ Len(Fresh(ages)) = Len(ages) - n + 1
           /\ \A i \in 1 .. Len(ages) - n + 1 : Fresh(ages)[i] = ages[n + i - 1]
  BY FreshIs
<1> DEFINE g == [t \in tokens |-> f[t] - n + 1]
<1>4. \A t \in tokens : f[t] \in n .. Len(ages)
  <2>1. SUFFICES ASSUME NEW t \in tokens, ~(f[t] >= n) PROVE FALSE BY <1>1, <1>2, <1>3
  <2>2. f[t] \in 1 .. n - 1 BY <1>1, <1>2, <1>3, <2>1
  <2>3. ages[f[t]] >= Window /\ ages[f[t]] = t[2] BY <1>2, <1>3, <2>2
  <2> QED BY <1>1, <2>3
<1>5. g \in [tokens -> 1 .. Len(Fresh(ages))] BY <1>1, <1>3, <1>4
<1>6. \A t, u \in tokens : g[t] = g[u] => t = u
  <2>1. SUFFICES ASSUME NEW t \in tokens, NEW u \in tokens, g[t] = g[u] PROVE t = u OBVIOUS
  <2>2. f[t] - n + 1 = f[u] - n + 1 /\ f[t] \in Int /\ f[u] \in Int /\ n \in Int BY <2>1, <1>4, <1>3, <1>1
  <2>3. f[t] = f[u] BY <2>2
  <2> QED BY <1>2, <2>3
<1>7. \A t \in tokens : Fresh(ages)[g[t]] = t[2]
  <2>1. TAKE t \in tokens
  <2>2. g[t] \in 1 .. Len(ages) - n + 1 /\ n + g[t] - 1 = f[t] BY <1>1, <1>3, <1>4
  <2>3. Fresh(ages)[g[t]] = ages[n + g[t] - 1] BY <1>3, <2>2
  <2> QED BY <1>2, <2>2, <2>3
<1> HIDE DEF g
<1> QED BY <1>5, <1>6, <1>7 DEF AccountsFor

\* An event more changes nothing that the others account for.
LEMMA MoreAccounts ==
  ASSUME NEW ages \in Seq(Ages), NEW tokens, AccountsFor(ages, tokens)
  PROVE  AccountsFor(Append(ages, 0), tokens)
<1>1. /\ Len(Append(ages, 0)) = Len(ages) + 1 /\ Len(ages) \in Nat
      /\ \A i \in 1 .. Len(ages) : Append(ages, 0)[i] = ages[i]
  <2>1. 0 \in Ages BY LimitAssumption DEF Ages
  <2> QED BY <2>1, AppendProperties, LenProperties
<1>2. PICK f \in [tokens -> 1 .. Len(ages)] :
        /\ \A t, u \in tokens : f[t] = f[u] => t = u
        /\ \A t \in tokens : ages[f[t]] = t[2]
  BY DEF AccountsFor
<1>3. f \in [tokens -> 1 .. Len(Append(ages, 0))] BY <1>1, <1>2
<1>4. \A t \in tokens : Append(ages, 0)[f[t]] = t[2] BY <1>1, <1>2
<1> QED BY <1>2, <1>3, <1>4 DEF AccountsFor

\* The new event accounts for a new admission.
LEMMA AdmissionAccounts ==
  ASSUME NEW ages \in Seq(Ages), NEW tokens, NEW new, new[2] = 0, AccountsFor(ages, tokens)
  PROVE  AccountsFor(Append(ages, 0), tokens \cup {new})
<1>1. /\ Len(Append(ages, 0)) = Len(ages) + 1 /\ Len(ages) \in Nat
      /\ \A i \in 1 .. Len(ages) : Append(ages, 0)[i] = ages[i]
      /\ Append(ages, 0)[Len(ages) + 1] = 0
  <2>1. 0 \in Ages BY LimitAssumption DEF Ages
  <2> QED BY <2>1, AppendProperties, LenProperties
<1>2. PICK f \in [tokens -> 1 .. Len(ages)] :
        /\ \A t, u \in tokens : f[t] = f[u] => t = u
        /\ \A t \in tokens : ages[f[t]] = t[2]
  BY DEF AccountsFor
<1> DEFINE all == tokens \cup {new}
           g == [t \in all |-> IF t = new THEN Len(ages) + 1 ELSE f[t]]
<1>3. g \in [all -> 1 .. Len(Append(ages, 0))] BY <1>1, <1>2
<1>4. \A t, u \in all : g[t] = g[u] => t = u BY <1>1, <1>2
<1>5. \A t \in all : Append(ages, 0)[g[t]] = t[2] BY <1>1, <1>2
<1> HIDE DEF g, all
<1>6. AccountsFor(Append(ages, 0), all) BY <1>3, <1>4, <1>5 DEF AccountsFor
<1> QED BY <1>6 DEF all

\* Admissions and events grow old together.
LEMMA OlderAccounts ==
  ASSUME NEW ages \in Seq(Ages), NEW tokens, NEW aged, AccountsFor(ages, tokens),
         \A t \in aged : /\ t = <<t[1], t[2], t[3]>> /\ t[2] \in 1 .. Window - 1
                         /\ <<t[1], t[2] - 1, t[3]>> \in tokens
  PROVE  AccountsFor([i \in DOMAIN ages |-> Older(ages[i])], aged)
<1> DEFINE old == [i \in DOMAIN ages |-> Older(ages[i])]
<1>1. Len(ages) \in Nat /\ DOMAIN ages = 1 .. Len(ages) /\ Window \in Nat
  BY LimitAssumption, LenProperties
<1>2. Len(old) = Len(ages)
  <2>1. \A i \in 1 .. Len(ages) : ages[i] \in Ages BY <1>1
  <2>2. \A i \in 1 .. Len(ages) : Older(ages[i]) \in Ages BY <2>1, <1>1 DEF Ages, Older
  <2>3. old \in [1 .. Len(ages) -> Ages] BY <1>1, <2>2
  <2> QED BY <1>1, <2>3
<1>3. PICK f \in [tokens -> 1 .. Len(ages)] :
        /\ \A t, u \in tokens : f[t] = f[u] => t = u
        /\ \A t \in tokens : ages[f[t]] = t[2]
  BY DEF AccountsFor
<1> DEFINE before(t) == <<t[1], t[2] - 1, t[3]>>
           g == [t \in aged |-> f[before(t)]]
<1>4. g \in [aged -> 1 .. Len(old)] BY <1>2, <1>3
<1>5. \A t, u \in aged : g[t] = g[u] => t = u
  <2>1. SUFFICES ASSUME NEW t \in aged, NEW u \in aged, g[t] = g[u] PROVE t = u OBVIOUS
  <2>2. before(t) = before(u)
    <3>1. before(t) \in tokens /\ before(u) \in tokens OBVIOUS
    <3>2. f[before(t)] = f[before(u)] BY <2>1
    <3> HIDE DEF before
    <3> QED BY <3>1, <3>2, <1>3
  <2>3. t[1] = u[1] /\ t[2] - 1 = u[2] - 1 /\ t[3] = u[3] BY <2>2
  <2>4. t[2] \in Int /\ u[2] \in Int
    <3>1. t[2] \in 1 .. Window - 1 /\ u[2] \in 1 .. Window - 1 BY Zenon
    <3> HIDE DEF g, old
    <3> QED BY <3>1, <1>1
  <2>5. t[2] = u[2] BY <2>3, <2>4
  <2>6. t = <<t[1], t[2], t[3]>> /\ u = <<u[1], u[2], u[3]>> OBVIOUS
  <2> QED BY <2>3, <2>5, <2>6, Zenon
<1>6. \A t \in aged : old[g[t]] = t[2]
  <2>1. TAKE t \in aged
  <2>2. g[t] \in 1 .. Len(ages) /\ ages[g[t]] = t[2] - 1
    <3>1. ages[f[before(t)]] = before(t)[2] BY <1>3
    <3> QED BY <3>1, <1>3
  <2>3. old[g[t]] = Older(t[2] - 1) BY <1>1, <2>2
  <2> QED BY <1>1, <2>3 DEF Older
<1> HIDE DEF g, old
<1>7. AccountsFor(old, aged) BY <1>4, <1>5, <1>6 DEF AccountsFor
<1> QED BY <1>7 DEF old

\* A limiter with as many events as its limit has let no more than that through.
LEMMA AccountsBound ==
  ASSUME NEW ages \in Seq(Ages), NEW tokens, AccountsFor(ages, tokens)
  PROVE  IsFiniteSet(tokens) /\ Cardinality(tokens) \in Nat /\ Cardinality(tokens) <= Len(ages)
<1>1. Len(ages) \in Nat OBVIOUS
<1>2. IsFiniteSet(1 .. Len(ages)) /\ Cardinality(1 .. Len(ages)) = Len(ages)
  <2>1. 1 \in Int /\ Len(ages) \in Int BY <1>1
  <2>2. /\ IsFiniteSet(1 .. Len(ages))
        /\ Cardinality(1 .. Len(ages)) = IF 1 > Len(ages) THEN 0 ELSE Len(ages) - 1 + 1
    BY <2>1, FS_Interval
  <2> QED BY <1>1, <2>2
<1>3. PICK f \in [tokens -> 1 .. Len(ages)] : \A t, u \in tokens : f[t] = f[u] => t = u
  BY DEF AccountsFor
<1>4. f \in Injection(tokens, 1 .. Len(ages)) BY <1>3 DEF Injection, IsInjective
<1>5. IsFiniteSet(tokens) /\ Cardinality(tokens) <= Cardinality(1 .. Len(ages))
  BY <1>2, <1>4, FS_Injection
<1> QED BY <1>2, <1>5, FS_CardinalityType

\* What a limiter counts is counted in one of the dimensions.
LEMMA ChecksIs ==
  ASSUME NEW r \in Requests
  PROVE  \A c \in ChecksOf(r) : c[1] \in Dimensions /\ c \in AllChecks
<1> DEFINE keys == {r.source, r.realm, r.user, <<r.method, r.source>>}
           D == Dimensions \X keys
           four == << <<"source", r.source>>, <<"realm", r.realm>>,
                      <<"subscriber", r.user>>, <<"method", <<r.method, r.source>> >> >>
           register == When(r.method = "REGISTER", <<"registration", r.source>>)
           invite == When(r.method = "INVITE", <<"invite", r.source>>)
<1>1. four \in Seq(D)
  <2>1. /\ <<"source", r.source>> \in D /\ <<"realm", r.realm>> \in D
        /\ <<"subscriber", r.user>> \in D /\ <<"method", <<r.method, r.source>> >> \in D
    BY DEF Dimensions
  <2> HIDE DEF D
  <2> QED BY <2>1
<1>2. register \in Seq(D) /\ invite \in Seq(D)
  <2>1. <<"registration", r.source>> \in D /\ <<"invite", r.source>> \in D BY DEF Dimensions
  <2> HIDE DEF D
  <2> QED BY <2>1 DEF When
<1>3. Checks(r) = (four \o register) \o invite BY Zenon DEF Checks
<1> HIDE DEF D, four, register, invite
<1>4. four \o register \in Seq(D) BY <1>1, <1>2, ConcatProperties
<1>5. Checks(r) \in Seq(D) BY <1>2, <1>3, <1>4, ConcatProperties
<1>6. \A i \in DOMAIN Checks(r) : Checks(r)[i] \in D BY <1>5
<1>7. \A c \in D : c[1] \in Dimensions BY DEF D
<1>8. \A c \in ChecksOf(r) : c \in D BY <1>6 DEF ChecksOf
<1>9. ChecksOf(r) \subseteq AllChecks BY DEF AllChecks
<1> QED BY <1>7, <1>8, <1>9

LEMMA LimitIs ==
  ASSUME NEW c \in AllChecks
  PROVE  Limit[c[1]] \in Nat
<1>1. PICK r \in Requests : c \in ChecksOf(r) BY DEF AllChecks
<1> QED BY <1>1, ChecksIs, LimitAssumption

\* Only limiters of the request are asked, and all of them when it passes.
LEMMA AskedIs ==
  ASSUME NEW r \in Requests
  PROVE  Asked(r) \subseteq ChecksOf(r) /\ (Passable(r) => Asked(r) = ChecksOf(r))
<1>1. Asked(r) \subseteq ChecksOf(r) BY DEF Asked, ChecksOf
<1>2. ASSUME Passable(r), NEW i \in DOMAIN Checks(r) PROVE Checks(r)[i] \in Asked(r)
  <2>1. \A n \in DOMAIN Checks(r) : Allows(Checks(r)[n]) BY <1>2 DEF Passable, ChecksOf
  <2>2. \A m \in 1 .. i - 1 : m \in DOMAIN Checks(r)
    <3>1. DOMAIN Checks(r) = 1 .. Len(Checks(r)) /\ Len(Checks(r)) \in Nat
      BY DEF Checks, When
    <3> QED BY <3>1, <1>2
  <2> QED BY <2>1, <2>2 DEF Asked
<1> QED BY <1>1, <1>2 DEF ChecksOf

\* The admissions of a window, as a history h has them.
AdmissionsIn(h, c) ==
  UNION {{<<r, a, k>> : k \in 1 .. h[r][a]}
         : r \in {q \in Requests : c \in ChecksOf(q)}, a \in 0 .. Window - 1}

LEMMA AdmissionsAre ==
  ASSUME NEW c, NEW h
  PROVE  \A t : t \in AdmissionsIn(h, c) <=>
           \E r \in Requests, a \in 0 .. Window - 1 :
             c \in ChecksOf(r) /\ \E k \in 1 .. h[r][a] : t = <<r, a, k>>
<1> DEFINE R == {q \in Requests : c \in ChecksOf(q)}
           At(r, a) == {<<r, a, k>> : k \in 1 .. h[r][a]}
<1>1. \A t, r, a : t \in At(r, a) <=> \E k \in 1 .. h[r][a] : t = <<r, a, k>> OBVIOUS
<1>2. \A r : r \in R <=> r \in Requests /\ c \in ChecksOf(r) OBVIOUS
<1>3. AdmissionsIn(h, c) = UNION {At(r, a) : r \in R, a \in 0 .. Window - 1}
  BY DEF AdmissionsIn
<1> HIDE DEF R, At
<1>4. \A t : t \in UNION {At(r, a) : r \in R, a \in 0 .. Window - 1}
               <=> \E r \in R, a \in 0 .. Window - 1 : t \in At(r, a)
  OBVIOUS
<1> QED BY <1>1, <1>2, <1>3, <1>4

LEMMA AdmissionsNow ==
  ASSUME NEW c
  PROVE  /\ Admissions(c) = AdmissionsIn(recent, c)
         /\ Admissions(c)' = AdmissionsIn(recent', c)
<1>1. Admissions(c) = AdmissionsIn(recent, c) BY DEF Admissions, AdmissionsIn
<1>2. Admissions(c)' = AdmissionsIn(recent', c) BY DEF Admissions, AdmissionsIn
<1> QED BY <1>1, <1>2

\* One more request passes.
LEMMA AdmissionsMore ==
  ASSUME NEW c, NEW r \in Requests, NEW h \in [Requests -> [0 .. Window - 1 -> Nat]], NEW g,
         \A q \in Requests, a \in 0 .. Window - 1 :
           g[q][a] = IF q = r /\ a = 0 THEN h[q][a] + 1 ELSE h[q][a]
  PROVE  \A t : t \in AdmissionsIn(g, c) <=>
                  t \in AdmissionsIn(h, c) \/ (c \in ChecksOf(r) /\ t = <<r, 0, h[r][0] + 1>>)
<1> DEFINE next == <<r, 0, h[r][0] + 1>>
<1>1. ASSUME NEW q \in Requests, NEW a \in 0 .. Window - 1, NEW k
      PROVE  k \in 1 .. g[q][a] <=>
               k \in 1 .. h[q][a] \/ (q = r /\ a = 0 /\ k = h[r][0] + 1)
  <2>1. h[q][a] \in Nat OBVIOUS
  <2> QED BY <2>1
<1>2. 0 \in 0 .. Window - 1 BY LimitAssumption
<1>3. ASSUME NEW t
      PROVE  t \in AdmissionsIn(g, c) <=> t \in AdmissionsIn(h, c) \/ (c \in ChecksOf(r) /\ t = next)
  <2>1. /\ t \in AdmissionsIn(g, c) <=> \E q \in Requests, a \in 0 .. Window - 1 :
             c \in ChecksOf(q) /\ \E k \in 1 .. g[q][a] : t = <<q, a, k>>
        /\ t \in AdmissionsIn(h, c) <=> \E q \in Requests, a \in 0 .. Window - 1 :
             c \in ChecksOf(q) /\ \E k \in 1 .. h[q][a] : t = <<q, a, k>>
    BY AdmissionsAre
  <2> QED BY <2>1, <1>1, <1>2
<1> QED BY <1>3

\* A limiter that is asked still accounts for its admissions.
LEMMA AskedAccounts ==
  ASSUME RateInv, NEW c \in AllChecks, Limited(c),
         NEW new, new = IF Allows(c) THEN Append(Fresh(events[c]), 0) ELSE Fresh(events[c])
  PROVE  /\ new \in Seq(Ages) /\ Len(new) <= Limit[c[1]] /\ AccountsFor(new, Admissions(c))
         /\ Allows(c) => \A t : t[2] = 0 => AccountsFor(new, Admissions(c) \cup {t})
<1>1. /\ events[c] \in Seq(Ages) /\ Len(events[c]) <= Limit[c[1]]
      /\ AccountsFor(events[c], Admissions(c)) /\ Limit[c[1]] \in Nat
  BY LimitIs DEF RateInv
<1>2. \A t \in Admissions(c) : t[2] \in 0 .. Window - 1
  <2>1. SUFFICES ASSUME NEW t \in Admissions(c) PROVE t[2] \in 0 .. Window - 1 OBVIOUS
  <2>2. PICK r \in Requests, a \in 0 .. Window - 1 : \E k \in 1 .. recent[r][a] : t = <<r, a, k>>
    BY AdmissionsAre, AdmissionsNow
  <2> QED BY <2>2
<1>3. AccountsFor(Fresh(events[c]), Admissions(c)) BY <1>1, <1>2, FreshAccounts
<1>4. Fresh(events[c]) \in Seq(Ages) /\ Len(Fresh(events[c])) <= Limit[c[1]]
  <2>1. PICK n \in 1 .. Len(events[c]) + 1 :
          Fresh(events[c]) \in Seq(Ages) /\ Len(Fresh(events[c])) = Len(events[c]) - n + 1
    BY <1>1, FreshIs
  <2>2. Len(events[c]) \in Nat BY <1>1
  <2> QED BY <1>1, <2>1, <2>2
<1>5. CASE Allows(c)
  <2>1. new = Append(Fresh(events[c]), 0) BY <1>5
  <2>2. 0 \in Ages BY LimitAssumption DEF Ages
  <2>3. new \in Seq(Ages) /\ Len(new) = Len(Fresh(events[c])) + 1 /\ Len(Fresh(events[c])) \in Nat
    BY <2>1, <2>2, <1>4, AppendProperties, LenProperties
  <2>4. Len(Fresh(events[c])) < Limit[c[1]] BY <1>5 DEF Allows
  <2>5. AccountsFor(new, Admissions(c)) BY <2>1, <1>3, <1>4, MoreAccounts
  <2>6. ASSUME NEW t, t[2] = 0 PROVE AccountsFor(new, Admissions(c) \cup {t})
    BY <2>1, <2>6, <1>3, <1>4, AdmissionAccounts
  <2> QED BY <1>1, <2>3, <2>4, <2>5, <2>6
<1>6. CASE ~Allows(c) BY <1>6, <1>3, <1>4
<1> QED BY <1>5, <1>6

LEMMA EventsAfterIs ==
  ASSUME RateInv, NEW r \in Requests
  PROVE  EventsAfter(r) \in [AllChecks -> Seq(Ages)]
<1>1. SUFFICES ASSUME NEW c \in AllChecks PROVE EventsAfter(r)[c] \in Seq(Ages)
  BY DEF EventsAfter
<1> DEFINE new == IF Allows(c) THEN Append(Fresh(events[c]), 0) ELSE Fresh(events[c])
<1>2. EventsAfter(r)[c] = IF c \notin Asked(r) \/ ~Limited(c) THEN events[c] ELSE new
  BY DEF EventsAfter
<1>3. events[c] \in Seq(Ages) BY DEF RateInv
<1>4. Limited(c) => new \in Seq(Ages)
  <2>1. \A n : n = new /\ Limited(c) => n \in Seq(Ages) BY AskedAccounts
  <2> QED BY <2>1
<1> HIDE DEF new
<1> QED BY <1>2, <1>3, <1>4

\* A request that a limiter refuses.
LEMMA RefusedRates ==
  ASSUME RateInv, NEW r \in Requests, events' = EventsAfter(r), recent' = recent
  PROVE  RateInv'
<1>1. events' \in [AllChecks -> Seq(Ages)] BY EventsAfterIs
<1>2. recent' \in [Requests -> [0 .. Window - 1 -> Nat]] BY DEF RateInv
<1>3. ASSUME NEW c \in AllChecks, Limited(c)
      PROVE  Len(events'[c]) <= Limit[c[1]] /\ AccountsFor(events'[c], Admissions(c)')
  <2>1. Admissions(c)' = Admissions(c) BY AdmissionsAre, AdmissionsNow
  <2>2. CASE c \notin Asked(r)
    <3>1. events'[c] = events[c] BY <2>2 DEF EventsAfter
    <3> QED BY <2>1, <3>1, <1>3 DEF RateInv
  <2>3. CASE c \in Asked(r)
    <3>1. events'[c] = IF Allows(c) THEN Append(Fresh(events[c]), 0) ELSE Fresh(events[c])
      BY <2>3, <1>3 DEF EventsAfter
    <3> QED BY <2>1, <3>1, <1>3, AskedAccounts
  <2> QED BY <2>2, <2>3
<1> QED BY <1>1, <1>2, <1>3 DEF RateInv, Limited, AccountsFor

\* A request that every limiter lets through.
LEMMA AdmittedRates ==
  ASSUME RateInv, NEW r \in Requests, Passable(r), events' = EventsAfter(r),
         recent' = [recent EXCEPT ![r][0] = @ + 1]
  PROVE  RateInv'
<1>0. 0 \in 0 .. Window - 1 /\ recent \in [Requests -> [0 .. Window - 1 -> Nat]]
  BY LimitAssumption DEF RateInv
<1>1. events' \in [AllChecks -> Seq(Ages)] BY EventsAfterIs
<1>2. recent' \in [Requests -> [0 .. Window - 1 -> Nat]]
  <2> DEFINE counts == [recent[r] EXCEPT ![0] = @ + 1]
  <2>1. recent[r] \in [0 .. Window - 1 -> Nat] BY <1>0
  <2>2. counts \in [0 .. Window - 1 -> Nat] BY <2>1, <1>0
  <2>3. recent' = [recent EXCEPT ![r] = counts] OBVIOUS
  <2> HIDE DEF counts
  <2> QED BY <2>2, <2>3, <1>0
<1>3. \A q \in Requests, a \in 0 .. Window - 1 :
        recent'[q][a] = IF q = r /\ a = 0 THEN recent[q][a] + 1 ELSE recent[q][a]
  BY <1>0
<1> DEFINE next == <<r, 0, recent[r][0] + 1>>
<1>4. ASSUME NEW c
      PROVE  Admissions(c)' = Admissions(c) \cup (IF c \in ChecksOf(r) THEN {next} ELSE {})
  <2>1. PICK g : g = recent' BY Zenon
  <2>2. \A q \in Requests, a \in 0 .. Window - 1 :
          g[q][a] = IF q = r /\ a = 0 THEN recent[q][a] + 1 ELSE recent[q][a]
    BY <1>3, <2>1, Zenon
  <2>3. \A t : t \in AdmissionsIn(g, c) <=>
                 t \in AdmissionsIn(recent, c) \/ (c \in ChecksOf(r) /\ t = next)
    BY <1>0, <2>2, AdmissionsMore
  <2>4. \A t : t \in Admissions(c)' <=> t \in Admissions(c) \/ (c \in ChecksOf(r) /\ t = next)
    BY <2>1, <2>3, AdmissionsNow, Zenon
  <2> HIDE DEF next
  <2> QED BY <2>4
<1>5. ASSUME NEW c \in AllChecks, Limited(c)
      PROVE  Len(events'[c]) <= Limit[c[1]] /\ AccountsFor(events'[c], Admissions(c)')
  <2>1. CASE c \notin ChecksOf(r)
    <3>1. Admissions(c)' = Admissions(c) BY <2>1, <1>4
    <3>2. events'[c] = events[c] BY <2>1, AskedIs DEF EventsAfter
    <3> QED BY <3>1, <3>2, <1>5 DEF RateInv
  <2>2. CASE c \in ChecksOf(r)
    <3>1. Admissions(c)' = Admissions(c) \cup {next} BY <2>2, <1>4
    <3>2. Allows(c) BY <2>2 DEF Passable
    <3>3. events'[c] = Append(Fresh(events[c]), 0)
      BY <2>2, <3>2, <1>5, AskedIs DEF EventsAfter
    <3>4. next[2] = 0 OBVIOUS
    <3> HIDE DEF next
    <3> QED BY <3>1, <3>2, <3>3, <3>4, <1>5, AskedAccounts
  <2> QED BY <2>1, <2>2
<1> QED BY <1>1, <1>2, <1>5 DEF RateInv, Limited, AccountsFor

\* A tick.
LEMMA TickRates ==
  ASSUME RateInv, GateTick
  PROVE  RateInv'
<1>0. /\ Window \in Nat /\ events \in [AllChecks -> Seq(Ages)]
      /\ recent \in [Requests -> [0 .. Window - 1 -> Nat]]
  BY LimitAssumption DEF RateInv
<1>1. ASSUME NEW c \in AllChecks
      PROVE  events'[c] = [i \in DOMAIN events[c] |-> Older(events[c][i])]
  BY DEF GateTick
<1>2. ASSUME NEW c \in AllChecks
      PROVE  events'[c] \in Seq(Ages) /\ Len(events'[c]) = Len(events[c])
  <2> DEFINE ages == events[c]
             n == Len(ages)
  <2>1. ages \in Seq(Ages) BY <1>0
  <2> HIDE DEF ages
  <2>2. n \in Nat /\ DOMAIN ages = 1 .. n /\ \A i \in 1 .. n : ages[i] \in Ages BY <2>1
  <2>3. \A i \in 1 .. n : Older(ages[i]) \in Ages BY <2>2, <1>0 DEF Ages, Older
  <2>4. events'[c] = [i \in 1 .. n |-> Older(ages[i])] BY <1>1, <2>2 DEF ages
  <2>5. events'[c] \in [1 .. n -> Ages] BY <2>3, <2>4
  <2> QED BY <2>2, <2>5 DEF ages
<1>3. events' \in [AllChecks -> Seq(Ages)] BY <1>2 DEF GateTick
<1>4. \A q \in Requests, a \in 0 .. Window - 1 :
        recent'[q][a] = IF a = 0 THEN 0 ELSE recent[q][a - 1]
  BY DEF GateTick
<1>5. recent' \in [Requests -> [0 .. Window - 1 -> Nat]]
  <2>1. \A q \in Requests, a \in 0 .. Window - 1 : (IF a = 0 THEN 0 ELSE recent[q][a - 1]) \in Nat
    BY <1>0
  <2>2. recent' = [q \in Requests |-> [a \in 0 .. Window - 1 |-> IF a = 0 THEN 0 ELSE recent[q][a - 1]]]
    BY DEF GateTick
  <2> QED BY <2>1, <2>2
<1>6. ASSUME NEW c \in AllChecks, Limited(c)
      PROVE  Len(events'[c]) <= Limit[c[1]] /\ AccountsFor(events'[c], Admissions(c)')
  <2>1. ASSUME NEW t \in Admissions(c)'
        PROVE  /\ t = <<t[1], t[2], t[3]>> /\ t[2] \in 1 .. Window - 1
               /\ <<t[1], t[2] - 1, t[3]>> \in Admissions(c)
    <3>0. PICK q \in Requests, a \in 0 .. Window - 1 :
            c \in ChecksOf(q) /\ \E k \in 1 .. recent'[q][a] : t = <<q, a, k>>
      BY <2>1, AdmissionsAre, AdmissionsNow
    <3>1. PICK k \in 1 .. recent'[q][a] : t = <<q, a, k>> BY <3>0
    <3>2. a # 0 BY <3>1, <1>4
    <3>3. a - 1 \in 0 .. Window - 1 /\ k \in 1 .. recent[q][a - 1] BY <3>1, <3>2, <1>0, <1>4
    <3>4. <<q, a - 1, k>> \in Admissions(c) BY <3>0, <3>3, AdmissionsAre, AdmissionsNow
    <3>5. t[1] = q /\ t[2] = a /\ t[3] = k BY <3>1
    <3> QED BY <3>1, <3>2, <3>3, <3>4, <3>5, <1>0
  <2>2. events[c] \in Seq(Ages) /\ Len(events[c]) <= Limit[c[1]]
        /\ AccountsFor(events[c], Admissions(c))
    BY <1>6 DEF RateInv
  <2>3. \A aged : (\A t \in aged : /\ t = <<t[1], t[2], t[3]>> /\ t[2] \in 1 .. Window - 1
                                   /\ <<t[1], t[2] - 1, t[3]>> \in Admissions(c))
                    => AccountsFor([i \in DOMAIN events[c] |-> Older(events[c][i])], aged)
    BY <2>2, OlderAccounts
  <2>4. AccountsFor([i \in DOMAIN events[c] |-> Older(events[c][i])], Admissions(c)')
    BY <2>1, <2>3
  <2> QED BY <2>2, <2>4, <1>1, <1>2
<1> QED BY <1>3, <1>5, <1>6 DEF RateInv, Limited, AccountsFor

\* The rates are held, and shedding has a number of ticks left.
ShedInv == RateInv /\ GateInv /\ shed \in Nat

LEMMA ShedInvInit == GateInit => ShedInv
<1> SUFFICES ASSUME GateInit PROVE ShedInv OBVIOUS
<1>1. GateInv
  <2>1. tasks = {} /\ inflight = 0 BY DEF GateInit
  <2>2. {r \in tasks : ~r.priority} = {} BY <2>1
  <2> QED BY <2>1, <2>2, FS_EmptySet DEF GateInv, InflightExact
<1>2. /\ events = [c \in AllChecks |-> << >>]
      /\ recent = [r \in Requests |-> [a \in 0 .. Window - 1 |-> 0]]
  BY DEF GateInit
<1>3. events \in [AllChecks -> Seq(Ages)] BY <1>2
<1>4. recent \in [Requests -> [0 .. Window - 1 -> Nat]] BY <1>2
<1>5. ASSUME NEW c \in AllChecks, Limited(c)
      PROVE  Len(events[c]) <= Limit[c[1]] /\ AccountsFor(events[c], Admissions(c))
  <2>1. events[c] = << >> /\ Limit[c[1]] \in Nat BY <1>2, LimitIs
  <2>2. Admissions(c) = {}
    <3>1. SUFFICES ASSUME NEW t \in Admissions(c) PROVE FALSE OBVIOUS
    <3>2. PICK r \in Requests, a \in 0 .. Window - 1 : \E k \in 1 .. recent[r][a] : TRUE
      BY AdmissionsAre, AdmissionsNow
    <3> QED BY <3>2, <1>2
  <2>3. AccountsFor(<< >>, {})
    <3> DEFINE f == [t \in {} |-> 0]
    <3>1. f \in [{} -> 1 .. Len(<< >>)] OBVIOUS
    <3> QED BY <3>1 DEF AccountsFor
  <2> QED BY <2>1, <2>2, <2>3
<1>6. RateInv BY <1>3, <1>4, <1>5 DEF RateInv
<1> QED BY <1>1, <1>6 DEF ShedInv, GateInit

LEMMA ShedInvNext == ShedInv /\ [GateNext]_gateVars => ShedInv'
<1> SUFFICES ASSUME ShedInv, [GateNext]_gateVars PROVE ShedInv' OBVIOUS
<1>0. RateInv /\ GateInv /\ shed \in Nat BY DEF ShedInv
<1>1. GateInv' BY <1>0, GateCounts DEF GateNext
<1>2. ASSUME UNCHANGED <<events, recent>> PROVE RateInv'
  <2>1. \A c : Admissions(c)' = Admissions(c) BY <1>2, AdmissionsNow
  <2> QED BY <1>0, <1>2, <2>1 DEF RateInv, AccountsFor, Limited
<1>3. ASSUME NEW r \in Requests, Refused(r) PROVE RateInv' /\ shed' \in Nat
  <2>1. recent' = recent /\ (events' = events \/ events' = EventsAfter(r)) BY <1>3 DEF Refused
  <2>2. shed' \in Nat BY <1>0, <1>3, LimitAssumption DEF Refused, Longer
  <2> QED BY <2>1, <2>2, <1>0, <1>2, RefusedRates
<1>4. ASSUME NEW r \in Requests, Admitted(r) PROVE RateInv' /\ shed' \in Nat
  <2>1. CASE r.priority BY <2>1, <1>0, <1>2, <1>4 DEF Admitted
  <2>2. CASE ~r.priority BY <2>2, <1>0, <1>4, AdmittedRates DEF Admitted
  <2> QED BY <2>1, <2>2
<1>5. ASSUME NEW r \in Requests, Done(r) PROVE RateInv' /\ shed' \in Nat
  BY <1>0, <1>2, <1>5 DEF Done
<1>6. CASE GateTick
  <2>1. shed' \in Nat BY <1>0, <1>6 DEF GateTick
  <2> QED BY <2>1, <1>0, <1>1, <1>6, TickRates DEF ShedInv
<1>7. CASE UNCHANGED gateVars BY <1>0, <1>1, <1>2, <1>7 DEF gateVars, ShedInv
<1> QED BY <1>1, <1>3, <1>4, <1>5, <1>6, <1>7 DEF GateNext, ShedInv

\* For any requests, limits, window, capacity and time of recovery: in no window
\* does more pass than a limit allows, the tasks in flight are counted exactly, and
\* no request prolongs the shedding that refuses it.
THEOREM GateAlwaysSafe == GateSpec => GateSafe
<1>1. ShedInv => RateHeld /\ InflightExact
  <2>1. SUFFICES ASSUME ShedInv, NEW c \in AllChecks, Limited(c)
                 PROVE  Cardinality(Admissions(c)) <= Limit[c[1]]
    BY DEF RateHeld, ShedInv, GateInv
  <2>2. /\ events[c] \in Seq(Ages) /\ AccountsFor(events[c], Admissions(c))
        /\ Len(events[c]) <= Limit[c[1]] /\ Limit[c[1]] \in Nat
    BY <2>1, LimitIs DEF ShedInv, RateInv
  <2>3. Cardinality(Admissions(c)) \in Nat /\ Cardinality(Admissions(c)) <= Len(events[c])
    BY <2>2, AccountsBound
  <2>4. Len(events[c]) \in Nat BY <2>2
  <2> QED BY <2>2, <2>3, <2>4
<1>2. ShedInv /\ [GateNext]_gateVars => [shed > 0 => shed' <= shed]_gateVars
  <2>1. SUFFICES ASSUME ShedInv, GateNext, shed > 0 PROVE shed' <= shed OBVIOUS
  <2>2. shed \in Nat BY <2>1 DEF ShedInv
  <2>3. ASSUME NEW r \in Requests, Refused(r) PROVE shed' = shed
    BY <2>1, <2>3 DEF Refused, Hysteresis
  <2> QED BY <2>1, <2>2, <2>3 DEF GateNext, Admitted, Done, GateTick
<1> QED BY ShedInvInit, ShedInvNext, <1>1, <1>2, PTL DEF GateSpec, GateSafe, ShedNotProlonged
=============================================================================
