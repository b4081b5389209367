------------------------------- MODULE DialogRoute ------------------------------
(***************************************************************************)
(* Where the requests of the B2BUA go: the INVITE to B, its CANCEL and the *)
(* ACK of its failure, and the requests inside the two dialogs, while      *)
(* responses and refreshes move the Contact and the route set that         *)
(* b2bua_dialog_route, outbound_destination and in_dialog_route read.      *)
(*                                                                         *)
(* A URI is its host, whether a proxy's has the parameter lr, and whether  *)
(* it names TCP.  Proxies and phones follow RFC 3261; one without lr is a  *)
(* strict router.                                                          *)
(***************************************************************************)
EXTENDS Integers, Sequences, SequencesExt

CONSTANTS
  Contacts,    \* URIs that the phone of either side may give as its own
  Proxies,     \* URIs that a proxy may record
  Records,     \* Record-Route values that B's responses may carry
  Paths,       \* the same of A's INVITE, and the Path of a registration
  Targets,     \* URIs the INVITE may be routed to
  Hops,        \* hosts that a trunk or a registration may name for them
  NoHost,
  Hidden,      \* hosts with a private address
  Caller,      \* where A's INVITE came from
  RingsAgain,  \* B may send a reliable provisional response to a re-INVITE as well
  MaxRequests  \* bound: requests that are sent

ASSUME RouteAssumption ==
  /\ Records \cup Paths \subseteq Seq(Proxies)
  /\ \A p \in Proxies : p.lr \in BOOLEAN /\ p.tcp \in BOOLEAN
  /\ MaxRequests \in Nat /\ RingsAgain \in BOOLEAN

\* The network: a phone is no proxy, no proxy records itself twice in a row, and
\* NoHost is no host.
ASSUME HostAssumption ==
  /\ \A u \in Contacts \cup Targets : /\ u.host # NoHost
                                    /\ \A p \in Proxies : p.host # u.host
  /\ \A r \in Records \cup Paths : \A i \in 1 .. Len(r) - 1 : r[i].host # r[i + 1].host
  /\ NoHost \notin Hops \cup Hidden

VARIABLES
  leg,    \* the outbound leg: target, destination, contact, route set, INVITE
  aLeg,   \* the inbound leg: contact and route set
  b,      \* what B said last in a response that counts: contact, record
  out,    \* the request that this step sent
  step,   \* "idle", "trying", "failed", "up"
  sentRequests

hopVars == <<leg, aLeg, b, out, step, sentRequests>>

NoUri == [host |-> NoHost, lr |-> FALSE, tcp |-> FALSE]
Or(uri, other) == IF uri = NoUri THEN other ELSE uri

Request(to, method, uri, routes, dest, tcp) ==
  [to |-> to, method |-> method, uri |-> uri, routes |-> routes, dest |-> dest, tcp |-> tcp]
Nobody == Request("nobody", "none", NoUri, << >>, NoHost, FALSE)

(***************************************************************************)
(* The functions of the code                                               *)
(***************************************************************************)
MutantInDialog(target, routes) ==
  IF routes = << >> THEN [uri |-> target, routes |-> << >>, hop |-> target]
  ELSE [uri |-> target, routes |-> routes, hop |-> Head(routes)]
InDialog(target, routes) ==
  IF routes = << >> THEN [uri |-> target, routes |-> << >>, hop |-> target]
  ELSE IF Head(routes).lr THEN [uri |-> target, routes |-> routes, hop |-> Head(routes)]
  ELSE [uri |-> Head(routes), routes |-> Append(Tail(routes), target), hop |-> Head(routes)]

OutboundDestination(l) ==
  IF l.destination # NoHost THEN l.destination
  ELSE IF l.contact # NoUri /\ l.contact.host \notin Hidden THEN l.contact.host
  ELSE l.target.host

OutboundTcp(l) == IF l.contact # NoUri /\ l.contact.tcp THEN TRUE ELSE l.target.tcp

InboundDestination(l) ==
  IF l.contact # NoUri /\ l.contact.host \notin Hidden THEN l.contact.host ELSE Caller

\* b2bua_dialog_route, to B and to A.
ToB(method, l) ==
  LET route == InDialog(Or(l.contact, l.target), l.routes)
  IN IF route.routes # << >>
     THEN Request("B", method, route.uri, route.routes, route.hop.host, route.hop.tcp \/ OutboundTcp(l))
     ELSE IF l.contact # NoUri /\ l.contact.host \notin Hidden
     THEN Request("B", method, route.uri, << >>, l.contact.host, l.contact.tcp \/ OutboundTcp(l))
     ELSE Request("B", method, route.uri, << >>, OutboundDestination(l), OutboundTcp(l))

ToA(method, l) ==
  LET route == InDialog(l.contact, l.routes)
  IN IF route.routes # << >>
     THEN Request("A", method, route.uri, route.routes, route.hop.host, route.hop.tcp \/ l.contact.tcp)
     ELSE Request("A", method, route.uri, << >>, InboundDestination(l), l.contact.tcp)

\* With the branch, the Request-URI and the transport of the INVITE.
OfInvite(method, l) == Request("B", method, l.invite.uri, << >>, OutboundDestination(l), OutboundTcp(l))

(***************************************************************************)
(* The call                                                                *)
(***************************************************************************)
Sends(r) == /\ sentRequests < MaxRequests /\ sentRequests' = sentRequests + 1
            /\ out' = r

\* send_outbound_invite: the Path of a registration is the Route.
Invite(target, destination, path, contact, record) ==
  /\ step = "idle" /\ step' = "trying"
  /\ LET l == [leg EXCEPT !.target = target, !.destination = destination]
         r == Request("B", "INVITE", target, path, OutboundDestination(l), target.tcp)
     IN /\ Sends(r) /\ leg' = [l EXCEPT !.invite = r]
  /\ aLeg' = [contact |-> contact, routes |-> record]
  /\ UNCHANGED b

\* Only a reliable provisional response is remembered.  One to a re-INVITE replaces
\* the route set as well, though B's answer has recorded it for the whole dialog.
Provisional(contact, record) ==
  /\ step = "trying" \/ (RingsAgain /\ step = "up")
  /\ leg' = [leg EXCEPT !.contact = Or(contact, leg.target), !.routes = Reverse(record)]
  /\ b' = [contact |-> Or(contact, leg.target),
           record |-> IF step = "up" THEN b.record ELSE record]
  /\ out' = Nobody /\ UNCHANGED <<aLeg, step, sentRequests>>

Failure(contact) ==
  /\ step = "trying" /\ step' = "failed"
  /\ leg' = [leg EXCEPT !.contact = Or(contact, leg.target)]
  /\ Sends(OfInvite("ACK", leg'))
  /\ UNCHANGED <<aLeg, b>>

Cancel ==
  /\ step = "trying" /\ Sends(OfInvite("CANCEL", leg))
  /\ UNCHANGED <<leg, aLeg, b, step>>

Answer(contact, record) ==
  /\ step = "trying" /\ step' = "up"
  /\ leg' = [leg EXCEPT !.contact = Or(contact, leg.target), !.routes = Reverse(record)]
  /\ b' = [contact |-> Or(contact, leg.target), record |-> record]
  /\ Sends(ToB("ACK", leg'))
  /\ UNCHANGED aLeg

\* PRACK before the answer; BYE, re-INVITE, UPDATE and the ACK of a
\* retransmitted answer after it.
RequestToB(method) ==
  /\ \/ step = "up" /\ method \in {"BYE", "INVITE", "ACK"}
     \/ step = "trying" /\ b.contact # NoUri /\ method = "PRACK"
  /\ Sends(ToB(method, leg))
  /\ UNCHANGED <<leg, aLeg, b, step>>

RequestToA(method) ==
  /\ step = "up" /\ method \in {"BYE", "NOTIFY"} /\ aLeg.contact # NoUri
  /\ Sends(ToA(method, aLeg))
  /\ UNCHANGED <<leg, aLeg, b, step>>

\* A re-INVITE or UPDATE that B accepts moves both targets, never a route set.
MutantRetargeted(l, contact) == [l EXCEPT !.contact = Or(contact, @), !.routes = << >>]
Retargeted(l, contact) == [l EXCEPT !.contact = Or(contact, @)]
TargetRefresh(contactOfA, contactOfB) ==
  /\ step = "up"
  /\ leg' = Retargeted(leg, contactOfB) /\ aLeg' = Retargeted(aLeg, contactOfA)
  /\ b' = [b EXCEPT !.contact = Or(contactOfB, @)]
  /\ out' = Nobody /\ UNCHANGED <<step, sentRequests>>

RouteInit ==
  /\ leg = [target |-> NoUri, destination |-> NoHost, contact |-> NoUri, routes |-> << >>, invite |-> Nobody]
  /\ aLeg = [contact |-> NoUri, routes |-> << >>]
  /\ b = [contact |-> NoUri, record |-> << >>]
  /\ out = Nobody /\ step = "idle" /\ sentRequests = 0

RouteNext ==
  \/ \E t \in Targets, d \in Hops \cup {NoHost}, p, r \in Paths, c \in Contacts :
       Invite(t, d, p, c, r)
  \/ \E c \in Contacts \cup {NoUri} : Failure(c) \/ \E r \in Records : Provisional(c, r) \/ Answer(c, r)
  \/ Cancel
  \/ \E m \in {"BYE", "INVITE", "ACK", "PRACK"} : RequestToB(m)
  \/ \E m \in {"BYE", "NOTIFY"} : RequestToA(m)
  \/ \E c, d \in Contacts \cup {NoUri} : TargetRefresh(c, d)

RouteSpec == RouteInit /\ [][RouteNext]_hopVars

(***************************************************************************)
(* The network: which hosts a request passes                               *)
(***************************************************************************)
With(r, uri, routes, dest) == Request(r.to, r.method, uri, routes, dest, r.tcp)

\* What a host does with a request that reaches it.  A loose router takes back
\* the target a strict one put last, and takes its own Route away.
Own(r) == r.routes # << >> /\ r.uri.host = r.dest /\ r.uri # Last(r.routes)
TargetBack(r) == IF Own(r) THEN With(r, Last(r.routes), Front(r.routes), r.dest) ELSE r
RouteAway(r) ==
  IF r.routes # << >> /\ Head(r.routes).host = r.dest
  THEN With(r, r.uri, Tail(r.routes), r.dest) ELSE r

LooselyForwarded(r) ==
  IF r.routes = << >> THEN With(r, r.uri, << >>, r.uri.host)
  ELSE IF Head(r.routes).lr THEN With(r, r.uri, r.routes, Head(r.routes).host)
  ELSE With(r, Head(r.routes), Append(Tail(r.routes), r.uri), Head(r.routes).host)
StrictlyForwarded(r) ==
  IF r.routes = << >> THEN With(r, r.uri, << >>, NoHost)
  ELSE With(r, Head(r.routes), Tail(r.routes), Head(r.routes).host)

Forwarded(r, lr) ==
  IF lr THEN LooselyForwarded(RouteAway(TargetBack(r))) ELSE StrictlyForwarded(r)

\* The hosts from the first hop through the given proxies.
HostsPassed(r, proxies) ==
  LET at[n \in 0 .. Len(proxies)] == IF n = 0 THEN r ELSE Forwarded(at[n - 1], proxies[n].lr)
  IN [n \in 1 .. Len(proxies) + 1 |-> at[n - 1].dest]

(***************************************************************************)
(* Properties                                                              *)
(***************************************************************************)
HostsOf(uris) == [i \in DOMAIN uris |-> uris[i].host]
InTheDialog == \/ out.to = "A"
               \/ out.to = "B" /\ out.method # "CANCEL" /\ out # leg.invite /\ step # "failed"

\* A request in either dialog passes every proxy that recorded a route, from the
\* SBC's side on and through loose and strict ones in any mixture, and ends at
\* the Contact its peer gave last, wherever the INVITE had been sent.
RouteSetFollowed ==
  LET proxies == IF out.to = "A" THEN aLeg.routes ELSE Reverse(b.record)
      target == IF out.to = "A" THEN aLeg.contact ELSE b.contact
  IN InTheDialog /\ proxies # << >>
       => HostsPassed(out, proxies) = HostsOf(proxies) \o <<target.host>>

\* Nor is the path out of date: the route set is the one that B's answer
\* recorded, whatever provisional responses and refreshes said.
RouteSetKept == step \in {"trying", "up"} => leg.routes = Reverse(b.record) /\ (b.contact # NoUri => leg.contact = b.contact)

\* Without a route set nothing goes to a private address that a Contact names,
\* unless the INVITE went there, or came from there, as well.
HiddenAvoided ==
  out.routes = << >> /\ out.dest \in Hidden
    => out.dest = IF out.to = "A" THEN Caller ELSE leg.invite.dest

RoutesSafe == RouteSetFollowed /\ RouteSetKept /\ HiddenAvoided

\* CANCEL and the ACK of a failure go where the INVITE went, whose branch they
\* carry.  A Contact moves them: the one of a reliable provisional response, or
\* of a redirection.
SameHop == out.method = "CANCEL" \/ step = "failed" => out.dest = leg.invite.dest

\* docs/PROTOCOL_CORE_LAYER5.md:15, "Path becomes the registered route set": the
\* INVITE goes to the first proxy of it.
PathFollowed == out.method = "INVITE" /\ step = "trying" /\ out.routes # << >> => out.dest = Head(out.routes).host
=============================================================================
