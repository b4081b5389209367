---------------------------- MODULE CallForwarding ----------------------------
(***************************************************************************)
(* Where an INVITE goes: invite_target_candidates, the unconditional       *)
(* forwarding rules of CallForwarding with their loop and hop protection,  *)
(* the normalisation of the number, and, when the callee is busy or does   *)
(* not answer, the 302 of maybe_send_conditional_forwarding, which the     *)
(* caller follows.                                                         *)
(*                                                                         *)
(* A rule is what select finds for a name and a condition: the first       *)
(* enabled rule that matches.  Whether a name has a route when it is       *)
(* looked up is left open: CallAdmission and Registrar model that.         *)
(***************************************************************************)
EXTENDS Integers, Sequences

CONSTANTS
  Names,         \* what can be dialled and forwarded to
  NoName,
  Normal,        \* Normal[name]: normalize_number
  Conditional,   \* the names with a rule for a callee that is busy or silent
  MaxHops,       \* forwarding max_hops
  MaxRedirects   \* bound: 302s the caller follows

\* A target: a name, or a SIP URI with that name as its user.
Target == [user : Names, uri : BOOLEAN]
NoTarget == [user |-> NoName, uri |-> FALSE]

ASSUME ForwardAssumption ==
  /\ NoName \notin Names /\ Conditional \subseteq Names
  /\ Normal \in [Names -> Names]
  /\ MaxHops \in Nat \ {0} /\ MaxRedirects \in Nat

VARIABLES
  always,    \* the unconditional rules
  onFailure, \* the conditional rules
  search,    \* resolve_invite_target: its candidate, the rest of them, the name it is at, the history
  chosen,    \* its result: the candidate, the name that was looked up and the target it rings
  dialled    \* history: the names the caller has dialled, one after the other

forwardVars == <<always, onFailure, search, chosen, dialled>>

Visited == Append(search.history, search.at)
In(x, s) == \E i \in DOMAIN s : s[i] = x

NoSearch == [from |-> NoName, rest |-> << >>, at |-> NoName, history |-> << >>]
\* The search for a candidate without a history, and the ones after it.
SearchFor(c, rest) == [from |-> c, rest |-> rest, at |-> c, history |-> << >>]
NotChosen == [kind |-> "none", from |-> NoName, name |-> NoName, target |-> NoTarget]

(***************************************************************************)
(* CallForwarding.select                                                   *)
(***************************************************************************)
TooLong == Len(Visited) > MaxHops
MutantLooping(t) == t.user = search.at
Looping(t) == In(t.user, Visited)
Rejects == TooLong \/ (always[search.at] # NoTarget /\ Looping(always[search.at]))

(***************************************************************************)
(* resolve_invite_target                                                   *)
(***************************************************************************)
\* invite_target_candidates: the user of the Request-URI, then that of To.
Candidates(ruri, to) == IF ruri = to THEN <<ruri>> ELSE <<ruri, to>>

StartSearch(ruri, to) ==
  /\ search' = SearchFor(ruri, Tail(Candidates(ruri, to)))
  /\ dialled' = Append(dialled, ruri) /\ chosen' = NotChosen

Dial(ruri, to) ==
  /\ dialled = << >> /\ StartSearch(ruri, to)
  /\ UNCHANGED <<always, onFailure>>

Searching == search.at # NoName
Chose(kind, target) ==
  /\ chosen' = [kind |-> kind, from |-> search.from, name |-> search.at, target |-> target]
  /\ search' = NoSearch

\* No route: 404.
Reject ==
  /\ Searching /\ Rejects /\ Chose("rejected", NoTarget)
  /\ UNCHANGED <<always, onFailure, dialled>>

Forward ==
  /\ Searching /\ ~Rejects /\ always[search.at] # NoTarget
  /\ LET t == always[search.at]
     IN IF t.uri THEN Chose("uri", t)
        ELSE search' = [search EXCEPT !.at = t.user, !.history = Visited] /\ UNCHANGED chosen
  /\ UNCHANGED <<always, onFailure, dialled>>

\* RoutingEngine.resolve of a name without a rule: the call is offered to the
\* normalised user; otherwise the next candidate, without a history.
MutantUnforwarded == TRUE
Unforwarded == always[search.at] = NoTarget

\* normalize_number, of a number that no rule forwards.
Normalised == [user |-> Normal[search.at], uri |-> FALSE]

Resolve ==
  /\ Searching /\ ~Rejects /\ Unforwarded
  /\ \/ Chose("user", Normalised)
     \/ /\ search.rest # << >> /\ search' = SearchFor(Head(search.rest), Tail(search.rest))
        /\ UNCHANGED chosen
     \/ search.rest = << >> /\ Chose("failed", NoTarget)
  /\ UNCHANGED <<always, onFailure, dialled>>

(***************************************************************************)
(* The callee is busy or does not answer                                   *)
(***************************************************************************)
\* The rule of the callee, unless it names the callee; its history is empty.
Diverted == onFailure[chosen.target.user]
Diverts == chosen.kind = "user" /\ Diverted # NoTarget /\ Diverted.user # chosen.target.user

\* 302 with the rule's URI, or the contact its name registered: the caller goes
\* there by itself.
DivertedElsewhere ==
  /\ ~Searching /\ Diverts
  /\ chosen' = [chosen EXCEPT !.kind = "elsewhere", !.target = Diverted]
  /\ UNCHANGED <<always, onFailure, search, dialled>>

\* 302 with a Contact of this server: the caller follows it back, a new INVITE.
DivertedBack ==
  /\ ~Searching /\ Diverts /\ ~Diverted.uri /\ Len(dialled) <= MaxRedirects
  /\ StartSearch(Diverted.user, Diverted.user)
  /\ UNCHANGED <<always, onFailure>>

ForwardInit ==
  /\ always \in [Names -> Target \cup {NoTarget}]
  /\ onFailure \in {f \in [Names -> Target \cup {NoTarget}] :
                      \A n \in Names \ Conditional : f[n] = NoTarget}
  /\ search = NoSearch /\ chosen = NotChosen /\ dialled = << >>

\* No rules and no call.
ForwardRest ==
  /\ always = [n \in Names |-> NoTarget] /\ onFailure = always
  /\ search = NoSearch /\ chosen = NotChosen /\ dialled = << >>

ForwardNext ==
  \/ \E ruri, to \in Names : Dial(ruri, to)
  \/ Reject \/ Forward \/ Resolve \/ DivertedElsewhere \/ DivertedBack

ForwardSpec == ForwardInit /\ [][ForwardNext]_forwardVars

(***************************************************************************)
(* Properties                                                              *)
(***************************************************************************)

ForwardTypeOK ==
  /\ search.at \in Names \cup {NoName} /\ chosen.name \in Names \cup {NoName}
  /\ Len(search.history) <= MaxHops /\ Len(dialled) <= MaxRedirects + 1

\* The reference: the names the rules lead to from a name, as long as they lead
\* to names, and up to one more than max_hops.
Path[k \in 0 .. MaxHops] ==
  [n \in Names |-> IF k = 0 \/ always[n] = NoTarget \/ always[n].uri THEN <<n>>
                   ELSE <<n>> \o Path[k - 1][always[n].user]]

Repeats(s) == \E i, j \in DOMAIN s : i # j /\ s[i] = s[j]

\* An INVITE is rejected by the rules exactly when they lead it in a circle, back
\* to a name they came from, or through more names than allowed.
RejectedRightly ==
  chosen.kind \in {"rejected", "uri", "user"} =>
    LET path == Path[MaxHops][chosen.from]
        end == always[path[Len(path)]]
        circle == Repeats(path) \/ (end.uri /\ In(end.user, path))
    IN chosen.kind = "rejected" <=> circle \/ Len(path) > MaxHops

\* A name with an unconditional rule does not ring, however many rules led to it.
ForwardedNotOffered ==
  chosen.kind = "user" => always[chosen.name] = NoTarget

(***************************************************************************)
(* Properties of the documents that the code does not meet                 *)
(***************************************************************************)

\* sip/business_services.py: "Selects forwarding targets with deterministic loop
\* and hop protection": the rules for a busy callee do not send the caller round
\* in a circle.
NoRedirectLoop == ~Repeats(dialled)

\* docs/BUSINESS_CALLING_SERVICES.md:20: unconditional forwarding "rejects
\* loops": and nothing else.  The user of a URI elsewhere counts as a name here.
OnlyLoopsRejected ==
  chosen.kind = "rejected" =>
    LET path == Path[MaxHops][chosen.from] IN Repeats(path) \/ Len(path) > MaxHops

\* The user that rings has no unconditional rule, whatever number was dialled.
NormalisedNotOffered ==
  chosen.kind = "user" => always[chosen.target.user] = NoTarget
=============================================================================
