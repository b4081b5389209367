----------------------------- MODULE Registrar -----------------------------
(***************************************************************************)
(* The bindings of one address of record: the REGISTER handler, the        *)
(* LocationService and the registrations of each node, and the tables of   *)
(* SharedStateStore that the nodes of an HA group share.                   *)
(*                                                                         *)
(* Within a node the handler runs without an await, but nodes are          *)
(* processes: a statement of one may come between two statements of        *)
(* another, and every statement on a table is a step of its own.  Without  *)
(* a shared store there is one node and nothing comes between.             *)
(***************************************************************************)
EXTENDS Integers, Sequences, FiniteSets

CONSTANTS
  Registrars,    \* the nodes
  NoRegistrar,   \* no node
  Contacts,      \* contact URIs
  NoContact,     \* no registration
  Order,         \* Order[c]: the place of c by q and URI, lower is better
  Registers,     \* the REGISTER requests: each a sequence of changes
  MaxBindings,   \* max_bindings_per_aor
  Lifetime,      \* ticks a binding lives
  MaxRegisters   \* bound: REGISTER requests in all

ASSUME RegistrarAssumption ==
  /\ Registrars # {} /\ NoRegistrar \notin Registrars
  /\ NoContact \notin Contacts
  /\ Registers \subseteq Seq([change : {"add", "remove", "all", "bad"},
                              contact : Contacts])
  /\ Order \in [Contacts -> Nat]
  /\ \A c, d \in Contacts : Order[c] = Order[d] => c = d
  /\ MaxBindings \in Nat \ {0} /\ Lifetime \in Nat \ {0} /\ MaxRegisters \in Nat

VARIABLES
  shared,     \* the group has a shared store
  table,      \* registrations and registration_bindings of the shared store
  node,       \* what each node keeps and where its handler stands
  registered, \* REGISTER requests so far, and the latest registered_at
  outcome     \* history: what the last undisturbed REGISTER promised

registrarVars == <<shared, table, node, registered, outcome>>

\* Ticks until expires_at; an expired binding stays until it is dropped.
Absent == -1
Left == Absent..Lifetime
Live(left) == left > 0

NoRow == [contact |-> NoContact, left |-> Absent, stamp |-> 0]
Row == [contact : Contacts \cup {NoContact}, left : Left, stamp : Nat]
NoBindings == [c \in Contacts |-> Absent]

Steps == {"idle", "reading", "contacts", "choosing", "saving", "binding",
          "deleting", "clearing"}

(***************************************************************************)
(* Helpers.                                                                *)
(***************************************************************************)

\* SELECT ... WHERE expires_at > now.
Unexpired(bindings) ==
  [c \in Contacts |-> IF Live(bindings[c]) THEN bindings[c] ELSE Absent]
UnexpiredRow(r) == IF Live(r.left) THEN r ELSE NoRow

Held(bindings) == {c \in Contacts : bindings[c] # Absent}

\* LocationService.upsert refuses a new contact when the bucket is full;
\* expired bindings still count.
TooMany(n, c) ==
  node[n].bindings[c] = Absent /\ Cardinality(Held(node[n].bindings)) >= MaxBindings

\* The node of a group without a shared store.
Single == CHOOSE n \in Registrars : TRUE

Best(set) == CHOOSE c \in set : \A d \in set : Order[c] <= Order[d]

\* The registration of a REGISTER: the best contact it brought, or the best
\* binding that is left when it brought none.
LiveAt(n) == Held(Unexpired(node[n].bindings))
MutantChosen(n) == Best(LiveAt(n) \cup node[n].accepted)
Chosen(n) == IF node[n].accepted # {} THEN Best(node[n].accepted)
             ELSE Best(LiveAt(n))

\* What an INVITE on node n is routed to, after its own cleanup_registrations.
RouteOf(n) == UnexpiredRow(IF shared THEN table.row ELSE node[n].row).contact

(***************************************************************************)
(* The handler.                                                            *)
(***************************************************************************)

\* The handler of n returns or dies, and its locals are gone.
Ended(n, then) == [then EXCEPT ![n].step = "idle", ![n].todo = << >>,
                               ![n].accepted = {}]

\* authenticate_register lets the request through, or answers 401 or 403.
Authenticated(n, then) ==
  node' \in {[then EXCEPT ![n].step = "contacts"], Ended(n, then)}

\* cleanup_registrations: expired rows are deleted and the rest is read, in one
\* step, because every statement that loads rows leaves the expired ones out.
Begin(n, request) ==
  /\ node[n].step = "idle"
  /\ shared \/ n = Single
  /\ registered.begun < MaxRegisters
  /\ registered' = [registered EXCEPT !.begun = @ + 1]
  /\ IF shared
     THEN /\ table' = [row |-> UnexpiredRow(table.row),
                       bindings |-> Unexpired(table.bindings)]
          /\ node' = [node EXCEPT ![n].step = "reading",
                                  ![n].todo = request, ![n].accepted = {},
                                  ![n].row = UnexpiredRow(table.row)]
     ELSE /\ Authenticated(n, [node EXCEPT ![n].todo = request,
                                           ![n].accepted = {},
                                           ![n].row = UnexpiredRow(@)])
          /\ UNCHANGED table
  /\ outcome' = [kind |-> "unknown", contacts |-> {},
                 alone |-> IF \A m \in Registrars : node[m].step = "idle"
                           THEN n ELSE NoRegistrar]
  /\ UNCHANGED shared

\* The second read; LocationService.upsert raises on more rows than fit, and
\* the handler dies with the bindings read so far.
Read(n) ==
  /\ node[n].step = "reading"
  /\ LET rows == Unexpired(table.bindings) IN
     IF Cardinality(Held(rows)) <= MaxBindings
     THEN Authenticated(n, [node EXCEPT ![n].bindings = rows])
     ELSE \E kept \in SUBSET Held(rows) :
            /\ Cardinality(kept) = MaxBindings
            /\ node' = Ended(n, [node EXCEPT ![n].bindings =
                         [c \in Contacts |->
                            IF c \in kept THEN rows[c] ELSE Absent]])
  /\ UNCHANGED <<shared, table, registered, outcome>>

More(n) == node[n].step = "contacts" /\ node[n].todo # << >>
Now(n) == Head(node[n].todo)

\* Contact: * with Expires: 0.
Wildcard(n) ==
  /\ More(n) /\ Now(n).change = "all"
  /\ LET cleared == [node EXCEPT ![n].bindings = NoBindings, ![n].row = NoRow]
     IN node' = IF shared THEN [cleared EXCEPT ![n].step = "deleting"]
                ELSE Ended(n, cleared)
  /\ outcome' = [outcome EXCEPT
       !.kind = IF ~shared /\ outcome.alone = n THEN "removed" ELSE @,
       !.contacts = Contacts]
  /\ UNCHANGED <<shared, table, registered>>

BindTable(c, left) ==
  table' = IF shared THEN [table EXCEPT !.bindings[c] = left] ELSE table

\* A contact with expires=0.
RemoveContact(n) ==
  /\ More(n) /\ Now(n).change = "remove"
  /\ node' = [node EXCEPT ![n].todo = Tail(@),
                          ![n].bindings[Now(n).contact] = Absent]
  /\ BindTable(Now(n).contact, Absent)
  /\ outcome' = [outcome EXCEPT !.contacts = @ \cup {Now(n).contact}]
  /\ UNCHANGED <<shared, registered>>

AddContact(n) ==
  /\ More(n) /\ Now(n).change = "add" /\ ~TooMany(n, Now(n).contact)
  /\ node' = [node EXCEPT ![n].todo = Tail(@),
                          ![n].bindings[Now(n).contact] = Lifetime,
                          ![n].accepted = @ \cup {Now(n).contact}]
  /\ BindTable(Now(n).contact, Lifetime)
  /\ UNCHANGED <<shared, registered, outcome>>

\* 400 Bad Contact: what the contacts before it changed stays.
BadContact(n) ==
  /\ More(n)
  /\ \/ Now(n).change = "bad"
     \/ Now(n).change = "add" /\ TooMany(n, Now(n).contact)
  /\ node' = Ended(n, node)
  /\ UNCHANGED <<shared, table, registered, outcome>>

\* The outcome that a 200 promises when no other REGISTER interfered.
Promise(n) ==
  outcome' = IF outcome.alone # n THEN outcome
             ELSE IF node[n].accepted # {}
             THEN [outcome EXCEPT !.kind = "bound", !.contacts = node[n].accepted]
             ELSE [outcome EXCEPT !.kind = "removed"]

Chose(n, row) ==
  IF shared
  THEN /\ node' = [node EXCEPT ![n].row = row,
                     ![n].step = IF row = NoRow THEN "deleting" ELSE "saving"]
       /\ UNCHANGED outcome
  ELSE /\ node' = Ended(n, [node EXCEPT ![n].row = row,
                                        ![n].bindings = Unexpired(@)])
       /\ Promise(n)

\* The Registration is built, with the time as its registered_at.
Choose(n) ==
  /\ node[n].step = "contacts" /\ node[n].todo = << >>
  /\ LET set == node[n].accepted \cup LiveAt(n) IN
     Chose(n, IF set = {} THEN NoRow
              ELSE [contact |-> Chosen(n),
                    left |-> node[n].bindings[Chosen(n)],
                    stamp |-> registered.latest + 1])
  /\ registered' = [registered EXCEPT !.latest = @ + 1]
  /\ UNCHANGED <<shared, table>>

\* save_registration: an older registration does not replace a newer one.
MutantNewer(row) == row = row
Newer(row) == row.stamp >= table.row.stamp

SaveRow(n) ==
  /\ node[n].step = "saving"
  /\ table' = [table EXCEPT !.row = IF Newer(node[n].row) THEN node[n].row ELSE @]
  /\ node' = [node EXCEPT ![n].step = "binding"]
  /\ UNCHANGED <<shared, registered, outcome>>

SaveBinding(n) ==
  /\ node[n].step = "binding"
  /\ BindTable(node[n].row.contact, node[n].row.left)
  /\ node' = Ended(n, [node EXCEPT ![n].bindings = Unexpired(@)])
  /\ Promise(n)
  /\ UNCHANGED <<shared, registered>>

\* delete_registration.
DeleteRow(n) ==
  /\ node[n].step = "deleting"
  /\ table' = [table EXCEPT !.row = NoRow]
  /\ node' = [node EXCEPT ![n].step = "clearing"]
  /\ UNCHANGED <<shared, registered, outcome>>

ClearBindings(n) ==
  /\ node[n].step = "clearing"
  /\ table' = [table EXCEPT !.bindings = NoBindings]
  /\ node' = Ended(n, node)
  /\ Promise(n)
  /\ UNCHANGED <<shared, registered>>

(***************************************************************************)
(* Time, and a node that starts again.                                     *)
(***************************************************************************)
MutantSooner(left) == left - 1
Sooner(left) == IF left > 0 THEN left - 1 ELSE left
Aged(bindings) == [c \in Contacts |-> Sooner(bindings[c])]
AgedRow(r) == [r EXCEPT !.left = Sooner(@)]

Expiry ==
  /\ table' = [row |-> AgedRow(table.row), bindings |-> Aged(table.bindings)]
  /\ node' = [n \in Registrars |->
                [node[n] EXCEPT !.row = AgedRow(@), !.bindings = Aged(@)]]
  /\ UNCHANGED <<shared, registered, outcome>>

Fresh == [step |-> "idle", todo |-> << >>, accepted |-> {}, row |-> NoRow,
          bindings |-> NoBindings]

NodeRestarts(n) ==
  /\ node' = [node EXCEPT ![n] = Fresh]
  /\ outcome' = [outcome EXCEPT !.alone = IF @ = n THEN NoRegistrar ELSE @,
                                !.kind = IF shared THEN @ ELSE "unknown"]
  /\ UNCHANGED <<shared, table, registered>>

RegistrarInit ==
  /\ shared \in BOOLEAN
  /\ table = [row |-> NoRow, bindings |-> NoBindings]
  /\ node = [n \in Registrars |-> Fresh]
  /\ registered = [begun |-> 0, latest |-> 0]
  /\ outcome = [kind |-> "unknown", contacts |-> {}, alone |-> NoRegistrar]

RegistrarNext ==
  \/ \E n \in Registrars :
       \/ \E request \in Registers : Begin(n, request)
       \/ Read(n) \/ Wildcard(n)
       \/ RemoveContact(n) \/ AddContact(n) \/ BadContact(n)
       \/ Choose(n) \/ SaveRow(n) \/ SaveBinding(n)
       \/ DeleteRow(n) \/ ClearBindings(n)
       \/ NodeRestarts(n)
  \/ Expiry

RegistrarSpec == RegistrarInit /\ [][RegistrarNext]_registrarVars

(***************************************************************************)
(* Properties                                                              *)
(***************************************************************************)

RegistrarTypeOK ==
  /\ shared \in BOOLEAN
  /\ table \in [row : Row, bindings : [Contacts -> Left]]
  /\ node \in [Registrars ->
        [step : Steps, todo : Seq([change : {"add", "remove", "all", "bad"},
                                   contact : Contacts]),
         accepted : SUBSET Contacts, row : Row,
         bindings : [Contacts -> Left]]]
  /\ registered \in [begun : 0..MaxRegisters, latest : Nat]
  /\ outcome \in [kind : {"unknown", "bound", "removed"},
                  contacts : SUBSET Contacts,
                  alone : Registrars \cup {NoRegistrar}]

\* After a REGISTER that no other one interfered with was answered 200, every
\* node routes to the best contact it brought, or to none once that has expired,
\* and to no contact it removed, however old the bindings are that other nodes
\* keep, and until the next REGISTER.
Routers == IF shared THEN Registrars ELSE {Single}
RouteCurrent ==
  \A n \in Routers :
    /\ outcome.kind = "bound" =>
         RouteOf(n) \in {Best(outcome.contacts), NoContact}
    /\ outcome.kind = "removed" => RouteOf(n) \notin outcome.contacts

\* The nodes agree that the later of two concurrent registrations is routed:
\* a handler that was overtaken does not put its older one back.
LaterRegistrationStays ==
  [][table.row # NoRow /\ table'.row # NoRow
       => table'.row.stamp >= table.row.stamp]_registrarVars

\* docs/PROTOCOL_CORE_LAYER6.md:12-13: existing controls bound the registrar
\* bindings.  The shared table holds no more bindings than a node can read.
BindingsBounded == Cardinality(Held(Unexpired(table.bindings))) <= MaxBindings

\* mini_call_server.py:3489-3492: historical contacts may remain valid, but
\* must not replace the freshly registered endpoint.  The route leaves a live
\* contact only for one that was just registered, or when it was removed.
FreshNotReplaced ==
  [][\A n \in Registrars :
       LET old == UnexpiredRow(node[n].row).contact
           new == node'[n].row.contact
       IN ~shared /\ old # NoContact /\ new \notin {old, NoContact}
            => new \in node[n].accepted \/ node[n].bindings[old] = Absent]_registrarVars

=============================================================================
