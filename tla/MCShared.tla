------------------------------- MODULE MCShared -------------------------------
(***************************************************************************)
(* The two tables that HA nodes share: the dialogs with their owners, and  *)
(* the registrations.  They are separate, so a behaviour moves one.  The   *)
(* nodes of a group are interchangeable.                                   *)
(***************************************************************************)
EXTENDS DialogOwnership, Registrar, TLC

CONSTANTS n1, n2, r1, r2, c1, c2, c3

VARIABLE focus

MCNodes == {n1, n2}
Symmetry == Permutations(MCNodes)

MCRegistrars == {r1, r2}
MCContacts == {c1, c2, c3}
MCOrder == (c1 :> 1) @@ (c2 :> 2) @@ (c3 :> 3)

Add(c) == [change |-> "add", contact |-> c]
Remove(c) == [change |-> "remove", contact |-> c]
All == [change |-> "all", contact |-> c1]
Bad == [change |-> "bad", contact |-> c1]

\* Single contacts, two at once, a move, and one with a bad second contact.
MCRegisters ==
  {<<All>>} \cup {<<Add(c)>> : c \in MCContacts} \cup
  {<<Remove(c1)>>, <<Add(c2), Add(c3)>>,
   <<Remove(c1), Add(c2)>>, <<Add(c1), Bad>>}

MCInit == Init /\ RegistrarInit /\ focus \in {"dialogs", "registrations"}

MCNext ==
  \/ focus = "dialogs" /\ Next /\ UNCHANGED <<registrarVars, focus>>
  \/ focus = "registrations" /\ RegistrarNext /\ UNCHANGED <<vars, focus>>

MCSpec == MCInit /\ [][MCNext]_<<vars, registrarVars, focus>>
=============================================================================
