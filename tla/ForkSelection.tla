--------------------------- MODULE ForkSelection ---------------------------
(***************************************************************************)
(* What the B2BUA promises about a forked INVITE: of all the forks that    *)
(* answer, at most one is the winner, and it is the first; once chosen it  *)
(* is never exchanged; every other fork that answers is released, and a    *)
(* released fork never becomes the winner.  A call that failed or was      *)
(* finalized is closed and chooses nobody.  B2BUACall implements this.     *)
(***************************************************************************)
CONSTANTS Calls, Forks, NoFork

VARIABLES
  winner,   \* the fork each call is connected to, or NoFork
  released, \* the forks that were acknowledged and hung up
  closed    \* the calls that choose no winner any more

vars == <<winner, released, closed>>

Init ==
  /\ winner = [c \in Calls |-> NoFork]
  /\ released = [c \in Calls |-> {}]
  /\ closed = {}

\* The first answer wins; the call may be over at the same moment, when the
\* SBC had already hung up.
Choose(c, t) ==
  /\ c \notin closed
  /\ winner[c] = NoFork
  /\ t \notin released[c]
  /\ winner' = [winner EXCEPT ![c] = t]
  /\ closed' \in {closed, closed \cup {c}}
  /\ UNCHANGED released

\* An answer after the choice, or after the call was closed.
Release(c, t) ==
  /\ c \in closed \/ winner[c] # NoFork
  /\ winner[c] # t
  /\ released' = [released EXCEPT ![c] = @ \cup {t}]
  /\ UNCHANGED <<winner, closed>>

Close(c) ==
  /\ closed' = closed \cup {c}
  /\ UNCHANGED <<winner, released>>

Next ==
  \E c \in Calls : \/ Close(c)
                   \/ \E t \in Forks : Choose(c, t) \/ Release(c, t)

Spec == Init /\ [][Next]_vars

=============================================================================
