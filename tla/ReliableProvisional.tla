-------------------------- MODULE ReliableProvisional --------------------------
(***************************************************************************)
(* Reliable provisional responses of one INVITE: the 100rel branch of      *)
(* _wait_for_outbound_final, the PRACK branch of handle_message and the    *)
(* PRACK branch of handle_response.                                        *)
(*                                                                         *)
(* The call keeps one RSeq and one pending PRACK.  B (one or several forks *)
(* behind it) repeats a reliable response until it is acknowledged, and    *)
(* sends its next one after that.  A acknowledges every RSeq it has not    *)
(* seen.  0 stands for no RSeq and for no PRACK.                           *)
(***************************************************************************)
EXTENDS Integers

CONSTANTS
  NForks,     \* the forks that may ring
  MaxRSeq,    \* bound: reliable responses of a fork
  Overtaking  \* a response may reach the SBC before an earlier one

ASSUME RelAssumption ==
  NForks \in Nat \ {0} /\ MaxRSeq \in Nat \ {0} /\ Overtaking \in BOOLEAN

VARIABLES
  fork,     \* each fork: its unacknowledged RSeq and the ones acknowledged
  leg,      \* B2BUACall: reliable_rseq, the fork in the To header, pending_prack
  seen,     \* RSeqs that A has been shown
  pracks,   \* A's PRACKs on the way to the SBC
  toB,      \* PRACKs on the way to a fork
  fromB,    \* responses of the forks on the way to the SBC
  refused   \* PRACKs answered with 481 or 491

relVars == <<fork, leg, seen, pracks, toB, fromB, refused>>

Forks == 1 .. NForks
\* Every fork numbers its responses from a value of its own.
Base(f) == (f - 1) * MaxRSeq
Of(f) == Base(f) + 1 .. Base(f) + MaxRSeq
RSeqs == 1 .. NForks * MaxRSeq

Reliable(f, rseq) == [kind |-> "183", fork |-> f, rseq |-> rseq]
Ringing(f) == [kind |-> "180", fork |-> f, rseq |-> 0]
PrackOk(f, rseq) == [kind |-> "prack", fork |-> f, rseq |-> rseq]

(***************************************************************************)
(* B.                                                                      *)
(***************************************************************************)
\* Unless responses overtake each other, the SBC has the last one by now.
MaySend(f) == Overtaking \/ \A m \in fromB : m.fork # f

\* A fork whose last reliable response is acknowledged sends the next one.
SendReliable(f) ==
  /\ MaySend(f) /\ fork[f].waiting = 0 /\ fork[f].acked < MaxRSeq
  /\ fork' = [fork EXCEPT ![f].waiting = Base(f) + fork[f].acked + 1]
  /\ fromB' = fromB \cup {Reliable(f, fork'[f].waiting)}
  /\ UNCHANGED <<leg, seen, pracks, toB, refused>>

\* Its retransmission.
Repeat(f) ==
  /\ MaySend(f) /\ fork[f].waiting # 0
  /\ fromB' = fromB \cup {Reliable(f, fork[f].waiting)}
  /\ UNCHANGED <<fork, leg, seen, pracks, toB, refused>>

Ring(f) ==
  /\ MaySend(f) /\ fromB' = fromB \cup {Ringing(f)}
  /\ UNCHANGED <<fork, leg, seen, pracks, toB, refused>>

\* 200 for the PRACK, whether it acknowledges anything or not.
ReceivePrackAtB(m) ==
  /\ m \in toB /\ MaySend(m.fork) /\ toB' = toB \ {m}
  /\ fork' = [fork EXCEPT ![m.fork] =
       IF @.waiting = m.rseq THEN [waiting |-> 0, acked |-> @.acked + 1] ELSE @]
  /\ fromB' = fromB \cup {PrackOk(m.fork, m.rseq)}
  /\ UNCHANGED <<leg, seen, pracks, refused>>

(***************************************************************************)
(* The SBC.                                                                *)
(***************************************************************************)
\* A 180 carries the RSeq of the 183 before it.
Shown(m) == IF m.kind = "183" THEN m.rseq ELSE leg.rseq

RelayProvisional(m) ==
  /\ m \in fromB /\ m.kind \in {"183", "180"} /\ fromB' = fromB \ {m}
  /\ leg' = IF m.kind = "183" THEN [leg EXCEPT !.rseq = m.rseq, !.fork = m.fork] ELSE leg
  /\ seen' = seen \cup ({Shown(m)} \ {0})
  /\ pracks' = pracks \cup ({Shown(m)} \ (seen \cup {0}))
  /\ UNCHANGED <<fork, toB, refused>>

\* 481 unless the RAck names the last RSeq, 491 while a PRACK is pending.
MutantMatching(r) == leg.rseq # 0
Matching(r) == leg.rseq # 0 /\ r = leg.rseq

ReceivePrack(r) ==
  /\ r \in pracks /\ pracks' = pracks \ {r}
  /\ IF Matching(r) /\ leg.pending = 0
     THEN /\ leg' = [leg EXCEPT !.pending = r]
          /\ toB' = toB \cup {[fork |-> leg.fork, rseq |-> leg.rseq]}
          /\ UNCHANGED refused
     ELSE refused' = refused \cup {r} /\ UNCHANGED <<leg, toB>>
  /\ UNCHANGED <<fork, seen, fromB>>

\* The response is A's; the RSeq is forgotten, whichever it is by now.
MutantForgotten(l) == [l EXCEPT !.rseq = 0]
Forgotten(l) == [l EXCEPT !.rseq = 0, !.pending = 0]

ReceivePrackOk(m) ==
  /\ m \in fromB /\ m.kind = "prack" /\ fromB' = fromB \ {m}
  /\ leg' = IF leg.pending # 0 THEN Forgotten(leg) ELSE leg
  /\ UNCHANGED <<fork, seen, pracks, toB, refused>>

RelInit ==
  /\ fork = [f \in Forks |-> [waiting |-> 0, acked |-> 0]]
  /\ leg = [rseq |-> 0, fork |-> 1, pending |-> 0]
  /\ seen = {} /\ pracks = {} /\ toB = {} /\ fromB = {} /\ refused = {}

\* Without overtaking the SBC takes B's responses in the order they were sent:
\* an answer to a PRACK before the next reliable response.
Deliver ==
  \/ \E m \in fromB : RelayProvisional(m) \/ ReceivePrackOk(m)
  \/ \E m \in toB : ReceivePrackAtB(m)
  \/ \E r \in pracks : ReceivePrack(r)

RelNext == Deliver \/ \E f \in Forks : SendReliable(f) \/ Repeat(f) \/ Ring(f)

RelSpec == RelInit /\ [][RelNext]_relVars

(***************************************************************************)
(* Properties                                                              *)
(***************************************************************************)

RelTypeOK ==
  /\ leg.rseq \in RSeqs \cup {0}
  /\ leg.pending \in seen \cup {0} /\ leg.fork \in Forks
  /\ leg.pending # 0 => leg.rseq # 0
  /\ refused \subseteq seen /\ pracks \subseteq seen

\* A PRACK goes to the fork whose response it acknowledges, and acknowledges
\* what A did, though the call keeps the fork and the RSeq of its last response
\* only.
PrackTrue ==
  \A m \in toB : /\ m.rseq \in Of(m.fork)
                 /\ m.rseq \in seen \ (pracks \cup refused)

\* While one fork rings alone every PRACK of A reaches it, so that it may answer
\* the call: the RSeq and the pending PRACK of one response are never in the way
\* of the next, though B repeats the first and both cross the PRACK.
AloneAcknowledged == (\E f \in Forks : seen \subseteq Of(f)) => refused = {}

\* docs/PROTOCOL_CORE_LAYER4.md:19-20: "a matching RAck is translated into
\* outbound PRACK".
MatchingRackRelayed == refused = {}
=============================================================================
