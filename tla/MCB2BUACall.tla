---------------------------- MODULE MCB2BUACall ----------------------------
EXTENDS B2BUACall, TLC

CONSTANTS c1, c2, t1, t2

MCCalls == {c1, c2}
MCOneCall == {c1}
MCForks == {t1, t2}
MCOneFork == {t1}
MCAllProvisionals == {"plain", "reliable", "badrseq"}
MCPlain == {"plain"}
MCNone == {}

Symmetry == Permutations(Calls) \cup Permutations(Forks)

\* The task of every INVITE ends, however often provisional responses restart
\* its wait, and every hangup ends the call, though B may never answer the BYE.
CallEnds == InviteTaskEnds /\ HangupFinalizes
=============================================================================
