------------------------ MODULE MCServerTransaction ------------------------
EXTENDS ServerTransaction, TLC

CONSTANTS i1, i2, b1

MCKeys == {i1, i2, b1}
MCInvites == {i1, i2}

\* Two branches of one INVITE.
MCPair == (i1 :> {i2}) @@ (i2 :> {i1})
Symmetry == Permutations(MCInvites)

\* One INVITE alone.
MCOneInvite == {i1}
MCAlone == (i1 :> {})

\* An INVITE over UDP, one over a stream and a BYE over UDP, of three calls.
MCApart == [k \in MCKeys |-> {}]
MCReliable == {i2}
MCNoKeys == {}
=============================================================================
