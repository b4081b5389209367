---------------------------- MODULE Shared_proofs ----------------------------
(***************************************************************************)
(* Proofs about the two tables that HA nodes share, for any nodes,         *)
(* contacts, requests and bounds: the owners of dialogs and the            *)
(* registrations.                                                          *)
(***************************************************************************)
EXTENDS MCShared, WellFoundedInduction, TLAPS

(***************************************************************************)
(* DialogOwnership.                                                        *)
(*                                                                         *)
(* That epochs are fencing tokens (EpochsDistinct) follows from two facts  *)
(* about the row: no node remembers an epoch beyond it, and only its owner *)
(* remembers the epoch it has.  What a fenced node may still do is bounded *)
(* by what it had passed the check for; while it is the owner nothing it   *)
(* does is late, which is the third part of the inductive invariant.       *)
(***************************************************************************)
\* The row and the epochs the nodes remember.
OwnerHasEpoch == row.owner # NoNode => row.epoch > 0
EpochsBehindRow == \A n \in Nodes : epochs[n] <= row.epoch
CurrentEpochOwns ==
  \A n \in Nodes : epochs[n] # 0 /\ epochs[n] = row.epoch => row.owner = n

EpochInv == OwnerHasEpoch /\ EpochsBehindRow /\ CurrentEpochOwns /\ EpochsDistinct

\* What nodes do to the call.
OwnerInTime == \A n \in Nodes : Holds(n) => late[n] = 0
LateBounded == \A n \in Nodes : late[n] + queued[n] + Busy(n) <= MaxQueued + 1

OwnershipInv == TypeOK /\ EpochInv /\ OwnerInTime /\ LateBounded

-----------------------------------------------------------------------------
\* The code's check says what it should: the row names the node.
LEMMA OwnsIsHolds ==
  ASSUME TypeOK, OwnerHasEpoch, NEW n \in Nodes
  PROVE  Owns(n) <=> Holds(n)
BY NodeAssumption DEF TypeOK, OwnerHasEpoch, Owns, Holds

\* A claim leaves the epochs of the other nodes behind the row and apart from
\* the one it takes.
LEMMA ClaimKeepsEpochs ==
  ASSUME TypeOK, EpochInv, NEW n \in Nodes, Claim(n)
  PROVE  EpochInv'
<1>1. /\ row'.owner = n /\ row'.epoch = EpochOf(n)
      /\ epochs' = [epochs EXCEPT ![n] = EpochOf(n)]
  BY DEF Claim
<1>2. CASE Owns(n)
  <2>1. row'.epoch = row.epoch /\ row'.owner = row.owner /\ epochs' = epochs
    BY <1>1, <1>2 DEF EpochOf, Owns, TypeOK
  <2> QED BY <2>1 DEF EpochInv, OwnerHasEpoch, EpochsBehindRow,
                      CurrentEpochOwns, EpochsDistinct
<1>3. CASE ~Owns(n)
  <2>1. row'.epoch = row.epoch + 1 BY <1>1, <1>3 DEF EpochOf
  <2>2. \A m \in Nodes : epochs'[m] = IF m = n THEN row.epoch + 1 ELSE epochs[m]
    BY <1>1, <2>1 DEF TypeOK
  <2>3. row.epoch \in Nat /\ \A m \in Nodes : epochs[m] \in Nat
    BY BoundAssumption DEF TypeOK
  <2> QED
    BY <1>1, <2>1, <2>2, <2>3
    DEF EpochInv, OwnerHasEpoch, EpochsBehindRow, CurrentEpochOwns, EpochsDistinct
<1> QED BY <1>2, <1>3

\* Nor does any step that keeps the owner and the epoch, and at most makes a
\* node forget its own.
LEMMA KeepsEpochs ==
  ASSUME TypeOK, EpochInv,
         row'.owner = row.owner, row'.epoch = row.epoch,
         \A m \in Nodes : epochs'[m] \in {0, epochs[m]}
  PROVE  EpochInv'
<1>1. row.epoch \in Nat /\ \A m \in Nodes : epochs[m] \in Nat
  BY BoundAssumption DEF TypeOK
<1> QED
  BY <1>1 DEF EpochInv, OwnerHasEpoch, EpochsBehindRow, CurrentEpochOwns, EpochsDistinct

-----------------------------------------------------------------------------
\* The initial state satisfies the invariant.
THEOREM OwnershipInitially == Init => OwnershipInv
<1> SUFFICES ASSUME Init PROVE OwnershipInv
  OBVIOUS
<1>1. TypeOK BY NodeAssumption, BoundAssumption DEF Init, TypeOK, Leases
<1>2. EpochInv
  BY NodeAssumption
  DEF Init, EpochInv, OwnerHasEpoch, EpochsBehindRow, CurrentEpochOwns, EpochsDistinct
<1>3. OwnerInTime BY DEF Init, OwnerInTime, Holds
<1>4. LateBounded BY BoundAssumption DEF Init, LateBounded, Busy
<1> QED BY <1>1, <1>2, <1>3, <1>4 DEF OwnershipInv

\* A claim in time: who owned the call before and is not n owns it no more.
LEMMA ClaimKeepsOwnerInTime ==
  ASSUME TypeOK, EpochInv, OwnerInTime, NEW n \in Nodes, Claim(n)
  PROVE  OwnerInTime'
<1>1. row'.owner = n /\ late' = [late EXCEPT ![n] = 0] BY DEF Claim
<1> QED BY <1>1 DEF OwnerInTime, Holds, TypeOK

\* What a node does is counted only when it is not the owner.
LEMMA ActKeepsOwnerInTime ==
  ASSUME TypeOK, OwnerInTime, NEW n \in Nodes, Acts(n),
         row'.owner = row.owner, row'.epoch = row.epoch, epochs' = epochs
  PROVE  OwnerInTime'
<1>1. \A m \in Nodes : Holds(m)' <=> Holds(m) BY DEF Holds
<1>2. CASE Holds(n)
  BY <1>1, <1>2 DEF Acts, OwnerInTime
<1>3. CASE ~Holds(n)
  <2>1. \A m \in Nodes \ {n} : late'[m] = late[m] BY <1>3 DEF Acts, TypeOK
  <2> QED BY <1>1, <1>3, <2>1 DEF OwnerInTime
<1> QED BY <1>2, <1>3

\* The lease changes nothing the invariant speaks of.
LEMMA KeepsOwnerInTime ==
  ASSUME OwnerInTime, row'.owner = row.owner, row'.epoch = row.epoch,
         epochs' = epochs, late' = late
  PROVE  OwnerInTime'
BY DEF OwnerInTime, Holds

\* What renewing a lease leaves alone.
LEMMA RenewKeepsOwner ==
  ASSUME TypeOK, Renew
  PROVE  /\ row'.owner = row.owner /\ row'.epoch = row.epoch
         /\ row' \in [owner : Nodes \cup {NoNode}, epoch : 0..MaxEpoch, lease : Leases]
BY DEF TypeOK, Renew, Leases

\* The row and the epoch after a claim have their types.
LEMMA ClaimTypes ==
  ASSUME TypeOK, NEW n \in Nodes, Claim(n)
  PROVE  /\ row' \in [owner : Nodes \cup {NoNode}, epoch : 0..MaxEpoch, lease : Leases]
         /\ epochs' \in [Nodes -> 0..MaxEpoch]
         /\ late' = [late EXCEPT ![n] = 0]
         /\ late' \in [Nodes -> 0..(MaxQueued + 1)]
<1>1. row.epoch \in 0..MaxEpoch BY DEF TypeOK
<1>2. EpochOf(n) \in 0..MaxEpoch
  BY <1>1, BoundAssumption DEF EpochOf, Claim
<1> QED BY <1>2, BoundAssumption DEF Claim, TypeOK, Leases

\* What a node does late stays within the bound while it spends what it had.
LEMMA ActTypes ==
  ASSUME TypeOK, LateBounded, NEW n \in Nodes, Acts(n),
         queued[n] + Busy(n) > 0
  PROVE  /\ late' \in [Nodes -> 0..(MaxQueued + 1)]
         /\ \A m \in Nodes \ {n} : late'[m] = late[m]
         /\ late'[n] <= late[n] + 1
<1>1. late[n] \in Nat /\ queued[n] \in Nat /\ Busy(n) \in {0, 1}
  BY BoundAssumption DEF TypeOK, Busy
<1>2. late[n] + 1 <= MaxQueued + 1
  BY <1>1, BoundAssumption DEF LateBounded
<1>3. CASE Holds(n) BY <1>1, <1>3 DEF Acts, TypeOK
<1>4. CASE ~Holds(n)
  BY <1>1, <1>2, <1>4, BoundAssumption DEF Acts, TypeOK
<1> QED BY <1>3, <1>4

-----------------------------------------------------------------------------
\* A change of the call in a node's memory.
LEMMA ChangeTypes ==
  ASSUME TypeOK, NEW n \in Nodes, changes < MaxUpdates,
         changes' = changes + 1,
         memory' = [memory EXCEPT ![n] = @ \cup {changes + 1}]
  PROVE  changes' \in 0..MaxUpdates /\ memory' \in [Nodes -> SUBSET Changes]
<1>1. changes' \in 0..MaxUpdates /\ changes + 1 \in Changes
  BY BoundAssumption DEF TypeOK, Changes
<1>2. memory[n] \cup {changes + 1} \in SUBSET Changes
  BY <1>1 DEF TypeOK
<1> QED BY <1>1, <1>2 DEF TypeOK

\* Every action preserves the invariant.
THEOREM OwnershipStep == OwnershipInv /\ [Next]_vars => OwnershipInv'
<1> SUFFICES ASSUME OwnershipInv, [Next]_vars PROVE OwnershipInv'
  OBVIOUS
<1> USE DEF OwnershipInv
<1>0. /\ \A n \in Nodes : late[n] \in Nat /\ queued[n] \in Nat /\ Busy(n) \in {0, 1}
      /\ MaxQueued \in Nat \ {0}
  BY BoundAssumption DEF TypeOK, Busy
<1>1. ASSUME NEW n \in Nodes, Save(n) PROVE OwnershipInv'
  <2>1. Claim(n) BY <1>1 DEF Save
  <2>2. TypeOK' BY <1>1, <2>1, ClaimTypes, ChangeTypes DEF Save, TypeOK, Fenced
  <2>3. EpochInv' BY <2>1, ClaimKeepsEpochs
  <2>4. OwnerInTime' BY <2>1, ClaimKeepsOwnerInTime
  <2>5. /\ queued' = queued /\ late' = [late EXCEPT ![n] = 0]
        /\ pc' = [pc EXCEPT ![n] = "saving"]
    BY <1>1 DEF Save, Claim
  <2>6. LateBounded'
    BY <1>0, <2>5 DEF LateBounded, Busy, TypeOK
  <2> QED BY <2>2, <2>3, <2>4, <2>6
<1>2. ASSUME NEW n \in Nodes, SaveFenced(n) PROVE OwnershipInv'
  <2>1. TypeOK' BY <1>2, ChangeTypes DEF SaveFenced, TypeOK
  <2>2. EpochInv' BY <1>2, KeepsEpochs DEF SaveFenced
  <2>3. OwnerInTime' BY <1>2, KeepsOwnerInTime DEF SaveFenced
  <2>4. LateBounded' BY <1>2 DEF SaveFenced, LateBounded, Busy
  <2> QED BY <2>1, <2>2, <2>3, <2>4
<1>3. ASSUME NEW n \in Nodes, Write(n) PROVE OwnershipInv'
  <2>1. Acts(n) /\ queued[n] + Busy(n) > 0 BY <1>0, <1>3 DEF Write, Busy
  <2>2. TypeOK' BY <1>3, <2>1, ActTypes DEF Write, TypeOK
  <2>3. EpochInv' BY <1>3, KeepsEpochs DEF Write
  <2>4. OwnerInTime' BY <1>3, <2>1, ActKeepsOwnerInTime DEF Write
  <2>5. /\ queued' = queued /\ pc' = [pc EXCEPT ![n] = "idle"] /\ pc[n] = "saving"
    BY <1>3 DEF Write
  <2>6. LateBounded'
    BY <1>0, <2>1, <2>2, <2>5, ActTypes DEF LateBounded, Busy, TypeOK
  <2> QED BY <2>2, <2>3, <2>4, <2>6
<1>4. ASSUME NEW n \in Nodes, Load(n) PROVE OwnershipInv'
  <2>1. TypeOK' BY <1>4 DEF Load, TypeOK
  <2>2. EpochInv' BY <1>4, KeepsEpochs DEF Load
  <2>3. OwnerInTime' BY <1>4, KeepsOwnerInTime DEF Load
  <2>4. LateBounded' BY <1>4 DEF Load, LateBounded, Busy, TypeOK
  <2> QED BY <2>1, <2>2, <2>3, <2>4
<1>5. ASSUME NEW n \in Nodes, TakeOver(n) PROVE OwnershipInv'
  <2>1. Claim(n) BY <1>5 DEF TakeOver
  <2>2. TypeOK' BY <1>5, <2>1, ClaimTypes DEF TakeOver, TypeOK, Fenced
  <2>3. EpochInv' BY <2>1, ClaimKeepsEpochs
  <2>4. OwnerInTime' BY <2>1, ClaimKeepsOwnerInTime
  <2>5. /\ queued' = queued /\ late' = [late EXCEPT ![n] = 0]
        /\ pc' = [pc EXCEPT ![n] = "idle"]
    BY <1>5 DEF TakeOver, Claim
  <2>6. LateBounded'
    BY <1>0, <2>5 DEF LateBounded, Busy, TypeOK
  <2> QED BY <2>2, <2>3, <2>4, <2>6
<1>6. ASSUME NEW n \in Nodes, TakeOverDialog(n) PROVE OwnershipInv'
  <2>1. Claim(n) BY <1>6 DEF TakeOverDialog
  <2>2. TypeOK' BY <1>6, <2>1, ClaimTypes DEF TakeOverDialog, TypeOK, Fenced
  <2>3. EpochInv' BY <2>1, ClaimKeepsEpochs
  <2>4. OwnerInTime' BY <2>1, ClaimKeepsOwnerInTime
  <2>5. queued' = queued /\ late' = [late EXCEPT ![n] = 0] /\ pc' = pc
    BY <1>6 DEF TakeOverDialog, Claim
  <2>6. LateBounded'
    BY <1>0, <2>5 DEF LateBounded, Busy, TypeOK
  <2> QED BY <2>2, <2>3, <2>4, <2>6
<1>7. ASSUME NEW n \in Nodes, Check(n) PROVE OwnershipInv'
  <2>1. Renew BY <1>7 DEF Check
  <2>2. late[n] = 0
    BY <1>7, OwnsIsHolds DEF Check, OwnerInTime, EpochInv
  <2>3. /\ pc' = pc /\ late' = late /\ pc[n] = "idle" /\ queued[n] < MaxQueued
        /\ queued' = [queued EXCEPT ![n] = @ + 1]
    BY <1>7 DEF Check
  <2>4. queued' \in [Nodes -> 0..MaxQueued]
    BY <1>0, <2>3 DEF TypeOK
  <2>5. TypeOK' BY <1>7, <2>1, <2>4, RenewKeepsOwner DEF Check, TypeOK
  <2>6. EpochInv' BY <1>7, <2>1, RenewKeepsOwner, KeepsEpochs DEF Check
  <2>7. OwnerInTime' BY <1>7, <2>1, RenewKeepsOwner, KeepsOwnerInTime DEF Check
  <2>8. LateBounded'
    BY <1>0, <2>2, <2>3, <2>4 DEF LateBounded, Busy, TypeOK
  <2> QED BY <2>5, <2>6, <2>7, <2>8
<1>8. ASSUME NEW n \in Nodes, Send(n) PROVE OwnershipInv'
  <2>1. Acts(n) /\ queued[n] + Busy(n) > 0 BY <1>0, <1>8 DEF Send
  <2>2. queued' = [queued EXCEPT ![n] = @ - 1] /\ queued[n] > 0 /\ pc' = pc
    BY <1>8 DEF Send
  <2>3. queued' \in [Nodes -> 0..MaxQueued] BY <1>0, <2>2 DEF TypeOK
  <2>4. TypeOK' BY <1>8, <2>1, <2>3, ActTypes DEF Send, TypeOK
  <2>5. EpochInv' BY <1>8, KeepsEpochs DEF Send
  <2>6. OwnerInTime' BY <1>8, <2>1, ActKeepsOwnerInTime DEF Send
  <2>7. LateBounded'
    BY <1>0, <2>1, <2>2, <2>4, ActTypes DEF LateBounded, Busy, TypeOK
  <2> QED BY <2>4, <2>5, <2>6, <2>7
<1>9. ASSUME NEW n \in Nodes, Finalize(n) PROVE OwnershipInv'
  <2>1. Renew BY <1>9 DEF Finalize
  <2>2. late[n] = 0
    BY <1>9, OwnsIsHolds DEF Finalize, OwnerInTime, EpochInv
  <2>3. late' = late /\ queued' = queued /\ pc' = [pc EXCEPT ![n] = "finalizing"]
    BY <1>9 DEF Finalize
  <2>4. TypeOK' BY <1>9, <2>1, RenewKeepsOwner DEF Finalize, TypeOK
  <2>5. EpochInv' BY <1>9, <2>1, RenewKeepsOwner, KeepsEpochs DEF Finalize
  <2>6. OwnerInTime' BY <1>9, <2>1, RenewKeepsOwner, KeepsOwnerInTime DEF Finalize
  <2>7. LateBounded'
    BY <1>0, <2>2, <2>3 DEF LateBounded, Busy, TypeOK
  <2> QED BY <2>4, <2>5, <2>6, <2>7
<1>10. ASSUME NEW n \in Nodes, Release(n) PROVE OwnershipInv'
  <2>1. Acts(n) /\ queued[n] + Busy(n) > 0 BY <1>0, <1>10 DEF Release, Busy
  <2>2. /\ row'.owner = row.owner /\ row'.epoch = row.epoch
        /\ row' \in [owner : Nodes \cup {NoNode}, epoch : 0..MaxEpoch, lease : Leases]
    BY <1>10, RenewKeepsOwner DEF Release, TypeOK
  <2>3. /\ queued' = queued /\ epochs' = epochs /\ pc[n] = "finalizing"
        /\ \/ pc' = [pc EXCEPT ![n] = "deleting"] /\ Owns(n)
           \/ pc' = [pc EXCEPT ![n] = "idle"]
    BY <1>10 DEF Release
  <2>4. TypeOK' BY <1>10, <2>1, <2>2, <2>3, ActTypes DEF Release, TypeOK
  <2>5. EpochInv' BY <2>2, <2>3, KeepsEpochs
  <2>6. OwnerInTime' BY <2>1, <2>2, <2>3, ActKeepsOwnerInTime
  <2>7. LateBounded'
    <3>1. CASE pc' = [pc EXCEPT ![n] = "idle"]
      BY <1>0, <2>1, <2>3, <2>4, <3>1, ActTypes DEF LateBounded, Busy, TypeOK
    <3>2. CASE pc' = [pc EXCEPT ![n] = "deleting"] /\ Owns(n)
      <4>1. Holds(n) BY <3>2, OwnsIsHolds DEF EpochInv
      <4>2. late' = late BY <2>1, <4>1 DEF Acts
      <4> QED BY <1>0, <2>3, <3>2, <4>2 DEF LateBounded, Busy, TypeOK
    <3> QED BY <2>3, <3>1, <3>2
  <2> QED BY <2>4, <2>5, <2>6, <2>7
<1>11. ASSUME NEW n \in Nodes, Delete(n) PROVE OwnershipInv'
  <2>1. Acts(n) /\ queued[n] + Busy(n) > 0 BY <1>0, <1>11 DEF Delete, Busy
  <2>2. TypeOK' BY <1>11, <2>1, ActTypes DEF Delete, TypeOK
  <2>3. EpochInv' BY <1>11, KeepsEpochs DEF Delete
  <2>4. OwnerInTime' BY <1>11, <2>1, ActKeepsOwnerInTime DEF Delete
  <2>5. /\ queued' = queued /\ pc' = [pc EXCEPT ![n] = "idle"] /\ pc[n] = "deleting"
    BY <1>11 DEF Delete
  <2>6. LateBounded'
    BY <1>0, <2>1, <2>2, <2>5, ActTypes DEF LateBounded, Busy, TypeOK
  <2> QED BY <2>2, <2>3, <2>4, <2>6
<1>12. ASSUME NEW n \in Nodes, Restart(n) PROVE OwnershipInv'
  <2>1. /\ row' = row /\ epochs' = [epochs EXCEPT ![n] = 0]
        /\ late' = [late EXCEPT ![n] = 0] /\ queued' = [queued EXCEPT ![n] = 0]
        /\ pc' = [pc EXCEPT ![n] = "idle"]
    BY <1>12 DEF Restart
  <2>2. TypeOK' BY <1>12, BoundAssumption DEF Restart, TypeOK
  <2>3. EpochInv' BY <2>1, KeepsEpochs DEF TypeOK
  <2>4. OwnerInTime'
    <3>1. \A m \in Nodes \ {n} : epochs'[m] = epochs[m] /\ late'[m] = late[m]
      BY <2>1 DEF TypeOK
    <3>2. late'[n] = 0 BY <2>1 DEF TypeOK
    <3> QED BY <2>1, <3>1, <3>2 DEF OwnerInTime, Holds
  <2>5. LateBounded' BY <1>0, <2>1 DEF LateBounded, Busy, TypeOK
  <2> QED BY <2>2, <2>3, <2>4, <2>5
<1>13. ASSUME LeaseRuns PROVE OwnershipInv'
  <2>1. row'.owner = row.owner /\ row'.epoch = row.epoch
    BY <1>13 DEF LeaseRuns, TypeOK
  <2>2. TypeOK' BY <1>13 DEF LeaseRuns, TypeOK, Leases
  <2>3. EpochInv' BY <1>13, <2>1, KeepsEpochs DEF LeaseRuns
  <2>4. OwnerInTime' BY <1>13, <2>1, KeepsOwnerInTime DEF LeaseRuns
  <2>5. LateBounded' BY <1>13 DEF LeaseRuns, LateBounded, Busy
  <2> QED BY <2>2, <2>3, <2>4, <2>5
<1>14. ASSUME UNCHANGED vars PROVE OwnershipInv'
  <2>1. TypeOK' BY <1>14 DEF vars, TypeOK
  <2>2. EpochInv' BY <1>14, KeepsEpochs DEF vars
  <2>3. OwnerInTime' BY <1>14, KeepsOwnerInTime DEF vars
  <2>4. LateBounded' BY <1>14 DEF vars, LateBounded, Busy
  <2> QED BY <2>1, <2>2, <2>3, <2>4
<1> QED
  BY <1>1, <1>2, <1>3, <1>4, <1>5, <1>6, <1>7, <1>8, <1>9, <1>10, <1>11, <1>12,
     <1>13, <1>14
  DEF Next

-----------------------------------------------------------------------------
\* The state of an HA group has the types TypeOK gives it, in every reachable
\* state and for any number of nodes.
THEOREM OwnershipTypeCorrect == Spec => []TypeOK
<1>1. OwnershipInv => TypeOK BY DEF OwnershipInv
<1> QED BY OwnershipInitially, OwnershipStep, <1>1, PTL DEF Spec

\* Epochs are fencing tokens: no two nodes ever remember the same one.
THEOREM EpochsAreTokens == Spec => []EpochsDistinct
<1>1. OwnershipInv => EpochsDistinct BY DEF OwnershipInv, EpochInv
<1> QED BY OwnershipInitially, OwnershipStep, <1>1, PTL DEF Spec

\* A node that lost the call does no more than it had passed the check for.
THEOREM FencedNodesStop == Spec => []FencedStops
<1>1. OwnershipInv => FencedStops BY DEF OwnershipInv, LateBounded, FencedStops
<1> QED BY OwnershipInitially, OwnershipStep, <1>1, PTL DEF Spec

\* Ownership, once lost, comes back only under a higher epoch.
THEOREM OwnershipNeedsNewEpoch == Spec => RegainedByNewEpoch
<1> DEFINE Regained ==
      \A n \in Nodes : ~Holds(n) /\ Holds(n)' => row'.epoch > row.epoch
<1>1. OwnershipInv /\ [Next]_vars => [Regained]_vars
  <2> SUFFICES ASSUME OwnershipInv, Next, NEW n \in Nodes, ~Holds(n), Holds(n)'
               PROVE  row'.epoch > row.epoch
    OBVIOUS
  <2>0. TypeOK /\ EpochInv BY DEF OwnershipInv
  <2>1. ASSUME NEW m \in Nodes, Claim(m) PROVE row'.epoch > row.epoch
    <3>1. m = n BY <2>1 DEF Claim, Holds
    <3>2. ~Owns(n) BY DEF Owns, Holds
    <3>3. row'.epoch = row.epoch + 1 BY <2>1, <3>1, <3>2 DEF Claim, EpochOf
    <3>4. row.epoch \in Nat BY <2>0, BoundAssumption DEF TypeOK
    <3> QED BY <3>3, <3>4
  <2>2. ASSUME row'.owner = row.owner, row'.epoch = row.epoch, epochs' = epochs
        PROVE  FALSE
    BY <2>2 DEF Holds
  <2>3. ASSUME NEW m \in Nodes, Restart(m) PROVE FALSE
    <3>1. row' = row /\ epochs' = [epochs EXCEPT ![m] = 0] BY <2>3 DEF Restart
    <3>2. CASE m = n
      <4>1. row.owner = n /\ row.epoch = 0 BY <2>0, <3>1, <3>2 DEF Holds, TypeOK
      <4> QED BY <2>0, <4>1, NodeAssumption DEF EpochInv, OwnerHasEpoch
    <3>3. CASE m # n BY <2>0, <3>1, <3>3 DEF Holds, TypeOK
    <3> QED BY <3>2, <3>3
  <2>4. ASSUME NEW m \in Nodes, Save(m) \/ TakeOver(m) \/ TakeOverDialog(m)
        PROVE  row'.epoch > row.epoch
    BY <2>1, <2>4 DEF Save, TakeOver, TakeOverDialog
  <2>5. ASSUME NEW m \in Nodes,
               SaveFenced(m) \/ Write(m) \/ Load(m) \/ Send(m) \/ Delete(m)
        PROVE  FALSE
    BY <2>2, <2>5 DEF SaveFenced, Write, Load, Send, Delete
  <2>6. ASSUME NEW m \in Nodes, Check(m) \/ Finalize(m) \/ Release(m) PROVE FALSE
    <3>1. epochs' = epochs /\ (row' = row \/ Renew)
      BY <2>6 DEF Check, Finalize, Release
    <3> QED BY <2>0, <2>2, <3>1, RenewKeepsOwner
  <2>7. ASSUME LeaseRuns PROVE FALSE
    BY <2>0, <2>2, <2>7 DEF LeaseRuns, TypeOK
  <2> QED BY <2>3, <2>4, <2>5, <2>6, <2>7 DEF Next
<1> QED BY OwnershipInitially, OwnershipStep, <1>1, PTL DEF Spec, RegainedByNewEpoch

(***************************************************************************)
(* Registrar.                                                              *)
(*                                                                         *)
(* The route after an undisturbed REGISTER (RouteCurrent) is followed      *)
(* through its handler: while it runs alone every other node is idle       *)
(* (Alone), the contacts it removed are in none of its bindings unless it  *)
(* also brought them, the registration it builds names the right contact   *)
(* (Decided), its stamp is the latest there is (Stamped), so that the      *)
(* table takes it, and the table keeps it until the next REGISTER (Kept).  *)
(***************************************************************************)
ContactChanges == [change : {"add", "remove", "all", "bad"}, contact : Contacts]
NodeState == [step : Steps, todo : Seq(ContactChanges), accepted : SUBSET Contacts,
              row : Row, bindings : [Contacts -> Left]]
Table == [row : Row, bindings : [Contacts -> Left]]

\* The registration that a node reads for an INVITE.
Routed == IF shared THEN table.row ELSE node[Single].row

OneNode ==
  ~shared => \A n \in Registrars : /\ node[n].step \in {"idle", "contacts"}
                                   /\ node[n].step # "idle" => n = Single

Stamped ==
  /\ table.row.stamp <= registered.latest
  /\ \A n \in Registrars : node[n].row.stamp <= registered.latest

Alone ==
  \A n \in Registrars : outcome.alone = n =>
    \A m \in Registrars : m # n => node[m].step = "idle"

Decided(n) ==
  IF node[n].accepted # {} THEN node[n].row.contact = Best(node[n].accepted)
  ELSE node[n].row.contact \notin outcome.contacts

\* Where the handler of n stands, when it runs alone.
Working(n) ==
  /\ node[n].step = "reading" => outcome.contacts = {}
  /\ node[n].step = "contacts" =>
       \A c \in outcome.contacts :
         node[n].bindings[c] = Absent \/ c \in node[n].accepted
  /\ node[n].step = "saving" =>
       Decided(n) /\ node[n].row.stamp = registered.latest
  /\ node[n].step = "binding" =>
       Decided(n) /\ table.row.contact = node[n].row.contact
  /\ node[n].step = "clearing" => table.row.contact = NoContact

Promised(contact) ==
  IF outcome.kind = "bound" THEN contact \in {Best(outcome.contacts), NoContact}
  ELSE contact \notin outcome.contacts

Kept ==
  outcome.kind # "unknown" =>
    /\ \A n \in Registrars : node[n].step = "idle"
    /\ Promised(Routed.contact)

RouteInv ==
  /\ OneNode /\ Stamped /\ Alone /\ Kept
  /\ \A n \in Registrars : outcome.alone = n => Working(n)

RegistrarInv == RegistrarTypeOK /\ RouteInv

-----------------------------------------------------------------------------
(* The helpers.                                                            *)

LEMMA TypeMeans ==
  RegistrarTypeOK <=>
    /\ shared \in BOOLEAN /\ table \in Table
    /\ node \in [Registrars -> NodeState]
    /\ registered \in [begun : 0..MaxRegisters, latest : Nat]
    /\ outcome \in [kind : {"unknown", "bound", "removed"},
                    contacts : SUBSET Contacts,
                    alone : Registrars \cup {NoRegistrar}]
BY DEF RegistrarTypeOK, Table, NodeState, ContactChanges

LEMMA SingleIsNode == Single \in Registrars
BY RegistrarAssumption DEF Single

LEMMA LeftTypes ==
  /\ Lifetime \in Left /\ Absent \in Left /\ Live(Lifetime) /\ ~Live(Absent)
  /\ \A left \in Left : Sooner(left) \in Left
  /\ Sooner(Absent) = Absent
BY RegistrarAssumption DEF Left, Absent, Live, Sooner

LEMMA RowTypes ==
  /\ NoRow \in Row /\ NoRow.contact = NoContact /\ NoRow.stamp = 0
  /\ \A r \in Row :
       /\ UnexpiredRow(r) \in Row /\ UnexpiredRow(r).stamp <= r.stamp
       /\ UnexpiredRow(r).contact \in {r.contact, NoContact}
       /\ AgedRow(r) \in Row /\ AgedRow(r).contact = r.contact
       /\ AgedRow(r).stamp = r.stamp
<1>1. NoRow \in Row /\ NoRow.contact = NoContact /\ NoRow.stamp = 0
  BY LeftTypes DEF NoRow, Row
<1>2. ASSUME NEW r \in Row
      PROVE  /\ UnexpiredRow(r) \in Row /\ UnexpiredRow(r).stamp <= r.stamp
             /\ UnexpiredRow(r).contact \in {r.contact, NoContact}
  <2>1. r.stamp \in Nat BY DEF Row
  <2> QED BY <1>1, <2>1 DEF UnexpiredRow
<1>3. ASSUME NEW r \in Row
      PROVE  /\ AgedRow(r) \in Row /\ AgedRow(r).contact = r.contact
             /\ AgedRow(r).stamp = r.stamp
  <2>1. Sooner(r.left) \in Left BY LeftTypes DEF Row
  <2> QED BY <2>1 DEF AgedRow, Row
<1> QED BY <1>1, <1>2, <1>3

LEMMA BindingTypes ==
  /\ NoBindings \in [Contacts -> Left]
  /\ \A b \in [Contacts -> Left] :
       /\ Unexpired(b) \in [Contacts -> Left] /\ Held(b) \in SUBSET Contacts
       /\ Aged(b) \in [Contacts -> Left]
       /\ \A c \in Contacts : b[c] = Absent =>
            Unexpired(b)[c] = Absent /\ Aged(b)[c] = Absent
BY LeftTypes DEF NoBindings, Unexpired, Held, Aged

\* A set of contacts has a best one.
LEMMA BestIsMember ==
  ASSUME NEW set \in SUBSET Contacts, set # {}
  PROVE  Best(set) \in set
<1> DEFINE places == {Order[c] : c \in set}
<1>1. places \in SUBSET Nat /\ places # {} BY RegistrarAssumption
<1>2. PICK n \in places : \A m \in places : ~ (<<m, n>> \in OpToRel(<, Nat))
  BY <1>1, NatLessThanWellFounded, WFMin
<1>3. ASSUME NEW m \in places, m < n PROVE FALSE
  <2> HIDE DEF places
  <2>1. <<m, n>> \in Nat \X Nat /\ <<m, n>>[1] < <<m, n>>[2] BY <1>1, <1>3
  <2>2. <<m, n>> \in OpToRel(<, Nat) BY <2>1, Zenon DEF OpToRel
  <2> QED BY <1>2, <2>2
<1>4. PICK c \in set : n = Order[c] BY <1>2
<1>5. \A d \in set : Order[c] <= Order[d]
  <2> SUFFICES ASSUME NEW d \in set PROVE Order[c] <= Order[d] OBVIOUS
  <2>1. Order[d] \in places /\ Order[d] \in Nat /\ Order[c] \in Nat
    BY RegistrarAssumption
  <2>2. ~(Order[d] < n) BY <1>3, <2>1
  <2> QED BY <1>4, <2>1, <2>2
<1> QED BY <1>5 DEF Best

\* The registration names a contact of the request, or one that is left.
LEMMA ChosenIs ==
  ASSUME RegistrarTypeOK, NEW n \in Registrars,
         node[n].accepted \cup LiveAt(n) # {}
  PROVE  /\ Chosen(n) \in Contacts
         /\ IF node[n].accepted # {} THEN Chosen(n) = Best(node[n].accepted)
            ELSE node[n].bindings[Chosen(n)] # Absent
<1>1. node[n] \in NodeState BY TypeMeans
<1>2. node[n].accepted \in SUBSET Contacts BY <1>1 DEF NodeState
<1>3. LiveAt(n) \in SUBSET Contacts BY DEF LiveAt, Held
<1>4. CASE node[n].accepted # {} BY <1>2, <1>4, BestIsMember DEF Chosen
<1>5. CASE node[n].accepted = {}
  <2>1. LiveAt(n) # {} /\ Chosen(n) = Best(LiveAt(n)) BY <1>5 DEF Chosen
  <2>2. Chosen(n) \in LiveAt(n) BY <1>3, <2>1, BestIsMember
  <2>3. Chosen(n) \in Contacts
        /\ Unexpired(node[n].bindings)[Chosen(n)] # Absent
    BY <2>2 DEF LiveAt, Held
  <2>4. node[n].bindings[Chosen(n)] # Absent
    BY <1>1, <2>3, BindingTypes DEF NodeState
  <2> QED BY <1>5, <2>3, <2>4
<1> QED BY <1>4, <1>5

\* A handler that ends leaves its row and its bindings.
LEMMA EndedIs ==
  ASSUME NEW n \in Registrars, NEW then \in [Registrars -> NodeState]
  PROVE  /\ Ended(n, then) \in [Registrars -> NodeState]
         /\ Ended(n, then)[n].step = "idle"
         /\ Ended(n, then)[n].row = then[n].row
         /\ \A m \in Registrars : m # n => Ended(n, then)[m] = then[m]
<1>1. then[n] \in NodeState OBVIOUS
<1>2. Ended(n, then) \in [Registrars -> NodeState]
  <2>1. /\ "idle" \in Steps /\ << >> \in Seq(ContactChanges) /\ {} \in SUBSET Contacts
    BY DEF Steps
  <2>2. [then EXCEPT ![n].step = "idle"] \in [Registrars -> NodeState]
    BY <2>1 DEF NodeState
  <2>3. ASSUME NEW f \in [Registrars -> NodeState]
        PROVE  /\ [f EXCEPT ![n].todo = << >>] \in [Registrars -> NodeState]
               /\ [f EXCEPT ![n].accepted = {}] \in [Registrars -> NodeState]
    BY <2>1 DEF NodeState
  <2> QED BY <2>2, <2>3 DEF Ended
<1>3. Ended(n, then)[n].step = "idle" /\ Ended(n, then)[n].row = then[n].row
  BY <1>1 DEF Ended, NodeState
<1>4. \A m \in Registrars : m # n => Ended(n, then)[m] = then[m] BY DEF Ended
<1> QED BY <1>2, <1>3, <1>4

\* Setting a field of what node n keeps.
LEMMA NodeUpdates ==
  ASSUME NEW n \in Registrars, NEW f \in [Registrars -> NodeState]
  PROVE  /\ \A s \in Steps :
              [f EXCEPT ![n].step = s] \in [Registrars -> NodeState]
         /\ \A s \in Seq(ContactChanges) :
              [f EXCEPT ![n].todo = s] \in [Registrars -> NodeState]
         /\ \A s \in SUBSET Contacts :
              [f EXCEPT ![n].accepted = s] \in [Registrars -> NodeState]
         /\ \A s \in Row :
              [f EXCEPT ![n].row = s] \in [Registrars -> NodeState]
         /\ \A s \in [Contacts -> Left] :
              [f EXCEPT ![n].bindings = s] \in [Registrars -> NodeState]
BY DEF NodeState

-----------------------------------------------------------------------------
(* The handler.                                                            *)

\* A step of the handler of n: nothing was promised before it, and whoever
\* else runs does not run alone.
LEMMA HandlerStep ==
  ASSUME RegistrarInv, RegistrarTypeOK', NEW n \in Registrars,
         node[n].step # "idle", UNCHANGED shared,
         \A m \in Registrars : m # n => node'[m] = node[m],
         ~shared => node'[n].step \in {"idle", "contacts"},
         Stamped', outcome'.alone = outcome.alone,
         outcome.alone = n => Working(n)',
         outcome'.kind # "unknown" => /\ outcome.alone = n
                                      /\ node'[n].step = "idle"
                                      /\ Promised(Routed.contact)'
  PROVE  RegistrarInv'
<1>1. OneNode' BY DEF RegistrarInv, RouteInv, OneNode
<1>2. \A m \in Registrars : outcome.alone = m => m = n
  BY DEF RegistrarInv, RouteInv, Alone
<1>3. Alone' BY <1>2 DEF RegistrarInv, RouteInv, Alone
<1>4. \A m \in Registrars : outcome'.alone = m => Working(m)' BY <1>2
<1>5. Kept'
  <2> SUFFICES ASSUME outcome'.kind # "unknown"
               PROVE  /\ \A m \in Registrars : node'[m].step = "idle"
                      /\ Promised(Routed.contact)'
    BY DEF Kept
  <2>1. \A m \in Registrars : m # n => node[m].step = "idle"
    BY DEF RegistrarInv, RouteInv, Alone
  <2> QED BY <2>1
<1> QED BY <1>1, <1>3, <1>4, <1>5 DEF RegistrarInv, RouteInv

\* While a handler runs nothing is promised.
LEMMA NotPromised ==
  ASSUME RegistrarInv, NEW n \in Registrars, node[n].step # "idle"
  PROVE  outcome.kind = "unknown"
BY DEF RegistrarInv, RouteInv, Kept

LEMMA BeginKeeps ==
  ASSUME RegistrarInv, NEW n \in Registrars, NEW request \in Registers,
         Begin(n, request)
  PROVE  RegistrarInv'
<1> DEFINE row0 == UnexpiredRow(table.row)
           row1 == UnexpiredRow(node[n].row)
<1>1. /\ shared \in BOOLEAN /\ table \in Table
      /\ node \in [Registrars -> NodeState] /\ node[n] \in NodeState
      /\ registered \in [begun : 0..MaxRegisters, latest : Nat]
      /\ registered.begun < MaxRegisters
  BY TypeMeans DEF RegistrarInv, Begin
<1>2. table.row \in Row /\ node[n].row \in Row /\ table.bindings \in [Contacts -> Left]
  BY <1>1 DEF Table, NodeState
<1>3. /\ row0 \in Row /\ row0.stamp <= table.row.stamp
      /\ row1 \in Row /\ row1.stamp <= node[n].row.stamp
      /\ Unexpired(table.bindings) \in [Contacts -> Left]
  BY <1>2, RowTypes, BindingTypes
<1>4. request \in Seq(ContactChanges) /\ {} \in SUBSET Contacts
      /\ "reading" \in Steps /\ "contacts" \in Steps
  BY RegistrarAssumption DEF ContactChanges, Steps
<1>5. /\ registered'.latest = registered.latest
      /\ registered' \in [begun : 0..MaxRegisters, latest : Nat]
  <2>1. /\ registered.begun \in Nat /\ registered.begun + 1 \in 0..MaxRegisters
        /\ registered' = [registered EXCEPT !.begun = @ + 1]
    BY <1>1, RegistrarAssumption DEF Begin
  <2> QED BY <1>1, <2>1
<1>6. /\ node' \in [Registrars -> NodeState]
      /\ table' \in Table /\ table'.row.stamp <= registered.latest
      /\ node'[n].row.stamp <= registered.latest
      /\ node'[n].step \in {"idle", "reading", "contacts"}
      /\ ~shared => node'[n].step \in {"idle", "contacts"}
      /\ \A m \in Registrars : m # n => node'[m] = node[m]
  <2>0. table.row.stamp <= registered.latest
        /\ node[n].row.stamp <= registered.latest
        /\ table.row.stamp \in Nat /\ node[n].row.stamp \in Nat
        /\ row0.stamp \in Nat /\ row1.stamp \in Nat /\ registered.latest \in Nat
    BY <1>1, <1>2, <1>3 DEF RegistrarInv, RouteInv, Stamped, Row
  <2> HIDE DEF row0, row1
  <2>1. CASE shared
    <3>1. /\ table' = [row |-> row0, bindings |-> Unexpired(table.bindings)]
          /\ node' = [node EXCEPT ![n].step = "reading",
                                  ![n].todo = request, ![n].accepted = {},
                                  ![n].row = row0]
      BY <2>1 DEF Begin, row0
    <3>2. node' \in [Registrars -> NodeState]
      BY <1>1, <1>3, <1>4, <3>1, NodeUpdates
    <3>3. node'[n].step = "reading" /\ node'[n].row = row0
          /\ \A m \in Registrars : m # n => node'[m] = node[m]
      BY <1>1, <3>1 DEF NodeState
    <3>4. table' \in Table /\ table'.row = row0 BY <1>3, <3>1 DEF Table
    <3> QED BY <1>3, <2>0, <2>1, <3>2, <3>3, <3>4
  <2>2. CASE ~shared
    <3> DEFINE then == [node EXCEPT ![n].todo = request, ![n].accepted = {},
                                    ![n].row = row1]
    <3>1. node' \in {[then EXCEPT ![n].step = "contacts"], Ended(n, then)}
          /\ table' = table
      BY <2>2, Zenon DEF Begin, Authenticated, row1
    <3>2. then \in [Registrars -> NodeState] BY <1>1, <1>3, <1>4, NodeUpdates
    <3>3. then[n].row = row1 /\ \A m \in Registrars : m # n => then[m] = node[m]
      BY <1>1 DEF NodeState
    <3> HIDE DEF then
    <3>4. CASE node' = [then EXCEPT ![n].step = "contacts"]
      <4>1. node' \in [Registrars -> NodeState]
        BY <1>4, <3>2, <3>4, NodeUpdates
      <4>2. node'[n].step = "contacts" /\ node'[n].row = row1
            /\ \A m \in Registrars : m # n => node'[m] = node[m]
        BY <3>2, <3>3, <3>4 DEF NodeState
      <4> QED BY <1>1, <1>3, <2>0, <3>1, <4>1, <4>2
    <3>5. CASE node' = Ended(n, then)
      <4>1. /\ node' \in [Registrars -> NodeState]
            /\ node'[n].step = "idle" /\ node'[n].row = row1
            /\ \A m \in Registrars : m # n => node'[m] = node[m]
        BY <3>2, <3>3, <3>5, EndedIs
      <4> QED BY <1>1, <1>3, <2>0, <3>1, <4>1
    <3> QED BY <3>1, <3>4, <3>5
  <2> QED BY <1>1, <2>1, <2>2
<1>7. /\ outcome'.kind = "unknown" /\ outcome'.contacts = {}
      /\ outcome'.alone = IF \A m \in Registrars : node[m].step = "idle"
                          THEN n ELSE NoRegistrar
      /\ shared' = shared /\ (shared \/ n = Single)
  BY DEF Begin
<1>8. RegistrarTypeOK'
  <2>1. outcome' \in [kind : {"unknown", "bound", "removed"},
                      contacts : SUBSET Contacts,
                      alone : Registrars \cup {NoRegistrar}]
    BY DEF Begin
  <2> QED BY <1>1, <1>5, <1>6, <1>7, <2>1 DEF RegistrarTypeOK, Table, NodeState, ContactChanges
<1>9. OneNode' BY <1>6, <1>7 DEF RegistrarInv, RouteInv, OneNode
<1>10. Stamped' BY <1>5, <1>6 DEF RegistrarInv, RouteInv, Stamped
<1>11. Alone' BY <1>6, <1>7, RegistrarAssumption DEF Alone
<1>12. Kept' BY <1>7 DEF Kept
<1>13. \A m \in Registrars : outcome'.alone = m => Working(m)'
  <2> SUFFICES ASSUME NEW m \in Registrars, outcome'.alone = m PROVE Working(m)'
    OBVIOUS
  <2>1. m = n BY <1>7, RegistrarAssumption
  <2> QED BY <1>6, <1>7, <2>1 DEF Working
<1> QED BY <1>8, <1>9, <1>10, <1>11, <1>12, <1>13 DEF RegistrarInv, RouteInv

LEMMA ReadKeeps ==
  ASSUME RegistrarInv, NEW n \in Registrars, Read(n)
  PROVE  RegistrarInv'
<1> DEFINE rows == Unexpired(table.bindings)
<1>1. /\ shared \in BOOLEAN /\ table \in Table
      /\ node \in [Registrars -> NodeState] /\ node[n] \in NodeState
      /\ node[n].step = "reading" /\ UNCHANGED <<shared, table, registered, outcome>>
      /\ outcome.kind = "unknown"
  BY TypeMeans, NotPromised DEF RegistrarInv, Read
<1>2. shared BY <1>1 DEF RegistrarInv, RouteInv, OneNode
<1>3. rows \in [Contacts -> Left] BY <1>1, BindingTypes DEF Table
<1>4. PICK b \in [Contacts -> Left] :
        node' \in {[[node EXCEPT ![n].bindings = b] EXCEPT ![n].step = "contacts"],
                   Ended(n, [node EXCEPT ![n].bindings = b])}
  <2>1. CASE Cardinality(Held(rows)) <= MaxBindings
    BY <1>3, <2>1 DEF Read, Authenticated
  <2>2. CASE ~(Cardinality(Held(rows)) <= MaxBindings)
    <3>1. PICK kept \in SUBSET Held(rows) :
            node' = Ended(n, [node EXCEPT ![n].bindings =
                      [c \in Contacts |-> IF c \in kept THEN rows[c] ELSE Absent]])
      BY <2>2 DEF Read
    <3>2. [c \in Contacts |-> IF c \in kept THEN rows[c] ELSE Absent]
            \in [Contacts -> Left]
      BY <1>3, LeftTypes
    <3> QED BY <3>1, <3>2
  <2> QED BY <2>1, <2>2
<1> DEFINE then == [node EXCEPT ![n].bindings = b]
<1>5. /\ then \in [Registrars -> NodeState]
      /\ then[n].row = node[n].row
      /\ \A m \in Registrars : m # n => then[m] = node[m]
  <2>1. then \in [Registrars -> NodeState] BY <1>1, <1>4, NodeUpdates
  <2> QED BY <1>1, <2>1 DEF NodeState
<1>6. node' \in {[then EXCEPT ![n].step = "contacts"], Ended(n, then)}
  BY <1>4
<1> HIDE DEF then
<1>7. /\ node' \in [Registrars -> NodeState]
      /\ node'[n].step \in {"idle", "contacts"}
      /\ node'[n].row = node[n].row
      /\ \A m \in Registrars : m # n => node'[m] = node[m]
  <2>1. CASE node' = [then EXCEPT ![n].step = "contacts"]
    <3>1. "contacts" \in Steps BY DEF Steps
    <3>2. node' \in [Registrars -> NodeState] BY <1>5, <2>1, <3>1, NodeUpdates
    <3> QED BY <1>5, <2>1, <3>2 DEF NodeState
  <2>2. CASE node' = Ended(n, then) BY <1>5, <2>2, EndedIs
  <2> QED BY <1>6, <2>1, <2>2
<1>8. RegistrarTypeOK' BY <1>1, <1>7 DEF RegistrarInv, RegistrarTypeOK, NodeState, ContactChanges
<1>9. Stamped' BY <1>1, <1>7 DEF RegistrarInv, RouteInv, Stamped
<1>10. outcome.alone = n => Working(n)'
  BY <1>1, <1>7 DEF RegistrarInv, RouteInv, Working
<1> QED BY <1>1, <1>2, <1>7, <1>8, <1>9, <1>10, HandlerStep

\* What the state of n is made of, while its handler runs.
LEMMA Running ==
  ASSUME RegistrarInv, NEW n \in Registrars, node[n].step # "idle"
  PROVE  /\ shared \in BOOLEAN /\ table \in Table
         /\ node \in [Registrars -> NodeState] /\ node[n] \in NodeState
         /\ node[n].row \in Row /\ table.row \in Row
         /\ node[n].bindings \in [Contacts -> Left]
         /\ node[n].accepted \in SUBSET Contacts
         /\ table.bindings \in [Contacts -> Left]
         /\ outcome.contacts \in SUBSET Contacts
         /\ outcome.alone \in Registrars \cup {NoRegistrar}
         /\ registered.latest \in Nat
         /\ outcome.kind = "unknown"
         /\ outcome \in [kind : {"unknown", "bound", "removed"},
                         contacts : SUBSET Contacts,
                         alone : Registrars \cup {NoRegistrar}]
<1>1. node[n] \in NodeState BY TypeMeans DEF RegistrarInv
<1> QED BY <1>1, TypeMeans, NotPromised DEF RegistrarInv, NodeState, Table

LEMMA TableTypes ==
  ASSUME table \in Table
  PROVE  /\ \A r \in Row : /\ [table EXCEPT !.row = r] \in Table
                           /\ [table EXCEPT !.row = r].row = r
         /\ \A b \in [Contacts -> Left] :
              /\ [table EXCEPT !.bindings = b] \in Table
              /\ [table EXCEPT !.bindings = b].row = table.row
         /\ \A c \in Contacts \cup {NoContact}, left \in Left :
              /\ [table EXCEPT !.bindings[c] = left] \in Table
              /\ [table EXCEPT !.bindings[c] = left].row = table.row
BY DEF Table

\* The change that comes next is one.
LEMMA NextChange ==
  ASSUME RegistrarInv, NEW n \in Registrars, More(n)
  PROVE  /\ Now(n).contact \in Contacts
         /\ Tail(node[n].todo) \in Seq(ContactChanges)
<1>1. node[n] \in NodeState BY TypeMeans DEF RegistrarInv
<1>2. node[n].todo \in Seq(ContactChanges) /\ node[n].todo # << >>
  BY <1>1 DEF NodeState, More
<1>3. Head(node[n].todo) \in ContactChanges /\ Tail(node[n].todo) \in Seq(ContactChanges)
  BY <1>2
<1> QED BY <1>3 DEF Now, ContactChanges

LEMMA WildcardKeeps ==
  ASSUME RegistrarInv, NEW n \in Registrars, Wildcard(n)
  PROVE  RegistrarInv'
<1> DEFINE cleared == [node EXCEPT ![n].bindings = NoBindings, ![n].row = NoRow]
<1>1. node[n].step # "idle" BY DEF Wildcard, More
<1>2. /\ shared \in BOOLEAN /\ table \in Table
      /\ node \in [Registrars -> NodeState] /\ node[n] \in NodeState
      /\ outcome \in [kind : {"unknown", "bound", "removed"},
                      contacts : SUBSET Contacts,
                      alone : Registrars \cup {NoRegistrar}]
      /\ outcome.kind = "unknown" /\ registered.latest \in Nat
      /\ UNCHANGED <<shared, table, registered>>
  BY <1>1, Running DEF Wildcard
<1>3. /\ cleared \in [Registrars -> NodeState]
      /\ cleared[n].row = NoRow
      /\ \A m \in Registrars : m # n => cleared[m] = node[m]
  <2>1. cleared \in [Registrars -> NodeState]
    BY <1>2, NodeUpdates, RowTypes, BindingTypes
  <2> QED BY <1>2, <2>1 DEF NodeState
<1>4. node' = IF shared THEN [cleared EXCEPT ![n].step = "deleting"]
              ELSE Ended(n, cleared)
  BY DEF Wildcard
<1> HIDE DEF cleared
<1>5. /\ node' \in [Registrars -> NodeState]
      /\ node'[n].step = IF shared THEN "deleting" ELSE "idle"
      /\ node'[n].row = NoRow
      /\ \A m \in Registrars : m # n => node'[m] = node[m]
  <2>1. CASE shared
    <3>1. "deleting" \in Steps BY DEF Steps
    <3>2. node' \in [Registrars -> NodeState]
      BY <1>3, <1>4, <2>1, <3>1, NodeUpdates
    <3> QED BY <1>3, <1>4, <2>1, <3>2 DEF NodeState
  <2>2. CASE ~shared BY <1>3, <1>4, <2>2, EndedIs
  <2> QED BY <2>1, <2>2
<1>6. /\ outcome'.kind = IF ~shared /\ outcome.alone = n THEN "removed"
                         ELSE "unknown"
      /\ outcome'.contacts = Contacts /\ outcome'.alone = outcome.alone
      /\ outcome' \in [kind : {"unknown", "bound", "removed"},
                       contacts : SUBSET Contacts,
                       alone : Registrars \cup {NoRegistrar}]
  BY <1>2 DEF Wildcard
<1>7. RegistrarTypeOK'
  BY <1>2, <1>5, <1>6 DEF RegistrarInv, RegistrarTypeOK, NodeState, ContactChanges
<1>8. Stamped'
  <2>1. NoRow.stamp <= registered.latest BY <1>2, RowTypes
  <2> QED BY <1>2, <1>5, <2>1 DEF RegistrarInv, RouteInv, Stamped
<1>9. Working(n)' BY <1>5 DEF Working
<1>10. ASSUME outcome'.kind # "unknown"
       PROVE  /\ outcome.alone = n /\ node'[n].step = "idle"
              /\ Promised(Routed.contact)'
  <2>1. ~shared /\ outcome.alone = n /\ outcome'.kind = "removed"
    BY <1>6, <1>10
  <2>2. n = Single BY <1>1, <2>1 DEF RegistrarInv, RouteInv, OneNode
  <2>3. Routed' = NoRow BY <1>2, <1>5, <2>1, <2>2 DEF Routed
  <2>4. Promised(Routed.contact)'
    BY <1>6, <2>1, <2>3, RowTypes, RegistrarAssumption DEF Promised
  <2> QED BY <1>5, <2>1, <2>4
<1>11. ~shared => node'[n].step \in {"idle", "contacts"} BY <1>5
<1> QED
  BY <1>1, <1>2, <1>5, <1>6, <1>7, <1>8, <1>9, <1>10, <1>11, HandlerStep

LEMMA RemoveContactKeeps ==
  ASSUME RegistrarInv, NEW n \in Registrars, RemoveContact(n)
  PROVE  RegistrarInv'
<1> DEFINE c == Now(n).contact
           b == [node[n].bindings EXCEPT ![c] = Absent]
<1>1. node[n].step = "contacts" /\ More(n) BY DEF RemoveContact, More
<1>2. c \in Contacts /\ Tail(node[n].todo) \in Seq(ContactChanges)
  BY <1>1, NextChange
<1>3. /\ shared \in BOOLEAN /\ table \in Table
      /\ node \in [Registrars -> NodeState] /\ node[n] \in NodeState
      /\ node[n].bindings \in [Contacts -> Left]
      /\ outcome \in [kind : {"unknown", "bound", "removed"},
                      contacts : SUBSET Contacts,
                      alone : Registrars \cup {NoRegistrar}]
      /\ outcome.kind = "unknown" /\ UNCHANGED <<shared, registered>>
  BY <1>1, Running DEF RemoveContact
<1>4. b \in [Contacts -> Left] /\ b[c] = Absent
      /\ \A d \in Contacts : d # c => b[d] = node[n].bindings[d]
  BY <1>2, <1>3, LeftTypes
<1>5. node' = [node EXCEPT ![n].todo = Tail(node[n].todo), ![n].bindings = b]
  BY <1>3 DEF RemoveContact, NodeState
<1> HIDE DEF b
<1>6. /\ node' \in [Registrars -> NodeState]
      /\ node'[n].step = node[n].step /\ node'[n].row = node[n].row
      /\ node'[n].accepted = node[n].accepted /\ node'[n].bindings = b
      /\ \A m \in Registrars : m # n => node'[m] = node[m]
  <2>1. node' \in [Registrars -> NodeState]
    BY <1>2, <1>3, <1>4, <1>5, NodeUpdates
  <2> QED BY <1>3, <1>5, <2>1 DEF NodeState
<1>7. table' \in Table /\ table'.row = table.row
  BY <1>2, <1>3, TableTypes, LeftTypes DEF RemoveContact, BindTable
<1>8. /\ outcome'.kind = "unknown" /\ outcome'.alone = outcome.alone
      /\ outcome'.contacts = outcome.contacts \cup {c}
      /\ outcome' \in [kind : {"unknown", "bound", "removed"},
                       contacts : SUBSET Contacts,
                       alone : Registrars \cup {NoRegistrar}]
  BY <1>2, <1>3 DEF RemoveContact
<1>9. RegistrarTypeOK'
  BY <1>3, <1>6, <1>7, <1>8 DEF RegistrarInv, RegistrarTypeOK, NodeState, Table, ContactChanges
<1>10. Stamped' BY <1>3, <1>6, <1>7 DEF RegistrarInv, RouteInv, Stamped
<1>11. outcome.alone = n => Working(n)'
  <2> SUFFICES ASSUME outcome.alone = n PROVE Working(n)' OBVIOUS
  <2>1. \A d \in outcome.contacts :
          node[n].bindings[d] = Absent \/ d \in node[n].accepted
    BY <1>1 DEF RegistrarInv, RouteInv, Working
  <2>2. \A d \in outcome'.contacts :
          node'[n].bindings[d] = Absent \/ d \in node'[n].accepted
    BY <1>2, <1>3, <1>4, <1>6, <1>8, <2>1
  <2> QED BY <1>1, <1>6, <2>2 DEF Working
<1> QED BY <1>1, <1>3, <1>6, <1>8, <1>9, <1>10, <1>11, HandlerStep

LEMMA AddContactKeeps ==
  ASSUME RegistrarInv, NEW n \in Registrars, AddContact(n)
  PROVE  RegistrarInv'
<1> DEFINE c == Now(n).contact
           b == [node[n].bindings EXCEPT ![c] = Lifetime]
           a == node[n].accepted \cup {c}
<1>1. node[n].step = "contacts" /\ More(n) BY DEF AddContact, More
<1>2. c \in Contacts /\ Tail(node[n].todo) \in Seq(ContactChanges)
  BY <1>1, NextChange
<1>3. /\ shared \in BOOLEAN /\ table \in Table
      /\ node \in [Registrars -> NodeState] /\ node[n] \in NodeState
      /\ node[n].bindings \in [Contacts -> Left]
      /\ node[n].accepted \in SUBSET Contacts
      /\ outcome.contacts \in SUBSET Contacts
      /\ outcome.kind = "unknown"
      /\ UNCHANGED <<shared, registered, outcome>>
  BY <1>1, Running DEF AddContact
<1>4. /\ b \in [Contacts -> Left] /\ a \in SUBSET Contacts
      /\ c \in a /\ node[n].accepted \subseteq a
      /\ \A d \in Contacts : d # c => b[d] = node[n].bindings[d]
  BY <1>2, <1>3, LeftTypes
<1>5. node' = [node EXCEPT ![n].todo = Tail(node[n].todo), ![n].bindings = b,
                           ![n].accepted = a]
  BY <1>3 DEF AddContact, NodeState
<1> HIDE DEF a, b
<1>6. /\ node' \in [Registrars -> NodeState]
      /\ node'[n].step = node[n].step /\ node'[n].row = node[n].row
      /\ node'[n].accepted = a /\ node'[n].bindings = b
      /\ \A m \in Registrars : m # n => node'[m] = node[m]
  <2>1. node' \in [Registrars -> NodeState]
    BY <1>2, <1>3, <1>4, <1>5, NodeUpdates
  <2> QED BY <1>3, <1>5, <2>1 DEF NodeState
<1>7. table' \in Table /\ table'.row = table.row
  BY <1>2, <1>3, TableTypes, LeftTypes DEF AddContact, BindTable
<1>9. RegistrarTypeOK'
  BY <1>3, <1>6, <1>7 DEF RegistrarInv, RegistrarTypeOK, NodeState, Table, ContactChanges
<1>10. Stamped' BY <1>3, <1>6, <1>7 DEF RegistrarInv, RouteInv, Stamped
<1>11. outcome.alone = n => Working(n)'
  <2> SUFFICES ASSUME outcome.alone = n PROVE Working(n)' OBVIOUS
  <2>1. \A d \in outcome.contacts :
          node[n].bindings[d] = Absent \/ d \in node[n].accepted
    BY <1>1 DEF RegistrarInv, RouteInv, Working
  <2>2. \A d \in outcome'.contacts :
          node'[n].bindings[d] = Absent \/ d \in node'[n].accepted
    BY <1>2, <1>3, <1>4, <1>6, <2>1
  <2> QED BY <1>1, <1>6, <2>2 DEF Working
<1> QED BY <1>1, <1>3, <1>6, <1>9, <1>10, <1>11, HandlerStep

LEMMA BadContactKeeps ==
  ASSUME RegistrarInv, NEW n \in Registrars, BadContact(n)
  PROVE  RegistrarInv'
<1>1. node[n].step # "idle" BY DEF BadContact, More
<1>2. /\ node \in [Registrars -> NodeState] /\ outcome.kind = "unknown"
      /\ node' = Ended(n, node) /\ UNCHANGED <<shared, table, registered, outcome>>
  BY <1>1, Running DEF BadContact
<1>3. /\ node' \in [Registrars -> NodeState]
      /\ node'[n].step = "idle" /\ node'[n].row = node[n].row
      /\ \A m \in Registrars : m # n => node'[m] = node[m]
  BY <1>2, EndedIs
<1>4. RegistrarTypeOK' BY <1>2, <1>3 DEF RegistrarInv, RegistrarTypeOK, NodeState, ContactChanges
<1>5. Stamped' BY <1>2, <1>3 DEF RegistrarInv, RouteInv, Stamped
<1>6. Working(n)' BY <1>3 DEF Working
<1> QED BY <1>1, <1>2, <1>3, <1>4, <1>5, <1>6, HandlerStep

\* A handler that runs alone promises what it decided.
LEMMA PromiseMeans ==
  ASSUME RegistrarInv, NEW n \in Registrars, node[n].step # "idle", Promise(n)
  PROVE  /\ outcome'.alone = outcome.alone
         /\ outcome' \in [kind : {"unknown", "bound", "removed"},
                          contacts : SUBSET Contacts,
                          alone : Registrars \cup {NoRegistrar}]
         /\ outcome'.kind # "unknown" =>
              /\ outcome.alone = n
              /\ IF node[n].accepted # {}
                 THEN /\ outcome'.kind = "bound"
                      /\ outcome'.contacts = node[n].accepted
                 ELSE /\ outcome'.kind = "removed"
                      /\ outcome'.contacts = outcome.contacts
<1>1. /\ outcome \in [kind : {"unknown", "bound", "removed"},
                      contacts : SUBSET Contacts,
                      alone : Registrars \cup {NoRegistrar}]
      /\ node[n].accepted \in SUBSET Contacts /\ outcome.kind = "unknown"
  BY Running
<1>2. CASE outcome.alone # n BY <1>1, <1>2 DEF Promise
<1>3. CASE outcome.alone = n /\ node[n].accepted # {}
  BY <1>1, <1>3 DEF Promise
<1>4. CASE outcome.alone = n /\ node[n].accepted = {}
  BY <1>1, <1>4 DEF Promise
<1> QED BY <1>2, <1>3, <1>4

\* A decided contact, or none, keeps the promise.
LEMMA PromiseHeld ==
  ASSUME RegistrarInv, NEW n \in Registrars, node[n].step # "idle", Promise(n),
         outcome'.kind # "unknown", NEW contact,
         \/ contact = NoContact
         \/ IF node[n].accepted # {} THEN contact = Best(node[n].accepted)
            ELSE contact \notin outcome.contacts
  PROVE  IF outcome'.kind = "bound"
         THEN contact \in {Best(outcome'.contacts), NoContact}
         ELSE contact \notin outcome'.contacts
<1>1. NoContact \notin outcome.contacts BY Running, RegistrarAssumption
<1> QED BY <1>1, PromiseMeans

\* The registration that Choose builds.
Built(n) ==
  IF node[n].accepted \cup LiveAt(n) = {} THEN NoRow
  ELSE [contact |-> Chosen(n), left |-> node[n].bindings[Chosen(n)],
        stamp |-> registered.latest + 1]

LEMMA BuiltIs ==
  ASSUME RegistrarInv, NEW n \in Registrars, node[n].step = "contacts"
  PROVE  /\ Built(n) \in Row
         /\ Built(n).stamp <= registered.latest + 1
         /\ Built(n) # NoRow => Built(n).stamp = registered.latest + 1
         /\ outcome.alone = n =>
              IF node[n].accepted # {}
              THEN Built(n).contact = Best(node[n].accepted)
              ELSE Built(n).contact \notin outcome.contacts
<1>0. /\ node[n].bindings \in [Contacts -> Left] /\ registered.latest \in Nat
      /\ outcome.contacts \in SUBSET Contacts
      /\ node[n].accepted \in SUBSET Contacts
  BY Running
<1>1. CASE node[n].accepted \cup LiveAt(n) = {}
  <2>1. Built(n) = NoRow /\ node[n].accepted = {} BY <1>1 DEF Built
  <2> QED BY <1>0, <2>1, RowTypes, RegistrarAssumption
<1>2. CASE node[n].accepted \cup LiveAt(n) # {}
  <2>1. /\ Chosen(n) \in Contacts
        /\ IF node[n].accepted # {} THEN Chosen(n) = Best(node[n].accepted)
           ELSE node[n].bindings[Chosen(n)] # Absent
    BY <1>2, ChosenIs DEF RegistrarInv
  <2>2. Built(n) = [contact |-> Chosen(n), left |-> node[n].bindings[Chosen(n)],
                    stamp |-> registered.latest + 1]
    BY <1>2 DEF Built
  <2>3. node[n].bindings[Chosen(n)] \in Left /\ registered.latest + 1 \in Nat
    BY <1>0, <2>1
  <2>4. /\ Built(n) \in Row /\ Built(n).stamp = registered.latest + 1
        /\ Built(n).contact = Chosen(n)
    BY <2>1, <2>2, <2>3 DEF Row
  <2>5. ASSUME outcome.alone = n, node[n].accepted = {}
        PROVE  Chosen(n) \notin outcome.contacts
    BY <2>1, <2>5 DEF RegistrarInv, RouteInv, Working
  <2> QED BY <1>0, <2>1, <2>3, <2>4, <2>5
<1> QED BY <1>1, <1>2

LEMMA ChooseKeeps ==
  ASSUME RegistrarInv, NEW n \in Registrars, Choose(n)
  PROVE  RegistrarInv'
<1> DEFINE r == Built(n)
<1>1. node[n].step = "contacts" BY DEF Choose
<1>2. /\ r \in Row /\ r.stamp <= registered.latest + 1
      /\ r # NoRow => r.stamp = registered.latest + 1
      /\ outcome.alone = n =>
           IF node[n].accepted # {} THEN r.contact = Best(node[n].accepted)
           ELSE r.contact \notin outcome.contacts
  BY <1>1, BuiltIs
<1>3. Chose(n, r) BY DEF Choose, Built
<1>4. /\ shared \in BOOLEAN /\ table \in Table
      /\ node \in [Registrars -> NodeState] /\ node[n] \in NodeState
      /\ node[n].bindings \in [Contacts -> Left]
      /\ outcome.kind = "unknown" /\ registered.latest \in Nat
      /\ UNCHANGED <<shared, table>>
  BY <1>1, Running DEF Choose
<1>5. /\ registered'.latest = registered.latest + 1
      /\ registered' \in [begun : 0..MaxRegisters, latest : Nat]
  <2>1. registered \in [begun : 0..MaxRegisters, latest : Nat]
    BY TypeMeans DEF RegistrarInv
  <2>2. registered' = [registered EXCEPT !.latest = @ + 1] BY DEF Choose
  <2> QED BY <2>1, <2>2
<1> HIDE DEF r
<1>6. ASSUME /\ table.row.stamp <= registered.latest + 1
             /\ \A m \in Registrars : node'[m].row.stamp <= registered.latest + 1
      PROVE  Stamped'
  BY <1>4, <1>5, <1>6 DEF Stamped
<1>7. /\ table.row.stamp <= registered.latest + 1
      /\ \A m \in Registrars : node[m].row.stamp <= registered.latest + 1
  <2>1. table.row.stamp \in Nat /\ \A m \in Registrars : node[m].row.stamp \in Nat
    BY <1>4 DEF Table, NodeState, Row
  <2> QED BY <1>4, <2>1 DEF RegistrarInv, RouteInv, Stamped
<1>8. CASE shared
  <2> DEFINE s == IF r = NoRow THEN "deleting" ELSE "saving"
  <2>1. node' = [node EXCEPT ![n].row = r, ![n].step = s] /\ outcome' = outcome
    BY <1>3, <1>8 DEF Chose
  <2>2. s \in Steps BY DEF Steps
  <2>3. /\ node' \in [Registrars -> NodeState]
        /\ node'[n].row = r /\ node'[n].step = s
        /\ node'[n].accepted = node[n].accepted
        /\ \A m \in Registrars : m # n => node'[m] = node[m]
    <3> HIDE DEF s
    <3>1. node' \in [Registrars -> NodeState] BY <1>2, <1>4, <2>1, <2>2, NodeUpdates
    <3> QED BY <1>4, <2>1, <3>1 DEF NodeState
  <2>4. Stamped' BY <1>2, <1>6, <1>7, <2>3
  <2>5. RegistrarTypeOK'
    BY <1>4, <1>5, <2>1, <2>3 DEF RegistrarInv, RegistrarTypeOK, NodeState, ContactChanges
  <2>6. outcome.alone = n => Working(n)'
    BY <1>2, <1>5, <2>1, <2>3 DEF Working, Decided
  <2> QED BY <1>1, <1>4, <1>8, <2>1, <2>3, <2>4, <2>5, <2>6, HandlerStep
<1>9. CASE ~shared
  <2> DEFINE then == [node EXCEPT ![n].row = r, ![n].bindings = Unexpired(@)]
  <2>1. node' = Ended(n, then) /\ Promise(n)
    BY <1>3, <1>9 DEF Chose
  <2>2. then \in [Registrars -> NodeState] /\ then[n].row = r
        /\ \A m \in Registrars : m # n => then[m] = node[m]
    <3>1. Unexpired(node[n].bindings) \in [Contacts -> Left]
      BY <1>4, BindingTypes
    <3>2. then = [node EXCEPT ![n].row = r,
                              ![n].bindings = Unexpired(node[n].bindings)]
      BY <1>2, <1>4 DEF NodeState
    <3>3. then \in [Registrars -> NodeState] BY <1>2, <1>4, <3>1, <3>2, NodeUpdates
    <3> QED BY <1>4, <3>2, <3>3 DEF NodeState
  <2> HIDE DEF then
  <2>3. /\ node' \in [Registrars -> NodeState]
        /\ node'[n].step = "idle" /\ node'[n].row = r
        /\ \A m \in Registrars : m # n => node'[m] = node[m]
    BY <2>1, <2>2, EndedIs
  <2>4. Stamped' BY <1>2, <1>6, <1>7, <2>3
  <2>5. /\ outcome'.alone = outcome.alone
        /\ outcome' \in [kind : {"unknown", "bound", "removed"},
                         contacts : SUBSET Contacts,
                         alone : Registrars \cup {NoRegistrar}]
    BY <1>1, <2>1, PromiseMeans
  <2>6. RegistrarTypeOK'
    BY <1>4, <1>5, <2>3, <2>5 DEF RegistrarInv, RegistrarTypeOK, NodeState, ContactChanges
  <2>7. Working(n)' BY <2>3 DEF Working
  <2>8. ASSUME outcome'.kind # "unknown"
        PROVE  outcome.alone = n /\ Promised(Routed.contact)'
    <3>1. outcome.alone = n BY <1>1, <2>1, <2>8, PromiseMeans
    <3>2. n = Single BY <1>1, <1>9 DEF RegistrarInv, RouteInv, OneNode
    <3>3. Routed'.contact = r.contact BY <1>4, <1>9, <2>3, <3>2 DEF Routed
    <3>4. IF node[n].accepted # {} THEN r.contact = Best(node[n].accepted)
          ELSE r.contact \notin outcome.contacts
      BY <1>2, <3>1
    <3>5. IF outcome'.kind = "bound"
          THEN r.contact \in {Best(outcome'.contacts), NoContact}
          ELSE r.contact \notin outcome'.contacts
      BY <1>1, <2>1, <2>8, <3>4, PromiseHeld
    <3> QED BY <3>1, <3>3, <3>5 DEF Promised
  <2> QED BY <1>1, <1>4, <2>3, <2>4, <2>5, <2>6, <2>7, <2>8, HandlerStep
<1> QED BY <1>4, <1>8, <1>9

LEMMA SaveRowKeeps ==
  ASSUME RegistrarInv, NEW n \in Registrars, SaveRow(n)
  PROVE  RegistrarInv'
<1>1. node[n].step = "saving" BY DEF SaveRow
<1>2. /\ shared \in BOOLEAN /\ table \in Table
      /\ node \in [Registrars -> NodeState] /\ node[n] \in NodeState
      /\ node[n].row \in Row /\ table.row \in Row
      /\ outcome.kind = "unknown" /\ registered.latest \in Nat
      /\ UNCHANGED <<shared, registered, outcome>>
  BY <1>1, Running DEF SaveRow
<1>3. node' = [node EXCEPT ![n].step = "binding"] /\ "binding" \in Steps
  BY DEF SaveRow, Steps
<1>4. /\ node' \in [Registrars -> NodeState]
      /\ node'[n].step = "binding" /\ node'[n].row = node[n].row
      /\ node'[n].accepted = node[n].accepted
      /\ \A m \in Registrars : m # n => node'[m] = node[m]
  <2>1. node' \in [Registrars -> NodeState] BY <1>2, <1>3, NodeUpdates
  <2> QED BY <1>2, <1>3, <2>1 DEF NodeState
<1>5. /\ table' \in Table
      /\ table'.row = IF Newer(node[n].row) THEN node[n].row ELSE table.row
  <2>1. table' = [table EXCEPT !.row = IF Newer(node[n].row) THEN node[n].row
                                       ELSE table.row]
    BY <1>2 DEF SaveRow, Table
  <2> QED BY <1>2, <2>1, TableTypes
<1>6. RegistrarTypeOK'
  BY <1>2, <1>4, <1>5 DEF RegistrarInv, RegistrarTypeOK, NodeState, Table, ContactChanges
<1>7. Stamped' BY <1>2, <1>4, <1>5 DEF RegistrarInv, RouteInv, Stamped
<1>8. outcome.alone = n => Working(n)'
  <2> SUFFICES ASSUME outcome.alone = n PROVE Working(n)' OBVIOUS
  <2>1. Decided(n) /\ node[n].row.stamp = registered.latest
    BY <1>1 DEF RegistrarInv, RouteInv, Working
  <2>2. Newer(node[n].row)
    <3>1. table.row.stamp \in Nat /\ table.row.stamp <= registered.latest
      BY <1>2 DEF RegistrarInv, RouteInv, Stamped, Row
    <3> QED BY <1>2, <2>1, <3>1 DEF Newer
  <2>3. table'.row.contact = node'[n].row.contact BY <1>4, <1>5, <2>2
  <2>4. Decided(n)' BY <1>2, <1>4, <2>1 DEF Decided
  <2> QED BY <1>4, <2>3, <2>4 DEF Working
<1>9. shared BY <1>1, <1>2 DEF RegistrarInv, RouteInv, OneNode
<1> QED BY <1>1, <1>2, <1>4, <1>6, <1>7, <1>8, <1>9, HandlerStep

LEMMA SaveBindingKeeps ==
  ASSUME RegistrarInv, NEW n \in Registrars, SaveBinding(n)
  PROVE  RegistrarInv'
<1> DEFINE then == [node EXCEPT ![n].bindings = Unexpired(@)]
<1>1. node[n].step = "binding" /\ Promise(n) BY DEF SaveBinding
<1>2. /\ shared \in BOOLEAN /\ table \in Table
      /\ node \in [Registrars -> NodeState] /\ node[n] \in NodeState
      /\ node[n].row \in Row /\ node[n].bindings \in [Contacts -> Left]
      /\ registered.latest \in Nat /\ UNCHANGED <<shared, registered>>
  BY <1>1, Running DEF SaveBinding
<1>3. shared BY <1>1, <1>2 DEF RegistrarInv, RouteInv, OneNode
<1>4. then \in [Registrars -> NodeState] /\ then[n].row = node[n].row
      /\ \A m \in Registrars : m # n => then[m] = node[m]
  <2>1. Unexpired(node[n].bindings) \in [Contacts -> Left]
    BY <1>2, BindingTypes
  <2>2. then = [node EXCEPT ![n].bindings = Unexpired(node[n].bindings)]
    OBVIOUS
  <2>3. then \in [Registrars -> NodeState] BY <1>2, <2>1, <2>2, NodeUpdates
  <2> QED BY <1>2, <2>2, <2>3 DEF NodeState
<1>5. node' = Ended(n, then) BY DEF SaveBinding
<1> HIDE DEF then
<1>6. /\ node' \in [Registrars -> NodeState]
      /\ node'[n].step = "idle" /\ node'[n].row = node[n].row
      /\ \A m \in Registrars : m # n => node'[m] = node[m]
  BY <1>4, <1>5, EndedIs
<1>7. table' \in Table /\ table'.row = table.row
  <2>1. /\ node[n].row.contact \in Contacts \cup {NoContact}
        /\ node[n].row.left \in Left
    BY <1>2 DEF Row
  <2>2. table' = [table EXCEPT !.bindings[node[n].row.contact] = node[n].row.left]
    BY <1>3 DEF SaveBinding, BindTable
  <2> QED BY <1>2, <2>1, <2>2, TableTypes
<1>8. /\ outcome'.alone = outcome.alone
      /\ outcome' \in [kind : {"unknown", "bound", "removed"},
                       contacts : SUBSET Contacts,
                       alone : Registrars \cup {NoRegistrar}]
  BY <1>1, PromiseMeans
<1>9. RegistrarTypeOK'
  BY <1>2, <1>6, <1>7, <1>8
  DEF RegistrarInv, RegistrarTypeOK, NodeState, Table, ContactChanges
<1>10. Stamped' BY <1>2, <1>6, <1>7 DEF RegistrarInv, RouteInv, Stamped
<1>11. Working(n)' BY <1>6 DEF Working
<1>12. ASSUME outcome'.kind # "unknown"
       PROVE  outcome.alone = n /\ Promised(Routed.contact)'
  <2>1. outcome.alone = n BY <1>1, <1>12, PromiseMeans
  <2>2. Decided(n) /\ table.row.contact = node[n].row.contact
    BY <1>1, <2>1 DEF RegistrarInv, RouteInv, Working
  <2>3. Routed'.contact = node[n].row.contact
    BY <1>2, <1>3, <1>7, <2>2 DEF Routed
  <2>4. IF outcome'.kind = "bound"
        THEN node[n].row.contact \in {Best(outcome'.contacts), NoContact}
        ELSE node[n].row.contact \notin outcome'.contacts
    BY <1>1, <1>12, <2>2, PromiseHeld DEF Decided
  <2> QED BY <2>1, <2>3, <2>4 DEF Promised
<1> QED BY <1>1, <1>2, <1>6, <1>8, <1>9, <1>10, <1>11, <1>12, HandlerStep

LEMMA DeleteRowKeeps ==
  ASSUME RegistrarInv, NEW n \in Registrars, DeleteRow(n)
  PROVE  RegistrarInv'
<1>1. node[n].step = "deleting" BY DEF DeleteRow
<1>2. /\ shared \in BOOLEAN /\ table \in Table
      /\ node \in [Registrars -> NodeState] /\ node[n] \in NodeState
      /\ outcome.kind = "unknown" /\ registered.latest \in Nat
      /\ UNCHANGED <<shared, registered, outcome>>
  BY <1>1, Running DEF DeleteRow
<1>3. node' = [node EXCEPT ![n].step = "clearing"] /\ "clearing" \in Steps
  BY DEF DeleteRow, Steps
<1>4. /\ node' \in [Registrars -> NodeState]
      /\ node'[n].step = "clearing" /\ node'[n].row = node[n].row
      /\ \A m \in Registrars : m # n => node'[m] = node[m]
  <2>1. node' \in [Registrars -> NodeState] BY <1>2, <1>3, NodeUpdates
  <2> QED BY <1>2, <1>3, <2>1 DEF NodeState
<1>5. table' \in Table /\ table'.row = NoRow
  BY <1>2, TableTypes, RowTypes DEF DeleteRow
<1>6. RegistrarTypeOK'
  BY <1>2, <1>4, <1>5 DEF RegistrarInv, RegistrarTypeOK, NodeState, Table, ContactChanges
<1>7. Stamped'
  <2>1. table'.row.stamp <= registered.latest BY <1>2, <1>5, RowTypes
  <2> QED BY <1>2, <1>4, <2>1 DEF RegistrarInv, RouteInv, Stamped
<1>8. Working(n)'
  <2>1. table'.row.contact = NoContact BY <1>5, RowTypes
  <2> QED BY <1>4, <2>1 DEF Working
<1>9. shared BY <1>1, <1>2 DEF RegistrarInv, RouteInv, OneNode
<1> QED BY <1>1, <1>2, <1>4, <1>6, <1>7, <1>8, <1>9, HandlerStep

LEMMA ClearBindingsKeeps ==
  ASSUME RegistrarInv, NEW n \in Registrars, ClearBindings(n)
  PROVE  RegistrarInv'
<1>1. node[n].step = "clearing" /\ Promise(n) BY DEF ClearBindings
<1>2. /\ shared \in BOOLEAN /\ table \in Table
      /\ node \in [Registrars -> NodeState]
      /\ registered.latest \in Nat /\ UNCHANGED <<shared, registered>>
      /\ node' = Ended(n, node)
  BY <1>1, Running DEF ClearBindings
<1>3. shared BY <1>1, <1>2 DEF RegistrarInv, RouteInv, OneNode
<1>4. /\ node' \in [Registrars -> NodeState]
      /\ node'[n].step = "idle" /\ node'[n].row = node[n].row
      /\ \A m \in Registrars : m # n => node'[m] = node[m]
  BY <1>2, EndedIs
<1>5. table' \in Table /\ table'.row = table.row
  BY <1>2, TableTypes, BindingTypes DEF ClearBindings
<1>6. /\ outcome'.alone = outcome.alone
      /\ outcome' \in [kind : {"unknown", "bound", "removed"},
                       contacts : SUBSET Contacts,
                       alone : Registrars \cup {NoRegistrar}]
  BY <1>1, PromiseMeans
<1>7. RegistrarTypeOK'
  BY <1>2, <1>4, <1>5, <1>6
  DEF RegistrarInv, RegistrarTypeOK, NodeState, Table, ContactChanges
<1>8. Stamped' BY <1>2, <1>4, <1>5 DEF RegistrarInv, RouteInv, Stamped
<1>9. Working(n)' BY <1>4 DEF Working
<1>10. ASSUME outcome'.kind # "unknown"
       PROVE  outcome.alone = n /\ Promised(Routed.contact)'
  <2>1. outcome.alone = n BY <1>1, <1>10, PromiseMeans
  <2>2. table.row.contact = NoContact
    BY <1>1, <2>1 DEF RegistrarInv, RouteInv, Working
  <2>3. Routed'.contact = NoContact BY <1>2, <1>3, <1>5, <2>2 DEF Routed
  <2>4. IF outcome'.kind = "bound"
        THEN NoContact \in {Best(outcome'.contacts), NoContact}
        ELSE NoContact \notin outcome'.contacts
    BY <1>1, <1>10, PromiseHeld
  <2> QED BY <2>1, <2>3, <2>4 DEF Promised
<1> QED BY <1>1, <1>2, <1>4, <1>6, <1>7, <1>8, <1>9, <1>10, HandlerStep

-----------------------------------------------------------------------------
(* A node that starts again, and time.                                     *)

LEMMA RestartKeeps ==
  ASSUME RegistrarInv, NEW n \in Registrars, NodeRestarts(n)
  PROVE  RegistrarInv'
<1>1. /\ shared \in BOOLEAN /\ table \in Table
      /\ node \in [Registrars -> NodeState]
      /\ registered.latest \in Nat
      /\ outcome \in [kind : {"unknown", "bound", "removed"},
                      contacts : SUBSET Contacts,
                      alone : Registrars \cup {NoRegistrar}]
      /\ UNCHANGED <<shared, table, registered>>
  BY TypeMeans DEF RegistrarInv, NodeRestarts
<1>2. Fresh \in NodeState /\ Fresh.step = "idle" /\ Fresh.row = NoRow
  <2>1. "idle" \in Steps /\ << >> \in Seq(ContactChanges) /\ {} \in SUBSET Contacts
    BY DEF Steps
  <2> QED BY <2>1, RowTypes, BindingTypes DEF Fresh, NodeState
<1>3. /\ node' \in [Registrars -> NodeState] /\ node'[n] = Fresh
      /\ \A m \in Registrars : m # n => node'[m] = node[m]
  BY <1>1, <1>2 DEF NodeRestarts
<1>4. /\ outcome'.alone = IF outcome.alone = n THEN NoRegistrar ELSE outcome.alone
      /\ outcome'.kind = IF shared THEN outcome.kind ELSE "unknown"
      /\ outcome'.contacts = outcome.contacts
      /\ outcome' \in [kind : {"unknown", "bound", "removed"},
                       contacts : SUBSET Contacts,
                       alone : Registrars \cup {NoRegistrar}]
  BY <1>1 DEF NodeRestarts
<1>5. RegistrarTypeOK'
  BY <1>1, <1>3, <1>4 DEF RegistrarInv, RegistrarTypeOK, NodeState, ContactChanges
<1>6. OneNode' BY <1>1, <1>2, <1>3 DEF RegistrarInv, RouteInv, OneNode
<1>7. Stamped'
  <2>1. NoRow.stamp <= registered.latest BY <1>1, RowTypes
  <2> QED BY <1>1, <1>2, <1>3, <2>1 DEF RegistrarInv, RouteInv, Stamped
<1>8. Alone'
  BY <1>2, <1>3, <1>4, RegistrarAssumption DEF RegistrarInv, RouteInv, Alone
<1>9. ASSUME NEW m \in Registrars, outcome'.alone = m PROVE Working(m)'
  <2>1. m # n /\ outcome.alone = m BY <1>4, <1>9, RegistrarAssumption
  <2>2. Working(m) BY <2>1 DEF RegistrarInv, RouteInv
  <2> QED BY <1>1, <1>3, <1>4, <2>1, <2>2 DEF Working, Decided
<1>10. Kept'
  <2> SUFFICES ASSUME outcome'.kind # "unknown"
               PROVE  /\ \A m \in Registrars : node'[m].step = "idle"
                      /\ Promised(Routed.contact)'
    BY DEF Kept
  <2>1. shared /\ outcome.kind # "unknown" /\ outcome'.kind = outcome.kind
    BY <1>4
  <2>2. /\ \A m \in Registrars : node[m].step = "idle"
        /\ Promised(Routed.contact)
    BY <2>1 DEF RegistrarInv, RouteInv, Kept
  <2>3. Routed' = Routed BY <1>1, <2>1 DEF Routed
  <2> QED BY <1>2, <1>3, <1>4, <2>1, <2>2, <2>3 DEF Promised
<1> QED BY <1>5, <1>6, <1>7, <1>8, <1>9, <1>10 DEF RegistrarInv, RouteInv

\* Time changes neither a contact nor a stamp, and no handler.
LEMMA ExpiryKeeps ==
  ASSUME RegistrarInv, Expiry
  PROVE  RegistrarInv'
<1>1. /\ shared \in BOOLEAN /\ table \in Table
      /\ node \in [Registrars -> NodeState]
      /\ UNCHANGED <<shared, registered, outcome>>
      /\ outcome.contacts \in SUBSET Contacts
  BY TypeMeans DEF RegistrarInv, Expiry
<1>2. /\ table' \in Table /\ table'.row.contact = table.row.contact
      /\ table'.row.stamp = table.row.stamp
  <2>1. table.row \in Row /\ table.bindings \in [Contacts -> Left]
    BY <1>1 DEF Table
  <2>2. table' = [row |-> AgedRow(table.row), bindings |-> Aged(table.bindings)]
    BY DEF Expiry
  <2> QED BY <2>1, <2>2, RowTypes, BindingTypes DEF Table
<1>3. /\ node' \in [Registrars -> NodeState]
      /\ \A n \in Registrars :
           /\ node'[n].step = node[n].step
           /\ node'[n].accepted = node[n].accepted
           /\ node'[n].row.contact = node[n].row.contact
           /\ node'[n].row.stamp = node[n].row.stamp
           /\ \A c \in Contacts : node[n].bindings[c] = Absent
                                    => node'[n].bindings[c] = Absent
  <2>1. node' = [n \in Registrars |->
                   [node[n] EXCEPT !.row = AgedRow(@), !.bindings = Aged(@)]]
    BY DEF Expiry
  <2>2. ASSUME NEW n \in Registrars
        PROVE  /\ node'[n] \in NodeState
               /\ node'[n].step = node[n].step
               /\ node'[n].accepted = node[n].accepted
               /\ node'[n].row.contact = node[n].row.contact
               /\ node'[n].row.stamp = node[n].row.stamp
               /\ \A c \in Contacts : node[n].bindings[c] = Absent
                                        => node'[n].bindings[c] = Absent
    <3>1. /\ node[n] \in NodeState /\ node[n].row \in Row
          /\ node[n].bindings \in [Contacts -> Left]
      BY <1>1 DEF NodeState
    <3>2. /\ AgedRow(node[n].row) \in Row
          /\ Aged(node[n].bindings) \in [Contacts -> Left]
      BY <3>1, RowTypes, BindingTypes
    <3>3. /\ node'[n] \in NodeState
          /\ node'[n].step = node[n].step
          /\ node'[n].accepted = node[n].accepted
          /\ node'[n].row = AgedRow(node[n].row)
          /\ node'[n].bindings = Aged(node[n].bindings)
      BY <2>1, <3>1, <3>2 DEF NodeState
    <3> QED BY <3>1, <3>3, RowTypes, BindingTypes
  <2> QED BY <2>1, <2>2
<1>4. RegistrarTypeOK'
  BY <1>1, <1>2, <1>3 DEF RegistrarInv, RegistrarTypeOK, NodeState, Table, ContactChanges
<1>5. OneNode' BY <1>1, <1>3 DEF RegistrarInv, RouteInv, OneNode
<1>6. Stamped' BY <1>1, <1>2, <1>3 DEF RegistrarInv, RouteInv, Stamped
<1>7. Alone' BY <1>1, <1>3 DEF RegistrarInv, RouteInv, Alone
<1>8. ASSUME NEW n \in Registrars, outcome'.alone = n PROVE Working(n)'
  <2>1. Working(n) BY <1>1, <1>8 DEF RegistrarInv, RouteInv
  <2> QED BY <1>1, <1>2, <1>3, <2>1 DEF Working, Decided
<1>9. Kept'
  <2>1. Routed'.contact = Routed.contact
    BY <1>1, <1>2, <1>3, SingleIsNode DEF Routed
  <2> QED BY <1>1, <1>3, <2>1 DEF RegistrarInv, RouteInv, Kept, Promised
<1> QED BY <1>4, <1>5, <1>6, <1>7, <1>8, <1>9 DEF RegistrarInv, RouteInv

-----------------------------------------------------------------------------
THEOREM RegistrarInitially == RegistrarInit => RegistrarInv
<1> SUFFICES ASSUME RegistrarInit PROVE RegistrarInv OBVIOUS
<1>1. "idle" \in Steps /\ << >> \in Seq(ContactChanges) /\ {} \in SUBSET Contacts
      /\ NoRow \in Row /\ NoBindings \in [Contacts -> Left]
      /\ NoRow.stamp = 0
  BY RowTypes, BindingTypes DEF Steps
<1>2. Fresh \in NodeState /\ Fresh.step = "idle" /\ Fresh.row = NoRow
  BY <1>1 DEF Fresh, NodeState
<1>3. RegistrarTypeOK
  <2>1. table \in Table BY <1>1 DEF RegistrarInit, Table
  <2>2. node \in [Registrars -> NodeState] BY <1>2 DEF RegistrarInit
  <2>3. /\ registered \in [begun : 0..MaxRegisters, latest : Nat]
        /\ outcome \in [kind : {"unknown", "bound", "removed"},
                        contacts : SUBSET Contacts,
                        alone : Registrars \cup {NoRegistrar}]
        /\ shared \in BOOLEAN
    BY RegistrarAssumption DEF RegistrarInit
  <2> QED BY <2>1, <2>2, <2>3, TypeMeans
<1>4. OneNode /\ Stamped /\ Alone
  BY <1>1, <1>2 DEF RegistrarInit, OneNode, Stamped, Alone
<1>5. Kept /\ \A n \in Registrars : outcome.alone = n => Working(n)
  BY RegistrarAssumption DEF RegistrarInit, Kept
<1> QED BY <1>3, <1>4, <1>5 DEF RegistrarInv, RouteInv

LEMMA RegistrarPreserved == RegistrarInv /\ [RegistrarNext]_registrarVars => RegistrarInv'
<1> SUFFICES ASSUME RegistrarInv, [RegistrarNext]_registrarVars PROVE RegistrarInv' OBVIOUS
<1>1. CASE UNCHANGED registrarVars
  <2>1. RegistrarTypeOK' BY <1>1 DEF registrarVars, RegistrarInv, RegistrarTypeOK
  <2>2. OneNode' /\ Stamped' /\ Alone' /\ Kept'
    BY <1>1 DEF registrarVars, RegistrarInv, RouteInv, OneNode, Stamped, Alone, Kept,
                Promised, Routed
  <2>3. \A n \in Registrars : outcome'.alone = n => Working(n)'
    BY <1>1 DEF registrarVars, RegistrarInv, RouteInv, Working, Decided
  <2> QED BY <2>1, <2>2, <2>3 DEF RegistrarInv, RouteInv
<1>2. CASE RegistrarNext
  BY <1>2, BeginKeeps, ReadKeeps, WildcardKeeps, RemoveContactKeeps,
     AddContactKeeps, BadContactKeeps, ChooseKeeps, SaveRowKeeps,
     SaveBindingKeeps, DeleteRowKeeps, ClearBindingsKeeps, RestartKeeps,
     ExpiryKeeps
  DEF RegistrarNext
<1> QED BY <1>1, <1>2

\* In every reachable state the nodes and the shared tables have their types.
THEOREM RegistrarTypeCorrect == RegistrarSpec => []RegistrarTypeOK
<1>1. RegistrarInv => RegistrarTypeOK BY DEF RegistrarInv
<1> QED BY <1>1, RegistrarInitially, RegistrarPreserved, PTL DEF RegistrarSpec

\* From the 200 to a REGISTER with which no other one interfered until the next
\* REGISTER, every node routes to the best contact it brought or to none, and to
\* no contact it removed.
THEOREM RouteStaysCurrent == RegistrarSpec => []RouteCurrent
<1>1. RegistrarInv => RouteCurrent
  <2> SUFFICES ASSUME RegistrarInv, NEW n \in Routers
               PROVE  /\ outcome.kind = "bound" =>
                           RouteOf(n) \in {Best(outcome.contacts), NoContact}
                      /\ outcome.kind = "removed" =>
                           RouteOf(n) \notin outcome.contacts
    BY DEF RouteCurrent
  <2>1. /\ table \in Table /\ node \in [Registrars -> NodeState]
        /\ outcome.contacts \in SUBSET Contacts
    BY TypeMeans DEF RegistrarInv
  <2>2. Routed \in Row /\ RouteOf(n) = UnexpiredRow(Routed).contact
    BY <2>1, SingleIsNode DEF Routers, Routed, RouteOf, Table, NodeState
  <2>3. RouteOf(n) \in {Routed.contact, NoContact} BY <2>2, RowTypes
  <2>4. NoContact \notin outcome.contacts BY <2>1, RegistrarAssumption
  <2>5. outcome.kind # "unknown" => Promised(Routed.contact)
    BY DEF RegistrarInv, RouteInv, Kept
  <2> QED BY <2>3, <2>4, <2>5 DEF Promised
<1> QED BY <1>1, RegistrarInitially, RegistrarPreserved, PTL DEF RegistrarSpec

NotOlder ==
  table.row # NoRow /\ table'.row # NoRow
    => table'.row.stamp >= table.row.stamp

\* Two nodes that register at once agree on the later registration: whichever
\* saves last, the table does not go back to the older one.
THEOREM LaterStays == RegistrarSpec => LaterRegistrationStays
<1>1. RegistrarInv /\ [RegistrarNext]_registrarVars => [NotOlder]_registrarVars
  <2> SUFFICES ASSUME RegistrarInv, RegistrarNext PROVE NotOlder OBVIOUS
  <2>1. /\ table \in Table /\ table.row \in Row /\ table.row.stamp \in Nat
        /\ node \in [Registrars -> NodeState]
    BY TypeMeans DEF RegistrarInv, Table, Row
  <2>2. ASSUME table'.row.stamp = table.row.stamp PROVE NotOlder
    BY <2>1, <2>2 DEF NotOlder
  <2>3. ASSUME NEW n \in Registrars,
               \/ Read(n) \/ Wildcard(n) \/ BadContact(n) \/ Choose(n)
               \/ NodeRestarts(n)
        PROVE  NotOlder
    BY <2>2, <2>3 DEF Read, Wildcard, BadContact, Choose, NodeRestarts
  <2>4. ASSUME NEW n \in Registrars, NEW request \in Registers,
               Begin(n, request)
        PROVE  NotOlder
    <3>1. table'.row \in {table.row, NoRow}
      BY <2>4 DEF Begin, UnexpiredRow
    <3> QED BY <2>1, <3>1 DEF NotOlder
  <2>5. ASSUME NEW n \in Registrars, RemoveContact(n) \/ AddContact(n)
        PROVE  NotOlder
    <3>1. table'.row = table.row
      BY <2>1, <2>5 DEF RemoveContact, AddContact, BindTable, Table
    <3> QED BY <2>2, <3>1
  <2>6. ASSUME NEW n \in Registrars, SaveBinding(n) \/ ClearBindings(n)
        PROVE  NotOlder
    <3>1. table'.row = table.row
      BY <2>1, <2>6 DEF SaveBinding, ClearBindings, BindTable, Table
    <3> QED BY <2>2, <3>1
  <2>7. ASSUME NEW n \in Registrars, DeleteRow(n) PROVE NotOlder
    <3>1. table'.row = NoRow BY <2>1, <2>7 DEF DeleteRow, Table
    <3> QED BY <3>1 DEF NotOlder
  <2>8. ASSUME NEW n \in Registrars, SaveRow(n) PROVE NotOlder
    <3>1. table'.row = IF Newer(node[n].row) THEN node[n].row ELSE table.row
      BY <2>1, <2>8 DEF SaveRow, Table
    <3> QED BY <2>1, <3>1 DEF NotOlder, Newer
  <2>9. CASE Expiry
    <3>1. table'.row = AgedRow(table.row) BY <2>9 DEF Expiry
    <3> QED BY <2>1, <2>2, <3>1, RowTypes
  <2> QED BY <2>3, <2>4, <2>5, <2>6, <2>7, <2>8, <2>9 DEF RegistrarNext
<1> QED
  BY <1>1, RegistrarInitially, RegistrarPreserved, PTL
  DEF RegistrarSpec, LaterRegistrationStays, NotOlder
=============================================================================
