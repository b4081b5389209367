-------------------------- MODULE DialogOwnership --------------------------
(***************************************************************************)
(* One call in the state that the nodes of an HA group share: the row of   *)
(* dialog_ownership with its lease and epoch (SharedStateStore), the row   *)
(* of b2bua_calls, and what each node keeps of the call in its memory.     *)
(*                                                                         *)
(* Nodes are processes: a statement of one may come between two statements *)
(* of another.  claim_dialog is one transaction and one step here; loading *)
(* the call, claiming it, writing it, sending a packet that was checked    *)
(* and deleting the row are steps of their own.  Within a node, handlers   *)
(* run one at a time, but packets for a stream or for a host name wait in  *)
(* tasks after they were checked.                                          *)
(***************************************************************************)
EXTENDS Integers, FiniteSets

CONSTANTS
  Nodes,
  NoNode,      \* no ownership row yet
  MaxUpdates,  \* bound: changes of the call in all
  MaxEpoch,    \* bound: ownership epochs
  MaxQueued    \* bound: packets a node has checked and not yet sent

ASSUME NodeAssumption == NoNode \notin Nodes
ASSUME BoundAssumption ==
  MaxUpdates \in Nat /\ MaxEpoch \in Nat \ {0} /\ MaxQueued \in Nat \ {0}

VARIABLES
  row,      \* dialog_ownership: owner_node, epoch, expires_at
  epochs,   \* owned_dialog_epochs of each node, 0 when absent
  stored,   \* b2bua_calls: the changes of the call that are saved
  memory,   \* the changes in the call each node keeps, none without a call
  loaded,   \* the call a node has read and not yet claimed
  pc,       \* what each node is in the middle of
  queued,   \* packets checked by _send_packet and not yet sent
  changes,  \* history: changes made so far
  late,     \* history: what a node did since it lost the call
  fenced    \* history: nodes with a call that another node took since

vars == <<row, epochs, stored, memory, loaded, pc, queued, changes, late, fenced>>

Changes == 1..MaxUpdates
Leases == {"fresh", "closing", "expired"}  \* closing: 5 seconds or less left

TypeOK ==
  /\ row \in [owner : Nodes \cup {NoNode}, epoch : 0..MaxEpoch, lease : Leases]
  /\ epochs \in [Nodes -> 0..MaxEpoch]
  /\ stored \in SUBSET Changes
  /\ memory \in [Nodes -> SUBSET Changes]
  /\ loaded \in [Nodes -> SUBSET Changes]
  /\ pc \in [Nodes -> {"idle", "saving", "restoring", "finalizing", "deleting"}]
  /\ queued \in [Nodes -> 0..MaxQueued]
  /\ changes \in 0..MaxUpdates
  /\ late \in [Nodes -> 0..(MaxQueued + 1)]
  /\ fenced \in SUBSET Nodes

Init ==
  /\ row = [owner |-> NoNode, epoch |-> 0, lease |-> "expired"]
  /\ epochs = [n \in Nodes |-> 0]
  /\ stored = {}
  /\ memory = [n \in Nodes |-> {}]
  /\ loaded = [n \in Nodes |-> {}]
  /\ pc = [n \in Nodes |-> "idle"]
  /\ queued = [n \in Nodes |-> 0]
  /\ changes = 0
  /\ late = [n \in Nodes |-> 0]
  /\ fenced = {}

-----------------------------------------------------------------------------
(* claim_dialog and owns_dialog.                                           *)

\* The row names the node, under the epoch the node remembers.
MutantOwns(n) == epochs[n] # 0
Owns(n) == epochs[n] # 0 /\ row.owner = n /\ row.epoch = epochs[n]

\* A node renews what it owns, and otherwise takes what is free, expired or
\* left to it by a takeover, under a new epoch.
MayClaim(n, takeover) ==
  \/ row.owner = NoNode
  \/ Owns(n)
  \/ takeover
  \/ row.lease = "expired"

MutantEpochOf(n) == IF row.owner = n THEN row.epoch ELSE row.epoch + 1
MutantSameEpoch(n) == IF row.owner = NoNode THEN 1 ELSE row.epoch
EpochOf(n) == IF Owns(n) THEN row.epoch ELSE row.epoch + 1

\* The nodes a claim of n leaves with a call that is no longer theirs.
Fenced(n) == fenced \cup {m \in Nodes \ {n} : memory[m] # {}}

Claim(n) ==
  /\ EpochOf(n) <= MaxEpoch
  /\ row' = [owner |-> n, epoch |-> EpochOf(n), lease |-> "fresh"]
  /\ epochs' = [epochs EXCEPT ![n] = EpochOf(n)]
  /\ late' = [late EXCEPT ![n] = 0]

\* owns_dialog, when it holds, renews a lease that is about to end.
Renew == row' = IF row.lease = "fresh" THEN row ELSE [row EXCEPT !.lease = "fresh"]

\* Something a node does to the call: late when the row names it no longer.
Holds(n) == row.owner = n /\ row.epoch = epochs[n]
Acts(n) == late' = IF Holds(n) THEN late ELSE [late EXCEPT ![n] = @ + 1]

-----------------------------------------------------------------------------
(* Handlers that change the call and save it.                              *)

\* A new call, or a change of the call the node has, up to the claim in
\* save_dialog and save_b2bua_call.
Save(n) ==
  /\ pc[n] = "idle"
  /\ memory[n] # {} \/ changes = 0
  /\ changes < MaxUpdates
  /\ MayClaim(n, FALSE)
  /\ Claim(n)
  /\ fenced' = Fenced(n)
  /\ changes' = changes + 1
  /\ memory' = [memory EXCEPT ![n] = @ \cup {changes + 1}]
  /\ pc' = [pc EXCEPT ![n] = "saving"]
  /\ UNCHANGED <<stored, loaded, queued>>

\* The claim raises DialogError; the change stays in the node's memory.
SaveFenced(n) ==
  /\ pc[n] = "idle"
  /\ memory[n] # {}
  /\ changes < MaxUpdates
  /\ ~MayClaim(n, FALSE)
  /\ changes' = changes + 1
  /\ memory' = [memory EXCEPT ![n] = @ \cup {changes + 1}]
  /\ UNCHANGED <<row, epochs, stored, loaded, pc, queued, late, fenced>>

Write(n) ==
  /\ pc[n] = "saving"
  /\ stored' = memory[n]
  /\ Acts(n)
  /\ pc' = [pc EXCEPT ![n] = "idle"]
  /\ UNCHANGED <<row, epochs, memory, loaded, queued, changes, fenced>>

-----------------------------------------------------------------------------
(* Restoring after a failover.                                             *)

\* restore_b2bua_call_state reads the call, then claims it.
Load(n) ==
  /\ pc[n] = "idle"
  /\ memory[n] = {} /\ stored # {}
  /\ loaded' = [loaded EXCEPT ![n] = stored]
  /\ pc' = [pc EXCEPT ![n] = "restoring"]
  /\ UNCHANGED <<row, epochs, stored, memory, queued, changes, late, fenced>>

TakeOver(n) ==
  /\ pc[n] = "restoring"
  /\ MayClaim(n, TRUE)
  /\ Claim(n)
  /\ fenced' = Fenced(n) \ {n}
  /\ memory' = [memory EXCEPT ![n] = loaded[n]]
  /\ loaded' = [loaded EXCEPT ![n] = {}]
  /\ pc' = [pc EXCEPT ![n] = "idle"]
  /\ UNCHANGED <<stored, queued, changes>>

\* restore_dialog_state, for an ACK or BYE that the dialog in memory refuses:
\* the node takes the dialog and keeps the B2BUA call it has.
TakeOverDialog(n) ==
  /\ pc[n] = "idle"
  /\ changes > 0
  /\ memory[n] # {} \/ stored = {}
  /\ MayClaim(n, TRUE)
  /\ Claim(n)
  /\ fenced' = Fenced(n) \ {n}
  /\ UNCHANGED <<stored, memory, loaded, pc, queued, changes>>

-----------------------------------------------------------------------------
(* Packets and the finalizer.                                              *)

\* _send_packet: the packet of a fenced node is dropped here.
Check(n) ==
  /\ pc[n] = "idle" /\ memory[n] # {}
  /\ queued[n] < MaxQueued
  /\ Owns(n)
  /\ Renew
  /\ queued' = [queued EXCEPT ![n] = @ + 1]
  /\ UNCHANGED <<epochs, stored, memory, loaded, pc, changes, late, fenced>>

Send(n) ==
  /\ queued[n] > 0
  /\ queued' = [queued EXCEPT ![n] = @ - 1]
  /\ Acts(n)
  /\ UNCHANGED <<row, epochs, stored, memory, loaded, pc, changes, fenced>>

\* finalize_b2bua_call does nothing on a fenced node, which keeps the call.
Finalize(n) ==
  /\ pc[n] = "idle" /\ memory[n] # {}
  /\ Owns(n)
  /\ Renew
  /\ pc' = [pc EXCEPT ![n] = "finalizing"]
  /\ UNCHANGED <<epochs, stored, memory, loaded, queued, changes, late, fenced>>

\* The media and the admission slot are released, then delete_b2bua_call
\* checks the owner once more.
Release(n) ==
  /\ pc[n] = "finalizing"
  /\ Acts(n)
  /\ memory' = [memory EXCEPT ![n] = {}]
  /\ IF Owns(n)
     THEN Renew /\ pc' = [pc EXCEPT ![n] = "deleting"]
     ELSE UNCHANGED row /\ pc' = [pc EXCEPT ![n] = "idle"]
  /\ UNCHANGED <<epochs, stored, loaded, queued, changes, fenced>>

Delete(n) ==
  /\ pc[n] = "deleting"
  /\ stored' = {}
  /\ Acts(n)
  /\ pc' = [pc EXCEPT ![n] = "idle"]
  /\ UNCHANGED <<row, epochs, memory, loaded, queued, changes, fenced>>

-----------------------------------------------------------------------------
(* The environment.                                                        *)

\* A node stops at any point and starts again with an empty memory.
Restart(n) ==
  /\ epochs' = [epochs EXCEPT ![n] = 0]
  /\ memory' = [memory EXCEPT ![n] = {}]
  /\ loaded' = [loaded EXCEPT ![n] = {}]
  /\ pc' = [pc EXCEPT ![n] = "idle"]
  /\ queued' = [queued EXCEPT ![n] = 0]
  /\ late' = [late EXCEPT ![n] = 0]
  /\ fenced' = fenced \ {n}
  /\ UNCHANGED <<row, stored, changes>>

LeaseRuns ==
  /\ row.lease # "expired"
  /\ row' = [row EXCEPT !.lease = IF @ = "fresh" THEN "closing" ELSE "expired"]
  /\ UNCHANGED <<epochs, stored, memory, loaded, pc, queued, changes, late, fenced>>

Next ==
  \/ LeaseRuns
  \/ \E n \in Nodes :
       \/ Save(n) \/ SaveFenced(n) \/ Write(n)
       \/ Load(n) \/ TakeOver(n) \/ TakeOverDialog(n)
       \/ Check(n) \/ Send(n)
       \/ Finalize(n) \/ Release(n) \/ Delete(n)
       \/ Restart(n)

Spec == Init /\ [][Next]_vars

-----------------------------------------------------------------------------
(* Properties.                                                             *)

\* No two nodes ever remember the same epoch, also not one that was fenced
\* and one that restarted: an epoch is a fencing token.
EpochsDistinct ==
  \A n, m \in Nodes : n # m /\ epochs[n] # 0 => epochs[n] # epochs[m]

\* What a node can still do to a call it has lost is what it had passed the
\* check for: the packets in its queues and the one statement in progress.
Busy(n) == IF pc[n] \in {"saving", "finalizing", "deleting"} THEN 1 ELSE 0
FencedStops ==
  \A n \in Nodes : ~Holds(n) => late[n] + queued[n] + Busy(n) <= MaxQueued + 1

\* A node that lost the call has it again only under an epoch that no node
\* ever had: neither a restart nor a renewal of another node gives it back.
RegainedByNewEpoch ==
  [][\A n \in Nodes : ~Holds(n) /\ Holds(n)' => row'.epoch > row.epoch]_vars

\* "a stale owner cannot send dialog packets": a packet leaves only while the
\* node that checked it owns the call.
OnlyOwnerSends ==
  [][\A n \in Nodes : queued'[n] < queued[n] /\ epochs'[n] = epochs[n]
                        => Holds(n)]_vars

\* "a stale owner cannot ...": a node that another one took the call from does
\* not pass the check until it has restored the call, or at least its dialog.
StaleOwnerFenced ==
  [][\A n \in Nodes : queued'[n] > queued[n] => n \notin fenced]_vars

=============================================================================
