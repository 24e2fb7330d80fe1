------------------------------ MODULE Replicas ------------------------------
(***************************************************************************)
(* What the StorageController promises (src/batsim/storageController.py):  *)
(* every storage holds some datasets, never more than it has room for; a   *)
(* dataset comes to a storage from another one only, and leaves it only    *)
(* while nothing is pinned on it there.                                    *)
(***************************************************************************)
EXTENDS Naturals, Functions

CONSTANTS Dataset, StorageId, Size, Capacity

VARIABLES
  holding,  \* the datasets on each storage
  pinned    \* those that must stay

replicas_vars == <<holding, pinned>>

Room(S, s) == SumFunctionOnSet(Size, S) <= Capacity[s]

ReplicasInit ==
  /\ holding \in [StorageId -> SUBSET Dataset]
  /\ \A s \in StorageId : Room(holding[s], s)
  /\ pinned = [s \in StorageId |-> {}]

Evict(s, D) ==
  /\ D \subseteq holding[s] \ pinned[s]
  /\ holding' = [holding EXCEPT ![s] = @ \ D]
  /\ UNCHANGED pinned

\* A storage that had the dataset before a copy arrives may have lost it since,
\* but some storage has it.
Arrive(s, d) ==
  /\ \E from \in StorageId : d \in holding[from]
  /\ Room(holding[s] \cup {d}, s)
  /\ holding' = [holding EXCEPT ![s] = @ \cup {d}]
  /\ UNCHANGED pinned

Pin(s, d) ==
  /\ d \in holding[s]
  /\ pinned' = [pinned EXCEPT ![s] = @ \cup {d}]
  /\ UNCHANGED holding

Unpin(s, D) ==
  /\ pinned' = [pinned EXCEPT ![s] = @ \ D]
  /\ UNCHANGED holding

ReplicasNext == \E s \in StorageId :
  \/ \E D \in SUBSET Dataset : Evict(s, D) \/ Unpin(s, D)
  \/ \E d \in Dataset : Arrive(s, d) \/ Pin(s, d)

ReplicasSpec == ReplicasInit /\ [][ReplicasNext]_replicas_vars
=============================================================================
