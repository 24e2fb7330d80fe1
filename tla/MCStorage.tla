----------------------------- MODULE MCStorage ------------------------------
(* An instance of StorageController for TLC: two storages that hold two small
   datasets and a larger one, and exchange them. *)
EXTENDS StorageController

CONSTANTS s1, t1, t2, left, right, small1, small2, large, tag

MCStatic == {s1}
MCDynamic == {t1, t2}
MCStagingJob == <<t1, t2>>
MCStorageId == {left, right}
MCDataset == {small1, small2, large}
MCTag == {tag}
MCOutcomes == {"COMPLETED_SUCCESSFULLY"}
MCAcks == BOOLEAN
MCSize == [d \in MCDataset |-> IF d = large THEN 2 ELSE 1]
MCCapacity == [s \in MCStorageId |-> IF s = left THEN 2 ELSE 3]
MCLoaded == [s \in MCStorageId |-> IF s = left THEN <<small1, small2>> ELSE <<large>>]
=============================================================================
