------------------------------ MODULE Cluster ------------------------------
(***************************************************************************)
(* What a scheduler without resource sharing promises, whatever its        *)
(* policy: a job that asks for more machines than there are is refused, no *)
(* other is; a job starts once, on as many machines as it asks for, and no *)
(* machine works for two jobs at a time.                                   *)
(***************************************************************************)
EXTENDS Naturals, FiniteSets

CONSTANTS Job, Machine

VARIABLES
  demand,   \* how many machines each job asks for; never changes
  status,   \* "new", "waiting", "refused", "running" or "finished"
  held      \* the machines each job runs on

cluster_vars == <<demand, status, held>>

Free == Machine \ UNION {held[j] : j \in Job}

ClusterInit ==
  /\ demand \in [Job -> Nat \ {0}]
  /\ status = [j \in Job |-> "new"]
  /\ held = [j \in Job |-> {}]

Accept(j) ==
  /\ status[j] = "new" /\ demand[j] <= Cardinality(Machine)
  /\ status' = [status EXCEPT ![j] = "waiting"]
  /\ UNCHANGED <<demand, held>>

Refuse(j) ==
  /\ status[j] = "new" /\ demand[j] > Cardinality(Machine)
  /\ status' = [status EXCEPT ![j] = "refused"]
  /\ UNCHANGED <<demand, held>>

Start(j, M) ==
  /\ status[j] = "waiting"
  /\ M \subseteq Free /\ Cardinality(M) = demand[j]
  /\ status' = [status EXCEPT ![j] = "running"]
  /\ held' = [held EXCEPT ![j] = M]
  /\ UNCHANGED demand

Finish(j) ==
  /\ status[j] = "running"
  /\ status' = [status EXCEPT ![j] = "finished"]
  /\ held' = [held EXCEPT ![j] = {}]
  /\ UNCHANGED demand

ClusterNext == \E j \in Job :
  Accept(j) \/ Refuse(j) \/ (\E M \in SUBSET Machine : Start(j, M)) \/ Finish(j)

ClusterSpec == ClusterInit /\ [][ClusterNext]_cluster_vars

-----------------------------------------------------------------------------

ClusterTypeOK ==
  /\ demand \in [Job -> Nat \ {0}]
  /\ status \in [Job -> {"new", "waiting", "refused", "running", "finished"}]
  /\ held \in [Job -> SUBSET Machine]

\* No machine works for two jobs at a time.
Exclusive == \A j, k \in Job : j # k => held[j] \cap held[k] = {}

\* A job holds machines exactly while it runs, and as many as it asked for.
HeldWhileRunning == \A j \in Job :
  IF status[j] = "running" THEN Cardinality(held[j]) = demand[j] ELSE held[j] = {}
=============================================================================
