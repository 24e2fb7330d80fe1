---------------------------- MODULE MCSchedSlurm ----------------------------
(* Instances of SchedSlurm for TLC: five machines, so that the partitions are
   0..1 and 2..4, and a job of two machines or more goes to the second. *)
EXTENDS SchedSlurm

CONSTANTS j1, j2, j3, u

MCStatic == {j1, j2, j3}
MCNone == {}
MCOutcomes == {"COMPLETED_SUCCESSFULLY"}
MCUser == {u}
MCAcks == {FALSE}

Kind(n, l) == [res |-> n, long |-> l, user |-> u]

\* One machine in either partition, a part or all of the second partition, the
\* whole cluster (accepted, and too large for the partition) and more than it.
Kinds == <<Kind(1, FALSE), Kind(1, TRUE), Kind(2, FALSE), Kind(3, FALSE),
           Kind(5, FALSE), Kind(6, FALSE)>>

\* The jobs are submitted in any order, so one order of the kinds is enough.
MCWorkloads ==
  {[j \in MCStatic |-> CASE j = j1 -> Kinds[a[1]] [] j = j2 -> Kinds[a[2]] [] j = j3 -> Kinds[a[3]]] :
     a \in {t \in (1 .. 6) \X (1 .. 6) \X (1 .. 6) : t[1] <= t[2] /\ t[2] <= t[3]}}
=============================================================================
