----------------------------- MODULE MCLauncher -----------------------------
(* Instances of Launcher for TLC: three jobs, each of one machine up to one
   more than there are. *)
EXTENDS Launcher

CONSTANTS ja, jb, jc

MCJob == {ja, jb, jc}
\* The jobs are submitted in any order, so one order of the sizes is enough.
MCDemands == {[j \in MCJob |-> CASE j = ja -> t[1] [] j = jb -> t[2] [] j = jc -> t[3]] :
  t \in {<<1, 1, 2>>, <<1, 2, 3>>, <<2, 3, 4>>}}
MCSchedulers == {"FillerSched", "FillerSchedWithEvents", "FcfsSchedSleep"}
=============================================================================
