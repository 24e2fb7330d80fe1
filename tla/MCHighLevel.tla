---------------------------- MODULE MCHighLevel ----------------------------
(* An instance of HighLevel for TLC: four jobs on three machines. *)
EXTENDS HighLevel

CONSTANTS ja, jb, jc, jd

Tuple(a, b, c, d) ==
  [j \in Job |-> CASE j = ja -> a [] j = jb -> b [] j = jc -> c [] j = jd -> d]

\* A narrow head, a wide one, and a job that is too large for the platform.
MCDemands   == {Tuple(1, 1, 2, 3), Tuple(1, 2, 2, 4)}
MCWalltimes == {Tuple(2, 1, 1, 2), Tuple(3, 2, 1, 1)}

\* No dependency; a chain; a job that waits for the fourth, too large or not.
MCDependencies == {Tuple({}, {}, {}, {}), Tuple({}, {jc}, {}, {}), Tuple({jd}, {}, {}, {})}
=============================================================================
