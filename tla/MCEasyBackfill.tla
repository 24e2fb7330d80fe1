--------------------------- MODULE MCEasyBackfill ---------------------------
(* Instances of EasyBackfill for TLC: a few jobs on three or four machines. *)
EXTENDS EasyBackfill

CONSTANTS ja, jb, jc, jd, je

FourJobs == {ja, jb, jc, jd}
FiveJobs == FourJobs \cup {je}

Tuple(t) == [j \in Job |-> CASE j = ja -> t[1] [] j = jb -> t[2] [] j = jc -> t[3]
                             [] j = jd -> t[4] [] j = je -> t[5]]

MCDemands   == {Tuple(<<1, 1, 2, 3>>), Tuple(<<1, 1, 4, 1>>), Tuple(<<1, 1, 1, 5>>)}
MCWalltimes == {Tuple(<<1, 2, 2, 1>>), Tuple(<<1, 3, 1, 2>>)}

\* Three jobs of one machine, a head that needs them all, and a long one.
HoleDemands   == {Tuple(<<1, 1, 1, 3, 1>>)}
HoleWalltimes == {Tuple(<<1, 2, 2, 1, 4>>)}
=============================================================================
