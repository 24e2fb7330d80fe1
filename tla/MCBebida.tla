------------------------------ MODULE MCBebida ------------------------------
(* Instances of Bebida for TLC: a few jobs on three machines, of which one  *)
(* or two are asked back.                                                   *)
EXTENDS Bebida

MCLoans == {{0}, {1, 2}}

MCDemands == {<<2, 2>>, <<1, 3>>}
MCComposed == {{1, 2}, {1}}

\* No machine is asked back, no job is a sequence.
SimpleDemands  == {<<2, 2>>}
SimpleComposed == {{}}
=============================================================================
