------------------------------ MODULE MCBatsim ------------------------------
(* Instances of Batsim for TLC. *)
EXTENDS Batsim

CONSTANTS s1, d1

MCStatic == {s1}
MCDynamic == {d1}

\* One way to succeed, and a name Job.State does not have.
MCOutcomes == {"COMPLETED_SUCCESSFULLY", "SOMETHING_ELSE"}
=============================================================================
