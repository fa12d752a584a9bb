---------------------------- MODULE MCCommandPlane ----------------------------
(***************************************************************************)
(* CommandPlane on small sets.  The configurations choose which services   *)
(* are up and how many commands, users and faults there are.               *)
(***************************************************************************)
EXTENDS CommandPlane

CONSTANTS ann, bob

MCProcs == Workflow \union Control

\* Two administrators, so that a second person exists; one has 2FA.
MCUsers == {ann, bob}
MCTwoFactorUsers == {ann}

=============================================================================
