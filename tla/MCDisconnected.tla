--------------------------- MODULE MCDisconnected ---------------------------
(***************************************************************************)
(* DisconnectedOperation with one sensor, whose rows share an id when      *)
(* their requests fall in the same second.                                 *)
(***************************************************************************)
EXTENDS DisconnectedOperation

CONSTANT s1

MCSensors == {s1}
=============================================================================
