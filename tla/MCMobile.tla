------------------------------ MODULE MCMobile -------------------------------
(***************************************************************************)
(* AlertPlane with two alerts of one well, which the operator acknowledges *)
(* on the phone.                                                           *)
(***************************************************************************)
EXTENDS AlertPlane

CONSTANTS i1, i2, w1

MCIds == {i1, i2}
MCConditions == {[well |-> w1, rule |-> "high", sensor |-> s] : s \in {"s1", "s2"}}

=============================================================================
