----------------------------- MODULE MCFrontDoor -----------------------------
(* Small instances of FrontDoor for TLC. *)
EXTENDS FrontDoor, TLC

CONSTANTS admin, operator, u1, u2, r1, r2, g1, p1

Symmetry == Permutations(Requests) \union Permutations(Users)

=============================================================================
