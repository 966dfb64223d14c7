------------------------------ MODULE MCClaims ------------------------------
(* An instance of Claims for TLC. *)
EXTENDS Claims

CONSTANTS p1, w1, w2

MCPositions == {p1}
MCWorkers == {w1, w2}
=============================================================================
