------------------------------- MODULE MCGuard -------------------------------
(* Bounded instances of Guard for TLC. *)
EXTENDS Guard

\* The serving tasks are interchangeable.
TaskSymmetry == Permutations(Tasks)
=============================================================================
