----------------------------- MODULE MCAuditChain -----------------------------
(* Bounded instances of AuditChain for TLC. *)
EXTENDS AuditChain

\* Stewards with the same path are interchangeable.
ProcSymmetry == Permutations(Procs)
=============================================================================
