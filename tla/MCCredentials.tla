---------------------------- MODULE MCCredentials ----------------------------
(* Bounded instances of Credentials for TLC. *)
EXTENDS Credentials, TLC

\* Neither calls nor tokens are told apart.
Symmetry == Permutations(Calls) \cup Permutations(Tokens)
=============================================================================
