-------------------------- MODULE MCCredentialKey --------------------------
(* A small instance of CredentialKey: pids and keys are interchangeable. *)
EXTENDS CredentialKey, TLC

Symmetry == Permutations(Pids) \cup Permutations(Keys)
=============================================================================
