-------------------------- MODULE MCRelayRegistry --------------------------
(* Small instances of RegistryHistory: sessions are interchangeable.        *)
EXTENDS RegistryHistory, TLC

Symmetry == Permutations(Sessions)
=============================================================================
