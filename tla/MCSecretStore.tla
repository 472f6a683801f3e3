--------------------------- MODULE MCSecretStore ----------------------------
(* SecretStore for TLC: two callers, two keys, every operation on them. *)
EXTENDS SecretStore, TLC

CallerSymmetry == Permutations(Callers)
=============================================================================
