--------------------------- MODULE MCSecretCache ---------------------------
(***************************************************************************)
(* SecretCache for TLC: requests and places are interchangeable.           *)
(***************************************************************************)
EXTENDS SecretCache, TLC

CacheSymmetry == Permutations(Requests) \cup Permutations(Places)
=============================================================================
