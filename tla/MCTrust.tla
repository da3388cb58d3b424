------------------------------- MODULE MCTrust -------------------------------
(* Mounts, names and keys are interchangeable. *)
EXTENDS Trust, TLC

Symmetric == Permutations(Mount) \cup Permutations(Host) \cup Permutations(Key)
=============================================================================
