---------------------------- MODULE MCNamespace ----------------------------
(* Symmetry of Namespace: no operation tells one name in the root from another. *)
EXTENDS Namespace, TLC

AnyName == Permutations(Name)
=============================================================================
