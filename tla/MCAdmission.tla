----------------------------- MODULE MCAdmission -----------------------------
(* Attempts from two addresses, with two keys. *)
EXTENDS Admission
TwoAddresses == <<"x", "x", "y">>
TwoKeys == <<"k", "l", "l">>
=============================================================================
