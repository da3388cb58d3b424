----------------------------- MODULE MCShutdown -----------------------------
(* Write sizes for model checking Shutdown. *)
EXTENDS Shutdown

UnitSizes == [w \in Write |-> 1]
=============================================================================
