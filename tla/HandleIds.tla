----------------------------- MODULE HandleIds -----------------------------
(***************************************************************************)
(* The server's handle ids (server/src/handles.rs): a u64 whose high half  *)
(* is the random epoch of the session and whose low half is a counter.     *)
(***************************************************************************)
EXTENDS Integers, FiniteSets

CONSTANTS File, NoFile,
          Radix,       \* 2^32: ids per epoch
          NEpoch,      \* number of epochs
          MaxHandles,  \* max_handles: simultaneously open handles of a session
          MaxOpens     \* bound: opens of one session

ASSUME TableParameters ==
    /\ Radix \in Nat /\ Radix > 1 /\ NEpoch \in Nat \ {0}
    /\ MaxHandles \in Nat /\ MaxOpens \in Nat
    /\ NoFile \notin File

Epoch == 0..(NEpoch - 1)
Space == NEpoch * Radix     \* the ids, u64
Ids == 0..(Space - 1)
Id(e, n) == (e * Radix + n) % Space
=============================================================================
