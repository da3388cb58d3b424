---------------------------- MODULE MCWriteBack ----------------------------
(* Write sizes for model checking WriteBack. *)
EXTENDS WriteBack

UnitSizes == [w \in Write |-> 1]

\* With MaxTotal = 2 and MaxPerHandle = 3: the first write is just queued, the
\* second passes the handle's soft limit if the first is still buffered and the
\* global one if not, and the third passes the hard bound.
LimitSizes == <<1, 2, 5>>
=============================================================================
