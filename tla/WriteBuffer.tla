---------------------------- MODULE WriteBuffer ----------------------------
(***************************************************************************)
(* The coalescing, keep-until-acked write buffer of the client             *)
(* (client/src/writebuf.rs).  Every operation runs under one mutex, so it  *)
(* is one step; each is an action on the buffer's variables for a module   *)
(* that composes it with its callers (WriteBack).                          *)
(*                                                                         *)
(* A chunk is the number of the write that was pushed, its length          *)
(* Size[chunk].  Offsets, and how begin_flush orders and merges the chunks *)
(* it hands out, are the subject of module Coalesce.                       *)
(***************************************************************************)
EXTENDS Integers, Sequences, Functions

CONSTANTS Fh,            \* handles
          MaxWrites,     \* bound: the number of writes explored
          Size,          \* the length of each write
          MaxPerHandle,  \* max_per_handle_bytes
          MaxTotal       \* max_total_bytes

Write == 1..MaxWrites

ASSUME BufferParameters ==
    /\ MaxWrites \in Nat
    /\ Size \in [Write -> Nat \ {0}]
    /\ MaxPerHandle \in Nat /\ MaxTotal \in Nat

VARIABLES chunks,   \* chunks[f]: unacknowledged writes of f; <<>> is "no entry"
          sending,  \* sending[f]: a flush of f is in flight
          total     \* total_bytes

bufVars == <<chunks, sending, total>>

\* The length of a set of chunks; a chunk is in one buffer only, and once.
Bytes(S) ==
    LET upTo[w \in 0..MaxWrites] ==
            IF w = 0 THEN 0 ELSE upTo[w - 1] + (IF w \in S THEN Size[w] ELSE 0)
    IN  upTo[MaxWrites]
HardTotal == 2 * MaxTotal
HasBuffered(f) == chunks[f] # <<>>
SaturatingSub(m, n) == IF m >= n THEN m - n ELSE 0

BufInit ==
    /\ chunks = [f \in Fh |-> <<>>]
    /\ sending = [f \in Fh |-> FALSE]
    /\ total = 0

Rejects(w) == total + Size[w] > HardTotal

\* push, when the hard bound admits the chunk.
Push(f, w) ==
    /\ chunks' = [chunks EXCEPT ![f] = Append(@, w)]
    /\ total' = total + Size[w]
    /\ UNCHANGED sending

\* What push tells its caller to flush, in terms of the buffer after the push:
\* this handle, one of the biggest handles (HashMap order picks), or nothing.
FlushAfterPush(f) ==
    IF Bytes(Range(chunks'[f])) >= MaxPerHandle THEN {f}
    ELSE IF total' >= MaxTotal
         THEN {h \in Fh : /\ chunks'[h] # <<>>
                          /\ \A g \in Fh : Bytes(Range(chunks'[g])) <= Bytes(Range(chunks'[h]))}
         ELSE {}

\* Mutant of CanBeginFlush: the sending guard is not consulted.
CanBeginFlushUnguarded(f) == HasBuffered(f)

\* begin_flush returns a batch: all chunks of f, which stay where they are.
CanBeginFlush(f) == ~sending[f] /\ HasBuffered(f)
BeginFlush(f) ==
    /\ sending' = [sending EXCEPT ![f] = TRUE]
    /\ UNCHANGED <<chunks, total>>

\* ack_flush: drop the first n chunks of whatever f has buffered by now.
AckFlush(f, n) ==
    LET take == IF n <= Len(chunks[f]) THEN n ELSE Len(chunks[f]) IN
    /\ chunks' = [chunks EXCEPT ![f] = SubSeq(@, take + 1, Len(@))]
    /\ total' = SaturatingSub(total, Bytes(Range(SubSeq(chunks[f], 1, take))))
    /\ sending' = [sending EXCEPT ![f] = FALSE]

FailFlush(f) ==
    /\ sending' = [sending EXCEPT ![f] = FALSE]
    /\ UNCHANGED <<chunks, total>>

\* Mutant of DropHandle: total_bytes is not reduced.
DropHandleKeepsTotal(f) ==
    /\ chunks' = [chunks EXCEPT ![f] = <<>>]
    /\ sending' = [sending EXCEPT ![f] = FALSE]
    /\ UNCHANGED total

\* drop_handle removes the entry, its sending guard with it.
DropHandle(f) ==
    /\ chunks' = [chunks EXCEPT ![f] = <<>>]
    /\ sending' = [sending EXCEPT ![f] = FALSE]
    /\ total' = SaturatingSub(total, Bytes(Range(chunks[f])))
=============================================================================
