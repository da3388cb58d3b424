---------------------------- MODULE HandleTable ----------------------------
(***************************************************************************)
(* The server's handle tables (server/src/handles.rs), one per session.    *)
(* Several sessions live side by side, of one client that reconnected or   *)
(* of several; a client may present, on any of them, any id that was ever  *)
(* handed out.  A session is identified with its epoch.                    *)
(***************************************************************************)
EXTENDS HandleIds

VARIABLES past,    \* the epochs of all sessions so far
          live,    \* the epochs of the sessions still held by a connection or a task
          opens,   \* opens[e]: handles issued by session e
          counter, \* counter[e]: the next id of session e
          table,   \* table[e][id]: the file, NoFile where the map has no entry
          issued   \* [epoch, num, file] of every id handed out

vars == <<past, live, opens, counter, table, issued>>

Empty == [id \in Ids |-> NoFile]
Open(e) == {id \in Ids : table[e][id] # NoFile}

\* Some sessions that have just started.
Init ==
    /\ past \in SUBSET Epoch /\ live = past
    /\ opens = [e \in Epoch |-> 0]
    /\ counter = [e \in Epoch |-> IF e \in past THEN Id(e, 1) ELSE 0]
    /\ table = [e \in Epoch |-> Empty]
    /\ issued = {}

\* Mutant of NewSession: the counter restarts at 1 in every session.
NewSessionNoEpoch(e) ==
    /\ e \notin past
    /\ past' = past \cup {e} /\ live' = live \cup {e}
    /\ counter' = [counter EXCEPT ![e] = 1]
    /\ opens' = [opens EXCEPT ![e] = 0]
    /\ table' = [table EXCEPT ![e] = Empty]
    /\ UNCHANGED issued

\* with_limit, for a new connection.  Two sessions draw the same 32-bit random
\* epoch with negligible probability: the model draws without replacement.
NewSession(e) ==
    /\ e \notin past
    /\ past' = past \cup {e} /\ live' = live \cup {e}
    /\ counter' = [counter EXCEPT ![e] = Id(e, 1)]
    /\ opens' = [opens EXCEPT ![e] = 0]
    /\ table' = [table EXCEPT ![e] = Empty]
    /\ UNCHANGED issued

\* The last reference to the session goes: its files are closed.
EndSession(e) ==
    /\ e \in live
    /\ live' = live \ {e}
    /\ table' = [table EXCEPT ![e] = Empty]
    /\ UNCHANGED <<past, opens, counter, issued>>

\* Mutant of Insert: a new handle takes the smallest free number.
InsertReusesIds(e, f) ==
    LET n == CHOOSE n \in 1..(Radix - 1) : /\ table[e][Id(e, n)] = NoFile
                                           /\ \A m \in 1..(n - 1) : table[e][Id(e, m)] # NoFile
    IN
    /\ e \in live
    /\ opens[e] < MaxOpens
    /\ Cardinality(Open(e)) < MaxHandles
    /\ table' = [table EXCEPT ![e][Id(e, n)] = f]
    /\ counter' = [counter EXCEPT ![e] = (@ + 1) % Space]
    /\ opens' = [opens EXCEPT ![e] = @ + 1]
    /\ issued' = issued \cup {[epoch |-> e, num |-> n, file |-> f]}
    /\ UNCHANGED <<past, live>>

\* try_insert below the limit; at the limit it changes nothing.
Insert(e, f) ==
    /\ e \in live
    /\ opens[e] < MaxOpens
    /\ Cardinality(Open(e)) < MaxHandles
    /\ table' = [table EXCEPT ![e][counter[e]] = f]
    /\ counter' = [counter EXCEPT ![e] = (@ + 1) % Space]
    /\ opens' = [opens EXCEPT ![e] = @ + 1]
    /\ issued' = issued \cup {[epoch |-> e, num |-> opens[e] + 1, file |-> f]}
    /\ UNCHANGED <<past, live>>

\* remove in session e, of an id that any session issued.
Remove(e, id) ==
    /\ e \in live
    /\ table' = [table EXCEPT ![e][id] = NoFile]
    /\ UNCHANGED <<past, live, opens, counter, issued>>

Next ==
    \E e \in Epoch :
        \/ NewSession(e) \/ EndSession(e)
        \/ \E f \in File : Insert(e, f)
        \/ \E k \in issued : Remove(e, Id(k.epoch, k.num))

Spec == Init /\ [][Next]_vars

-----------------------------------------------------------------------------
(* An id never resolves to another file than the one it was issued for, in the
   session that issued it or in another one: a stale handle "simply misses the
   table", "never a wrong-file write" (HandleTable). *)
RightFile ==
    \A k \in issued : \A e \in Epoch : table[e][Id(k.epoch, k.num)] \in {NoFile, k.file}

(* What RightFile rests on: a session's counter is in its epoch, whatever is in
   its table was issued by it, and it issues a number once. *)
Provenance ==
    /\ \A e \in past : counter[e] = Id(e, opens[e] + 1)
    /\ \A k \in issued : k.num <= opens[k.epoch]
    /\ \A e \in Epoch : \A id \in Open(e) : \E k \in issued :
            k.epoch = e /\ Id(k.epoch, k.num) = id /\ k.file = table[e][id]
    /\ \A k, l \in issued : k.epoch = l.epoch /\ k.num = l.num => k.file = l.file
=============================================================================
