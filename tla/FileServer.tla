----------------------------- MODULE FileServer -----------------------------
(***************************************************************************)
(* Concurrent Write RPCs on the server (server/src/ops/data.rs,            *)
(* dispatch.rs, writelock.rs): every stream is a task of its own, a write  *)
(* of several frames holds its inode's stripe lock from the first frame to *)
(* the response, and the task is dropped when rpc_timeout expires.         *)
(* Truncations and releases take no stripe.  The clients and the network   *)
(* are modelled by when frames arrive, connections die and calls are given *)
(* up.                                                                     *)
(*                                                                         *)
(* A file is a sequence of blocks, each named after the RPC that wrote it; *)
(* 0 is a hole.  A positioned RPC writes blocks 1..NFrames.                *)
(***************************************************************************)
EXTENDS Integers, Sequences, Functions, FiniteSets

CONSTANTS Rpc,      \* numbers of the Write RPCs explored
          Req,      \* Req[w]: [ino, sess, append, after]; after = 0 or the call on the same file
                    \* that w follows
          NFrames,  \* frames of a Write RPC
          Stripe,   \* Stripe[i]: the stripe of inode i (stripe_for)
          Lossy,    \* bound: the sessions whose connection may be lost
          Closing   \* bound: the handles that may be released

Ino == {Req[w].ino : w \in Rpc}
Sess == {Req[w].sess : w \in Rpc}
StripeOf(w) == Stripe[Req[w].ino]

ASSUME ServerParameters ==
    /\ Rpc \subseteq Nat \ {0} /\ NFrames \in Nat \ {0}
    /\ \A w \in Rpc : /\ Req[w].append \in BOOLEAN
                      /\ Req[w].after \in (Rpc \ {w}) \cup {0}
                      /\ Req[w].after # 0 => Req[Req[w].after].ino = Req[w].ino
    /\ Ino \subseteq DOMAIN Stripe

VARIABLES client,   \* client[w]: "idle", "pending", "acked" or "error"
          arrived,  \* arrived[w]: frames of w in the server's receive buffer
          task,     \* task[w]: "none", "queued" (waiting for or holding the stripe), or how it ended
          written,  \* written[w]: frames written to the file
          ahead,    \* ahead[w]: the tasks before w in the fair queue of its stripe
          handles,  \* <<sess, ino>>: the handles in the sessions' tables
          live,     \* sessions whose connection is up
          file,     \* the blocks of each file
          overtaken \* calls sent before the task of the call they follow had started

vars == <<client, arrived, task, written, ahead, handles, live, file, overtaken>>

Ended == {"ok", "failed", "stale", "dropped"}

Init ==
    /\ client = [w \in Rpc |-> "idle"]
    /\ arrived = [w \in Rpc |-> 0] /\ written = [w \in Rpc |-> 0]
    /\ task = [w \in Rpc |-> "none"]
    /\ ahead = [w \in Rpc |-> {}]
    /\ handles = Sess \X Ino /\ live = Sess
    /\ file = [i \in Ino |-> <<>>]
    /\ overtaken = {}

-----------------------------------------------------------------------------
(* Clients and network. *)

\* A client sends its next write only when the previous one is over for it.
Send(w) ==
    LET prev == Req[w].after IN
    /\ client[w] = "idle" /\ Req[w].sess \in live
    /\ prev # 0 => client[prev] \in {"acked", "error"}
    /\ client' = [client EXCEPT ![w] = "pending"]
    /\ overtaken' = IF prev # 0 /\ task[prev] = "none" THEN overtaken \cup {w} ELSE overtaken
    /\ UNCHANGED <<arrived, task, written, ahead, handles, live, file>>

FrameArrives(w) ==
    /\ client[w] # "idle" /\ Req[w].sess \in live
    /\ arrived[w] < NFrames
    /\ arrived' = [arrived EXCEPT ![w] = @ + 1]
    /\ UNCHANGED <<client, task, written, ahead, handles, live, file, overtaken>>

\* The response reaches the client, or the client's deadline or the loss of the
\* connection ends the call.
Respond(w) ==
    /\ client[w] = "pending"
    /\ \/ task[w] = "ok" /\ Req[w].sess \in live /\ client' = [client EXCEPT ![w] = "acked"]
       \/ client' = [client EXCEPT ![w] = "error"]
    /\ UNCHANGED <<arrived, task, written, ahead, handles, live, file, overtaken>>

ConnLost(s) ==
    /\ s \in live \cap Lossy
    /\ live' = live \ {s}
    /\ UNCHANGED <<client, arrived, task, written, ahead, handles, file, overtaken>>

-----------------------------------------------------------------------------
(* handle_write. *)

\* The task ends; its guard, held or awaited, is dropped.
End(w, how) ==
    /\ task' = [task EXCEPT ![w] = how]
    /\ ahead' = [v \in Rpc |-> IF v = w THEN {} ELSE ahead[v] \ {w}]

\* The tasks that wait for stripe s or hold it.
Queued(s) == {w \in Rpc : task[w] = "queued" /\ StripeOf(w) = s}

\* The first poll after the first frame arrived: the handle is looked up, and
\* the retained file of a valid one is used from here on; then lock().await.
Start(w) ==
    /\ task[w] = "none" /\ arrived[w] > 0
    /\ IF <<Req[w].sess, Req[w].ino>> \in handles
       THEN /\ task' = [task EXCEPT ![w] = "queued"]
            /\ ahead' = [ahead EXCEPT ![w] = Queued(StripeOf(w))]
       ELSE task' = [task EXCEPT ![w] = "stale"] /\ UNCHANGED ahead
    /\ UNCHANGED <<client, arrived, written, handles, live, file, overtaken>>

\* write_at: O_APPEND writes at the end of the file, others at their offset.
Put(blocks, w, k) ==
    IF Req[w].append THEN Append(blocks, w)
    ELSE [b \in 1..(IF k > Len(blocks) THEN k ELSE Len(blocks)) |->
            IF b = k THEN w ELSE IF b <= Len(blocks) THEN blocks[b] ELSE 0]

\* Mutant of Holds: the stripe is not consulted.
HoldsNothing(w) == task[w] = "queued"

Holds(w) == task[w] = "queued" /\ ahead[w] = {}

\* One frame that has arrived is written: seek and write_all under the file lock.
WriteFrame(w) ==
    /\ Holds(w) /\ written[w] < arrived[w]
    /\ written' = [written EXCEPT ![w] = @ + 1]
    /\ file' = [file EXCEPT ![Req[w].ino] = Put(@, w, written[w] + 1)]
    /\ UNCHANGED <<client, arrived, task, ahead, handles, live, overtaken>>

\* write_all fails, after writing some of the frame or nothing.
WriteFails(w) ==
    /\ Holds(w) /\ written[w] < arrived[w]
    /\ \/ /\ written' = [written EXCEPT ![w] = @ + 1]
          /\ file' = [file EXCEPT ![Req[w].ino] = Put(@, w, written[w] + 1)]
       \/ UNCHANGED <<written, file>>
    /\ End(w, "failed")
    /\ UNCHANGED <<client, arrived, handles, live, overtaken>>

\* The last frame is written: the response, then the guard is dropped.
Finish(w) ==
    /\ Holds(w) /\ written[w] = NFrames
    /\ End(w, "ok")
    /\ UNCHANGED <<client, arrived, written, handles, live, file, overtaken>>

\* read_frame fails: the connection is lost or the client has given up, and no
\* received frame is left.
StreamEnds(w) ==
    /\ Holds(w) /\ written[w] = arrived[w] /\ written[w] < NFrames
    /\ Req[w].sess \notin live \/ client[w] = "error"
    /\ End(w, "failed")
    /\ UNCHANGED <<client, arrived, written, handles, live, file, overtaken>>

\* Mutant of Timeout: only a task that has the lock is timed out.
TimeoutHolder(w) ==
    /\ Holds(w) /\ written[w] = NFrames
    /\ End(w, "dropped")
    /\ UNCHANGED <<client, arrived, written, handles, live, file, overtaken>>

\* dispatch_stream: rpc_timeout drops the task at whatever it awaits.
Timeout(w) ==
    /\ task[w] = "queued"
    /\ End(w, "dropped")
    /\ UNCHANGED <<client, arrived, written, handles, live, file, overtaken>>

-----------------------------------------------------------------------------
(* What other RPCs do meanwhile, without the stripe. *)

\* handle_release: the table forgets the handle; running writes keep the file.
Release(s, i) ==
    /\ <<s, i>> \in handles \cap Closing /\ s \in live
    /\ handles' = handles \ {<<s, i>>}
    /\ UNCHANGED <<client, arrived, task, written, ahead, live, file, overtaken>>

\* handle_setattr with a size of zero.
Truncate(i) ==
    /\ file[i] # <<>>
    /\ file' = [file EXCEPT ![i] = <<>>]
    /\ UNCHANGED <<client, arrived, task, written, ahead, handles, live, overtaken>>

TaskStep(w) ==
    Start(w) \/ WriteFrame(w) \/ WriteFails(w) \/ Finish(w) \/ StreamEnds(w) \/ Timeout(w)

Next ==
    \/ \E w \in Rpc : Send(w) \/ FrameArrives(w) \/ Respond(w) \/ TaskStep(w)
    \/ \E s \in Sess : ConnLost(s) \/ \E i \in Ino : Release(s, i)
    \/ \E i \in Ino : Truncate(i)

Spec == Init /\ [][Next]_vars

\* The runtime polls every task that can go on, and its timer fires.
FairSpec == Spec /\ \A w \in Rpc : WF_vars(TaskStep(w))

-----------------------------------------------------------------------------
(* Types, and the tasks queued for a stripe stand in a line. *)
TypeOK ==
    /\ client \in [Rpc -> {"idle", "pending", "acked", "error"}]
    /\ arrived \in [Rpc -> 0..NFrames] /\ task \in [Rpc -> {"none", "queued"} \cup Ended]
    /\ written \in [Rpc -> 0..NFrames] /\ \A w \in Rpc : written[w] <= arrived[w]
    /\ ahead \in [Rpc -> SUBSET Rpc] /\ \A w \in Rpc : ahead[w] \subseteq Queued(StripeOf(w)) \ {w}
    /\ \A v, w \in Rpc : v # w /\ task[v] = "queued" /\ w \in Queued(StripeOf(v))
            => (v \in ahead[w] <=> w \notin ahead[v])
    /\ handles \subseteq Sess \X Ino /\ live \subseteq Sess
    /\ file \in [Ino -> Seq(Rpc \cup {0})]
    /\ overtaken \subseteq Rpc

Positioned(i) == {w \in Rpc : Req[w].ino = i /\ ~Req[w].append}

(* "a multi-frame write lands as one contiguous unit and cannot be torn
   byte-for-byte by a concurrent writer" (handle_write): when every positioned
   write that touched a file has completed, the blocks they overlap on all
   belong to one of them, whatever sessions they came from. *)
NotTorn ==
    \A i \in Ino :
        (\A w \in Positioned(i) : written[w] > 0 => task[w] = "ok")
            => Cardinality(Range(file[i]) \cap Positioned(i)) <= 1

(* The frames of an O_APPEND write lie next to each other: neither another
   appender nor a positioned write gets between them, whether or not the writes
   complete, and whatever a truncation takes away in between. *)
AppendContiguous ==
    \A i \in Ino : \A j, k \in DOMAIN file[i] :
        j < k /\ file[i][j] = file[i][k] /\ file[i][j] # 0 /\ Req[file[i][j]].append
            => \A m \in j..k : file[i][m] = file[i][j]

(* A write the client gave up and sent again on a new connection cannot come
   back: when the later write is acknowledged, the abandoned one, if its task
   had started by then, is neither writing nor waiting to write. *)
AbandonedIsOver ==
    \A w \in Rpc : client[w] = "acked" /\ w \notin overtaken /\ Req[w].after # 0
        => task[Req[w].after] # "queued"

(* No write waits for ever for a stripe whose holder's client has gone silent:
   the timeout ends every task, and with it its hold on the stripe.  A frame that
   has arrived and a task that has ended stay so, and the RPCs are finitely many:
   from some point on, all those that have begun are over. *)
WriteEnds == <>[](\A w \in Rpc : arrived[w] > 0 => task[w] \in Ended)
=============================================================================
