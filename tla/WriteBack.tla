----------------------------- MODULE WriteBack -----------------------------
(***************************************************************************)
(* The client's write-back path (client/src/fuse_ops.rs, mount.rs): the    *)
(* single FUSE thread and the background flush task share the write        *)
(* buffer, the fh-remap and the sticky write errors, and deliver buffered  *)
(* writes to a server whose connection may be lost and re-established.     *)
(*                                                                         *)
(* Every lock section, and every await on an RPC, is a step of its own.    *)
(* An actor has two control variables: pc, its place inside ensure_live,   *)
(* open or an RPC (module HandleRemap), and at, its place in the caller.   *)
(***************************************************************************)
EXTENDS WriteBuffer, FiniteSets

CONSTANTS Actor, Fuse, Background, Reopener, MaxSession,
          AppendFh,    \* handles opened with O_APPEND
          Ops,         \* the FUSE operations explored
          LateWrites,  \* whether a request may be applied after the client gave it up
          DrainLimit,  \* bound: iterations of flush_handle_drain (500 in the code)
          MaxAge,      \* MAX_UNACKED_AGE; the coalescing window is 1
          MaxElapse    \* bound: the time between two ticks of the background task

ASSUME WriteBackParameters ==
    /\ Fuse \in Reopener /\ Reopener \subseteq Actor
    /\ Background \in Actor \ Reopener
    /\ Fh # {} /\ AppendFh \subseteq Fh
    /\ DrainLimit \in Nat \ {0} /\ MaxAge \in Nat /\ MaxElapse \in Nat
    /\ LateWrites \in BOOLEAN

VARIABLES pc, conn, dead, gen, sess, openFiles, issued, fromOpen, cur, afh, sh, call

R == INSTANCE HandleRemap
RemapSpec == R!Spec
rVars == <<pc, conn, dead, gen, sess, openFiles, issued, fromOpen, cur, afh, sh, call>>

VARIABLES
    at,         \* at[a]: where a is in its operation
    op, ofh,    \* the FUSE operation in progress and its handle
    tgt,        \* tgt[a]: the handle a's flush_one works on
    cnt,        \* cnt[a]: sent_count of a's batch
    left,       \* left[a]: chunks of the batch the server has not acknowledged
    genBefore,  \* genBefore[a]: flush_one's gen_before
    attempt,    \* attempt[a]: first or second round of flush_one
    iter,       \* rounds of flush_handle_drain
    firstErr,   \* flush_all_handles has seen an error
    sticky,     \* write_errors
    owed,       \* owed[a]: handles a has dropped but not yet put in write_errors
    todo,       \* todo[a]: handles a task still has to flush
    tooOld,     \* handles the background task still has to age-drop
    age         \* age[w]: ticks since w was queued, capped at MaxAge

\* The server's side, and what the application has been told.
VARIABLES
    committed,  \* writes whose bytes are all in the file
    late,       \* writes of abandoned requests that a handler may still apply
    gone,       \* handles released on the server
    owner,      \* owner[w]: the handle of the w-th acknowledged write
    reported,   \* writes not delivered when flush or fsync reported an error
    flushed,    \* handles on which flush was the last operation
    reply       \* the last reply of the FUSE thread

fuseVars == <<op, ofh, iter, firstErr, reply, flushed>>
flushVars == <<tgt, cnt, left, genBefore, attempt>>
taskVars == <<todo, tooOld, age>>
errVars == <<sticky, owed, reported>>
srvVars == <<committed, late, gone>>
vars == <<rVars, bufVars, at, fuseVars, flushVars, taskVars, errVars, srvVars, owner>>

NoOp == "none"
At(a, l) == at[a] = l /\ owed[a] = {}
Move(a, l) == at' = [at EXCEPT ![a] = l]
Accepted(f) == {w \in DOMAIN owner : owner[w] = f}
Released(f) == f \in issued /\ ~R!Registered(f)
AnyFh == CHOOSE f \in Fh : TRUE
NoReply == [op |-> NoOp, fh |-> AnyFh]

Init ==
    /\ R!Init /\ BufInit
    /\ at = [a \in Actor |-> "idle"]
    /\ op = NoOp /\ ofh = AnyFh /\ iter = 0 /\ firstErr = FALSE /\ flushed = {}
    /\ reply = NoReply
    /\ tgt = [a \in Actor |-> AnyFh]
    /\ cnt = [a \in Actor |-> 0] /\ left = [a \in Actor |-> {}]
    /\ genBefore = [a \in Actor |-> 0]
    /\ attempt = [a \in Actor |-> 1]
    /\ sticky = {} /\ owed = [a \in Actor |-> {}] /\ reported = {}
    /\ todo = [a \in Actor |-> {}] /\ tooOld = {}
    /\ age = [w \in Write |-> 0]
    /\ committed = {} /\ late = {} /\ gone = {} /\ owner = <<>>

-----------------------------------------------------------------------------
(* ensure_live and open, up to the append tail, and sticky errors.         *)

\* Steps inside ensure_live, open and ensure_conn: they touch the remap only.
RemapStep(a) ==
    /\ owed[a] = {}
    /\ \/ R!ReadEntry(a)
       \/ R!OpenRpcOk(a)
       \/ call[a] # "other" /\ R!RpcEnd(a)
       \/ R!Stamp(a)
       \/ R!ConnStep(a)
    /\ UNCHANGED <<bufVars, at, fuseVars, flushVars, taskVars, errVars, srvVars, owner>>

\* A reopened O_APPEND handle: its unacknowledged buffer is dropped.
ReopenTail(a) ==
    /\ owed[a] = {}
    /\ R!ReopenTail(a)
    /\ IF afh[a] \in AppendFh /\ HasBuffered(afh[a])
       THEN DropHandle(afh[a]) /\ owed' = [owed EXCEPT ![a] = {afh[a]}]
       ELSE UNCHANGED <<bufVars, owed>>
    /\ UNCHANGED <<at, fuseVars, flushVars, taskVars, sticky, reported, srvVars, owner>>

\* write_errors.insert after a drop: a separate lock section.
InsertSticky(a) ==
    /\ owed[a] # {}
    /\ sticky' = sticky \cup owed[a]
    /\ owed' = [owed EXCEPT ![a] = {}]
    /\ UNCHANGED <<rVars, bufVars, at, fuseVars, flushVars, taskVars, reported, srvVars, owner>>

-----------------------------------------------------------------------------
(* flush_one(a): up to two attempts to deliver the buffer of tgt[a].       *)

\* flush_one returns; its locals are dead.
FlushReturns(a, err) ==
    /\ cnt' = [cnt EXCEPT ![a] = 0]
    /\ left' = [left EXCEPT ![a] = {}]
    /\ genBefore' = [genBefore EXCEPT ![a] = 0]
    /\ attempt' = [attempt EXCEPT ![a] = 1]
    /\ Move(a, IF err THEN "fl_err" ELSE "fl_ok")
    /\ UNCHANGED tgt

FlushEnsureLive(a) ==
    /\ At(a, "fl_start")
    /\ R!EnsureLive(a, tgt[a])
    /\ Move(a, "fl_live")
    /\ UNCHANGED <<bufVars, fuseVars, flushVars, taskVars, errVars, srvVars, owner>>

\* No live handle: an error only if data is buffered, which stays buffered.
FlushNotLive(a) ==
    /\ At(a, "fl_live") /\ pc[a] = "none"
    /\ R!Return(a)
    /\ FlushReturns(a, HasBuffered(tgt[a]))
    /\ UNCHANGED <<bufVars, fuseVars, taskVars, errVars, srvVars, owner>>

\* begin_flush, and gen_before.  With nothing to send, or with the other actor
\* sending this handle, flush_one returns Ok here.
FlushBegin(a) ==
    /\ At(a, "fl_live") /\ pc[a] = "live"
    /\ R!Return(a)
    /\ \/ /\ CanBeginFlush(tgt[a])
          /\ BeginFlush(tgt[a])
          /\ cnt' = [cnt EXCEPT ![a] = Len(chunks[tgt[a]])]
          /\ left' = [left EXCEPT ![a] = Range(chunks[tgt[a]])]
          /\ genBefore' = [genBefore EXCEPT ![a] = gen]
          /\ Move(a, "fl_send")
          /\ UNCHANGED <<tgt, attempt>>
       \/ /\ ~CanBeginFlush(tgt[a])
          /\ FlushReturns(a, FALSE)
          /\ UNCHANGED bufVars
    /\ UNCHANGED <<fuseVars, taskVars, errVars, srvVars, owner>>

\* conn.write for the next coalesced run of the batch.
SendRun(a) ==
    /\ At(a, "fl_send") /\ left[a] # {}
    /\ R!OtherRpc(a)
    /\ Move(a, "fl_rpc")
    /\ UNCHANGED <<bufVars, fuseVars, flushVars, taskVars, errVars, srvVars, owner>>

\* The handle a holds is in the handle table of the session its RPC runs on.
HandleResolves(a) == sh[a] = sess[a] /\ tgt[a] \notin gone

\* The server wrote the run and its Ok response arrived.
WriteOk(a) ==
    /\ At(a, "fl_rpc") /\ pc[a] = "rpc"
    /\ sess[a] \notin dead /\ HandleResolves(a)
    /\ \E run \in SUBSET left[a] \ {{}} :
         /\ left' = [left EXCEPT ![a] = @ \ run]
         /\ committed' = committed \cup run
    /\ R!RpcEnd(a)
    /\ Move(a, "fl_send")
    /\ UNCHANGED <<bufVars, fuseVars, tgt, cnt, genBefore, attempt, taskVars, errVars,
                   late, gone, owner>>

\* Mutant of WriteErr: a failed run is sent again, without limit.
WriteErrRetries(a) ==
    /\ At(a, "fl_rpc") /\ pc[a] = "rpc"
    /\ R!RpcEnd(a)
    /\ Move(a, "fl_send")
    /\ UNCHANGED <<bufVars, fuseVars, flushVars, taskVars, errVars, srvVars, owner>>

\* An error: a stale handle, an error status, a lost response or the deadline.
\* Of a run that reached a valid handle the server has written some chunks
\* completely, and may still write others after the client gave up.
WriteErr(a) ==
    /\ At(a, "fl_rpc") /\ pc[a] = "rpc"
    /\ \E whole \in SUBSET left[a] : \E rest \in SUBSET (left[a] \ whole) :
         /\ HandleResolves(a) \/ whole \cup rest = {}
         /\ LateWrites \/ rest = {}
         /\ committed' = committed \cup whole
         /\ late' = late \cup rest
    /\ R!RpcEnd(a)
    /\ Move(a, "fl_fail")
    /\ UNCHANGED <<bufVars, fuseVars, flushVars, taskVars, errVars, gone, owner>>

\* No connection within the deadline.
WriteNoConn(a) ==
    /\ At(a, "fl_rpc") /\ pc[a] = "none"
    /\ R!Return(a)
    /\ Move(a, "fl_fail")
    /\ UNCHANGED <<bufVars, fuseVars, flushVars, taskVars, errVars, srvVars, owner>>

FlushAck(a) ==
    /\ At(a, "fl_send") /\ left[a] = {}
    /\ AckFlush(tgt[a], cnt[a])
    /\ FlushReturns(a, FALSE)
    /\ UNCHANGED <<rVars, fuseVars, taskVars, errVars, srvVars, owner>>

\* Mutant of FlushFail: an append is kept and retried like a positioned write.
FlushFailKeepsAppend(a) ==
    LET again == a \in Reopener /\ gen # genBefore[a] /\ attempt[a] = 1 IN
    /\ At(a, "fl_fail")
    /\ FailFlush(tgt[a])
    /\ IF again
       THEN /\ attempt' = [attempt EXCEPT ![a] = 2]
            /\ Move(a, "fl_start")
            /\ UNCHANGED <<tgt, cnt, left, genBefore>>
       ELSE FlushReturns(a, TRUE)
    /\ UNCHANGED <<rVars, fuseVars, taskVars, errVars, srvVars, owner>>

\* A failed send: an append buffer is dropped, a positioned one kept; a second
\* attempt only if a reconnect happened meanwhile and this actor may reopen.
FlushFail(a) ==
    LET again == a \in Reopener /\ gen # genBefore[a] /\ attempt[a] = 1 IN
    /\ At(a, "fl_fail")
    /\ \/ /\ tgt[a] \in AppendFh /\ R!Registered(tgt[a])
          /\ DropHandle(tgt[a])
          /\ owed' = [owed EXCEPT ![a] = {tgt[a]}]
          /\ FlushReturns(a, TRUE)
       \/ /\ ~(tgt[a] \in AppendFh /\ R!Registered(tgt[a]))
          /\ FailFlush(tgt[a])
          /\ IF again
             THEN /\ attempt' = [attempt EXCEPT ![a] = 2]
                  /\ Move(a, "fl_start")
                  /\ UNCHANGED <<tgt, cnt, left, genBefore>>
             ELSE FlushReturns(a, TRUE)
          /\ UNCHANGED owed
    /\ UNCHANGED <<rVars, fuseVars, taskVars, sticky, reported, srvVars, owner>>

FlushStep(a) ==
    \/ FlushEnsureLive(a) \/ FlushNotLive(a) \/ FlushBegin(a) \/ SendRun(a)
    \/ WriteOk(a) \/ WriteErr(a) \/ WriteNoConn(a) \/ FlushAck(a) \/ FlushFail(a)

\* Entering flush_one for handle f.
StartFlush(a, f) ==
    /\ tgt' = [tgt EXCEPT ![a] = f]
    /\ attempt' = [attempt EXCEPT ![a] = 1]
    /\ Move(a, "fl_start")
    /\ UNCHANGED <<cnt, left, genBefore>>

-----------------------------------------------------------------------------
(* The FUSE thread: one operation at a time.                               *)

Begin(o, f) ==
    /\ At(Fuse, "idle") /\ pc[Fuse] = "idle" /\ o \in Ops
    /\ op' = o /\ ofh' = f
    /\ reply' = NoReply

\* The reply to the operation, which ends it.  Only an Ok that promises
\* something about earlier writes is kept.
Reply(ok) ==
    /\ reply' = IF ok /\ op \in {"flush", "fsync", "read"}
                THEN [op |-> op, fh |-> ofh] ELSE NoReply
    /\ op' = NoOp
    /\ Move(Fuse, "idle")
NoReplyYet == UNCHANGED <<reply, op>>

\* open and create: the RPC, then register_open hands out a client handle.
Open ==
    /\ Begin("open", ofh)
    /\ R!Open
    /\ Move(Fuse, "open")
    /\ UNCHANGED <<bufVars, iter, firstErr, flushed, flushVars, taskVars, errVars, srvVars, owner>>

\* Mutant of RegisterOpen: next_client_fh is not advanced.
RegisterOpenReused(f) ==
    /\ At(Fuse, "open") /\ pc[Fuse] = "register"
    /\ openFiles' = [openFiles EXCEPT ![f] = [sh |-> sh[Fuse], gen |-> gen]]
    /\ pc' = [pc EXCEPT ![Fuse] = "live"]
    /\ UNCHANGED <<conn, dead, gen, sess, issued, fromOpen, cur, afh, sh, call>>
    /\ UNCHANGED <<bufVars, at, fuseVars, flushVars, taskVars, errVars, srvVars, owner>>

RegisterOpen(f) ==
    /\ At(Fuse, "open")
    /\ R!RegisterOpen(f)
    /\ UNCHANGED <<bufVars, at, fuseVars, flushVars, taskVars, errVars, srvVars, owner>>

OpenDone ==
    /\ At(Fuse, "open")
    /\ R!Return(Fuse)
    /\ Reply(pc[Fuse] = "live")
    /\ UNCHANGED <<bufVars, ofh, iter, firstErr, flushed, flushVars, taskVars, errVars, srvVars, owner>>

\* write: refresh the handle, then push, whatever became of the refresh.
WriteBegin(f) ==
    /\ Begin("write", f)
    /\ R!Registered(f) /\ Len(owner) < MaxWrites
    /\ R!EnsureLive(Fuse, f)
    /\ Move(Fuse, "w_live")
    /\ flushed' = flushed \ {f}
    /\ UNCHANGED <<bufVars, iter, firstErr, flushVars, taskVars, errVars, srvVars, owner>>

NextWrite == Len(owner) + 1

\* The hard bound refuses the chunk: EIO now, and a sticky error for close.
WriteRejected ==
    /\ At(Fuse, "w_live")
    /\ Rejects(NextWrite)
    /\ R!Return(Fuse)
    /\ sticky' = sticky \cup {ofh}
    /\ Reply(FALSE)
    /\ UNCHANGED <<bufVars, ofh, iter, firstErr, flushed, flushVars, taskVars, owed, reported,
                   srvVars, owner>>

\* The chunk is queued and, past a soft limit, some handle flushed first; the
\* write is acknowledged either way.
WriteQueued ==
    /\ At(Fuse, "w_live")
    /\ ~Rejects(NextWrite)
    /\ R!Return(Fuse)
    /\ Push(ofh, NextWrite)
    /\ owner' = Append(owner, ofh)
    /\ \/ FlushAfterPush(ofh) = {} /\ Reply(TRUE) /\ UNCHANGED flushVars
       \/ \E h \in FlushAfterPush(ofh) : StartFlush(Fuse, h) /\ NoReplyYet
    /\ UNCHANGED <<ofh, iter, firstErr, flushed, taskVars, errVars, srvVars>>

\* read, flush (close), fsync, release and ftruncate start with a flush of the
\* handle.  The kernel sends release after the flush of the last close.
FlushingOps == {"read", "flush", "fsync", "release", "truncate"}
DrainOps == {"flush", "fsync", "release"}

HandleOpBegin(o, f) ==
    /\ Begin(o, f)
    /\ R!Registered(f)
    /\ o = "release" => f \in flushed
    /\ iter' = 1
    /\ StartFlush(Fuse, f)
    /\ UNCHANGED <<rVars, bufVars, firstErr, flushed, taskVars, errVars, srvVars, owner>>

\* After the best-effort flush of a soft limit.
WriteFlushed ==
    /\ At(Fuse, "fl_ok") \/ At(Fuse, "fl_err")
    /\ op = "write"
    /\ Reply(TRUE)
    /\ UNCHANGED <<rVars, bufVars, ofh, iter, firstErr, flushed, flushVars, taskVars, errVars,
                   srvVars, owner>>

\* read and ftruncate: one flush; its error is the operation's.
FlushedOnce ==
    /\ op \in {"read", "truncate"}
    /\ \/ At(Fuse, "fl_err") /\ Reply(FALSE) /\ UNCHANGED rVars
       \/ /\ At(Fuse, "fl_ok") /\ op = "read"
          /\ R!EnsureLive(Fuse, ofh) /\ Move(Fuse, "live") /\ NoReplyYet
       \/ /\ At(Fuse, "fl_ok") /\ op = "truncate"
          /\ R!OtherRpc(Fuse) /\ Move(Fuse, "setattr") /\ NoReplyYet
    /\ UNCHANGED <<bufVars, ofh, iter, firstErr, flushed, flushVars, taskVars, errVars, srvVars, owner>>

\* flush_handle_drain: flush again until nothing is buffered, an error, or the
\* iteration limit, which is an error too.
Drain ==
    LET again == At(Fuse, "fl_ok") /\ HasBuffered(ofh) IN
    /\ op \in DrainOps
    /\ \/ again /\ iter < DrainLimit /\ iter' = iter + 1 /\ StartFlush(Fuse, ofh)
       \/ /\ \/ At(Fuse, "fl_ok") /\ ~HasBuffered(ofh) /\ Move(Fuse, "drained")
             \/ (At(Fuse, "fl_err") \/ (again /\ iter = DrainLimit)) /\ Move(Fuse, "drain_err")
          /\ iter' = 0
          /\ UNCHANGED flushVars
    /\ UNCHANGED <<rVars, bufVars, op, ofh, firstErr, reply, flushed, taskVars, errVars, srvVars, owner>>

\* Mutant of FlushReplyOk: the sticky error is ignored.
DrainedIsOk == at[Fuse] = "drained"

\* flush_reply: an error if the drain failed or a sticky error is set.
FlushReplyOk == at[Fuse] = "drained" /\ ofh \notin sticky
AtSettle == At(Fuse, "drained") \/ At(Fuse, "drain_err")
Undelivered(f) == Accepted(f) \ committed

\* flush and fsync consume the sticky error; fsync goes on to its RPC.
Settle ==
    /\ AtSettle /\ op \in {"flush", "fsync"}
    /\ sticky' = sticky \ {ofh}
    /\ reported' = IF FlushReplyOk THEN reported ELSE reported \cup Undelivered(ofh)
    /\ flushed' = IF op = "flush" THEN flushed \cup {ofh} ELSE flushed
    /\ IF op = "fsync" /\ FlushReplyOk
       THEN R!EnsureLive(Fuse, ofh) /\ Move(Fuse, "live") /\ NoReplyYet
       ELSE Reply(FlushReplyOk) /\ UNCHANGED rVars
    /\ UNCHANGED <<bufVars, ofh, iter, firstErr, flushVars, taskVars, owed, srvVars, owner>>

\* read and fsync on the handle live_handle returned.
LiveHandle ==
    /\ At(Fuse, "live")
    /\ \/ pc[Fuse] = "live" /\ R!OtherRpc(Fuse) /\ Move(Fuse, "data_rpc") /\ NoReplyYet
       \/ pc[Fuse] = "none" /\ R!Return(Fuse) /\ Reply(FALSE)
    /\ UNCHANGED <<bufVars, ofh, iter, firstErr, flushed, flushVars, taskVars, errVars, srvVars, owner>>

\* The outcome of an RPC: Ok is possible only on a connection that is alive.
RpcOutcome(ok) ==
    \/ pc[Fuse] = "rpc" /\ (ok => sess[Fuse] \notin dead) /\ R!RpcEnd(Fuse)
    \/ pc[Fuse] = "none" /\ ~ok /\ R!Return(Fuse)

DataRpcDone(ok) ==
    /\ At(Fuse, "data_rpc")
    /\ RpcOutcome(ok)
    /\ ok => sh[Fuse] = sess[Fuse]
    /\ Reply(ok)
    /\ UNCHANGED <<bufVars, ofh, iter, firstErr, flushed, flushVars, taskVars, errVars, srvVars, owner>>

\* The truncation at the server; what it discards is not kept track of.
SetattrDone(ok) ==
    /\ At(Fuse, "setattr")
    /\ RpcOutcome(ok)
    /\ Reply(ok)
    /\ UNCHANGED <<bufVars, ofh, iter, firstErr, flushed, flushVars, taskVars, errVars, srvVars, owner>>

\* release: the sticky error is cleared and the remap entry removed, ...
ReleaseEntry ==
    /\ AtSettle /\ op = "release"
    /\ sticky' = sticky \ {ofh}
    /\ R!Release(ofh)
    /\ Move(Fuse, "rel_drop")
    /\ UNCHANGED <<bufVars, fuseVars, flushVars, taskVars, owed, reported, srvVars, owner>>

\* ... residual chunks are dropped and the server told.
ReleaseDrop ==
    /\ At(Fuse, "rel_drop")
    /\ DropHandle(ofh)
    /\ R!OtherRpc(Fuse)
    /\ Move(Fuse, "rel_rpc")
    /\ UNCHANGED <<fuseVars, flushVars, taskVars, errVars, srvVars, owner>>

ReleaseDone(ok) ==
    /\ At(Fuse, "rel_rpc")
    /\ RpcOutcome(ok)
    /\ gone' = IF ok THEN gone \cup {ofh} ELSE gone
    /\ Reply(TRUE)
    /\ UNCHANGED <<bufVars, ofh, iter, firstErr, flushed, flushVars, taskVars, errVars, committed,
                   late, owner>>

\* get_stat: flush_all_handles when anything is buffered, then the getattr RPC.
\* The stat is cached only if every flush returned Ok.
StatBegin ==
    /\ Begin("stat", ofh)
    /\ firstErr' = FALSE
    /\ todo' = [todo EXCEPT ![Fuse] = IF total > 0 THEN {f \in Fh : HasBuffered(f)} ELSE {}]
    /\ Move(Fuse, "all")
    /\ UNCHANGED <<rVars, bufVars, iter, flushed, flushVars, tooOld, age, errVars, srvVars, owner>>

StatFlushNext ==
    /\ At(Fuse, "all")
    /\ \/ \E f \in todo[Fuse] : /\ todo' = [todo EXCEPT ![Fuse] = @ \ {f}]
                                /\ StartFlush(Fuse, f)
                                /\ UNCHANGED rVars
       \/ /\ todo[Fuse] = {}
          /\ R!OtherRpc(Fuse)
          /\ Move(Fuse, "getattr")
          /\ UNCHANGED <<flushVars, todo>>
    /\ UNCHANGED <<bufVars, fuseVars, tooOld, age, errVars, srvVars, owner>>

StatFlushed ==
    /\ At(Fuse, "fl_ok") \/ At(Fuse, "fl_err")
    /\ op = "stat"
    /\ firstErr' = (firstErr \/ at[Fuse] = "fl_err")
    /\ Move(Fuse, "all")
    /\ UNCHANGED <<rVars, bufVars, op, ofh, iter, reply, flushed, flushVars, taskVars, errVars,
                   srvVars, owner>>

StatDone(ok) ==
    /\ At(Fuse, "getattr")
    /\ RpcOutcome(ok)
    /\ Reply(ok /\ ~firstErr)
    /\ UNCHANGED <<bufVars, ofh, iter, firstErr, flushed, flushVars, taskVars, errVars, srvVars, owner>>

FuseContinue ==
    \/ \E f \in Fh : RegisterOpen(f)
    \/ OpenDone \/ WriteRejected \/ WriteQueued \/ WriteFlushed \/ FlushedOnce \/ Drain
    \/ Settle \/ LiveHandle \/ ReleaseEntry \/ ReleaseDrop \/ StatFlushNext \/ StatFlushed
    \/ \E ok \in BOOLEAN : DataRpcDone(ok) \/ SetattrDone(ok) \/ ReleaseDone(ok) \/ StatDone(ok)

FuseBegin ==
    \/ Open \/ StatBegin
    \/ \E f \in Fh : WriteBegin(f) \/ \E o \in FlushingOps : HandleOpBegin(o, f)

-----------------------------------------------------------------------------
(* The background task: age-drop, then the window flush, every tick.       *)

\* Mutant of Older: a strict comparison, which the capped age never satisfies.
OlderStrictly(a) == {f \in Fh : HasBuffered(f) /\ a[Head(chunks[f])] > MaxAge}

Older(a) == {f \in Fh : HasBuffered(f) /\ a[Head(chunks[f])] >= MaxAge}
Expired == {f \in Fh : HasBuffered(f) /\ age[Head(chunks[f])] >= 1}
Buffered == UNION {Range(chunks[f]) : f \in Fh}

\* Time has passed since the last tick: a window, or up to MaxElapse when the
\* previous round was held up by slow RPCs.
Tick ==
    /\ At(Background, "idle")
    /\ \E d \in 1..MaxElapse :
         age' = [w \in Write |-> IF w \notin Buffered THEN 0
                                 ELSE IF age[w] + d > MaxAge THEN MaxAge ELSE age[w] + d]
    /\ tooOld' = Older(age')
    /\ Move(Background, "age")
    /\ UNCHANGED <<rVars, bufVars, fuseVars, flushVars, todo, errVars, srvVars, owner>>

\* Mutant of AgeDrop: the drop leaves no sticky error.
AgeDropSilently(f) ==
    /\ At(Background, "age") /\ f \in tooOld
    /\ tooOld' = tooOld \ {f}
    /\ DropHandle(f)
    /\ UNCHANGED <<rVars, at, fuseVars, flushVars, todo, age, errVars, srvVars, owner>>

AgeDrop(f) ==
    /\ At(Background, "age") /\ f \in tooOld
    /\ tooOld' = tooOld \ {f}
    /\ DropHandle(f)
    /\ owed' = [owed EXCEPT ![Background] = IF HasBuffered(f) THEN {f} ELSE {}]
    /\ UNCHANGED <<rVars, at, fuseVars, flushVars, todo, age, sticky, reported, srvVars, owner>>

WindowScan ==
    /\ At(Background, "age") /\ tooOld = {}
    /\ todo' = [todo EXCEPT ![Background] = Expired]
    /\ Move(Background, "next")
    /\ UNCHANGED <<rVars, bufVars, fuseVars, flushVars, tooOld, age, errVars, srvVars, owner>>

\* Mutant of TaskFlushNext: a handle is flushed again until nothing is buffered.
TaskFlushNextAgain(a, end) ==
    /\ At(a, "next")
    /\ \/ \E f \in todo[a] : HasBuffered(f) /\ StartFlush(a, f) /\ UNCHANGED todo
       \/ (\A f \in todo[a] : ~HasBuffered(f)) /\ Move(a, end) /\ UNCHANGED <<todo, flushVars>>
    /\ UNCHANGED <<rVars, bufVars, fuseVars, tooOld, age, errVars, srvVars, owner>>

\* The loop over handles of a task: flush_one each, errors ignored.
TaskFlushNext(a, end) ==
    /\ At(a, "next")
    /\ \/ \E f \in todo[a] : todo' = [todo EXCEPT ![a] = @ \ {f}] /\ StartFlush(a, f)
       \/ todo[a] = {} /\ Move(a, end) /\ UNCHANGED <<todo, flushVars>>
    /\ UNCHANGED <<rVars, bufVars, fuseVars, tooOld, age, errVars, srvVars, owner>>

TaskFlushed(a) ==
    /\ At(a, "fl_ok") \/ At(a, "fl_err")
    /\ Move(a, "next")
    /\ UNCHANGED <<rVars, bufVars, fuseVars, flushVars, taskVars, errVars, srvVars, owner>>

BackgroundStep ==
    \/ Tick \/ WindowScan
    \/ \E f \in Fh : AgeDrop(f)
    \/ TaskFlushNext(Background, "idle") \/ TaskFlushed(Background)

-----------------------------------------------------------------------------
(* The environment: connections die, late requests are applied.            *)

ConnLost ==
    /\ \E s \in R!Session : R!ConnLost(s) /\ UNCHANGED <<pc, openFiles, issued, fromOpen, cur, afh, sh, call>>
    /\ UNCHANGED <<bufVars, at, fuseVars, flushVars, taskVars, errVars, srvVars, owner>>

LateApply(w) ==
    /\ w \in late
    /\ late' = late \ {w}
    /\ committed' = committed \cup {w}
    /\ UNCHANGED <<rVars, bufVars, at, fuseVars, flushVars, taskVars, errVars, gone, owner>>

SharedStep(a) == RemapStep(a) \/ ReopenTail(a) \/ InsertSticky(a) \/ FlushStep(a)

Progress ==
    \/ \E a \in {Fuse, Background} : SharedStep(a)
    \/ FuseContinue \/ BackgroundStep

Environment == ConnLost \/ \E w \in Write : LateApply(w)

Next == Progress \/ FuseBegin \/ Environment

Spec == Init /\ [][Next]_vars

\* The FUSE thread goes on with the operation it has begun, and the runtime
\* keeps polling the background task; every RPC ends, by its deadline at the
\* latest.  Nothing is assumed of the kernel or of the network.
Fairness ==
    /\ WF_vars(FuseContinue \/ SharedStep(Fuse))
    /\ WF_vars(BackgroundStep \/ SharedStep(Background))

FairSpec == Spec /\ Fairness
-----------------------------------------------------------------------------
(* Properties.                                                             *)

Labels == {"idle", "open", "w_live", "fl_start", "fl_live", "fl_send", "fl_rpc", "fl_fail",
           "fl_ok", "fl_err", "drained", "drain_err", "live", "data_rpc", "setattr", "rel_drop",
           "rel_rpc", "all", "getattr", "age", "next", "exit"}
OpNames == FlushingOps \cup {"open", "write", "stat", NoOp}

\* Nobody has lost track of write w of handle f.
Accounted(w, f) ==
    \/ w \in committed \/ w \in Range(chunks[f]) \/ w \in reported
    \/ f \in sticky \/ \E a \in Actor : f \in owed[a]

(* Positioned writes are kept until acknowledged: a write the application was
   told is accepted is in the file, or still buffered, or its loss has been
   reported by flush or fsync, or the handle carries a sticky error, or the
   actor that dropped it is about to set one.  No interleaving of the FUSE
   thread's and the background task's sends, failures, acknowledgements and
   drops loses track of a write of an open handle. *)
PositionedWriteAccounted ==
    \A w \in DOMAIN owner :
        owner[w] \notin AppendFh /\ ~Released(owner[w]) => Accounted(w, owner[w])

\* No write is buffered twice.
ChunksDistinct ==
    \A f, g \in Fh : \A i \in DOMAIN chunks[f], j \in DOMAIN chunks[g] :
        chunks[f][i] = chunks[g][j] => f = g /\ i = j

(* total_bytes is the number of bytes buffered, no write being buffered twice, and
   stays within the hard bound, also when acknowledgements arrive for a buffer that
   was dropped and refilled in the meantime. *)
BufferBounded ==
    /\ ChunksDistinct
    /\ total = Bytes(Buffered)
    /\ total <= HardTotal

\* Actor a is between begin_flush and ack_flush, fail_flush or the append drop.
Sends(a, f) == tgt[a] = f /\ at[a] \in {"fl_send", "fl_rpc", "fl_fail"}

(* The sending guard: no two actors transmit the same positioned handle's
   chunks at the same time (HandleBuf.sending). *)
SingleSender ==
    \A f \in Fh \ AppendFh : \A a, b \in Actor :
        Sends(a, f) /\ Sends(b, f) /\ ~Released(f) => a = b

(* close() and fsync() "never report success over silently-lost data"
   (flush_reply): after one of them has answered Ok, nothing of the handle is
   merely buffered.  Every accepted write is in the file, or its loss was
   reported before, or the handle has the sticky error for the next close, or
   the background task, which drops a buffer and sets the error in two lock
   sections, is between the two. *)
CloseIsHonest ==
    reply.op \in {"flush", "fsync"} /\ reply.fh \notin AppendFh =>
        \A w \in Accepted(reply.fh) :
            \/ w \in committed \cup reported
            \/ reply.fh \in sticky \/ \E a \in Actor : reply.fh \in owed[a]

(* "a read on a handle that still has buffered (not yet sent) writes must
   observe them": when a read answers Ok, no buffered write of its handle is
   missing from the file. *)
ReadYourWrites ==
    reply.op = "read" => Range(chunks[reply.fh]) \subseteq committed

(* Every operation of the FUSE thread comes to an end: the drain loop, the
   second attempt of flush_one and the reconnect loop are all bounded. *)
OperationEnds == []<>(at[Fuse] = "idle")

(* No accepted write stays in the buffer for ever: it is acknowledged, or
   dropped with a sticky error once it is too old. *)
RetentionBounded == \A w \in Write : []<>(w \notin Buffered)
=============================================================================
