--------------------------- MODULE ClosingProofs ---------------------------
(***************************************************************************)
(* What the client promises at the end, of a handle and of a mount, for    *)
(* any number of handles, writes, reconnects and any sizes and limits:     *)
(* close and fsync answer for what they found, and the shutdown delivers   *)
(* what was accepted before the signal, next to the FUSE thread and the    *)
(* background task, without sending an append twice.                       *)
(***************************************************************************)
EXTENDS WriteBackProofs, Shutdown

-----------------------------------------------------------------------------
(* What a step leaves alone. *)

(* Generations are numbers, which no removed entry carries. *)
LEMMA GenTyped ==
  ASSUME gen \in Nat, cur \in [Actor -> Nat], [R!Next]_(R!vars)
  PROVE  gen' \in Nat /\ cur' \in [Actor -> Nat]
<1>1. gen' = gen \/ gen' = gen + 1
  BY Zenon DEF R!Next, R!ActorStep, R!EnsureLive, R!ReadEntry, R!OpenRpcOk, R!OtherRpc, R!RpcEnd, R!Stamp,
     R!ReopenTail, R!Return, R!ConnStep, R!Finish, R!Open, R!RegisterOpen, R!Release, R!UseLiveConn,
     R!FindConnClosed, R!DoConnect, R!BumpGen, R!ReconnectDeadline, R!ConnLost, R!connVars, R!vars
<1>2. \/ cur' = cur
      \/ \E a \in Actor : cur' = [cur EXCEPT ![a] = gen] \/ cur' = [cur EXCEPT ![a] = 0]
  BY Zenon DEF R!Next, R!ActorStep, R!EnsureLive, R!ReadEntry, R!OpenRpcOk, R!OtherRpc, R!RpcEnd, R!Stamp,
     R!ReopenTail, R!Return, R!ConnStep, R!Finish, R!Open, R!RegisterOpen, R!Release, R!remapVars, R!vars
<1>3. 0 \in Nat /\ gen + 1 \in Nat
  OBVIOUS
<1> QED
  BY <1>1, <1>2, <1>3, Zenon

(* Only release takes an entry out of open_files. *)
LEMMA StaysRegistered ==
  ASSUME StateType, gen \in Nat, cur \in [Actor -> Nat], [Next]_vars, ~ReleaseEntry,
         NEW f \in Fh, R!Registered(f)
  PROVE  R!Registered(f)'
<1> USE WriteBackParameters
<1>u. UNCHANGED openFiles => R!Registered(f)'
  BY Zenon DEF R!Registered
<1>1. ASSUME NEW a \in Actor,
             \/ R!ReadEntry(a) \/ R!OpenRpcOk(a) \/ R!OtherRpc(a) \/ R!RpcEnd(a) \/ R!ReopenTail(a)
             \/ R!Return(a) \/ R!ConnStep(a) \/ \E g \in Fh : R!EnsureLive(a, g)
      PROVE  UNCHANGED openFiles
  BY <1>1, Zenon DEF R!EnsureLive, R!ReadEntry, R!OpenRpcOk, R!OtherRpc, R!RpcEnd, R!ReopenTail,
     R!Return, R!ConnStep, R!Finish, R!remapVars
<1>2. ASSUME NEW a \in Actor, R!Stamp(a) PROVE R!Registered(f)'
  <2>1. cur[a] # -1
    <3>1. cur[a] \in Nat
      BY Zenon
    <3> QED
      BY <3>1
  <2>2. [sh |-> sh[a], gen |-> cur[a]] # R!NoEntry
    BY <2>1 DEF R!NoEntry
  <2>3. openFiles' = openFiles \/ openFiles' = [openFiles EXCEPT ![afh[a]] = [sh |-> sh[a], gen |-> cur[a]]]
    BY <1>2, Zenon DEF R!Stamp
  <2> QED
    BY <2>2, <2>3, <1>u, Zenon DEF R!Registered, StateType
<1>3. ASSUME NEW g \in Fh, R!RegisterOpen(g) PROVE R!Registered(f)'
  <2>1. [sh |-> sh[Fuse], gen |-> gen] # R!NoEntry
    BY DEF R!NoEntry
  <2> QED
    BY <1>3, <2>1, Zenon DEF R!RegisterOpen, R!Registered, StateType
<1>4. ASSUME NEW a \in Actor, SharedStep(a) PROVE R!Registered(f)'
  <2>1. CASE RemapStep(a)
    BY <2>1, <1>u, <1>1, <1>2, Zenon DEF RemapStep
  <2>2. CASE ReopenTail(a) \/ InsertSticky(a)
    BY <2>2, <1>u, <1>1, Zenon DEF ReopenTail, InsertSticky, rVars
  <2>3. CASE FlushEnsureLive(a)
    BY <2>3, <1>u, <1>1, Zenon DEF FlushEnsureLive, StateType
  <2>4. CASE FlushNotLive(a) \/ FlushBegin(a) \/ WriteNoConn(a) \/ SendRun(a)
    <3>1. R!Return(a) \/ R!OtherRpc(a)
      BY <2>4, Zenon DEF FlushNotLive, FlushBegin, WriteNoConn, SendRun
    <3> QED
      BY <3>1, <1>u, <1>1, Zenon
  <2>5. CASE WriteOk(a) \/ WriteErr(a)
    BY <2>5, <1>u, <1>1, Zenon DEF WriteOk, WriteErr
  <2>6. CASE FlushAck(a) \/ FlushFail(a)
    BY <2>6, <1>u, Zenon DEF FlushAck, FlushFail, rVars
  <2> QED
    BY <1>4, <2>1, <2>2, <2>3, <2>4, <2>5, <2>6, Zenon DEF SharedStep, FlushStep
<1>5. CASE FuseContinue
  <2>0. ofh \in Fh /\ Fuse \in Actor
    BY Zenon DEF StateType
  <2>1. ASSUME NEW g \in Fh, RegisterOpen(g) PROVE R!Registered(f)'
    BY <2>1, <1>3, Zenon DEF RegisterOpen
  <2>2. CASE OpenDone \/ WriteRejected \/ WriteQueued
    BY <2>0, <2>2, <1>u, <1>1, Zenon DEF OpenDone, WriteRejected, WriteQueued
  <2>3. CASE WriteFlushed \/ Drain \/ StatFlushed
    BY <2>3, <1>u, Zenon DEF WriteFlushed, Drain, StatFlushed, rVars
  <2>4. CASE FlushedOnce \/ Settle
    <3>1. R!EnsureLive(Fuse, ofh) \/ R!OtherRpc(Fuse) \/ UNCHANGED rVars
      BY <2>4, Zenon DEF FlushedOnce, Settle
    <3> QED
      BY <2>0, <3>1, <1>u, <1>1, Zenon DEF rVars
  <2>5. CASE LiveHandle \/ ReleaseDrop \/ StatFlushNext
    <3>1. R!OtherRpc(Fuse) \/ R!Return(Fuse) \/ UNCHANGED rVars
      BY <2>5, Zenon DEF LiveHandle, ReleaseDrop, StatFlushNext
    <3> QED
      BY <2>0, <3>1, <1>u, <1>1, Zenon DEF rVars
  <2>6. ASSUME NEW ok \in BOOLEAN,
               DataRpcDone(ok) \/ SetattrDone(ok) \/ ReleaseDone(ok) \/ StatDone(ok)
        PROVE  R!Registered(f)'
    <3>1. R!RpcEnd(Fuse) \/ R!Return(Fuse)
      BY <2>6, Zenon DEF DataRpcDone, SetattrDone, ReleaseDone, StatDone, RpcOutcome
    <3> QED
      BY <2>0, <3>1, <1>u, <1>1, Zenon
  <2> QED
    BY <1>5, <2>1, <2>2, <2>3, <2>4, <2>5, <2>6, Zenon DEF FuseContinue
<1>6. CASE FuseBegin
  <2>1. Fuse \in Actor
    BY Zenon
  <2>2. UNCHANGED openFiles
    BY <1>6, <2>1, <1>1, Zenon DEF FuseBegin, Open, R!Open, StatBegin, WriteBegin, HandleOpBegin, rVars
  <2> QED
    BY <2>2, <1>u, Zenon
<1>7. CASE BackgroundStep \/ Environment \/ UNCHANGED vars
  BY <1>7, <1>u, Zenon DEF BackgroundStep, Tick, WindowScan, AgeDrop, TaskFlushNext, TaskFlushed,
     Environment, ConnLost, LateApply, rVars, vars
<1> QED
  BY <1>4, <1>5, <1>6, <1>7, Zenon DEF Next, Progress

(* Only a write refills a buffer. *)
LEMMA StaysEmpty ==
  ASSUME StateType, [Next]_vars, ~WriteQueued, NEW f \in Fh, chunks[f] = <<>>
  PROVE  chunks'[f] = <<>>
<1> USE WriteBackParameters
<1>u. UNCHANGED bufVars => chunks'[f] = <<>>
  BY Zenon DEF bufVars
<1>1. ASSUME NEW g, DropHandle(g) \/ FailFlush(g) \/ BeginFlush(g) PROVE chunks'[f] = <<>>
  BY <1>1, Zenon DEF DropHandle, FailFlush, BeginFlush, StateType
<1>2. ASSUME NEW g \in Fh, NEW n \in Nat, AckFlush(g, n) PROVE chunks'[f] = <<>>
  <2> DEFINE take == IF n <= Len(chunks[g]) THEN n ELSE Len(chunks[g])
  <2>1. chunks' = [chunks EXCEPT ![g] = SubSeq(chunks[g], take + 1, Len(chunks[g]))]
    BY <1>2, Zenon DEF AckFlush
  <2>2. CASE g # f
    BY <2>1, <2>2, Zenon DEF StateType
  <2>3. CASE g = f
    <3>1. chunks[g] = <<>> /\ Len(chunks[g]) = 0 /\ take = 0
      BY <2>3
    <3>2. SubSeq(chunks[g], take + 1, Len(chunks[g])) = SubSeq(<<>>, 0 + 1, 0)
      BY <3>1, Zenon
    <3>3. SubSeq(<<>>, 0 + 1, 0) = <<>>
      OBVIOUS
    <3> HIDE DEF take
    <3> QED
      BY <2>1, <2>3, <3>2, <3>3, Zenon DEF StateType
  <2> QED
    BY <2>2, <2>3, Zenon
<1>3. ASSUME NEW a \in Actor, SharedStep(a) PROVE chunks'[f] = <<>>
  <2>1. tgt[a] \in Fh /\ cnt[a] \in Nat
    BY Zenon DEF StateType
  <2>2. CASE FlushAck(a)
    BY <2>1, <2>2, <1>2, Zenon DEF FlushAck
  <2>3. CASE FlushFail(a)
    BY <2>3, <1>1, Zenon DEF FlushFail
  <2>4. CASE FlushBegin(a)
    BY <2>4, <1>u, <1>1, Zenon DEF FlushBegin
  <2>5. CASE ReopenTail(a)
    BY <2>5, <1>u, <1>1, Zenon DEF ReopenTail
  <2> QED
    BY <1>3, <2>2, <2>3, <2>4, <2>5, <1>u, Zenon DEF SharedStep, FlushStep, RemapStep, InsertSticky,
       FlushEnsureLive, FlushNotLive, SendRun, WriteOk, WriteErr, WriteNoConn
<1>4. CASE FuseContinue
  <2>1. CASE ReleaseDrop
    BY <2>1, <1>1, Zenon DEF ReleaseDrop
  <2> QED
    BY <1>4, <2>1, <1>u, Zenon DEF FuseContinue, RegisterOpen, OpenDone, WriteRejected, WriteFlushed,
       FlushedOnce, Drain, Settle, LiveHandle, ReleaseEntry, StatFlushNext, StatFlushed, DataRpcDone,
       SetattrDone, ReleaseDone, StatDone
<1>5. CASE FuseBegin
  BY <1>5, <1>u, Zenon DEF FuseBegin, Open, StatBegin, WriteBegin, HandleOpBegin
<1>6. CASE BackgroundStep \/ Environment \/ UNCHANGED vars
  BY <1>6, <1>u, <1>1, Zenon DEF BackgroundStep, Tick, WindowScan, AgeDrop, TaskFlushNext, TaskFlushed,
     Environment, ConnLost, LateApply, vars
<1> QED
  BY <1>3, <1>4, <1>5, <1>6, Zenon DEF Next, Progress

-----------------------------------------------------------------------------
(* close and fsync.  Where the FUSE thread is tells the operation; once the buffer
   of a handle was found empty nobody refills it before the answer, and the handle
   stays registered. *)
OpOfPlace ==
    /\ at[Fuse] = "open" => op = "open"
    /\ at[Fuse] = "w_live" => op = "write"
    /\ at[Fuse] = "drained" => op \in DrainOps
    /\ at[Fuse] \in {"live", "data_rpc"} => op \in {"read", "fsync"}
    /\ at[Fuse] = "setattr" => op = "truncate"
    /\ at[Fuse] \in {"rel_drop", "rel_rpc"} => op = "release"
    /\ at[Fuse] \in {"all", "getattr"} => op = "stat"

FoundEmpty == at[Fuse] = "drained" \/ (op = "fsync" /\ at[Fuse] \in {"live", "data_rpc"})

Closing ==
    /\ at[Fuse] # "idle" /\ op \in {"flush", "fsync"} => R!Registered(ofh)
    /\ FoundEmpty => chunks[ofh] = <<>>
    /\ reply.op \in {"flush", "fsync"} =>
          at[Fuse] = "idle" /\ reply.fh \in Fh /\ chunks[reply.fh] = <<>> /\ R!Registered(reply.fh)

CloseInv == OpOfPlace /\ Closing

(* The FUSE thread's own steps: one that ends its operation, ... *)
LEMMA Replies ==
  ASSUME StateType, CloseInv, NEW ok \in BOOLEAN, Reply(ok), ofh' = ofh,
         ok /\ op \in {"flush", "fsync"} => chunks'[ofh] = <<>> /\ R!Registered(ofh)'
  PROVE  CloseInv'
<1>0. Fuse \in Actor /\ ofh \in Fh
  BY WriteBackParameters, Zenon DEF StateType
<1>1. at'[Fuse] = "idle"
  BY <1>0, Zenon DEF Reply, Move, StateType
<1>2. NoReply.op = "none" /\ [op |-> op, fh |-> ofh].op = op /\ [op |-> op, fh |-> ofh].fh = ofh
  BY DEF NoReply, NoOp
<1>3. reply'.op \in {"flush", "fsync"} => ok /\ op \in {"flush", "fsync"} /\ reply'.fh = ofh
  BY <1>2, Zenon DEF Reply
<1> QED
  BY <1>0, <1>1, <1>3, Zenon DEF CloseInv, OpOfPlace, Closing, FoundEmpty

(* ... one that goes on with it, ... *)
LEMMA GoesOn ==
  ASSUME StateType, CloseInv, at[Fuse] # "idle", UNCHANGED <<op, ofh, reply>>,
         OpOfPlace',
         op \in {"flush", "fsync"} => R!Registered(ofh)',
         FoundEmpty' => chunks'[ofh] = <<>>
  PROVE  CloseInv'
BY Zenon DEF CloseInv, Closing

(* ... and one that begins it. *)
LEMMA Begins ==
  ASSUME StateType, NEW o \in OpNames, NEW f \in Fh, Begin(o, f),
         at'[Fuse] \in {"open", "w_live", "fl_start", "all"}, OpOfPlace',
         o \in {"flush", "fsync"} => R!Registered(f)'
  PROVE  CloseInv'
<1>1. NoReply.op = "none"
  BY DEF NoReply, NoOp
<1> QED
  BY <1>1, Zenon DEF Begin, CloseInv, Closing, FoundEmpty

(* Whatever the FUSE thread does, an Ok close or fsync leaves an empty buffer. *)
LEMMA FuseCloses ==
  ASSUME StateType, CloseInv, FuseContinue \/ FuseBegin,
         \A f \in Fh : ~ReleaseEntry /\ R!Registered(f) => R!Registered(f)',
         \A f \in Fh : ~WriteQueued /\ chunks[f] = <<>> => chunks'[f] = <<>>
  PROVE  CloseInv'
<1> USE WriteBackParameters
<1>0. Fuse \in Actor /\ ofh \in Fh /\ TRUE \in BOOLEAN /\ FALSE \in BOOLEAN
  BY Zenon DEF StateType
<1>m. ASSUME NEW l, Move(Fuse, l) PROVE at'[Fuse] = l
  BY <1>0, <1>m, Zenon DEF Move, StateType
<1>1. ASSUME NEW f \in Fh, RegisterOpen(f) PROVE CloseInv'
  <2>1. at' = at /\ UNCHANGED <<op, ofh, reply>> /\ at[Fuse] = "open" /\ ~ReleaseEntry /\ op = "open"
    BY <1>1, Zenon DEF RegisterOpen, fuseVars, At, ReleaseEntry, AtSettle, CloseInv, OpOfPlace
  <2> QED
    BY <2>1, GoesOn, Zenon DEF CloseInv, OpOfPlace, FoundEmpty
<1>2. CASE OpenDone \/ WriteRejected \/ WriteFlushed
  <2>1. op \notin {"flush", "fsync"} /\ ofh' = ofh /\ \E ok \in BOOLEAN : Reply(ok)
    BY <1>0, <1>2, Zenon DEF OpenDone, WriteRejected, WriteFlushed, At, CloseInv, OpOfPlace
  <2> QED
    BY <2>1, Replies, Zenon
<1>3. CASE WriteQueued
  <2>1. op = "write" /\ ofh' = ofh /\ at[Fuse] = "w_live"
    BY <1>3, Zenon DEF WriteQueued, At, CloseInv, OpOfPlace
  <2>2. CASE Reply(TRUE)
    BY <1>0, <2>1, <2>2, Replies, Zenon
  <2>3. CASE \E h \in FlushAfterPush(ofh) : StartFlush(Fuse, h) /\ NoReplyYet
    <3>1. at'[Fuse] = "fl_start" /\ UNCHANGED <<op, ofh, reply>>
      BY <2>1, <2>3, <1>m, Zenon DEF StartFlush, NoReplyYet
    <3> QED
      BY <2>1, <3>1, GoesOn, Zenon DEF OpOfPlace, FoundEmpty
  <2> QED
    BY <1>3, <2>2, <2>3, Zenon DEF WriteQueued
<1>4. CASE FlushedOnce
  <2>1. op \in {"read", "truncate"} /\ ofh' = ofh /\ at[Fuse] \in {"fl_ok", "fl_err"}
    BY <1>4, Zenon DEF FlushedOnce, At
  <2>2. CASE Reply(FALSE)
    BY <1>0, <2>1, <2>2, Replies, Zenon
  <2>3. CASE op = "read" /\ Move(Fuse, "live") /\ NoReplyYet
    BY <2>1, <2>3, <1>m, GoesOn, Zenon DEF NoReplyYet, OpOfPlace, FoundEmpty
  <2>4. CASE op = "truncate" /\ Move(Fuse, "setattr") /\ NoReplyYet
    BY <2>1, <2>4, <1>m, GoesOn, Zenon DEF NoReplyYet, OpOfPlace, FoundEmpty
  <2> QED
    BY <1>4, <2>2, <2>3, <2>4, Zenon DEF FlushedOnce
<1>5. CASE Drain
  <2>1. /\ UNCHANGED <<op, ofh, reply, chunks>> /\ op \in DrainOps /\ at[Fuse] \in {"fl_ok", "fl_err"}
        /\ \/ at'[Fuse] \in {"fl_start", "drain_err"}
           \/ at'[Fuse] = "drained" /\ chunks[ofh] = <<>>
    BY <1>5, <1>m, Zenon DEF Drain, StartFlush, At, HasBuffered, bufVars
  <2>2. ~ReleaseEntry
    BY <2>1, Zenon DEF ReleaseEntry, AtSettle, At
  <2>3. op \in {"flush", "fsync"} => R!Registered(ofh)'
    BY <1>0, <2>1, <2>2, Zenon DEF CloseInv, Closing
  <2> QED
    BY <2>1, <2>3, GoesOn, Zenon DEF OpOfPlace, FoundEmpty
<1>6. CASE Settle
  <2>1. /\ UNCHANGED <<ofh, chunks>> /\ op \in {"flush", "fsync"} /\ at[Fuse] \in {"drained", "drain_err"}
        /\ \/ op = "fsync" /\ FlushReplyOk /\ Move(Fuse, "live") /\ NoReplyYet
           \/ Reply(FlushReplyOk)
    BY <1>6, Zenon DEF Settle, AtSettle, At, bufVars
  <2>2. ~ReleaseEntry
    BY <2>1, Zenon DEF ReleaseEntry
  <2>3. R!Registered(ofh)' /\ (FlushReplyOk => chunks'[ofh] = <<>>) /\ FlushReplyOk \in BOOLEAN
    BY <1>0, <2>1, <2>2, Zenon DEF CloseInv, Closing, FoundEmpty, FlushReplyOk
  <2>4. CASE Reply(FlushReplyOk)
    BY <2>1, <2>3, <2>4, Replies, Zenon
  <2>5. CASE op = "fsync" /\ FlushReplyOk /\ Move(Fuse, "live") /\ NoReplyYet
    BY <2>1, <2>3, <2>5, <1>m, GoesOn, Zenon DEF NoReplyYet, OpOfPlace, FoundEmpty
  <2> QED
    BY <2>1, <2>4, <2>5, Zenon
<1>7. CASE LiveHandle
  <2>1. /\ UNCHANGED <<ofh, chunks>> /\ op \in {"read", "fsync"} /\ at[Fuse] = "live"
        /\ (Move(Fuse, "data_rpc") /\ NoReplyYet) \/ Reply(FALSE)
    BY <1>7, Zenon DEF LiveHandle, At, bufVars, CloseInv, OpOfPlace
  <2>2. ~ReleaseEntry
    BY <2>1, Zenon DEF ReleaseEntry
  <2>3. op = "fsync" => R!Registered(ofh)' /\ chunks'[ofh] = <<>>
    BY <1>0, <2>1, <2>2, Zenon DEF CloseInv, Closing, FoundEmpty
  <2>4. CASE Reply(FALSE)
    BY <1>0, <2>1, <2>3, <2>4, Replies, Zenon
  <2>5. CASE Move(Fuse, "data_rpc") /\ NoReplyYet
    BY <2>1, <2>3, <2>5, <1>m, GoesOn, Zenon DEF NoReplyYet, OpOfPlace, FoundEmpty
  <2> QED
    BY <2>1, <2>4, <2>5, Zenon
<1>8. CASE ReleaseEntry \/ ReleaseDrop
  <2>1. op = "release" /\ UNCHANGED <<op, ofh, reply>> /\ at[Fuse] # "idle"
        /\ at'[Fuse] \in {"rel_drop", "rel_rpc"}
    BY <1>8, <1>m, Zenon DEF ReleaseEntry, ReleaseDrop, AtSettle, At, fuseVars, CloseInv, OpOfPlace
  <2> QED
    BY <2>1, GoesOn, Zenon DEF OpOfPlace, FoundEmpty
<1>9. CASE StatFlushNext \/ StatFlushed
  <2>1. op = "stat" /\ UNCHANGED <<op, ofh, reply>> /\ at[Fuse] # "idle"
        /\ at'[Fuse] \in {"fl_start", "getattr", "all"}
    BY <1>9, <1>m, Zenon DEF StatFlushNext, StatFlushed, StartFlush, At, fuseVars, CloseInv, OpOfPlace
  <2> QED
    BY <2>1, GoesOn, Zenon DEF OpOfPlace, FoundEmpty
<1>10. ASSUME NEW ok \in BOOLEAN, DataRpcDone(ok) PROVE CloseInv'
  <2>1. at[Fuse] = "data_rpc" /\ UNCHANGED <<ofh, chunks>> /\ Reply(ok)
    BY <1>10, Zenon DEF DataRpcDone, At, bufVars
  <2>2. op \in {"read", "fsync"} /\ ~ReleaseEntry
    BY <2>1, Zenon DEF CloseInv, OpOfPlace, ReleaseEntry
  <2>3. op = "fsync" => R!Registered(ofh)' /\ chunks'[ofh] = <<>>
    BY <1>0, <2>1, <2>2, Zenon DEF CloseInv, Closing, FoundEmpty
  <2> QED
    BY <2>1, <2>2, <2>3, Replies, Zenon
<1>11. ASSUME NEW ok \in BOOLEAN, SetattrDone(ok) \/ ReleaseDone(ok) \/ StatDone(ok) PROVE CloseInv'
  <2>1. op \in {"truncate", "release", "stat"} /\ ofh' = ofh /\ \E k \in BOOLEAN : Reply(k)
    BY <1>11, <1>0, Zenon DEF SetattrDone, ReleaseDone, StatDone, At, CloseInv, OpOfPlace
  <2> QED
    BY <2>1, Replies, Zenon
<1>12. CASE FuseBegin
  <2>1. CASE Open \/ StatBegin
    <3>1. \E o \in {"open", "stat"} : Begin(o, ofh) /\ at'[Fuse] = IF o = "open" THEN "open" ELSE "all"
      BY <2>1, <1>m, Zenon DEF Open, StatBegin
    <3> QED
      BY <1>0, <3>1, Begins, Zenon DEF Begin, OpOfPlace, OpNames
  <2>2. ASSUME NEW f \in Fh, WriteBegin(f) PROVE CloseInv'
    <3>1. Begin("write", f) /\ at'[Fuse] = "w_live" /\ "write" \in OpNames
      BY <2>2, <1>m, Zenon DEF WriteBegin, OpNames
    <3>2. OpOfPlace'
      BY <3>1, Zenon DEF Begin, OpOfPlace
    <3> QED
      BY <3>1, <3>2, Begins, Zenon
  <2>3. ASSUME NEW f \in Fh, NEW o \in FlushingOps, HandleOpBegin(o, f) PROVE CloseInv'
    <3>1. Begin(o, f) /\ at'[Fuse] = "fl_start" /\ R!Registered(f) /\ ~ReleaseEntry
      BY <2>3, <1>m, Zenon DEF HandleOpBegin, StartFlush, ReleaseEntry, AtSettle, At, Begin
    <3> QED
      BY <3>1, Begins, Zenon DEF OpOfPlace, OpNames
  <2> QED
    BY <1>12, <2>1, <2>2, <2>3, Zenon DEF FuseBegin
<1> QED
  BY <1>1, <1>2, <1>3, <1>4, <1>5, <1>6, <1>7, <1>8, <1>9, <1>10, <1>11, <1>12, ZenonT(60) DEF FuseContinue

CloseTyped == gen \in Nat /\ cur \in [Actor -> Nat]

(* The invariant behind close and fsync is inductive. *)
LEMMA CloseStep == WriteBackInv /\ CloseTyped /\ CloseInv /\ [Next]_vars => CloseTyped' /\ CloseInv'
<1> SUFFICES ASSUME WriteBackInv, CloseTyped, CloseInv, [Next]_vars PROVE CloseTyped' /\ CloseInv'
  BY Zenon
<1>1. StateType
  BY Zenon DEF WriteBackInv
<1>2. CloseTyped'
  BY <1>1, StepRefines, GenTyped, Zenon DEF CloseTyped
<1>3. /\ \A f \in Fh : ~ReleaseEntry /\ R!Registered(f) => R!Registered(f)'
      /\ \A f \in Fh : ~WriteQueued /\ chunks[f] = <<>> => chunks'[f] = <<>>
  BY <1>1, StaysRegistered, StaysEmpty, Zenon DEF CloseTyped
<1>4. CASE FuseContinue \/ FuseBegin
  BY <1>1, <1>2, <1>3, <1>4, FuseCloses, Zenon
<1>5. CASE \/ \E a \in {Fuse, Background} : SharedStep(a)
           \/ BackgroundStep \/ Environment \/ UNCHANGED vars
  <2>1. /\ UNCHANGED <<op, ofh, reply>> /\ ofh \in Fh
        /\ at'[Fuse] = at[Fuse] \/ (at[Fuse] \in Flushing /\ at'[Fuse] \in Flushing)
    BY <1>1, <1>5, OtherSteps, Zenon DEF StateType
  <2>2. Fuse \in Actor
    BY WriteBackParameters, Zenon
  <2>3. ReleaseEntry => at[Fuse] \in {"drained", "drain_err"} /\ at'[Fuse] = "rel_drop"
    BY <1>1, <2>2, Zenon DEF ReleaseEntry, AtSettle, At, Move, StateType
  <2>4. WriteQueued => at[Fuse] = "w_live" /\ at'[Fuse] \in {"idle", "fl_start"}
    BY <1>1, <2>2, Zenon DEF WriteQueued, At, Reply, StartFlush, Move, StateType
  <2>5. ~ReleaseEntry /\ ~WriteQueued
    BY <2>1, <2>3, <2>4, Zenon DEF Flushing
  <2>6. OpOfPlace'
    BY <2>1, Zenon DEF CloseInv, OpOfPlace, Flushing
  <2>7. (FoundEmpty' <=> FoundEmpty) /\ (at'[Fuse] = "idle" <=> at[Fuse] = "idle")
    BY <2>1, Zenon DEF FoundEmpty, Flushing
  <2>8. Closing'
    BY <1>3, <2>1, <2>5, <2>7, Zenon DEF CloseInv, Closing
  <2> QED
    BY <1>2, <2>6, <2>8, Zenon DEF CloseInv
<1> QED
  BY <1>4, <1>5, Zenon DEF Next, Progress

(* A close or an fsync that answered Ok found the buffer of its handle empty, with the
   handle still open; so what it acknowledges is written, reported or still to report. *)
THEOREM CloseHonest == Spec => []CloseIsHonest
<1>1. Init => CloseTyped /\ CloseInv
  <2> SUFFICES ASSUME Init PROVE CloseTyped /\ CloseInv
    BY Zenon
  <2>1. NoReply.op = "none" /\ 0 \in Nat /\ 1 \in Nat /\ Fuse \in Actor
    BY WriteBackParameters DEF NoReply, NoOp
  <2> QED
    BY <2>1, Zenon DEF Init, R!Init, R!ConnInit, R!RemapInit, CloseTyped, CloseInv, OpOfPlace, Closing, FoundEmpty
<1>2. WriteBackInv /\ CloseInv => CloseIsHonest
  <2> SUFFICES ASSUME WriteBackInv, CloseInv, reply.op \in {"flush", "fsync"}, reply.fh \notin AppendFh,
                      NEW w \in Accepted(reply.fh)
               PROVE  \/ w \in committed \cup reported
                      \/ reply.fh \in sticky \/ \E a \in Actor : reply.fh \in owed[a]
    BY Zenon DEF CloseIsHonest
  <2>1. reply.fh \in Fh /\ chunks[reply.fh] = <<>> /\ ~Released(reply.fh)
    BY Zenon DEF CloseInv, Closing, Released
  <2>2. Accounted(w, reply.fh)
    BY <2>1, Zenon DEF WriteBackInv, HandleOK, Accepted
  <2>3. DOMAIN << >> = {}
    OBVIOUS
  <2>4. w \notin Range(chunks[reply.fh])
    BY <2>1, <2>3, Zenon DEF Range
  <2> QED
    BY <2>2, <2>4, Zenon DEF Accounted
<1> QED
  BY <1>1, <1>2, CloseStep, Invariance, PTL DEF Spec
-----------------------------------------------------------------------------
(* The shutdown: the main task is a third sender, next to the FUSE thread and the
   background task.  First, what any step does to the buffer of a handle, ... *)
BufferStep(f) ==
    \/ /\ chunks'[f] = chunks[f]
       /\ sending[f] => sending'[f] \/ ~(f \in AppendFh /\ R!Registered(f))
    \/ chunks'[f] = <<>>
    \/ \E a \in Actor : tgt[a] = f /\ FlushAck(a)
    \/ WriteQueued /\ ofh = f

\* ... to who is sending, ...
SendPlaces == {"fl_send", "fl_rpc", "fl_fail"}
TakesBatch(b) ==
    /\ at[b] = "fl_live" /\ CanBeginFlush(tgt[b])
    /\ chunks' = chunks /\ sending'[tgt[b]] /\ tgt' = tgt
    /\ cnt'[b] = Len(chunks[tgt[b]]) /\ left'[b] = Range(chunks[tgt[b]])
SenderStep ==
    \A b \in Actor : at'[b] \in SendPlaces =>
        \/ at[b] \in SendPlaces /\ tgt'[b] = tgt[b] /\ cnt'[b] = cnt[b]
        \/ TakesBatch(b)

\* ... and to what has become of the writes of a handle.
LedgerStep(f) ==
    /\ committed \subseteq committed' /\ reported \subseteq reported'
    /\ owner' = owner \/ (WriteQueued /\ owner' = Append(owner, ofh))
    /\ \/ Marked(f) => Marked(f)'
       \/ Released(f)'
       \/ \A w \in DOMAIN owner : owner[w] = f => w \in committed' \cup reported'

(* flush_one and ensure_live, whoever runs them. *)
LEMMA SharedFacts ==
  ASSUME StateType, NEW a \in Actor, SharedStep(a), NEW f \in Fh
  PROVE  BufferStep(f) /\ SenderStep /\ LedgerStep(f)
<1> USE WriteBackParameters DEF StateType
<1>b. UNCHANGED bufVars => BufferStep(f)
  BY Zenon DEF BufferStep, bufVars
<1>d. ASSUME NEW g, DropHandle(g) PROVE BufferStep(f)
  BY <1>d, Zenon DEF BufferStep, DropHandle
<1>s. UNCHANGED <<at, tgt, cnt>> => SenderStep
  BY Zenon DEF SenderStep
<1>m. ASSUME NEW l, Move(a, l), l \notin SendPlaces \/ at[a] \in SendPlaces, tgt' = tgt,
             \A b \in Actor : cnt'[b] = cnt[b] \/ (b = a /\ l \notin SendPlaces)
      PROVE  SenderStep
  <2> SUFFICES ASSUME NEW b \in Actor, at'[b] \in SendPlaces
               PROVE  at[b] \in SendPlaces /\ tgt'[b] = tgt[b] /\ cnt'[b] = cnt[b]
    BY Zenon DEF SenderStep
  <2>1. CASE b = a
    BY <1>m, <2>1, Zenon DEF Move
  <2>2. CASE b # a
    BY <1>m, <2>2, Zenon DEF Move
  <2> QED
    BY <2>1, <2>2, Zenon
<1>l. UNCHANGED <<committed, reported, owner, sticky, owed>> => LedgerStep(f)
  BY Zenon DEF LedgerStep, Marked
<1>r. ASSUME NEW err \in BOOLEAN, FlushReturns(a, err) PROVE SenderStep
  <2>1. \E l \in {"fl_ok", "fl_err"} : Move(a, l)
    BY <1>r, Zenon DEF FlushReturns
  <2>2. tgt' = tgt /\ \A b \in Actor : cnt'[b] = cnt[b] \/ b = a
    BY <1>r, Zenon DEF FlushReturns
  <2>3. "fl_ok" \notin SendPlaces /\ "fl_err" \notin SendPlaces
    BY Zenon DEF SendPlaces
  <2> QED
    BY <1>m, <2>1, <2>2, <2>3, Zenon
<1>1. CASE RemapStep(a)
  BY <1>1, <1>b, <1>s, <1>l, Zenon DEF RemapStep, flushVars, errVars, srvVars
<1>2. CASE ReopenTail(a)
  <2>1. /\ UNCHANGED <<at, flushVars, committed, reported, owner, sticky>> /\ owed[a] = {}
        /\ \/ DropHandle(afh[a]) /\ owed' = [owed EXCEPT ![a] = {afh[a]}]
           \/ UNCHANGED <<bufVars, owed>>
    BY <1>2, Zenon DEF ReopenTail, srvVars
  <2>2. Marked(f) => Marked(f)'
    BY <2>1, Zenon DEF Marked
  <2> QED
    BY <2>1, <2>2, <1>b, <1>d, <1>s, Zenon DEF LedgerStep, flushVars
<1>3. CASE InsertSticky(a)
  <2>1. Marked(f) => Marked(f)'
    BY <1>3, Zenon DEF InsertSticky, Marked
  <2> QED
    BY <2>1, <1>3, <1>b, <1>s, Zenon DEF InsertSticky, LedgerStep, flushVars, srvVars
<1>4. CASE FlushEnsureLive(a)
  <2>1. "fl_live" \notin SendPlaces
    BY Zenon DEF SendPlaces
  <2>2. SenderStep
    BY <2>1, <1>4, <1>m, Zenon DEF FlushEnsureLive, flushVars
  <2> QED
    BY <2>2, <1>4, <1>b, <1>l, Zenon DEF FlushEnsureLive, errVars, srvVars
<1>5. CASE FlushNotLive(a)
  <2>1. HasBuffered(tgt[a]) \in BOOLEAN
    BY Zenon DEF HasBuffered
  <2> QED
    BY <2>1, <1>5, <1>b, <1>r, <1>l, Zenon DEF FlushNotLive, errVars, srvVars
<1>6. CASE FlushBegin(a)
  <2>1. LedgerStep(f)
    BY <1>6, <1>l, Zenon DEF FlushBegin, errVars, srvVars
  <2>2. CASE ~CanBeginFlush(tgt[a])
    <3>1. FlushReturns(a, FALSE) /\ UNCHANGED bufVars
      BY <1>6, <2>2, Zenon DEF FlushBegin
    <3> QED
      BY <2>1, <3>1, <1>b, <1>r, Zenon
  <2>3. CASE CanBeginFlush(tgt[a])
    <3>1. /\ BeginFlush(tgt[a]) /\ Move(a, "fl_send") /\ tgt' = tgt /\ at[a] = "fl_live"
          /\ cnt' = [cnt EXCEPT ![a] = Len(chunks[tgt[a]])]
          /\ left' = [left EXCEPT ![a] = Range(chunks[tgt[a]])]
      BY <1>6, <2>3, Zenon DEF FlushBegin, At
    <3>2. chunks' = chunks /\ sending'[tgt[a]] /\ (sending[f] => sending'[f])
      BY <3>1, Zenon DEF BeginFlush
    <3>3. TakesBatch(a)
      BY <2>3, <3>1, <3>2, Zenon DEF TakesBatch
    <3>4. SenderStep
      BY <3>1, <3>3, Zenon DEF SenderStep, Move
    <3> QED
      BY <2>1, <3>2, <3>4, Zenon DEF BufferStep
  <2> QED
    BY <2>2, <2>3, Zenon
<1>7. CASE SendRun(a) \/ WriteNoConn(a)
  <2>1. /\ at[a] \in SendPlaces /\ \E l \in SendPlaces : Move(a, l)
        /\ UNCHANGED <<bufVars, flushVars, errVars, srvVars, owner>>
    BY <1>7, Zenon DEF SendRun, WriteNoConn, At, SendPlaces
  <2>2. SenderStep
    BY <2>1, <1>m, Zenon DEF flushVars
  <2> QED
    BY <2>1, <2>2, <1>b, <1>l, Zenon DEF errVars, srvVars
<1>8. CASE WriteOk(a) \/ WriteErr(a)
  <2>1. /\ at[a] \in SendPlaces /\ \E l \in SendPlaces : Move(a, l)
        /\ UNCHANGED <<bufVars, tgt, cnt, errVars, owner>>
    BY <1>8, Zenon DEF WriteOk, WriteErr, At, SendPlaces, flushVars
  <2>2. committed \subseteq committed'
    BY <1>8, Zenon DEF WriteOk, WriteErr
  <2>3. SenderStep
    BY <2>1, <1>m, Zenon
  <2> QED
    BY <2>1, <2>2, <2>3, <1>b, Zenon DEF LedgerStep, Marked, errVars
<1>9. CASE FlushAck(a)
  <2>1. FlushReturns(a, FALSE) /\ UNCHANGED <<errVars, srvVars, owner>> /\ AckFlush(tgt[a], cnt[a])
    BY <1>9, Zenon DEF FlushAck
  <2>2. BufferStep(f)
    <3>1. CASE tgt[a] = f
      BY <3>1, <1>9, Zenon DEF BufferStep
    <3>2. CASE tgt[a] # f
      BY <2>1, <3>2, Zenon DEF BufferStep, AckFlush
    <3> QED
      BY <3>1, <3>2, Zenon
  <2> QED
    BY <2>1, <2>2, <1>r, <1>l, Zenon DEF errVars, srvVars
<1>10. CASE FlushFail(a)
  <2>1. /\ UNCHANGED <<sticky, reported, srvVars, owner, tgt>> /\ owed[a] = {}
        /\ \/ DropHandle(tgt[a]) /\ owed' = [owed EXCEPT ![a] = {tgt[a]}]
           \/ FailFlush(tgt[a]) /\ ~(tgt[a] \in AppendFh /\ R!Registered(tgt[a])) /\ UNCHANGED owed
        /\ FlushReturns(a, TRUE) \/ (Move(a, "fl_start") /\ UNCHANGED cnt)
    BY <1>10, ZenonT(30) DEF FlushFail, FlushReturns, At
  <2>2. "fl_start" \notin SendPlaces
    BY Zenon DEF SendPlaces
  <2>3. SenderStep
    BY <2>1, <2>2, <1>m, <1>r, Zenon
  <2>4. LedgerStep(f)
    <3>1. Marked(f) => Marked(f)'
      BY <2>1, Zenon DEF Marked
    <3> QED
      BY <2>1, <3>1, Zenon DEF LedgerStep, srvVars
  <2>5. BufferStep(f)
    <3>1. CASE FailFlush(tgt[a]) /\ ~(tgt[a] \in AppendFh /\ R!Registered(tgt[a]))
      BY <3>1, Zenon DEF FailFlush, BufferStep
    <3> QED
      BY <2>1, <3>1, <1>d, Zenon
  <2> QED
    BY <2>3, <2>4, <2>5, Zenon
<1> QED
  BY <1>1, <1>2, <1>3, <1>4, <1>5, <1>6, <1>7, <1>8, <1>9, <1>10, Zenon DEF SharedStep, FlushStep

(* Every step of the FUSE thread, the background task and the network. *)
LEMMA NextFacts ==
  ASSUME StateType, \A w \in DOMAIN owner : owner[w] \in issued, [Next]_vars, NEW f \in Fh
  PROVE  BufferStep(f) /\ SenderStep /\ LedgerStep(f)
<1> USE WriteBackParameters DEF StateType
<1>b. UNCHANGED bufVars => BufferStep(f)
  BY Zenon DEF BufferStep, bufVars
<1>d. ASSUME NEW g, DropHandle(g) PROVE BufferStep(f)
  BY <1>d, Zenon DEF BufferStep, DropHandle
<1>s. UNCHANGED <<at, tgt, cnt>> => SenderStep
  BY Zenon DEF SenderStep
<1>m. ASSUME NEW a \in Actor, NEW l \in Labels \ SendPlaces, Move(a, l), cnt' = cnt,
             \A b \in Actor \ {a} : tgt'[b] = tgt[b]
      PROVE  SenderStep
  BY <1>m, Zenon DEF SenderStep, Move
<1>l. UNCHANGED <<committed, reported, owner, sticky, owed>> => LedgerStep(f)
  BY Zenon DEF LedgerStep, Marked
<1>o. Fuse \in Actor /\ Background \in Actor
  BY Zenon
<1>p. {"idle", "open", "w_live", "fl_start", "fl_live", "fl_ok", "fl_err", "drained", "drain_err", "live",
       "data_rpc", "setattr", "rel_drop", "rel_rpc", "all", "getattr", "age", "next"}
        \subseteq Labels \ SendPlaces
  BY Zenon DEF Labels, SendPlaces
<1>f. ASSUME NEW a \in Actor, NEW g \in Fh, StartFlush(a, g) PROVE SenderStep
  BY <1>f, <1>m, <1>p, Zenon DEF StartFlush
<1>e. ASSUME NEW ok, Reply(ok), UNCHANGED <<tgt, cnt>> PROVE SenderStep
  BY <1>e, <1>m, <1>o, <1>p, Zenon DEF Reply
<1>1. CASE \E a \in {Fuse, Background} : SharedStep(a)
  BY <1>1, <1>o, SharedFacts, Zenon
<1>2. CASE FuseContinue
  <2>1. ASSUME NEW g \in Fh, RegisterOpen(g) PROVE BufferStep(f) /\ SenderStep /\ LedgerStep(f)
    BY <2>1, <1>b, <1>s, <1>l, Zenon DEF RegisterOpen, flushVars, errVars, srvVars
  <2>2. CASE OpenDone \/ WriteFlushed
    BY <2>2, <1>b, <1>e, <1>l, Zenon DEF OpenDone, WriteFlushed, flushVars, errVars, srvVars
  <2>3. CASE WriteRejected
    <3>1. LedgerStep(f)
      BY <2>3, Zenon DEF WriteRejected, LedgerStep, Marked, srvVars
    <3> QED
      BY <2>3, <3>1, <1>b, <1>e, Zenon DEF WriteRejected, flushVars
  <2>4. CASE WriteQueued
    <3>1. SenderStep
      BY <2>4, <1>e, <1>f, <1>o, ZenonT(30) DEF WriteQueued, FlushAfterPush, flushVars
    <3>2. LedgerStep(f)
      BY <2>4, Zenon DEF WriteQueued, LedgerStep, Marked, errVars, srvVars
    <3>3. BufferStep(f)
      <4>1. CASE ofh = f
        BY <2>4, <4>1, Zenon DEF BufferStep
      <4>2. CASE ofh # f
        BY <2>4, <4>2, Zenon DEF BufferStep, WriteQueued, Push
      <4> QED
        BY <4>1, <4>2, Zenon
    <3> QED
      BY <3>1, <3>2, <3>3, Zenon
  <2>5. CASE FlushedOnce \/ LiveHandle
    <3>1. SenderStep
      BY <2>5, <1>e, <1>m, <1>o, <1>p, ZenonT(30) DEF FlushedOnce, LiveHandle, flushVars
    <3> QED
      BY <2>5, <3>1, <1>b, <1>l, Zenon DEF FlushedOnce, LiveHandle, errVars, srvVars
  <2>6. CASE Drain
    <3>1. SenderStep
      BY <2>6, <1>f, <1>m, <1>o, <1>p, ZenonT(30) DEF Drain, flushVars
    <3> QED
      BY <2>6, <3>1, <1>b, <1>l, Zenon DEF Drain, errVars, srvVars
  <2>7. CASE Settle
    <3>1. /\ UNCHANGED <<bufVars, flushVars, owed, srvVars, owner>> /\ sticky' = sticky \ {ofh}
          /\ reported' = (IF FlushReplyOk THEN reported ELSE reported \cup Undelivered(ofh))
          /\ Move(Fuse, "live") \/ Reply(FlushReplyOk)
      BY <2>7, Zenon DEF Settle
    <3>2. SenderStep
      BY <3>1, <1>e, <1>m, <1>o, <1>p, Zenon DEF flushVars
    <3>3. CASE f \in sticky /\ f = ofh
      <4>1. \A w \in DOMAIN owner : owner[w] = f => w \in committed' \cup reported'
        BY <3>1, <3>3, Zenon DEF FlushReplyOk, Undelivered, Accepted, srvVars
      <4> QED
        BY <3>1, <3>2, <4>1, <1>b, Zenon DEF LedgerStep, srvVars
    <3>4. CASE ~(f \in sticky /\ f = ofh)
      <4>1. Marked(f) => Marked(f)'
        BY <3>1, <3>4, Zenon DEF Marked
      <4> QED
        BY <3>1, <3>2, <4>1, <1>b, Zenon DEF LedgerStep, srvVars
    <3> QED
      BY <3>3, <3>4, Zenon
  <2>8. CASE ReleaseEntry
    <3>1. /\ UNCHANGED <<bufVars, flushVars, owed, reported, srvVars, owner>>
          /\ sticky' = sticky \ {ofh} /\ Move(Fuse, "rel_drop") /\ R!Release(ofh)
      BY <2>8, Zenon DEF ReleaseEntry
    <3>2. SenderStep
      BY <3>1, <1>m, <1>o, <1>p, Zenon DEF flushVars
    <3>3. CASE f = ofh
      <4>1. Released(f)' \/ f \notin issued
        BY <3>1, <3>3, Zenon DEF R!Release, R!Registered, Released
      <4> QED
        BY <3>1, <3>2, <4>1, <1>b, ZenonT(60) DEF LedgerStep, srvVars
    <3>4. CASE f # ofh
      BY <3>1, <3>2, <3>4, <1>b, Zenon DEF LedgerStep, Marked, srvVars
    <3> QED
      BY <3>3, <3>4, Zenon
  <2>9. CASE ReleaseDrop
    <3>1. SenderStep
      BY <2>9, <1>m, <1>o, <1>p, Zenon DEF ReleaseDrop, flushVars
    <3> QED
      BY <2>9, <3>1, <1>d, <1>l, Zenon DEF ReleaseDrop, errVars, srvVars
  <2>10. CASE StatFlushNext
    <3>1. SenderStep
      BY <2>10, <1>f, <1>m, <1>o, <1>p, ZenonT(30) DEF StatFlushNext, flushVars
    <3> QED
      BY <2>10, <3>1, <1>b, <1>l, Zenon DEF StatFlushNext, errVars, srvVars
  <2>11. CASE StatFlushed
    BY <2>11, <1>b, <1>l, <1>m, <1>o, <1>p, Zenon DEF StatFlushed, flushVars, errVars, srvVars
  <2>12. ASSUME NEW ok \in BOOLEAN,
                DataRpcDone(ok) \/ SetattrDone(ok) \/ ReleaseDone(ok) \/ StatDone(ok)
         PROVE  BufferStep(f) /\ SenderStep /\ LedgerStep(f)
    <3>1. /\ UNCHANGED <<bufVars, flushVars, committed, errVars, owner>> /\ Move(Fuse, "idle")
      BY <2>12, Zenon DEF DataRpcDone, SetattrDone, ReleaseDone, StatDone, Reply, srvVars
    <3> QED
      BY <3>1, <1>b, <1>l, <1>m, <1>o, <1>p, Zenon DEF flushVars, errVars
  <2> HIDE DEF StateType
  <2> QED
    BY <1>2, <2>1, <2>2, <2>3, <2>4, <2>5, <2>6, <2>7, <2>8, <2>9, <2>10, <2>11, <2>12, Zenon DEF FuseContinue
<1>3. CASE FuseBegin
  <2>1. UNCHANGED <<bufVars, errVars, srvVars, owner>>
    BY <1>3, Zenon DEF FuseBegin, Open, StatBegin, WriteBegin, HandleOpBegin
  <2>2. SenderStep
    BY <1>3, <1>f, <1>m, <1>o, <1>p, ZenonT(30) DEF FuseBegin, Open, StatBegin, WriteBegin, HandleOpBegin, flushVars
  <2> QED
    BY <2>1, <2>2, <1>b, <1>l, Zenon DEF errVars, srvVars
<1>4. CASE BackgroundStep
  <2>1. CASE Tick \/ WindowScan \/ TaskFlushed(Background)
    <3>1. SenderStep
      BY <2>1, <1>m, <1>o, <1>p, Zenon DEF Tick, WindowScan, TaskFlushed, flushVars
    <3> QED
      BY <2>1, <3>1, <1>b, <1>l, Zenon DEF Tick, WindowScan, TaskFlushed, errVars, srvVars
  <2>2. CASE TaskFlushNext(Background, "idle")
    <3>1. SenderStep
      BY <2>2, <1>f, <1>m, <1>o, <1>p, ZenonT(30) DEF TaskFlushNext, flushVars
    <3> QED
      BY <2>2, <3>1, <1>b, <1>l, Zenon DEF TaskFlushNext, errVars, srvVars
  <2>3. ASSUME NEW g \in Fh, AgeDrop(g) PROVE BufferStep(f) /\ SenderStep /\ LedgerStep(f)
    <3>1. Marked(f) => Marked(f)'
      BY <2>3, <1>o, Zenon DEF AgeDrop, At, Marked
    <3> QED
      BY <2>3, <3>1, <1>d, <1>s, Zenon DEF AgeDrop, LedgerStep, flushVars, srvVars
  <2> QED
    BY <1>4, <2>1, <2>2, <2>3, Zenon DEF BackgroundStep
<1>5. CASE Environment
  <2>1. UNCHANGED <<bufVars, at, flushVars, errVars, owner>> /\ committed \subseteq committed'
    BY <1>5, Zenon DEF Environment, ConnLost, LateApply, srvVars
  <2> QED
    BY <2>1, <1>b, <1>s, Zenon DEF LedgerStep, Marked, flushVars, errVars
<1>6. CASE UNCHANGED vars
  BY <1>6, <1>b, <1>s, <1>l, Zenon DEF vars, flushVars, errVars, srvVars
<1> QED
  BY <1>1, <1>2, <1>3, <1>4, <1>5, <1>6, Zenon DEF Next, Progress
-----------------------------------------------------------------------------
(* The invariant behind the shutdown. *)

\* Every write of f accepted before the signal is in the file or known to be lost.
Settled(f) == \A w \in due : owner[w] = f => w \in committed \cup reported \/ Marked(f)

\* The writes of f are accounted for.  The main task makes a sender more: it may go on
\* with a positioned handle whose buffer was dropped under it, but then the drop has
\* settled what was accepted before the signal.
HandleSafe(f) ==
    \/ HandleOK(f)
    \/ f \in undercut
    \/ f \notin AppendFh /\ at[Main] # "idle" /\ Settled(f)

\* The main task has still to flush f, or is sending all that is due of it.
InMainsHands(f) ==
    \/ f \in todo[Main]
    \/ tgt[Main] = f /\ at[Main] \in {"fl_start", "fl_live", "fl_err"}
    \/ Sends(Main, f) /\ \A i \in DOMAIN chunks[f] : i > cnt[Main] => chunks[f][i] \notin due
Followed(f) ==
    \/ f \in excused \cup undercut
    \/ Settled(f)
    \/ Range(chunks[f]) \cap due = {}
    \/ InMainsHands(f)

\* What was in a batch is buffered only while it is being sent, in front.
NotSentTwice(f) ==
    /\ ~sending[f] => Range(chunks[f]) \cap sent = {}
    /\ \A a \in Actor : Sends(a, f) =>
         \A i \in DOMAIN chunks[f] : i > cnt[a] => chunks[f][i] \notin sent

\* Types, control and the histories.
ShutdownBase ==
    /\ StateType
    /\ \A f \in Fh : R!Registered(f) => f \in issued
    /\ at[Fuse] = "rel_drop" => Released(ofh)
    /\ at[Fuse] = "w_live" => ofh \in issued
    /\ \A a \in Actor \ {Fuse, Background, Main} : at[a] = "idle"
    /\ due \cup sent \cup resent \subseteq DOMAIN owner
    /\ at[Main] = "idle" => due = {}
    /\ at[Main] = "exit" => todo[Main] = {}
    /\ \A w \in DOMAIN owner : owner[w] \in issued
    /\ \A f \in Fh : \A w \in Range(chunks[f]) : w \in DOMAIN owner /\ owner[w] = f
    /\ undercut \subseteq AppendFh

\* The inductive invariant.
ShutdownInv ==
    /\ ShutdownBase
    /\ \A f \in Fh : ~Released(f) => HandleSafe(f) /\ Followed(f)
    /\ \A f \in AppendFh \ undercut : ~Released(f) => NotSentTwice(f)
    /\ AppendSentOnce

\* The steps of the main task outside flush_one, and the three kinds of step.
MainLoop == Signal \/ MainFlushed \/ (TaskFlushNext(Main, "exit") /\ UNCHANGED mainVars)
OthersStep == [Next]_vars /\ UNCHANGED mainVars
ShutdownStep == (OthersStep \/ MainFlush \/ MainLoop) /\ History

(* A step that changes nothing is a step of the others, and adds nothing to the
   histories. *)
LEMMA StepKinds == [ShutdownNext]_allVars => ShutdownStep
<1>1. ASSUME UNCHANGED allVars PROVE ShutdownStep
  <2>1. UNCHANGED <<vars, mainVars, sent, resent, undercut, at, chunks>>
    BY <1>1, Zenon DEF allVars, vars, bufVars
  <2>2. \A w \in DOMAIN owner : w \notin AppendBatch
    BY <2>1 DEF AppendBatch
  <2>3. AppendBatch = {}
    BY <2>2, Zenon DEF AppendBatch
  <2>4. DroppedUnderSend = {}
    BY <2>1, Zenon DEF DroppedUnderSend, HasBuffered
  <2>5. sent \cap {} = {} /\ sent \cup {} = sent /\ resent \cup {} = resent /\ undercut \cup {} = undercut
    BY Zenon
  <2> QED
    BY <2>1, <2>3, <2>4, <2>5, Zenon DEF ShutdownStep, OthersStep, History
<1> QED
  BY <1>1, Zenon DEF ShutdownNext, MainStep, ShutdownStep, OthersStep, MainLoop

(* The main task's role: neither of the other two actors. *)
LEMMA MainIsThird == Main \in Actor /\ Main # Fuse /\ Main # Background
  BY MainRole, WriteBackParameters, Zenon

(* The main task's own loop touches no buffer, no ledger and no entry of the remap. *)
LEMMA LoopFrame ==
  ASSUME StateType, MainLoop
  PROVE  /\ UNCHANGED <<rVars, bufVars, fuseVars, cnt, left, errVars, srvVars, owner>>
         /\ \E l \in {"next", "fl_start", "exit"} : Move(Main, l)
         /\ \A b \in Actor \ {Main} : tgt'[b] = tgt[b] /\ at'[b] = at[b]
<1>1. CASE Signal \/ MainFlushed
  BY <1>1, Zenon DEF Signal, MainFlushed, TaskFlushed, flushVars, Move, StateType
<1>2. CASE TaskFlushNext(Main, "exit")
  <2>1. \/ \E f \in todo[Main] : StartFlush(Main, f)
        \/ Move(Main, "exit") /\ UNCHANGED flushVars
    BY <1>2, Zenon DEF TaskFlushNext
  <2>2. UNCHANGED <<rVars, bufVars, fuseVars, errVars, srvVars, owner>>
    BY <1>2, Zenon DEF TaskFlushNext
  <2> QED
    BY <2>1, <2>2, Zenon DEF StartFlush, flushVars, Move, StateType
<1> QED
  BY <1>1, <1>2, Zenon DEF MainLoop

(* Every step of the shutdown is one of the fh-remap, and keeps the types. *)
LEMMA ShutdownTypes ==
  ASSUME ShutdownBase, ShutdownStep
  PROVE  /\ StateType'
         /\ \A f \in Fh : R!Registered(f)' => f \in issued'
         /\ \A f \in Fh : Released(f) => Released(f)'
         /\ issued \subseteq issued'
<1>0. StateType /\ \A f \in Fh : R!Registered(f) => f \in issued
  BY Zenon DEF ShutdownBase
<1>s. UNCHANGED rVars => UNCHANGED R!vars
  BY Zenon DEF rVars, R!vars, R!connVars, R!remapVars
<1>1. [R!Next]_(R!vars)
  BY <1>0, <1>s, StepRefines, SharedRefines, LoopFrame, MainIsThird, Zenon DEF ShutdownStep, OthersStep, MainFlush
<1>2. /\ DOMAIN openFiles' = Fh
      /\ \A f \in Fh : R!Registered(f)' => f \in issued'
      /\ \A f \in Fh : Released(f) => Released(f)'
  BY <1>0, <1>1, RemapFacts, Zenon DEF StateType
<1>3. issued \subseteq issued'
  BY <1>1, Zenon DEF R!Next, R!ActorStep, R!EnsureLive, R!ReadEntry, R!OpenRpcOk, R!OtherRpc, R!RpcEnd, R!Stamp,
     R!ReopenTail, R!Return, R!ConnStep, R!Finish, R!Open, R!RegisterOpen, R!Release, R!ConnLost, R!remapVars, R!vars
<1>4. StateType'
  <2>1. CASE OthersStep
    BY <1>0, <1>2, <2>1, StateTypeStep, Zenon DEF OthersStep
  <2>2. CASE MainFlush
    BY <1>0, <1>2, <2>2, SharedTypes, MainIsThird, Zenon DEF MainFlush
  <2>3. CASE Signal
    BY <1>0, <1>2, <2>3, MainIsThird, Zenon DEF Signal, StateType, Move, Labels, fuseVars, flushVars, errVars, bufVars
  <2>4. CASE MainFlushed \/ TaskFlushNext(Main, "exit")
    <3>1. "exit" \in Labels
      BY Zenon DEF Labels
    <3> QED
      BY <1>0, <1>2, <2>4, <3>1, TaskTypes, MainIsThird, Zenon DEF MainFlushed
  <2> QED
    BY <2>1, <2>2, <2>3, <2>4, Zenon DEF ShutdownStep, MainLoop
<1> QED
  BY <1>2, <1>3, <1>4, Zenon
(* flush_one and ensure_live change the place and the batch of the actor that runs
   them only, and no list of handles to flush. *)
LEMMA SharedLocal ==
  ASSUME StateType, NEW a \in Actor, SharedStep(a)
  PROVE  /\ UNCHANGED <<fuseVars, taskVars, tgt>>
         /\ \A b \in Actor \ {a} : at'[b] = at[b] /\ cnt'[b] = cnt[b]
         /\ at'[a] # at[a] => at'[a] \in {"fl_live", "fl_ok", "fl_err", "fl_send", "fl_rpc", "fl_fail", "fl_start"}
<1> USE DEF StateType, Move, flushVars
<1>r. ASSUME NEW err \in BOOLEAN, FlushReturns(a, err)
      PROVE  /\ tgt' = tgt /\ at'[a] \in {"fl_ok", "fl_err"}
             /\ \A b \in Actor \ {a} : at'[b] = at[b] /\ cnt'[b] = cnt[b]
  BY <1>r, Zenon DEF FlushReturns
<1>t. HasBuffered(tgt[a]) \in BOOLEAN /\ TRUE \in BOOLEAN /\ FALSE \in BOOLEAN
  BY Zenon DEF HasBuffered
<1>1. CASE RemapStep(a) \/ ReopenTail(a) \/ InsertSticky(a)
  BY <1>1, Zenon DEF RemapStep, ReopenTail, InsertSticky
<1>2. CASE FlushEnsureLive(a) \/ SendRun(a) \/ WriteNoConn(a) \/ WriteOk(a) \/ WriteErr(a)
  BY <1>2, Zenon DEF FlushEnsureLive, SendRun, WriteNoConn, WriteOk, WriteErr
<1>3. CASE FlushNotLive(a) \/ FlushAck(a)
  BY <1>3, <1>r, <1>t, Zenon DEF FlushNotLive, FlushAck
<1>4. CASE FlushBegin(a)
  BY <1>4, <1>r, <1>t, Zenon DEF FlushBegin
<1>5. CASE FlushFail(a)
  BY <1>5, <1>r, <1>t, Zenon DEF FlushFail
<1> QED
  BY <1>1, <1>2, <1>3, <1>4, <1>5, Zenon DEF SharedStep, FlushStep

(* The others leave the main task where it is. *)
LEMMA MainStays ==
  ASSUME ShutdownBase, [Next]_vars, \A f \in Fh : Released(f) => Released(f)'
  PROVE  /\ at'[Main] = at[Main] /\ tgt'[Main] = tgt[Main]
         /\ cnt'[Main] = cnt[Main] /\ todo'[Main] = todo[Main]
<1> USE MainIsThird, WriteBackParameters
<1>0. StateType
  BY Zenon DEF ShutdownBase
<1>a. at'[Main] = at[Main]
  BY <1>0, ControlStep, Zenon DEF ShutdownBase
<1> USE DEF StateType
<1>f. ASSUME NEW a \in Actor \ {Main}, NEW f, StartFlush(a, f) PROVE tgt'[Main] = tgt[Main] /\ cnt'[Main] = cnt[Main]
  BY <1>0, <1>f, Zenon DEF StartFlush
<1>1. CASE \E a \in {Fuse, Background} : SharedStep(a)
  BY <1>0, <1>1, <1>a, SharedLocal, Zenon DEF taskVars
<1>2. CASE FuseContinue
  <2>1. tgt'[Main] = tgt[Main] /\ cnt'[Main] = cnt[Main]
    BY <1>0, <1>2, <1>f, ZenonT(30) DEF FuseContinue, RegisterOpen, OpenDone, WriteRejected, WriteQueued, WriteFlushed,
       FlushedOnce, Drain, Settle, LiveHandle, ReleaseEntry, ReleaseDrop, StatFlushNext, StatFlushed,
       DataRpcDone, SetattrDone, ReleaseDone, StatDone, flushVars
  <2>2. todo'[Main] = todo[Main]
    <3>1. CASE StatFlushNext
      BY <1>0, <3>1, Zenon DEF StatFlushNext
    <3>2. CASE ~StatFlushNext
      BY <1>2, <3>2, ZenonT(30) DEF FuseContinue, RegisterOpen, OpenDone, WriteRejected, WriteQueued, WriteFlushed,
       FlushedOnce, Drain, Settle, LiveHandle, ReleaseEntry, ReleaseDrop, StatFlushed,
       DataRpcDone, SetattrDone, ReleaseDone, StatDone, taskVars
    <3> QED
      BY <3>1, <3>2, Zenon
  <2> QED
    BY <1>a, <2>1, <2>2, Zenon
<1>3. CASE FuseBegin
  BY <1>0, <1>3, <1>a, <1>f, Zenon DEF FuseBegin, Open, StatBegin, WriteBegin, HandleOpBegin, flushVars, taskVars
<1>4. CASE BackgroundStep
  BY <1>0, <1>4, <1>a, <1>f, ZenonT(30) DEF BackgroundStep, Tick, WindowScan, AgeDrop, TaskFlushNext, TaskFlushed, flushVars, taskVars
<1>5. CASE Environment \/ UNCHANGED vars
  BY <1>5, <1>a, Zenon DEF Environment, ConnLost, LateApply, flushVars, taskVars, vars
<1> QED
  BY <1>1, <1>2, <1>3, <1>4, <1>5, Zenon DEF Next, Progress

(* What the FUSE thread is in the middle of concerns a handle that was opened. *)
LEMMA FuseControl ==
  ASSUME ShutdownBase, ShutdownStep, issued \subseteq issued',
         \A f \in Fh : Released(f) => Released(f)'
  PROVE  /\ at'[Fuse] = "w_live" => ofh' \in issued'
         /\ at'[Fuse] = "rel_drop" => Released(ofh)'
         /\ \A b \in Actor \ {Fuse, Background, Main} : at'[b] = "idle"
<1> USE MainIsThird, WriteBackParameters
<1>0. StateType /\ Fuse \in Actor /\ ofh \in Fh
  BY Zenon DEF ShutdownBase, StateType
<1>1. CASE OthersStep
  <2>0. [Next]_vars
    BY <1>1, Zenon DEF OthersStep
  <2>1. /\ at'[Fuse] = "rel_drop" => Released(ofh)'
        /\ \A b \in Actor \ {Fuse, Background, Main} : at'[b] = "idle"
    BY <1>0, <2>0, ControlStep, Zenon DEF ShutdownBase
  <2>2. ASSUME at'[Fuse] = "w_live" PROVE ofh' \in issued'
    <3>1. CASE at[Fuse] = "w_live" /\ UNCHANGED <<ofh, owner>>
      BY <3>1, Zenon DEF ShutdownBase
    <3>2. ASSUME NEW f \in Fh, WriteBegin(f) PROVE ofh' \in issued'
      BY <3>2, Zenon DEF WriteBegin, Begin, ShutdownBase
    <3> QED
      BY <1>0, <2>0, <2>2, <3>1, <3>2, WriteWaits, Zenon
  <2> QED
    BY <2>1, <2>2, Zenon
<1>2. CASE MainFlush \/ MainLoop
  <2>1. UNCHANGED fuseVars /\ \A b \in Actor \ {Main} : at'[b] = at[b]
    BY <1>0, <1>2, SharedLocal, LoopFrame, Zenon DEF MainFlush
  <2>2. ofh' = ofh
    BY <2>1, Zenon DEF fuseVars
  <2> QED
    BY <1>0, <2>1, <2>2, Zenon DEF ShutdownBase, Released, R!Registered
<1> QED
  BY <1>1, <1>2, Zenon DEF ShutdownStep
(* What a step does to buffers, senders and the ledger, whoever takes it. *)
LEMMA StepFacts ==
  ASSUME ShutdownBase, ShutdownStep, NEW f \in Fh
  PROVE  BufferStep(f) /\ SenderStep /\ LedgerStep(f)
<1>0. StateType /\ \A w \in DOMAIN owner : owner[w] \in issued
  BY Zenon DEF ShutdownBase
<1>1. CASE OthersStep
  BY <1>0, <1>1, NextFacts, Zenon DEF OthersStep
<1>2. CASE MainFlush
  BY <1>0, <1>2, SharedFacts, MainIsThird, Zenon DEF MainFlush
<1>3. CASE MainLoop
  <2>1. /\ UNCHANGED <<rVars, bufVars, fuseVars, cnt, left, errVars, srvVars, owner>>
        /\ \E l \in {"next", "fl_start", "exit"} : Move(Main, l)
        /\ \A b \in Actor \ {Main} : tgt'[b] = tgt[b] /\ at'[b] = at[b]
    BY <1>0, <1>3, LoopFrame, Zenon
  <2>2. at'[Main] \notin SendPlaces
    BY <1>0, <2>1, MainIsThird, Zenon DEF SendPlaces, Move, StateType
  <2>3. SenderStep
    BY <2>1, <2>2, Zenon DEF SenderStep
  <2> QED
    BY <2>1, <2>3, Zenon DEF BufferStep, LedgerStep, Marked, bufVars, errVars, srvVars
<1> QED
  BY <1>1, <1>2, <1>3, Zenon DEF ShutdownStep

(* What ack_flush leaves of a buffer is its end. *)
LEMMA AckLeaves ==
  ASSUME StateType, NEW a \in Actor, FlushAck(a)
  PROVE  \E n \in Nat :
           /\ n = cnt[a] \/ (cnt[a] > Len(chunks[tgt[a]]) /\ n = Len(chunks[tgt[a]]))
           /\ \A i \in DOMAIN chunks'[tgt[a]] : /\ i + n \in DOMAIN chunks[tgt[a]]
                                               /\ i + n > n
                                               /\ chunks'[tgt[a]][i] = chunks[tgt[a]][i + n]
<1> DEFINE s == chunks[tgt[a]]
           n == IF cnt[a] <= Len(s) THEN cnt[a] ELSE Len(s)
           t == SubSeq(s, n + 1, Len(s))
<1>1. s \in Seq(Nat) /\ cnt[a] \in Nat
  BY Zenon DEF StateType
<1>2. chunks'[tgt[a]] = t
  BY Zenon DEF FlushAck, AckFlush, StateType
<1> HIDE DEF s
<1>3. n \in Nat /\ n <= Len(s) /\ (n = cnt[a] \/ (cnt[a] > Len(s) /\ n = Len(s)))
  BY <1>1
<1> HIDE DEF n
<1>4. \A i \in DOMAIN t : i + n \in DOMAIN s /\ i + n > n /\ t[i] = s[i + n]
  <2>1. t \in Seq(Nat) /\ Len(t) = Len(s) - n /\ DOMAIN s = 1..Len(s) /\ Len(s) \in Nat
    BY <1>1, <1>3
  <2>2. DOMAIN t = 1..(Len(s) - n)
    BY <2>1
  <2>3. \A i \in 1..(Len(s) - n) : t[i] = s[i + n]
    BY <1>1, <1>3
  <2>4. \A i \in 1..(Len(s) - n) : i + n \in 1..Len(s) /\ i + n > n
    <3> DEFINE m == Len(s)
    <3>1. m \in Nat /\ n \in Nat
      BY <1>3, <2>1, Zenon
    <3> HIDE DEF m, n
    <3>2. \A i \in 1..(m - n) : i + n \in 1..m /\ i + n > n
      BY <3>1
    <3> QED
      BY <3>2, Zenon DEF m
  <2> HIDE DEF t
  <2> QED
    BY <2>1, <2>2, <2>3, <2>4, Zenon
<1> QED
  BY <1>2, <1>3, <1>4, Zenon DEF s

(* Only a push adds to a buffer, at its end. *)
LEMMA OnlyPushAdds ==
  ASSUME StateType, NEW f \in Fh, BufferStep(f)
  PROVE  \A w \in Range(chunks'[f]) : w \in Range(chunks[f]) \/ (WriteQueued /\ ofh = f /\ w = NextWrite)
<1> SUFFICES ASSUME NEW i \in DOMAIN chunks'[f]
             PROVE  chunks'[f][i] \in Range(chunks[f]) \/ (WriteQueued /\ ofh = f /\ chunks'[f][i] = NextWrite)
  BY Zenon DEF Range
<1>1. CASE chunks'[f] = chunks[f]
  BY <1>1, Zenon DEF Range
<1>2. CASE chunks'[f] = <<>>
  <2>1. DOMAIN chunks'[f] = {}
    BY <1>2
  <2> QED
    BY <2>1, Zenon
<1>3. ASSUME NEW a \in Actor, tgt[a] = f, FlushAck(a) PROVE chunks'[f][i] \in Range(chunks[f])
  <2>1. PICK n \in Nat : i + n \in DOMAIN chunks[f] /\ chunks'[f][i] = chunks[f][i + n]
    BY <1>3, AckLeaves, Zenon
  <2> QED
    BY <2>1, Zenon DEF Range
<1>4. CASE WriteQueued /\ ofh = f
  <2>1. chunks[f] \in Seq(Nat) /\ chunks'[f] = Append(chunks[f], NextWrite)
    BY <1>4, Zenon DEF WriteQueued, Push, StateType
  <2>2. chunks'[f][i] = NextWrite \/ (i \in DOMAIN chunks[f] /\ chunks'[f][i] = chunks[f][i])
    BY <2>1
  <2> QED
    BY <1>4, <2>2, Zenon DEF Range
<1> QED
  BY <1>1, <1>2, <1>3, <1>4, Zenon DEF BufferStep

(* A write keeps its handle, and the new one has the next number. *)
LEMMA OwnerGrows ==
  ASSUME StateType, NEW f \in Fh, LedgerStep(f)
  PROVE  /\ DOMAIN owner \subseteq DOMAIN owner'
         /\ \A w \in DOMAIN owner : owner'[w] = owner[w] /\ w # NextWrite
         /\ \A w \in DOMAIN owner' \ DOMAIN owner : WriteQueued /\ w = NextWrite /\ owner'[w] = ofh
         /\ WriteQueued => NextWrite \in DOMAIN owner' /\ owner'[NextWrite] = ofh
<1>1. owner \in Seq(Fh) /\ ofh \in Fh
  BY Zenon DEF StateType
<1>2. \A w \in DOMAIN owner : w # NextWrite
  BY <1>1 DEF NextWrite
<1>3. WriteQueued => owner' = Append(owner, ofh)
  BY Zenon DEF WriteQueued
<1>4. CASE WriteQueued
  BY <1>1, <1>2, <1>3, <1>4 DEF NextWrite
<1>5. CASE ~WriteQueued
  BY <1>2, <1>5, Zenon DEF LedgerStep
<1> QED
  BY <1>4, <1>5

(* Types, control and the histories are kept. *)
LEMMA BaseStep == ShutdownBase /\ ShutdownStep => ShutdownBase'
<1> SUFFICES ASSUME ShutdownBase, ShutdownStep PROVE ShutdownBase'
  BY Zenon
<1>0. StateType
  BY Zenon DEF ShutdownBase
<1>1. /\ StateType'
      /\ \A f \in Fh : R!Registered(f)' => f \in issued'
      /\ \A f \in Fh : Released(f) => Released(f)'
      /\ issued \subseteq issued'
  BY ShutdownTypes, Zenon
<1>2. /\ at'[Fuse] = "w_live" => ofh' \in issued'
      /\ at'[Fuse] = "rel_drop" => Released(ofh)'
      /\ \A b \in Actor \ {Fuse, Background, Main} : at'[b] = "idle"
  BY <1>1, FuseControl, Zenon
<1>3. \A f \in Fh : BufferStep(f) /\ LedgerStep(f)
  BY StepFacts, Zenon
<1>4. ofh \in Fh
  BY <1>0, Zenon DEF StateType
<1>5. /\ DOMAIN owner \subseteq DOMAIN owner'
      /\ \A w \in DOMAIN owner : owner'[w] = owner[w] /\ w # NextWrite
      /\ \A w \in DOMAIN owner' \ DOMAIN owner : WriteQueued /\ w = NextWrite /\ owner'[w] = ofh
      /\ WriteQueued => NextWrite \in DOMAIN owner' /\ owner'[NextWrite] = ofh
  BY <1>0, <1>3, <1>4, OwnerGrows, Zenon
<1>6. due' \cup sent' \cup resent' \subseteq DOMAIN owner'
  <2>1. due' = due \/ (due' = DOMAIN owner /\ owner' = owner)
    BY Zenon DEF ShutdownStep, OthersStep, MainFlush, MainLoop, Signal, MainFlushed, mainVars
  <2>2. AppendBatch \subseteq DOMAIN owner
    BY Zenon DEF AppendBatch
  <2> QED
    BY <1>5, <2>1, <2>2, Zenon DEF ShutdownBase, ShutdownStep, History
<1>7. at'[Main] = "idle" => due' = {}
  <2>1. CASE OthersStep
    BY <1>1, <2>1, MainStays, Zenon DEF OthersStep, mainVars, ShutdownBase
  <2>2. CASE MainFlush
    BY <1>0, <2>2, SharedLocal, MainIsThird, Zenon DEF MainFlush, ShutdownBase
  <2>3. CASE MainLoop
    BY <1>0, <2>3, LoopFrame, MainIsThird, Zenon DEF Move, StateType
  <2> QED
    BY <2>1, <2>2, <2>3, Zenon DEF ShutdownStep
<1>8. at'[Main] = "exit" => todo'[Main] = {}
  <2>1. CASE OthersStep
    BY <1>1, <2>1, MainStays, Zenon DEF OthersStep, ShutdownBase
  <2>2. CASE MainFlush
    BY <1>0, <2>2, SharedLocal, MainIsThird, Zenon DEF MainFlush, ShutdownBase, taskVars
  <2>3. CASE MainLoop
    BY <1>0, <2>3, MainIsThird, Zenon DEF MainLoop, Signal, MainFlushed, TaskFlushed, TaskFlushNext, StartFlush, Move, StateType
  <2> QED
    BY <2>1, <2>2, <2>3, Zenon DEF ShutdownStep
<1>9. \A w \in DOMAIN owner' : owner'[w] \in issued'
  <2>1. WriteQueued => ofh \in issued
    BY Zenon DEF WriteQueued, At, ShutdownBase
  <2> QED
    BY <1>1, <1>5, <2>1, Zenon DEF ShutdownBase
<1>10. ASSUME NEW f \in Fh, NEW w \in Range(chunks'[f]) PROVE w \in DOMAIN owner' /\ owner'[w] = f
  <2>1. w \in Range(chunks[f]) \/ (WriteQueued /\ ofh = f /\ w = NextWrite)
    BY <1>0, <1>3, <1>10, OnlyPushAdds, Zenon
  <2>2. w \in Range(chunks[f]) => w \in DOMAIN owner /\ owner[w] = f
    BY <1>10, Zenon DEF ShutdownBase
  <2> QED
    BY <1>5, <2>1, <2>2, Zenon
<1>11. undercut' \subseteq AppendFh
  BY Zenon DEF ShutdownStep, History, DroppedUnderSend, ShutdownBase
<1> QED
  BY <1>1, <1>2, <1>6, <1>7, <1>8, <1>9, <1>10, <1>11, Zenon DEF ShutdownBase
(* What was accepted before the signal and is settled stays settled. *)
LEMMA SettledStays ==
  ASSUME ShutdownBase, ShutdownStep, NEW f \in Fh, ~Released(f)', Settled(f), due' = due
  PROVE  Settled(f)'
<1>1. LedgerStep(f) /\ StateType
  BY StepFacts, Zenon DEF ShutdownBase
<1>2. \A w \in due : w \in DOMAIN owner /\ owner'[w] = owner[w]
  BY <1>1, OwnerGrows, Zenon DEF ShutdownBase
<1> SUFFICES ASSUME NEW w \in due, owner[w] = f PROVE w \in committed' \cup reported' \/ Marked(f)'
  BY <1>2, Zenon DEF Settled, Marked
<1> QED
  BY <1>1, <1>2, Zenon DEF LedgerStep, Settled

(* An O_APPEND buffer that is dropped under a send is recorded. *)
LEMMA UndercutSeen ==
  ASSUME NEW f \in AppendFh, Undercuts(f), History
  PROVE  f \in undercut'
<1>1. ~\E a \in Actor : at[a] = "fl_send" /\ at'[a] = "fl_ok"
  BY Zenon DEF Undercuts
<1>2. f \in DroppedUnderSend
  BY <1>1, Zenon DEF Undercuts, DroppedUnderSend, Sends
<1> QED
  BY <1>2, Zenon DEF History

(* The main task, once at work, does not become idle again, and what is due is fixed. *)
LEMMA MainAtWork ==
  ASSUME ShutdownBase, ShutdownStep, at[Main] # "idle"
  PROVE  at'[Main] # "idle" /\ due' = due
<1>0. StateType /\ \A f \in Fh : Released(f) => Released(f)'
  BY ShutdownTypes, Zenon DEF ShutdownBase
<1>1. CASE OthersStep
  BY <1>0, <1>1, MainStays, Zenon DEF OthersStep, mainVars
<1>2. CASE MainFlush
  BY <1>0, <1>2, SharedLocal, MainIsThird, Zenon DEF MainFlush
<1>3. CASE MainLoop
  <2>1. ~Signal
    BY Zenon DEF Signal, At
  <2> QED
    BY <1>0, <1>3, <2>1, LoopFrame, MainIsThird, Zenon DEF MainLoop, MainFlushed, mainVars, Move, StateType
<1> QED
  BY <1>1, <1>2, <1>3, Zenon DEF ShutdownStep

(* Every open handle stays accounted for, or undercut, or settled. *)
LEMMA SafeStep ==
  ASSUME ShutdownBase, ShutdownStep, NEW f \in Fh, ~Released(f)', HandleSafe(f)
  PROVE  HandleSafe(f)'
<1> USE MainIsThird, WriteBackParameters
<1>0. /\ StateType /\ History
      /\ \A g \in Fh : R!Registered(g) => g \in issued
      /\ at[Fuse] = "rel_drop" => Released(ofh)
      /\ \A a \in Actor \ {Fuse, Background, Main} : at[a] = "idle"
  BY Zenon DEF ShutdownBase, ShutdownStep
<1>s. \A g \in Fh : Released(g) => Released(g)'
  BY ShutdownTypes, Zenon
<1>1. CASE f \in undercut
  BY <1>0, <1>1, Zenon DEF History, HandleSafe
<1>2. CASE f \notin AppendFh /\ at[Main] # "idle" /\ Settled(f)
  BY <1>2, MainAtWork, SettledStays, Zenon DEF HandleSafe
<1>3. CASE HandleOK(f)
  <2>a. f \in AppendFh /\ Undercuts(f) => HandleSafe(f)'
    BY <1>0, UndercutSeen, Zenon DEF HandleSafe
  <2>q. Quiet => HandleSafe(f)'
    BY <1>3, QuietPreserves, Zenon DEF HandleSafe
  <2>1. CASE \E a \in Actor : SharedStep(a)
    BY <1>0, <1>3, <2>1, <2>a, SharedPreserves, Zenon DEF HandleSafe
  <2>2. CASE FuseContinue \/ FuseBegin
    BY <1>0, <1>s, <1>3, <2>2, FusePreserves, Zenon DEF HandleSafe
  <2>3. CASE BackgroundStep /\ OthersStep
    <3>1. HandleOK(f)' \/ (Undercuts(f) /\ \E b \in Actor \ {Fuse, Background} : Sends(b, f))
      BY <1>0, <1>3, <2>3, BackgroundPreserves, Zenon
    <3>2. ASSUME Undercuts(f), NEW b \in Actor \ {Fuse, Background}, Sends(b, f) PROVE HandleSafe(f)'
      <4>1. at[b] # "idle"
        BY <3>2, Zenon DEF Sends
      <4>2. at[Main] # "idle"
        BY <1>0, <4>1, Zenon
      <4>3. Settled(f)' /\ at'[Main] # "idle"
        BY <3>2, <4>2, Zenon DEF Settled, Undercuts
      <4> QED
        BY <2>a, <3>2, <4>3, Zenon DEF HandleSafe
    <3> QED
      BY <3>1, <3>2, Zenon DEF HandleSafe
  <2>4. CASE Environment \/ UNCHANGED vars
    <3>1. Quiet
      BY <2>4, Zenon DEF Environment, ConnLost, LateApply, vars, Quiet, Marked, Sends,
         bufVars, flushVars, errVars, srvVars
    <3> QED
      BY <2>q, <3>1, Zenon
  <2>5. CASE MainLoop
    <3>1. /\ UNCHANGED <<rVars, bufVars, fuseVars, cnt, left, errVars, srvVars, owner>>
          /\ at'[Main] \in {"next", "fl_start", "exit"}
          /\ \A b \in Actor \ {Main} : tgt'[b] = tgt[b] /\ at'[b] = at[b]
      BY <1>0, <2>5, LoopFrame, Zenon DEF Move, StateType
    <3>2. \A b \in Actor : \A g \in Fh : Sends(b, g)' => Sends(b, g)
      BY <3>1, Zenon DEF Sends
    <3>3. UNCHANGED <<chunks, sending, owner, committed, reported, sticky, owed, cnt, left>>
      BY <3>1, Zenon DEF bufVars, errVars, srvVars
    <3>4. Quiet
      BY <3>2, <3>3, Zenon DEF Quiet, Marked
    <3> QED
      BY <2>q, <3>4, Zenon
  <2> QED
    BY <2>1, <2>2, <2>3, <2>4, <2>5, Zenon DEF ShutdownStep, OthersStep, MainFlush, Next, Progress
<1> QED
  BY <1>1, <1>2, <1>3, Zenon DEF HandleSafe
(* A handle in the hands of the main task, and the steps of its flush_one: it goes on to
   send all that is due, leaves the handle to another sender, or fails. *)
LEMMA FlushFollows ==
  ASSUME ShutdownBase, MainFlush, NEW f \in Fh, InMainsHands(f)
  PROVE  InMainsHands(f)' \/ f \in excused' \/ Range(chunks'[f]) \cap due = {}
<1> USE MainIsThird
<1>0. StateType /\ SharedStep(Main) /\ due' = due
  BY Zenon DEF ShutdownBase, MainFlush
<1>l. UNCHANGED <<taskVars, tgt>>
  BY <1>0, SharedLocal, Zenon
<1>m. ASSUME NEW l, Move(Main, l) PROVE at'[Main] = l
  BY <1>0, <1>m, Zenon DEF Move, StateType
<1>e. ASSUME chunks'[f] = <<>> PROVE Range(chunks'[f]) \cap due = {}
  BY <1>e DEF Range
<1>1. CASE f \in todo[Main]
  BY <1>1, <1>l, Zenon DEF taskVars, InMainsHands
<1>2. CASE tgt[Main] = f /\ at[Main] \in {"fl_start", "fl_live", "fl_err"}
  <2>1. CASE at' = at
    BY <1>2, <1>l, <2>1, Zenon DEF InMainsHands
  <2>2. CASE FlushEnsureLive(Main)
    BY <1>2, <1>l, <1>m, <2>2, Zenon DEF InMainsHands, FlushEnsureLive
  <2>3. CASE FlushNotLive(Main)
    <3>1. chunks' = chunks /\ Move(Main, IF HasBuffered(f) THEN "fl_err" ELSE "fl_ok")
      BY <1>2, <2>3, Zenon DEF FlushNotLive, FlushReturns, bufVars
    <3>2. CASE HasBuffered(f)
      BY <1>2, <1>l, <1>m, <3>1, <3>2, Zenon DEF InMainsHands
    <3>3. CASE ~HasBuffered(f)
      BY <1>e, <3>1, <3>3, Zenon DEF HasBuffered
    <3> QED
      BY <3>2, <3>3, Zenon
  <2>4. CASE FlushBegin(Main)
    <3>1. CASE CanBeginFlush(f)
      <4>1. chunks' = chunks /\ cnt' = [cnt EXCEPT ![Main] = Len(chunks[f])] /\ Move(Main, "fl_send")
        BY <1>2, <2>4, <3>1, Zenon DEF FlushBegin, BeginFlush
      <4>2. cnt'[Main] = Len(chunks[f]) /\ chunks[f] \in Seq(Nat)
        BY <1>0, <4>1, Zenon DEF StateType
      <4>3. \A i \in DOMAIN chunks[f] : ~(i > Len(chunks[f]))
        BY <4>2
      <4>4. Sends(Main, f)'
        BY <1>2, <1>l, <1>m, <4>1, Zenon DEF Sends
      <4> QED
        BY <4>1, <4>2, <4>3, <4>4, Zenon DEF InMainsHands
    <3>2. CASE ~CanBeginFlush(f)
      <4>1. chunks' = chunks /\ Move(Main, "fl_ok") /\ at[Main] = "fl_live"
        BY <1>2, <2>4, <3>2, Zenon DEF FlushBegin, FlushReturns, bufVars, At
      <4>2. HasBuffered(f) => f \in excused'
        BY <1>2, <1>m, <4>1, Zenon DEF MainFlush
      <4> QED
        BY <1>e, <4>1, <4>2, Zenon DEF HasBuffered
    <3> QED
      BY <3>1, <3>2, Zenon
  <2>5. CASE SendRun(Main) \/ WriteOk(Main) \/ WriteErr(Main) \/ WriteNoConn(Main) \/ FlushAck(Main) \/ FlushFail(Main)
    <3>1. at[Main] \in {"fl_send", "fl_rpc", "fl_fail"}
      BY <2>5, Zenon DEF SendRun, WriteOk, WriteErr, WriteNoConn, FlushAck, FlushFail, At
    <3> QED
      BY <1>2, <3>1, Zenon
  <2> QED
    BY <1>0, <2>1, <2>2, <2>3, <2>4, <2>5, Zenon DEF SharedStep, FlushStep, RemapStep, ReopenTail, InsertSticky
<1>3. CASE Sends(Main, f) /\ \A i \in DOMAIN chunks[f] : i > cnt[Main] => chunks[f][i] \notin due
  <2>0. tgt[Main] = f /\ at[Main] \in {"fl_send", "fl_rpc", "fl_fail"}
    BY <1>3, Zenon DEF Sends
  <2>1. CASE chunks'[f] = chunks[f] /\ cnt' = cnt /\ at'[Main] \in {"fl_send", "fl_rpc", "fl_fail"}
    BY <1>3, <1>0, <1>l, <2>0, <2>1, Zenon DEF InMainsHands, Sends
  <2>2. CASE RemapStep(Main) \/ InsertSticky(Main) \/ SendRun(Main) \/ WriteOk(Main) \/ WriteErr(Main) \/ WriteNoConn(Main)
    <3>1. UNCHANGED <<chunks, cnt>> /\ (at' = at \/ Move(Main, "fl_send") \/ Move(Main, "fl_rpc") \/ Move(Main, "fl_fail"))
      BY <2>2, Zenon DEF RemapStep, InsertSticky, SendRun, WriteOk, WriteErr, WriteNoConn, bufVars, flushVars
    <3> QED
      BY <1>m, <2>0, <2>1, <3>1, Zenon
  <2>3. CASE ReopenTail(Main)
    <3>1. UNCHANGED <<at, cnt>> /\ (chunks'[f] = chunks[f] \/ chunks'[f] = <<>>)
      BY <1>0, <2>3, Zenon DEF ReopenTail, flushVars, bufVars, DropHandle, StateType
    <3> QED
      BY <1>e, <2>0, <2>1, <3>1, Zenon
  <2>4. CASE FlushAck(Main)
    <3>2. PICK n \in Nat :
           /\ n = cnt[Main] \/ (cnt[Main] > Len(chunks[f]) /\ n = Len(chunks[f]))
           /\ \A i \in DOMAIN chunks'[f] : /\ i + n \in DOMAIN chunks[f] /\ i + n > n
                                          /\ chunks'[f][i] = chunks[f][i + n]
      BY <1>0, <2>0, <2>4, AckLeaves, Zenon
    <3>3. \A i \in DOMAIN chunks'[f] : chunks'[f][i] \notin due
      <4>1. cnt[Main] \in Nat /\ chunks[f] \in Seq(Nat)
        BY <1>0, Zenon DEF StateType
      <4>2. CASE n = cnt[Main]
        BY <1>3, <3>2, <4>2, Zenon
      <4>3. CASE n = Len(chunks[f])
        <5>1. \A i \in DOMAIN chunks[f] : ~(i > n)
          BY <4>1, <4>3
        <5> QED
          BY <3>2, <5>1, Zenon
      <4> QED
        BY <3>2, <4>2, <4>3, Zenon
    <3> QED
      BY <3>3, Zenon DEF Range
  <2>5. CASE FlushFail(Main)
    <3>1. \/ chunks' = [chunks EXCEPT ![f] = <<>>]
          \/ chunks' = chunks /\ (Move(Main, "fl_start") \/ Move(Main, "fl_err"))
      BY <2>0, <2>5, Zenon DEF FlushFail, DropHandle, FailFlush, FlushReturns
    <3>2. CASE chunks' = [chunks EXCEPT ![f] = <<>>]
      BY <1>0, <1>e, <3>2, Zenon DEF StateType
    <3> QED
      BY <1>l, <1>m, <2>0, <3>1, <3>2, Zenon DEF InMainsHands
  <2>6. CASE FlushEnsureLive(Main) \/ FlushNotLive(Main) \/ FlushBegin(Main)
    <3>1. at[Main] \in {"fl_start", "fl_live"}
      BY <2>6, Zenon DEF FlushEnsureLive, FlushNotLive, FlushBegin, At
    <3> QED
      BY <2>0, <3>1, Zenon
  <2> QED
    BY <1>0, <2>2, <2>3, <2>4, <2>5, <2>6, Zenon DEF SharedStep, FlushStep
<1> QED
  BY <1>1, <1>2, <1>3, Zenon DEF InMainsHands
(* ... and the steps of the others, which only add to the end of its buffer while it
   sends, or drop the buffer. *)
LEMMA OthersFollow ==
  ASSUME ShutdownBase, ShutdownStep, OthersStep, NEW f \in Fh, HandleOK(f), InMainsHands(f)
  PROVE  InMainsHands(f)' \/ Range(chunks'[f]) \cap due = {}
<1> USE MainIsThird
<1>0. StateType /\ [Next]_vars /\ due' = due /\ due \subseteq DOMAIN owner
  BY Zenon DEF ShutdownBase, OthersStep, mainVars
<1>1. /\ at'[Main] = at[Main] /\ tgt'[Main] = tgt[Main]
      /\ cnt'[Main] = cnt[Main] /\ todo'[Main] = todo[Main]
  BY <1>0, MainStays, ShutdownTypes, Zenon
<1>2. CASE f \in todo[Main] \/ (tgt[Main] = f /\ at[Main] \in {"fl_start", "fl_live", "fl_err"})
  BY <1>1, <1>2, Zenon DEF InMainsHands
<1>3. CASE Sends(Main, f) /\ \A i \in DOMAIN chunks[f] : i > cnt[Main] => chunks[f][i] \notin due
  <2>1. Sends(Main, f)'
    BY <1>1, <1>3, Zenon DEF Sends
  <2>2. BufferStep(f) /\ LedgerStep(f)
    BY StepFacts, Zenon
  <2>3. CASE chunks'[f] = chunks[f]
    BY <1>0, <1>1, <1>3, <2>1, <2>3, Zenon DEF InMainsHands
  <2>4. CASE chunks'[f] = <<>>
    BY <2>4 DEF Range
  <2>5. ASSUME NEW a \in Actor, tgt[a] = f, FlushAck(a) PROVE FALSE
    <3>1. a = Main
      BY <1>3, <2>5, Zenon DEF HandleOK, Sends, FlushAck, At
    <3>2. at[Main] = "fl_send" /\ at'[Main] = "fl_ok"
      BY <1>0, <2>5, <3>1, Zenon DEF FlushAck, At, FlushReturns, Move, StateType
    <3> QED
      BY <1>1, <3>2, Zenon
  <2>6. CASE WriteQueued /\ ofh = f
    <3>1. chunks[f] \in Seq(Nat) /\ chunks'[f] = Append(chunks[f], NextWrite)
      BY <1>0, <2>6, Zenon DEF WriteQueued, Push, StateType
    <3>2. NextWrite \notin due
      BY <1>0, <2>2, OwnerGrows, Zenon
    <3>3. \A i \in DOMAIN chunks'[f] :
             chunks'[f][i] = NextWrite \/ (i \in DOMAIN chunks[f] /\ chunks'[f][i] = chunks[f][i])
      BY <3>1
    <3> QED
      BY <1>0, <1>1, <1>3, <2>1, <3>2, <3>3, Zenon DEF InMainsHands
  <2> QED
    BY <2>2, <2>3, <2>4, <2>5, <2>6, Zenon DEF BufferStep
<1> QED
  BY <1>2, <1>3, Zenon DEF InMainsHands

(* Nothing that is due of an open handle drops out of the main task's sight. *)
LEMMA FollowedStep ==
  ASSUME ShutdownBase, ShutdownStep, NEW f \in Fh, ~Released(f)', HandleSafe(f), Followed(f)
  PROVE  Followed(f)'
<1> USE MainIsThird
<1>0. StateType /\ History /\ BufferStep(f) /\ LedgerStep(f) /\ due \subseteq DOMAIN owner
  BY StepFacts, Zenon DEF ShutdownBase, ShutdownStep
<1>1. CASE Signal
  <2>1. chunks' = chunks /\ todo'[Main] = {g \in Fh : HasBuffered(g)}
    BY <1>0, <1>1, Zenon DEF Signal, bufVars, StateType
  <2>2. CASE HasBuffered(f)
    BY <2>1, <2>2, Zenon DEF Followed, InMainsHands
  <2>3. CASE ~HasBuffered(f)
    <3>1. chunks'[f] = <<>>
      BY <2>1, <2>3, Zenon DEF HasBuffered
    <3>2. Range(chunks'[f]) = {}
      BY <3>1 DEF Range
    <3> QED
      BY <3>2, Zenon DEF Followed
  <2> QED
    BY <2>2, <2>3, Zenon
<1>2. CASE ~Signal
  <2>0. due' = due /\ excused \subseteq excused' /\ undercut \subseteq undercut'
    BY <1>0, <1>2, Zenon DEF ShutdownStep, OthersStep, MainFlush, MainLoop, MainFlushed, mainVars, History
  <2>1. CASE f \in excused \cup undercut
    BY <2>0, <2>1, Zenon DEF Followed
  <2>2. CASE Settled(f)
    BY <2>0, <2>2, SettledStays, Zenon DEF Followed
  <2>e. Range(chunks'[f]) \cap due = {} => Followed(f)'
    BY <2>0, Zenon DEF Followed
  <2>3. CASE Range(chunks[f]) \cap due = {}
    <3>1. NextWrite \notin due
      BY <1>0, OwnerGrows, Zenon
    <3>2. \A w \in Range(chunks'[f]) : w \notin due
      BY <1>0, <2>3, <3>1, OnlyPushAdds, Zenon
    <3> QED
      BY <2>e, <3>2, Zenon
  <2>4. CASE InMainsHands(f) /\ HandleOK(f)
    <3>1. CASE OthersStep
      BY <2>4, <2>e, <3>1, OthersFollow, Zenon DEF Followed
    <3>2. CASE MainFlush
      BY <2>4, <2>e, <3>2, FlushFollows, Zenon DEF Followed
    <3>3. CASE MainFlushed
      <4>1. at[Main] \in {"fl_ok", "fl_err"} /\ todo' = todo
        BY <3>3, Zenon DEF MainFlushed, TaskFlushed, At, taskVars
      <4>2. f \in todo[Main] \/ (tgt[Main] = f /\ at[Main] = "fl_err")
        BY <2>4, <4>1, Zenon DEF InMainsHands, Sends
      <4> QED
        BY <3>3, <4>1, <4>2, Zenon DEF MainFlushed, Followed, InMainsHands
    <3>4. CASE TaskFlushNext(Main, "exit")
      <4>1. at[Main] = "next"
        BY <3>4, Zenon DEF TaskFlushNext, At
      <4>2. f \in todo[Main]
        BY <2>4, <4>1, Zenon DEF InMainsHands, Sends
      <4>3. PICK g \in todo[Main] : todo' = [todo EXCEPT ![Main] = @ \ {g}] /\ StartFlush(Main, g)
        BY <3>4, <4>2, Zenon DEF TaskFlushNext
      <4>4. CASE g = f
        BY <1>0, <4>3, <4>4, Zenon DEF StartFlush, Move, StateType, Followed, InMainsHands
      <4>5. CASE g # f
        BY <1>0, <4>2, <4>3, <4>5, Zenon DEF StateType, Followed, InMainsHands
      <4> QED
        BY <4>4, <4>5, Zenon
    <3> QED
      BY <1>2, <3>1, <3>2, <3>3, <3>4, Zenon DEF ShutdownStep, MainLoop
  <2> QED
    BY <2>1, <2>2, <2>3, <2>4, Zenon DEF Followed, HandleSafe
<1> QED
  BY <1>1, <1>2, Zenon
(* The batch recorded as sent is the buffer of a handle nobody was sending. *)
LEMMA BatchTaken ==
  ASSUME ShutdownBase, ShutdownStep, NEW w \in AppendBatch
  PROVE  /\ w \in DOMAIN owner /\ owner[w] \in AppendFh
         /\ \E a \in Actor : TakesBatch(a) /\ tgt[a] = owner[w] /\ w \in Range(chunks[owner[w]])
<1>1. AnyFh \in Fh
  BY WriteBackParameters, Zenon DEF AnyFh
<1>2. SenderStep /\ StateType
  BY <1>1, StepFacts, Zenon DEF ShutdownBase
<1>3. PICK a \in Actor : at[a] = "fl_live" /\ at'[a] = "fl_send" /\ w \in left'[a]
  BY Zenon DEF AppendBatch
<1>4. TakesBatch(a)
  BY <1>2, <1>3, Zenon DEF SenderStep, SendPlaces
<1>5. w \in Range(chunks[tgt[a]]) /\ tgt[a] \in Fh
  BY <1>2, <1>3, <1>4, Zenon DEF TakesBatch, StateType
<1>6. owner[w] = tgt[a]
  BY <1>5, Zenon DEF ShutdownBase
<1> QED
  BY <1>4, <1>5, <1>6, Zenon DEF AppendBatch

(* Whoever takes, acknowledges or fails a batch, what is left in the buffer of an open
   O_APPEND handle was not sent before. *)
LEMMA NotSentTwiceStep ==
  ASSUME ShutdownBase, ShutdownStep, NEW f \in AppendFh, ~Released(f), f \notin undercut,
         HandleSafe(f), NotSentTwice(f)
  PROVE  NotSentTwice(f)'
<1>0. f \in Fh /\ StateType /\ HandleOK(f) /\ sent \subseteq DOMAIN owner
  BY WriteBackParameters, Zenon DEF ShutdownBase, HandleSafe
<1>1. BufferStep(f) /\ SenderStep /\ LedgerStep(f) /\ sent' = sent \cup AppendBatch
  BY <1>0, StepFacts, Zenon DEF ShutdownStep, History
<1>s. chunks[f] \in Seq(Nat)
  BY <1>0, Zenon DEF StateType
<1>2. CASE \E a \in Actor : TakesBatch(a) /\ tgt[a] = f
  <2>1. ~sending[f] /\ chunks[f] # <<>> /\ sending'[f] /\ chunks' = chunks /\ tgt' = tgt
    BY <1>2, Zenon DEF TakesBatch, CanBeginFlush, HasBuffered
  <2>2. \A b \in Actor : ~Sends(b, f)
    BY <1>0, <2>1, Zenon DEF HandleOK, Delivering
  <2>3. ASSUME NEW b \in Actor, Sends(b, f)' PROVE cnt'[b] = Len(chunks[f])
    BY <1>1, <2>1, <2>2, <2>3, Zenon DEF SenderStep, Sends, TakesBatch, SendPlaces
  <2>4. \A i \in DOMAIN chunks[f] : ~(i > Len(chunks[f]))
    BY <1>s
  <2> QED
    BY <2>1, <2>3, <2>4, Zenon DEF NotSentTwice
<1>3. CASE ~\E a \in Actor : TakesBatch(a) /\ tgt[a] = f
  <2>1. ASSUME NEW w \in Range(chunks[f]), w \in sent' PROVE w \in sent
    <3>1. owner[w] = f
      BY <1>0, <2>1, Zenon DEF ShutdownBase
    <3>2. w \notin AppendBatch
      BY <1>3, <3>1, BatchTaken, Zenon
    <3> QED
      BY <1>1, <2>1, <3>2, Zenon
  <2>2. NextWrite \notin sent'
    BY <1>0, <1>1, OwnerGrows, BatchTaken, Zenon
  <2>3. \A b \in Actor : Sends(b, f)' => Sends(b, f) /\ cnt'[b] = cnt[b]
    BY <1>1, <1>3, Zenon DEF SenderStep, Sends, SendPlaces, TakesBatch
  <2>4. CASE Range(chunks'[f]) \cap sent' = {}
    BY <2>4, Zenon DEF NotSentTwice, Range
  <2>5. CASE chunks'[f] = chunks[f] /\ (sending[f] => sending'[f] \/ ~R!Registered(f))
    <3>1. CASE R!Registered(f)
      <4>1. ~sending'[f] => Range(chunks'[f]) \cap sent' = {}
        BY <2>1, <2>5, <3>1, Zenon DEF NotSentTwice
      <4>2. ASSUME NEW b \in Actor, Sends(b, f)', NEW i \in DOMAIN chunks'[f], i > cnt'[b]
            PROVE  chunks'[f][i] \notin sent'
        <5>1. chunks[f][i] \notin sent /\ chunks[f][i] \in Range(chunks[f])
          BY <2>3, <2>5, <4>2, Zenon DEF NotSentTwice, Range
        <5> QED
          BY <2>1, <2>5, <5>1, Zenon
      <4> QED
        BY <4>1, <4>2, Zenon DEF NotSentTwice
    <3>2. CASE ~R!Registered(f)
      <4>1. f \notin issued
        BY <3>2, Zenon DEF Released
      <4>2. ASSUME NEW w \in Range(chunks[f]) PROVE FALSE
        <5>1. w \in DOMAIN owner /\ owner[w] = f
          BY <1>0, <4>2, Zenon DEF ShutdownBase
        <5>2. owner[w] \in issued
          BY <5>1, Zenon DEF ShutdownBase
        <5> QED
          BY <4>1, <5>1, <5>2, Zenon
      <4> QED
        BY <2>4, <2>5, <4>2, Zenon
    <3> QED
      BY <3>1, <3>2, Zenon
  <2>6. CASE chunks'[f] = <<>>
    <3>1. Range(chunks'[f]) = {}
      BY <2>6 DEF Range
    <3> QED
      BY <2>4, <3>1, Zenon
  <2>7. ASSUME NEW a \in Actor, tgt[a] = f, FlushAck(a) PROVE NotSentTwice(f)'
    <3>1. Sends(a, f)
      BY <2>7, Zenon DEF FlushAck, At, Sends
    <3>2. PICK n \in Nat :
           /\ n = cnt[a] \/ (cnt[a] > Len(chunks[f]) /\ n = Len(chunks[f]))
           /\ \A i \in DOMAIN chunks'[f] : /\ i + n \in DOMAIN chunks[f] /\ i + n > n
                                          /\ chunks'[f][i] = chunks[f][i + n]
      BY <1>0, <2>7, AckLeaves, Zenon
    <3>3. ASSUME NEW i \in DOMAIN chunks'[f] PROVE chunks'[f][i] \notin sent'
      <4>1. CASE n = cnt[a]
        <5>1. chunks[f][i + n] \notin sent /\ chunks[f][i + n] \in Range(chunks[f])
          BY <3>1, <3>2, <3>3, <4>1, Zenon DEF NotSentTwice, Range
        <5> QED
          BY <2>1, <3>2, <3>3, <5>1, Zenon
      <4>2. CASE n = Len(chunks[f])
        <5>1. \A j \in DOMAIN chunks[f] : ~(j > n)
          BY <1>s, <4>2
        <5> QED
          BY <3>2, <3>3, <5>1, Zenon
      <4> QED
        BY <3>2, <4>1, <4>2, Zenon
    <3> QED
      BY <2>4, <3>3, Zenon DEF Range
  <2>8. CASE WriteQueued /\ ofh = f
    <3>1. chunks'[f] = Append(chunks[f], NextWrite) /\ sending' = sending
      BY <1>0, <2>8, Zenon DEF WriteQueued, Push, StateType
    <3>2. \A i \in DOMAIN chunks'[f] :
             chunks'[f][i] = NextWrite \/ (i \in DOMAIN chunks[f] /\ chunks'[f][i] = chunks[f][i])
      BY <1>s, <3>1
    <3>3. ASSUME NEW i \in DOMAIN chunks'[f], chunks'[f][i] \in sent'
          PROVE  i \in DOMAIN chunks[f] /\ chunks'[f][i] = chunks[f][i] /\ chunks[f][i] \in sent
      <4>1. i \in DOMAIN chunks[f] /\ chunks'[f][i] = chunks[f][i]
        BY <2>2, <3>2, <3>3, Zenon
      <4>2. chunks[f][i] \in Range(chunks[f])
        BY <4>1, Zenon DEF Range
      <4> QED
        BY <2>1, <3>3, <4>1, <4>2, Zenon
    <3>4. ASSUME ~sending'[f], NEW i \in DOMAIN chunks'[f], chunks'[f][i] \in sent' PROVE FALSE
      <4>1. Range(chunks[f]) \cap sent = {}
        BY <3>1, <3>4, Zenon DEF NotSentTwice
      <4> QED
        BY <3>3, <3>4, <4>1, Zenon DEF Range
    <3>5. ASSUME NEW b \in Actor, Sends(b, f)', NEW i \in DOMAIN chunks'[f], i > cnt'[b]
          PROVE  chunks'[f][i] \notin sent'
      BY <2>3, <3>3, <3>5, Zenon DEF NotSentTwice
    <3>6. ~sending'[f] => Range(chunks'[f]) \cap sent' = {}
      BY <3>4, Zenon DEF Range
    <3> QED
      BY <3>5, <3>6, Zenon DEF NotSentTwice
  <2> QED
    BY <1>1, <2>5, <2>6, <2>7, <2>8, Zenon DEF BufferStep
<1> QED
  BY <1>2, <1>3, Zenon

(* ... so a batch contains nothing that was in an earlier one. *)
LEMMA SentOnceStep ==
  ASSUME ShutdownInv, ShutdownStep
  PROVE  AppendSentOnce'
<1>0. ShutdownBase /\ StateType /\ AppendSentOnce /\ AnyFh \in Fh
  BY WriteBackParameters, Zenon DEF ShutdownInv, ShutdownBase, AnyFh
<1>1. LedgerStep(AnyFh) /\ \A f \in Fh : Released(f) => Released(f)'
  BY <1>0, StepFacts, ShutdownTypes, Zenon
<1>2. /\ resent' = resent \cup (sent \cap AppendBatch) /\ undercut \subseteq undercut'
  BY Zenon DEF ShutdownStep, History
<1>r. \A w \in resent : w \in DOMAIN owner
  BY <1>0, Zenon DEF ShutdownBase
<1>3. \A w \in DOMAIN owner : owner'[w] = owner[w] /\ owner[w] \in Fh
  <2>1. \A w \in DOMAIN owner : owner[w] \in Fh
    BY <1>0 DEF StateType
  <2> QED
    BY <1>0, <1>1, <2>1, OwnerGrows, Zenon
<1>4. ASSUME NEW w \in sent, w \in AppendBatch PROVE owner[w] \in undercut \/ Released(owner[w])
  <2>1. /\ w \in DOMAIN owner /\ owner[w] \in AppendFh
        /\ \E a \in Actor : TakesBatch(a) /\ tgt[a] = owner[w] /\ w \in Range(chunks[owner[w]])
    BY <1>0, <1>4, BatchTaken, Zenon
  <2>2. ~sending[owner[w]] /\ w \in Range(chunks[owner[w]])
    BY <2>1, Zenon DEF TakesBatch, CanBeginFlush
  <2>3. ~NotSentTwice(owner[w])
    BY <1>4, <2>2, Zenon DEF NotSentTwice
  <2> QED
    BY <2>1, <2>3, Zenon DEF ShutdownInv
<1>5. \A w \in resent' : w \in DOMAIN owner /\ (owner[w] \in undercut \/ Released(owner[w]))
  <2>1. \A w \in AppendBatch : w \in DOMAIN owner
    BY <1>0, BatchTaken, Zenon
  <2> QED
    BY <1>0, <1>2, <1>r, <1>4, <2>1, Zenon DEF AppendSentOnce
<1> QED
  BY <1>1, <1>2, <1>3, <1>5, Zenon DEF AppendSentOnce, Released, R!Registered
(* Before the first step. *)
LEMMA ShutdownStarts == ShutdownInit => ShutdownInv
<1> SUFFICES ASSUME ShutdownInit PROVE ShutdownInv
  BY Zenon
<1> USE MainIsThird, WriteBackParameters
<1>1. AnyFh \in Fh
  BY Zenon DEF AnyFh
<1>2. DOMAIN openFiles = Fh /\ \A f \in Fh : ~R!Registered(f)
  BY Zenon DEF ShutdownInit, Init, R!Init, R!RemapInit, R!Registered
<1>3. StateType
  BY <1>1, <1>2 DEF ShutdownInit, Init, BufInit, StateType, Labels
<1>4. /\ \A a \in Actor : at[a] = "idle"
      /\ due = {} /\ sent = {} /\ resent = {} /\ undercut = {}
      /\ \A f \in Fh : chunks[f] = <<>>
  BY Zenon DEF ShutdownInit, Init, BufInit
<1>5. owner = <<>>
  BY Zenon DEF ShutdownInit, Init
<1>6. /\ \A w \in DOMAIN owner : FALSE
      /\ \A f \in Fh : \A w \in Range(chunks[f]) : FALSE
  BY <1>4, <1>5 DEF Range
<1>7. \A f \in Fh : \A a \in Actor : ~Sends(a, f)
  BY <1>4, Zenon DEF Sends
<1>8. Fuse \in Actor /\ at[Fuse] = "idle" /\ at[Main] = "idle"
  BY <1>4, Zenon
<1>9. ShutdownBase
  BY <1>2, <1>3, <1>4, <1>6, <1>8, Zenon DEF ShutdownBase
<1>10. \A f \in Fh : HandleSafe(f) /\ Followed(f) /\ NotSentTwice(f)
  BY <1>4, <1>6, <1>7, Zenon DEF HandleSafe, HandleOK, Followed, Settled, NotSentTwice
<1> QED
  BY <1>4, <1>9, <1>10, Zenon DEF ShutdownInv, AppendSentOnce

(* ShutdownInv is an invariant of the FUSE thread, the background task and the main
   task together. *)
THEOREM ShutdownInvariance == ShutdownSpec => []ShutdownInv
<1>1. ShutdownInv /\ [ShutdownNext]_allVars => ShutdownInv'
  <2> SUFFICES ASSUME ShutdownInv, ShutdownStep PROVE ShutdownInv'
    BY StepKinds, Zenon
  <2>1. ShutdownBase /\ ShutdownBase'
    BY BaseStep, Zenon DEF ShutdownInv
  <2>2. \A f \in Fh : Released(f) => Released(f)'
    BY <2>1, ShutdownTypes, Zenon
  <2>3. ASSUME NEW f \in Fh, ~Released(f)' PROVE HandleSafe(f)' /\ Followed(f)'
    BY <2>1, <2>2, <2>3, SafeStep, FollowedStep, Zenon DEF ShutdownInv
  <2>4. ASSUME NEW f \in AppendFh, f \notin undercut', ~Released(f)' PROVE NotSentTwice(f)'
    <3>1. f \in Fh /\ f \notin undercut
      BY <2>4, WriteBackParameters, Zenon DEF ShutdownStep, History
    <3> QED
      BY <2>1, <2>2, <2>4, <3>1, NotSentTwiceStep, Zenon DEF ShutdownInv
  <2>5. AppendSentOnce'
    BY SentOnceStep, Zenon
  <2> QED
    BY <2>1, <2>3, <2>4, <2>5, Zenon DEF ShutdownInv
<1> QED
  BY <1>1, ShutdownStarts, PTL DEF ShutdownSpec

(* "data the app already wrote (and we acknowledged) is not lost on a clean shutdown":
   when the main task's loop is over, every write accepted before the signal is in the
   file or known to be lost, or its handle was released or is one of the exceptions. *)
THEOREM CleanShutdown == ShutdownSpec => []ShutdownDelivers
<1>1. ShutdownInv => ShutdownDelivers
  <2> SUFFICES ASSUME ShutdownInv, at[Main] = "exit", NEW w \in due, ~Released(owner[w]),
                      owner[w] \notin excused \cup undercut
               PROVE  w \in committed \cup reported \/ Marked(owner[w])
    BY Zenon DEF ShutdownDelivers, Marked
  <2>1. ShutdownBase /\ StateType /\ w \in DOMAIN owner
    BY Zenon DEF ShutdownInv, ShutdownBase
  <2>2. owner[w] \in Fh
    BY <2>1 DEF StateType
  <2>3. HandleSafe(owner[w]) /\ Followed(owner[w])
    BY <2>2, Zenon DEF ShutdownInv
  <2>4. ~InMainsHands(owner[w])
    <3>1. todo[Main] = {}
      BY <2>1, Zenon DEF ShutdownBase
    <3> QED
      BY <3>1, Zenon DEF InMainsHands, Sends
  <2>5. CASE Settled(owner[w])
    BY <2>5, Zenon DEF Settled
  <2>6. CASE HandleOK(owner[w]) /\ Range(chunks[owner[w]]) \cap due = {}
    BY <2>1, <2>6, Zenon DEF HandleOK, Accounted, Marked
  <2> QED
    BY <2>3, <2>4, <2>5, <2>6, Zenon DEF HandleSafe, Followed
<1> QED
  BY <1>1, ShutdownInvariance, PTL

(* "An O_APPEND handle must NEVER re-send": no append of an open handle is in two
   batches, whichever of the three senders takes, acknowledges, fails or drops them. *)
THEOREM NoAppendTwice == ShutdownSpec => []AppendSentOnce
<1>1. ShutdownInv => AppendSentOnce
  BY Zenon DEF ShutdownInv
<1> QED
  BY <1>1, ShutdownInvariance, PTL
(* At shutdown the main task flushes the buffers while the FUSE thread and the flush task
   still work on them, and total_bytes is still their sum, within the hard bound. *)
THEOREM BytesAtShutdown == ShutdownSpec => []BufferBounded
<1>1. ShutdownBase /\ BufferInv /\ [ShutdownNext]_allVars => BufferInv'
  <2> SUFFICES ASSUME ShutdownBase, BufferInv, ShutdownStep PROVE BufferInv'
    BY StepKinds, Zenon
  <2>0. StateType
    BY Zenon DEF ShutdownBase
  <2>1. CASE OthersStep
    <3>1. [Next]_vars
      BY <2>1, Zenon DEF OthersStep
    <3>2. at'[Fuse] = "w_live" => owner' = owner /\ Len(owner) < MaxWrites
      BY <2>0, <3>1, WriteWaits, Zenon DEF WriteBegin, BufferInv
    <3> QED
      BY <2>0, <3>1, <3>2, NextBufferOp, BufferKept, Zenon
  <2>2. CASE MainFlush
    <3>1. BufferOp /\ owner' = owner /\ at'[Fuse] = at[Fuse]
      BY <2>0, <2>2, SharedBufferOp, SharedLocal, MainIsThird, WriteBackParameters, Zenon DEF MainFlush
    <3> QED
      BY <2>0, <3>1, BufferKept, Zenon DEF BufferInv
  <2>3. CASE MainLoop
    <3>1. UNCHANGED <<chunks, total, owner>> /\ at'[Fuse] = at[Fuse]
      BY <2>0, <2>3, LoopFrame, MainIsThird, WriteBackParameters, Zenon DEF bufVars
    <3> QED
      BY <2>0, <3>1, BufferKept, Zenon DEF BufferInv, BufferOp
  <2> QED
    BY <2>1, <2>2, <2>3, Zenon DEF ShutdownStep
<1>2. ShutdownInv => ShutdownBase
  BY Zenon DEF ShutdownInv
<1>3. BufferInv => BufferBounded
  BY Zenon DEF BufferInv
<1>4. ShutdownInit => BufferInv
  BY BufferStarts, Zenon DEF ShutdownInit
<1> QED
  BY <1>1, <1>2, <1>3, <1>4, ShutdownInvariance, PTL DEF ShutdownSpec

=============================================================================
