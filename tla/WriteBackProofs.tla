-------------------------- MODULE WriteBackProofs --------------------------
(***************************************************************************)
(* For any number of handles, writes, reconnects and any sizes and limits: *)
(* the write-back path uses the fh-remap as HandleRemap specifies it, and  *)
(* no accepted write of an open positioned handle is ever unaccounted for. *)
(*                                                                         *)
(* The lemmas about flush_one and ensure_live hold of every actor and      *)
(* handle, so that the shutdown, a third sender, can use them too.         *)
(***************************************************************************)
EXTENDS WriteBack, WellFoundedInduction, TLAPS

\* Actor a is sending a snapshot of f: the first cnt[a] buffered chunks, each of
\* which is in the file or still to be sent.
Delivering(a, f) ==
    /\ sending[f]
    /\ 0 < cnt[a] /\ cnt[a] <= Len(chunks[f])
    /\ \A k \in 1..cnt[a] : chunks[f][k] \in left[a] \cup committed

Marked(f) == f \in sticky \/ \E a \in Actor : f \in owed[a]

\* What holds of an open handle, unless its buffer was dropped under a send.  A sender delivers a snapshot, unless
\* it is the FUSE thread and the background task has dropped the buffer under
\* it, which only the FUSE thread could refill; there is one sender; and every
\* accepted write is accounted for.
HandleOK(f) ==
    /\ \A a \in Actor : Sends(a, f) => Delivering(a, f) \/ (a = Fuse /\ chunks[f] = <<>>)
    /\ \A a, b \in Actor : Sends(a, f) /\ Sends(b, f) => a = b
    /\ \A w \in DOMAIN owner : owner[w] = f => Accounted(w, f)

\* The types the argument needs; those of total, age and the server's counters,
\* which it does not, are left out.
StateType ==
    /\ DOMAIN openFiles = Fh
    /\ chunks \in [Fh -> Seq(Nat)] /\ sending \in [Fh -> BOOLEAN]
    /\ at \in [Actor -> Labels] /\ tgt \in [Actor -> Fh]
    /\ cnt \in [Actor -> Nat] /\ left \in [Actor -> SUBSET Nat]
    /\ owed \in [Actor -> SUBSET Fh] /\ todo \in [Actor -> SUBSET Fh]
    /\ ofh \in Fh /\ owner \in Seq(Fh)

\* The inductive invariant.
WriteBackInv ==
    /\ StateType
    /\ \A a \in Actor \ {Fuse, Background} : at[a] = "idle"
    /\ \A f \in Fh : R!Registered(f) => f \in issued
    /\ at[Fuse] = "rel_drop" => Released(ofh)
    /\ \A f \in Fh \ AppendFh : ~Released(f) => HandleOK(f)

-----------------------------------------------------------------------------
(* flush_one and ensure_live, whoever runs them, use the fh-remap by its own steps. *)
LEMMA SharedRefines ==
  ASSUME StateType, NEW a \in Actor, SharedStep(a)
  PROVE  R!Next \/ UNCHANGED R!vars
<1> USE WriteBackParameters DEF StateType
<1>s. UNCHANGED rVars => UNCHANGED R!vars
  BY Zenon DEF rVars, R!vars, R!connVars, R!remapVars
<1>1. CASE RemapStep(a)
  BY <1>1, Zenon DEF RemapStep, R!Next, R!ActorStep
<1>2. CASE ReopenTail(a)
  BY <1>2, Zenon DEF ReopenTail, R!Next, R!ActorStep
<1>3. CASE InsertSticky(a)
  BY <1>3, <1>s, Zenon DEF InsertSticky
<1>4. CASE FlushEnsureLive(a)
  BY <1>4, Zenon DEF FlushEnsureLive, R!Next, R!ActorStep
<1>5. CASE FlushNotLive(a) \/ FlushBegin(a) \/ WriteNoConn(a)
  BY ZenonT(30), <1>5 DEF FlushNotLive, FlushBegin, WriteNoConn, R!Next, R!ActorStep
<1>6. CASE SendRun(a)
  BY <1>6, Zenon DEF SendRun, R!Next, R!ActorStep
<1>7. CASE WriteOk(a) \/ WriteErr(a)
  BY <1>7, Zenon DEF WriteOk, WriteErr, R!Next, R!ActorStep
<1>8. CASE FlushAck(a) \/ FlushFail(a)
  BY ZenonT(30), <1>8, <1>s DEF FlushAck, FlushFail
<1> QED
  BY <1>1, <1>2, <1>3, <1>4, <1>5, <1>6, <1>7, <1>8, Zenon DEF SharedStep, FlushStep

(* Every step of the write-back path is a step of the fh-remap, or leaves its
   variables alone. *)
LEMMA StepRefines ==
  ASSUME StateType, [Next]_vars
  PROVE  [R!Next]_(R!vars)
<1> USE WriteBackParameters DEF StateType
<1>s. UNCHANGED rVars => UNCHANGED R!vars
  BY Zenon DEF rVars, R!vars, R!connVars, R!remapVars
<1>1. ASSUME NEW a \in Actor, SharedStep(a) PROVE R!Next \/ UNCHANGED R!vars
  BY <1>1, SharedRefines, Zenon
<1>2. CASE FuseContinue
  <2>1. ASSUME NEW f \in Fh, RegisterOpen(f) PROVE R!Next
    BY <2>1, Zenon DEF RegisterOpen, R!Next
  <2>2. CASE OpenDone \/ WriteRejected \/ WriteQueued
    BY ZenonT(30), <2>2 DEF OpenDone, WriteRejected, WriteQueued, R!Next, R!ActorStep
  <2>3. CASE WriteFlushed \/ Drain \/ StatFlushed
    BY ZenonT(30), <2>3, <1>s DEF WriteFlushed, Drain, StatFlushed
  <2>4. CASE FlushedOnce \/ Settle
    BY ZenonT(30), <2>4, <1>s DEF FlushedOnce, Settle, R!Next, R!ActorStep
  <2>5. CASE LiveHandle \/ ReleaseDrop \/ StatFlushNext
    BY ZenonT(30), <2>5, <1>s DEF LiveHandle, ReleaseDrop, StatFlushNext, R!Next, R!ActorStep
  <2>6. CASE ReleaseEntry
    BY <2>6, Zenon DEF ReleaseEntry, R!Next
  <2>7. ASSUME NEW ok \in BOOLEAN,
               DataRpcDone(ok) \/ SetattrDone(ok) \/ ReleaseDone(ok) \/ StatDone(ok)
        PROVE R!Next
    BY ZenonT(30), <2>7 DEF DataRpcDone, SetattrDone, ReleaseDone, StatDone, RpcOutcome,
                             R!Next, R!ActorStep
  <2> QED
    BY <1>2, <2>1, <2>2, <2>3, <2>4, <2>5, <2>6, <2>7, Zenon DEF FuseContinue
<1>3. CASE BackgroundStep
  BY <1>3, <1>s, Zenon DEF BackgroundStep, Tick, WindowScan, AgeDrop, TaskFlushNext, TaskFlushed
<1>4. CASE FuseBegin
  <2>1. CASE Open
    BY <2>1, Zenon DEF Open, R!Next
  <2>2. ASSUME NEW f \in Fh, WriteBegin(f) PROVE R!Next
    BY <2>2, Zenon DEF WriteBegin, R!Next, R!ActorStep
  <2> QED
    BY <1>4, <2>1, <2>2, <1>s, Zenon DEF FuseBegin, StatBegin, HandleOpBegin
<1>5. CASE Environment
  <2>1. CASE ConnLost
    BY <2>1, Zenon DEF ConnLost, R!Next, R!remapVars
  <2>2. ASSUME NEW w \in Write, LateApply(w) PROVE UNCHANGED R!vars
    BY <2>2, <1>s, Zenon DEF LateApply
  <2> QED
    BY <1>5, <2>1, <2>2, Zenon DEF Environment
<1>6. CASE UNCHANGED vars
  BY <1>6, <1>s, Zenon DEF vars
<1> QED
  BY <1>1, <1>2, <1>3, <1>4, <1>5, <1>6, Zenon DEF Next, Progress

(* A released handle stays released, and only issued handles have an entry. *)
LEMMA RemapFacts ==
  ASSUME DOMAIN openFiles = Fh, [R!Next]_(R!vars),
         \A f \in Fh : R!Registered(f) => f \in issued
  PROVE  /\ DOMAIN openFiles' = Fh
         /\ \A f \in Fh : R!Registered(f)' => f \in issued'
         /\ \A f \in Fh : Released(f) => Released(f)'
<1> USE DEF Released, R!Registered
<1>q. UNCHANGED <<openFiles, issued>> => (DOMAIN openFiles' = Fh
         /\ (\A f \in Fh : R!Registered(f)' => f \in issued')
         /\ (\A f \in Fh : Released(f) => Released(f)'))
  BY Zenon
<1>1. ASSUME NEW a \in Actor, R!ActorStep(a), ~R!Stamp(a) PROVE UNCHANGED <<openFiles, issued>>
  BY <1>1, Zenon DEF R!ActorStep, R!EnsureLive, R!ReadEntry, R!OpenRpcOk, R!OtherRpc, R!RpcEnd,
     R!ReopenTail, R!Return, R!ConnStep, R!Finish, R!remapVars
<1>2. ASSUME NEW a \in Actor, R!Stamp(a)
      PROVE  /\ DOMAIN openFiles' = Fh
             /\ \A f \in Fh : R!Registered(f)' => f \in issued'
             /\ \A f \in Fh : Released(f) => Released(f)'
  BY <1>2, Zenon DEF R!Stamp
<1>3. CASE R!Open
  BY <1>3, <1>q, Zenon DEF R!Open
<1>4. ASSUME NEW f \in Fh, R!RegisterOpen(f)
      PROVE  /\ DOMAIN openFiles' = Fh
             /\ \A g \in Fh : R!Registered(g)' => g \in issued'
             /\ \A g \in Fh : Released(g) => Released(g)'
  BY <1>4, Zenon DEF R!RegisterOpen
<1>5. ASSUME NEW f \in Fh, R!Release(f)
      PROVE  /\ DOMAIN openFiles' = Fh
             /\ \A g \in Fh : R!Registered(g)' => g \in issued'
             /\ \A g \in Fh : Released(g) => Released(g)'
  BY <1>5, Zenon DEF R!Release
<1>6. CASE UNCHANGED R!remapVars
  BY <1>6, <1>q, Zenon DEF R!remapVars
<1>7. UNCHANGED R!vars => UNCHANGED R!remapVars
  BY Zenon DEF R!vars
<1> QED
  BY <1>q, <1>1, <1>2, <1>3, <1>4, <1>5, <1>6, <1>7, Zenon DEF R!Next

(* A step that does not touch the buffer of an open positioned handle keeps
   what holds of it: writes may be committed or reported, and marks added. *)
LEMMA Frame ==
  ASSUME NEW f \in Fh, HandleOK(f),
         chunks'[f] = chunks[f], sending'[f] = sending[f],
         \A w \in DOMAIN owner' : owner'[w] = f => w \in DOMAIN owner /\ owner[w] = f,
         committed \subseteq committed', reported \subseteq reported',
         Marked(f) => Marked(f)',
         \A a \in Actor : Sends(a, f)' =>
            Sends(a, f) /\ cnt'[a] = cnt[a] /\ left[a] \subseteq left'[a] \cup committed'
  PROVE  HandleOK(f)'
<1>1. ASSUME NEW a \in Actor, Sends(a, f)'
      PROVE  Delivering(a, f)' \/ (a = Fuse /\ chunks'[f] = <<>>)
  BY <1>1, Zenon DEF HandleOK, Delivering
<1>2. ASSUME NEW a \in Actor, NEW b \in Actor, Sends(a, f)', Sends(b, f)' PROVE a = b
  BY <1>2, Zenon DEF HandleOK
<1>3. ASSUME NEW w \in DOMAIN owner', owner'[w] = f PROVE Accounted(w, f)'
  BY <1>3, Zenon DEF HandleOK, Accounted, Marked
<1> QED
  BY <1>1, <1>2, <1>3, Zenon DEF HandleOK

-----------------------------------------------------------------------------
(* Sequences: what Append and the removal of a prefix leave in the buffer. *)
LEMMA AppendRange ==
  ASSUME NEW s \in Seq(Nat), NEW x \in Nat
  PROVE  Range(s) \subseteq Range(Append(s, x)) /\ x \in Range(Append(s, x))
<1> DEFINE t == Append(s, x)
<1>1. Len(t) = Len(s) + 1 /\ DOMAIN t = 1..(Len(s) + 1) /\ DOMAIN s = 1..Len(s)
  OBVIOUS
<1>2. t[Len(s) + 1] = x /\ \A i \in 1..Len(s) : t[i] = s[i]
  OBVIOUS
<1>3. Len(s) \in Nat
  OBVIOUS
<1> HIDE DEF t
<1>4. x \in Range(t)
  BY <1>1, <1>2, <1>3 DEF Range
<1>5. ASSUME NEW i \in DOMAIN s PROVE s[i] \in Range(t)
  BY <1>1, <1>2, <1>3 DEF Range
<1> QED
  BY <1>4, <1>5, Zenon DEF Range, t

(* What ack_flush's removal of a prefix takes out of a sequence is among the first n. *)
LEMMA SuffixRange ==
  ASSUME NEW s \in Seq(Nat), NEW n \in 0..Len(s), NEW x \in Range(s),
         x \notin Range(SubSeq(s, n + 1, Len(s)))
  PROVE  \E k \in 1..n : s[k] = x
<1> DEFINE t == SubSeq(s, n + 1, Len(s))
<1>1. PICK i \in 1..Len(s) : s[i] = x
  BY DEF Range
<1>2. ASSUME i > n PROVE FALSE
  <2>1. t \in Seq(Nat) /\ Len(t) = Len(s) - n
    BY <1>2
  <2>2. i - n \in 1..(Len(s) - n) /\ t[i - n] = x
    BY <1>1, <1>2
  <2>3. x \notin Range(t)
    BY Zenon
  <2> HIDE DEF t
  <2>4. i - n \in DOMAIN t
    BY <2>1, <2>2
  <2> QED
    BY <2>2, <2>3, <2>4, Zenon DEF Range
<1> QED
  BY <1>1, <1>2

-----------------------------------------------------------------------------
(* The types the invariant rests on are kept by flush_one and ensure_live, ... *)
LEMMA SharedTypes ==
  ASSUME StateType, NEW a \in Actor, SharedStep(a), DOMAIN openFiles' = Fh
  PROVE  StateType'
<1> USE WriteBackParameters
<1> USE DEF StateType, Labels, Move, fuseVars, flushVars, taskVars, errVars, bufVars
<1>1. CASE RemapStep(a)
  BY <1>1, Zenon DEF RemapStep
<1>2. CASE ReopenTail(a)
  <2>1. CASE afh[a] \in AppendFh /\ HasBuffered(afh[a])
    <3>1. afh[a] \in Fh
      BY <2>1, Zenon
    <3>2. DropHandle(afh[a]) /\ owed' = [owed EXCEPT ![a] = {afh[a]}]
      BY <1>2, <2>1, Zenon DEF ReopenTail
    <3>3. chunks' \in [Fh -> Seq(Nat)] /\ sending' \in [Fh -> BOOLEAN]
      <4>1. << >> \in Seq(Nat)
        OBVIOUS
      <4> QED
        BY <3>1, <3>2, <4>1, Zenon DEF DropHandle
    <3>4. owed' \in [Actor -> SUBSET Fh]
      BY <3>1, <3>2, Zenon
    <3>5. UNCHANGED <<at, tgt, cnt, left, todo, ofh, owner>>
      BY <1>2, Zenon DEF ReopenTail
    <3> QED
      BY <3>3, <3>4, <3>5, Zenon
  <2>2. CASE ~(afh[a] \in AppendFh /\ HasBuffered(afh[a]))
    BY <1>2, <2>2, Zenon DEF ReopenTail
  <2> QED
    BY ZenonT(30), <2>1, <2>2
<1>3. CASE InsertSticky(a)
  BY <1>3, Zenon DEF InsertSticky
<1>4. CASE FlushEnsureLive(a)
  BY <1>4, Zenon DEF FlushEnsureLive
<1>5. CASE FlushNotLive(a)
  BY <1>5, Zenon DEF FlushNotLive, FlushReturns
<1>6. CASE FlushBegin(a)
  <2>1. Range(chunks[tgt[a]]) \subseteq Nat /\ Len(chunks[tgt[a]]) \in Nat
    <3>1. ASSUME NEW s \in Seq(Nat) PROVE Range(s) \subseteq Nat /\ Len(s) \in Nat
      <4> HIDE DEF StateType
      <4> QED
        BY DEF Range
    <3> QED
      BY <3>1, Zenon
  <2>2. CASE CanBeginFlush(tgt[a])
    <3>1. /\ cnt' = [cnt EXCEPT ![a] = Len(chunks[tgt[a]])]
          /\ left' = [left EXCEPT ![a] = Range(chunks[tgt[a]])]
          /\ BeginFlush(tgt[a]) /\ Move(a, "fl_send") /\ tgt' = tgt
          /\ UNCHANGED <<owed, todo, ofh, owner>>
      BY <1>6, <2>2, Zenon DEF FlushBegin
    <3>2. cnt' \in [Actor -> Nat] /\ left' \in [Actor -> SUBSET Nat]
      BY <2>1, <3>1, Zenon
    <3> QED
      BY <3>1, <3>2, Zenon DEF BeginFlush
  <2>3. CASE ~CanBeginFlush(tgt[a])
    <3>1. FlushReturns(a, FALSE) /\ UNCHANGED <<chunks, sending, owed, todo, ofh, owner>>
      BY ZenonT(30), <1>6, <2>3 DEF FlushBegin
    <3> QED
      BY <3>1, Zenon DEF FlushReturns
  <2> QED
    BY ZenonT(30), <2>2, <2>3
<1>7. CASE SendRun(a)
  BY <1>7, Zenon DEF SendRun
<1>8. CASE WriteOk(a)
  BY <1>8, ZenonT(60) DEF WriteOk
<1>9. CASE WriteErr(a)
  BY <1>9, Zenon DEF WriteErr
<1>10. CASE WriteNoConn(a)
  BY <1>10, Zenon DEF WriteNoConn
<1>11. CASE FlushAck(a)
  <2>1. ASSUME NEW s \in Seq(Nat), NEW n \in Nat PROVE SubSeq(s, n + 1, Len(s)) \in Seq(Nat)
    <3> HIDE DEF StateType
    <3> QED
      OBVIOUS
  <2>2. chunks' \in [Fh -> Seq(Nat)] /\ sending' \in [Fh -> BOOLEAN]
    <3> DEFINE f == tgt[a]
               take == IF cnt[a] <= Len(chunks[f]) THEN cnt[a] ELSE Len(chunks[f])
    <3>1. take \in Nat /\ chunks[f] \in Seq(Nat)
      OBVIOUS
    <3>2. SubSeq(chunks[f], take + 1, Len(chunks[f])) \in Seq(Nat)
      BY <2>1, <3>1, Zenon
    <3>3. chunks' = [chunks EXCEPT ![f] = SubSeq(chunks[f], take + 1, Len(chunks[f]))]
      BY <1>11, Zenon DEF FlushAck, AckFlush
    <3>4. sending' = [sending EXCEPT ![f] = FALSE]
      BY <1>11, Zenon DEF FlushAck, AckFlush
    <3> HIDE DEF take, f
    <3> QED
      BY <3>2, <3>3, <3>4, Zenon
  <2>3. /\ cnt' \in [Actor -> Nat] /\ left' \in [Actor -> SUBSET Nat]
        /\ at' \in [Actor -> Labels] /\ tgt' = tgt
    BY <1>11, Zenon DEF FlushAck, FlushReturns
  <2> QED
    BY ZenonT(30), <1>11, <2>2, <2>3 DEF FlushAck
<1>12. CASE FlushFail(a)
  <2>1. CASE FlushReturns(a, TRUE)
    <3>1. /\ cnt' \in [Actor -> Nat] /\ left' \in [Actor -> SUBSET Nat]
          /\ at' \in [Actor -> Labels] /\ tgt' = tgt
      BY <2>1, Zenon DEF FlushReturns
    <3>2. CASE DropHandle(tgt[a]) /\ owed' = [owed EXCEPT ![a] = {tgt[a]}]
      <4>1. chunks' = [chunks EXCEPT ![tgt[a]] = <<>>] /\ sending' = [sending EXCEPT ![tgt[a]] = FALSE]
            /\ UNCHANGED <<todo, ofh, owner>>
        BY <1>12, <3>2, ZenonT(60) DEF FlushFail, DropHandle
      <4>2. << >> \in Seq(Nat)
        OBVIOUS
      <4> QED
        BY <3>1, <3>2, <4>1, <4>2, ZenonT(60)
    <3>3. CASE FailFlush(tgt[a]) /\ UNCHANGED owed
      BY <1>12, <3>1, <3>3, Zenon DEF FlushFail, FailFlush
    <3> QED
      BY ZenonT(30), <1>12, <3>2, <3>3 DEF FlushFail
  <2>2. CASE FailFlush(tgt[a]) /\ UNCHANGED owed /\ Move(a, "fl_start")
             /\ UNCHANGED <<tgt, cnt, left, genBefore>>
    BY <1>12, <2>2, Zenon DEF FlushFail, FailFlush
  <2> QED
    BY ZenonT(30), <1>12, <2>1, <2>2 DEF FlushFail
<1> QED
  BY ZenonT(30), <1>1, <1>2, <1>3, <1>4, <1>5, <1>6, <1>7, <1>8, <1>9, <1>10, <1>11, <1>12
     DEF SharedStep, FlushStep

(* ... by the loop over handles of a task, ... *)
LEMMA TaskTypes ==
  ASSUME StateType, NEW a \in Actor, NEW end \in Labels, DOMAIN openFiles' = Fh,
         TaskFlushNext(a, end) \/ TaskFlushed(a)
  PROVE  StateType'
<1> USE WriteBackParameters
<1> USE DEF StateType, Move, fuseVars, flushVars, taskVars, errVars, bufVars
<1>0. "next" \in Labels /\ "fl_start" \in Labels
  BY Zenon DEF Labels
<1>1. ASSUME NEW f \in todo[a], todo' = [todo EXCEPT ![a] = @ \ {f}], StartFlush(a, f),
             TaskFlushNext(a, end)
      PROVE  StateType'
  <2>1. todo' \in [Actor -> SUBSET Fh] /\ f \in Fh
    BY <1>1, Zenon
  <2> QED
    BY <1>0, <1>1, <2>1, Zenon DEF TaskFlushNext, StartFlush
<1>2. CASE TaskFlushNext(a, end) /\ Move(a, end) /\ UNCHANGED <<flushVars, todo>>
  BY <1>2, Zenon DEF TaskFlushNext
<1>3. CASE TaskFlushed(a)
  BY <1>0, <1>3, Zenon DEF TaskFlushed
<1> QED
  BY ZenonT(30), <1>1, <1>2, <1>3 DEF TaskFlushNext

(* ... and so by every step. *)
LEMMA StateTypeStep ==
  ASSUME StateType, [Next]_vars, DOMAIN openFiles' = Fh
  PROVE  StateType'
<1> USE WriteBackParameters
<1> USE DEF StateType, Labels, Move, fuseVars, flushVars, taskVars, errVars, bufVars
<1>1. ASSUME NEW a \in Actor, SharedStep(a) PROVE StateType'
  BY <1>1, SharedTypes, Zenon
<1>2. CASE FuseContinue
  <2>1. CASE (\E f \in Fh : RegisterOpen(f)) \/ OpenDone
    BY ZenonT(30), <2>1 DEF RegisterOpen, OpenDone, Reply
  <2>2. CASE WriteRejected \/ WriteFlushed
    BY ZenonT(30), <2>2 DEF WriteRejected, WriteFlushed, Reply
  <2>3. CASE WriteQueued
    <3>1. NextWrite \in Nat
      BY DEF NextWrite
    <3>2. chunks' \in [Fh -> Seq(Nat)] /\ owner' \in Seq(Fh) /\ sending' = sending
      <4>1. /\ chunks' = [chunks EXCEPT ![ofh] = Append(chunks[ofh], NextWrite)]
            /\ owner' = Append(owner, ofh) /\ sending' = sending
        BY ZenonT(30), <2>3 DEF WriteQueued, Push
      <4>2. Append(chunks[ofh], NextWrite) \in Seq(Nat)
        BY <3>1
      <4> QED
        BY <4>1, <4>2
    <3>3. CASE Reply(TRUE) /\ UNCHANGED flushVars
      BY <2>3, <3>2, <3>3, Zenon DEF WriteQueued, Reply
    <3>4. ASSUME NEW h \in Fh, StartFlush(Fuse, h) PROVE StateType'
      BY <2>3, <3>2, <3>4, Zenon DEF WriteQueued, StartFlush
    <3> QED
      BY ZenonT(30), <2>3, <3>3, <3>4 DEF WriteQueued, FlushAfterPush
  <2>4. CASE FlushedOnce
    BY ZenonT(30), <2>4 DEF FlushedOnce, Reply
  <2>5. CASE Drain
    BY ZenonT(30), <2>5 DEF Drain, StartFlush
  <2>6. CASE Settle
    BY ZenonT(30), <2>6 DEF Settle, Reply
  <2>7. CASE LiveHandle
    BY ZenonT(30), <2>7 DEF LiveHandle, Reply
  <2>8. CASE ReleaseEntry
    BY <2>8, Zenon DEF ReleaseEntry
  <2>9. CASE ReleaseDrop
    BY <2>9 DEF ReleaseDrop, DropHandle
  <2>10. CASE StatFlushNext
    <3>1. ASSUME NEW f \in todo[Fuse], todo' = [todo EXCEPT ![Fuse] = @ \ {f}], StartFlush(Fuse, f)
          PROVE  StateType'
      <4>1. todo' \in [Actor -> SUBSET Fh] /\ f \in Fh
        BY <3>1, Zenon
      <4> QED
        BY <2>10, <3>1, <4>1, Zenon DEF StatFlushNext, StartFlush
    <3>2. CASE Move(Fuse, "getattr") /\ UNCHANGED <<flushVars, todo>>
      BY <2>10, <3>2, Zenon DEF StatFlushNext
    <3> QED
      BY ZenonT(30), <2>10, <3>1, <3>2 DEF StatFlushNext
  <2>11. CASE StatFlushed
    BY <2>11, Zenon DEF StatFlushed
  <2>12. ASSUME NEW ok \in BOOLEAN,
                DataRpcDone(ok) \/ SetattrDone(ok) \/ ReleaseDone(ok) \/ StatDone(ok)
         PROVE StateType'
    BY ZenonT(30), <2>12 DEF DataRpcDone, SetattrDone, ReleaseDone, StatDone, Reply
  <2> QED
    BY ZenonT(30), <1>2, <2>1, <2>2, <2>3, <2>4, <2>5, <2>6, <2>7, <2>8, <2>9, <2>10, <2>11, <2>12
       DEF FuseContinue
<1>3. CASE BackgroundStep
  <2>1. CASE Tick
    BY <2>1, Zenon DEF Tick
  <2>2. CASE WindowScan
    BY <2>2, Zenon DEF WindowScan, Expired
  <2>3. ASSUME NEW f \in Fh, AgeDrop(f) PROVE StateType'
    <3>1. << >> \in Seq(Nat)
      OBVIOUS
    <3> QED
      BY <2>3, <3>1, Zenon DEF AgeDrop, DropHandle
  <2>4. CASE TaskFlushNext(Background, "idle") \/ TaskFlushed(Background)
    <3>1. Background \in Actor /\ "idle" \in Labels
      BY Zenon
    <3> HIDE DEF StateType, Labels
    <3> QED
      BY <2>4, <3>1, TaskTypes, Zenon
  <2> QED
    BY ZenonT(30), <1>3, <2>1, <2>2, <2>3, <2>4 DEF BackgroundStep
<1>4. CASE FuseBegin
  <2>1. CASE Open
    BY <2>1, Zenon DEF Open, Begin
  <2>2. CASE StatBegin
    BY <2>2, Zenon DEF StatBegin, Begin
  <2>3. ASSUME NEW f \in Fh, WriteBegin(f) PROVE StateType'
    BY <2>3, Zenon DEF WriteBegin, Begin
  <2>4. ASSUME NEW f \in Fh, NEW o \in FlushingOps, HandleOpBegin(o, f) PROVE StateType'
    BY <2>4, Zenon DEF HandleOpBegin, Begin, StartFlush
  <2> QED
    BY ZenonT(30), <1>4, <2>1, <2>2, <2>3, <2>4 DEF FuseBegin
<1>5. CASE Environment
  BY ZenonT(30), <1>5 DEF Environment, ConnLost, LateApply
<1>6. CASE UNCHANGED vars
  BY <1>6, Zenon DEF vars
<1> QED
  BY ZenonT(30), <1>1, <1>2, <1>3, <1>4, <1>5, <1>6 DEF Next, Progress

-----------------------------------------------------------------------------
(* Only the FUSE thread and the background task move, and the FUSE thread is at
   the drop of release only after it has removed the entry. *)
LEMMA ControlStep ==
  ASSUME StateType, \A f \in Fh : R!Registered(f) => f \in issued,
         at[Fuse] = "rel_drop" => Released(ofh),
         [Next]_vars, \A f \in Fh : Released(f) => Released(f)'
  PROVE  /\ \A b \in Actor \ {Fuse, Background} : at'[b] = at[b]
         /\ at'[Fuse] = "rel_drop" => Released(ofh)'
<1> DEFINE Others == \A b \in Actor \ {Fuse, Background} : at'[b] = at[b]
           KeepsDrop == at'[Fuse] = "rel_drop" => at[Fuse] = "rel_drop" /\ ofh' = ofh
           Goal == Others /\ (at'[Fuse] = "rel_drop" => Released(ofh)')
<1> USE WriteBackParameters
<1> USE DEF StateType, Move, At, fuseVars, AtSettle
<1>k. Others /\ KeepsDrop => Goal
  BY Zenon
<1> HIDE DEF Goal
<1>1. ASSUME NEW a \in {Fuse, Background}, SharedStep(a) PROVE Goal
  <2>1. CASE RemapStep(a) \/ ReopenTail(a) \/ InsertSticky(a)
    BY <1>k, <2>1, Zenon DEF RemapStep, ReopenTail, InsertSticky
  <2>2. CASE FlushEnsureLive(a) \/ FlushNotLive(a) \/ FlushBegin(a)
    BY <1>k, <2>2, Zenon DEF FlushEnsureLive, FlushNotLive, FlushBegin, FlushReturns
  <2>3. CASE SendRun(a) \/ WriteOk(a) \/ WriteErr(a) \/ WriteNoConn(a)
    BY <1>k, <2>3, Zenon DEF SendRun, WriteOk, WriteErr, WriteNoConn
  <2>4. CASE FlushAck(a) \/ FlushFail(a)
    BY <1>k, <2>4, ZenonT(60) DEF FlushAck, FlushFail, FlushReturns
  <2> QED
    BY <1>1, <2>1, <2>2, <2>3, <2>4, Zenon DEF SharedStep, FlushStep
<1>2. CASE FuseContinue
  <2>1. CASE (\E f \in Fh : RegisterOpen(f)) \/ OpenDone \/ WriteRejected \/ WriteFlushed
    BY <1>k, <2>1, Zenon DEF RegisterOpen, OpenDone, WriteRejected, WriteFlushed, Reply
  <2>2. CASE WriteQueued
    BY <1>k, <2>2, Zenon DEF WriteQueued, Reply, StartFlush
  <2>3. CASE FlushedOnce \/ Drain
    BY <1>k, <2>3, Zenon DEF FlushedOnce, Drain, Reply, StartFlush
  <2>4. CASE Settle \/ LiveHandle
    BY <1>k, <2>4, Zenon DEF Settle, LiveHandle, Reply
  <2>5. CASE ReleaseEntry
    <3>1. Others /\ ofh' = ofh
      BY <2>5, Zenon DEF ReleaseEntry
    <3>2. ~R!Registered(ofh)' /\ issued' = issued /\ ofh \in issued
      BY <2>5, Zenon DEF ReleaseEntry, R!Release, R!Registered
    <3> QED
      BY <3>1, <3>2, Zenon DEF Goal, Released, R!Registered
  <2>6. CASE ReleaseDrop \/ StatFlushNext \/ StatFlushed
    <3>1. CASE ReleaseDrop
      BY <1>k, <3>1, Zenon DEF ReleaseDrop
    <3>2. CASE StatFlushNext
      <4>1. Move(Fuse, "fl_start") \/ Move(Fuse, "getattr")
        BY <3>2, Zenon DEF StatFlushNext, StartFlush
      <4> QED
        BY <1>k, <4>1, Zenon
    <3>3. CASE StatFlushed
      BY <1>k, <3>3, Zenon DEF StatFlushed
    <3> QED
      BY <2>6, <3>1, <3>2, <3>3, Zenon
  <2>7. ASSUME NEW ok \in BOOLEAN,
               DataRpcDone(ok) \/ SetattrDone(ok) \/ ReleaseDone(ok) \/ StatDone(ok)
        PROVE Goal
    BY <1>k, <2>7, Zenon DEF DataRpcDone, SetattrDone, ReleaseDone, StatDone, Reply
  <2> HIDE DEF StateType, Move, At, fuseVars, AtSettle
  <2> QED
    BY <1>2, <2>1, <2>2, <2>3, <2>4, <2>5, <2>6, <2>7, Zenon DEF FuseContinue, Goal
<1>3. CASE BackgroundStep
  <2>1. CASE Tick \/ WindowScan \/ (\E f \in Fh : AgeDrop(f))
    BY <1>k, <2>1 DEF Tick, WindowScan, AgeDrop
  <2>2. CASE TaskFlushNext(Background, "idle") \/ TaskFlushed(Background)
    BY <1>k, <2>2, Zenon DEF TaskFlushNext, TaskFlushed, StartFlush
  <2> QED
    BY <1>3, <2>1, <2>2, Zenon DEF BackgroundStep
<1>4. CASE FuseBegin
  BY <1>k, <1>4, Zenon DEF FuseBegin, Open, StatBegin, WriteBegin, HandleOpBegin, StartFlush
<1>5. CASE Environment
  BY ZenonT(30), <1>k, <1>5 DEF Environment, ConnLost, LateApply
<1>6. CASE UNCHANGED vars
  BY <1>k, <1>6, Zenon DEF vars
<1> QED
  BY <1>1, <1>2, <1>3, <1>4, <1>5, <1>6, Zenon DEF Next, Progress, Goal


-----------------------------------------------------------------------------
(* flush_one and ensure_live, whichever actor runs them, keep the writes of every
   open positioned handle accounted for. *)

(* What holds of an open positioned handle is kept by every step. *)

\* No buffer is touched, no mark taken away, and nobody starts sending.
Quiet ==
    /\ UNCHANGED <<chunks, sending, owner>>
    /\ committed \subseteq committed' /\ reported \subseteq reported'
    /\ \A f \in Fh : Marked(f) => Marked(f)'
    /\ \A a \in Actor : \A f \in Fh :
         Sends(a, f)' => Sends(a, f) /\ cnt'[a] = cnt[a] /\ left[a] \subseteq left'[a] \cup committed'

\* The buffer of f, not empty, is dropped and marked under an actor that goes on
\* sending it.
Undercuts(f) ==
    /\ HasBuffered(f) /\ chunks'[f] = <<>> /\ at' = at /\ Marked(f)'
    /\ \E b \in Actor : Sends(b, f)'

(* A step that touches no buffer, ledger or sender keeps every handle accounted for. *)
LEMMA QuietPreserves ==
  ASSUME NEW f \in Fh, HandleOK(f), Quiet
  PROVE  HandleOK(f)'
BY Frame, Zenon DEF Quiet

(* The steps of flush_one and ensure_live, whichever actor runs them, keep a handle's
   writes accounted for, unless an O_APPEND buffer is dropped under a send. *)
LEMMA SharedPreserves ==
  ASSUME StateType, NEW f \in Fh, HandleOK(f), NEW a \in Actor, SharedStep(a)
  PROVE  HandleOK(f)' \/ (f \in AppendFh /\ Undercuts(f))
<1> USE WriteBackParameters
<1>a. a \in Actor
  OBVIOUS
<1>t. StateType
  OBVIOUS
<1>q. Quiet => HandleOK(f)'
  BY QuietPreserves, Zenon
<1>1. CASE RemapStep(a)
  <2>1. Quiet
    BY <1>1, Zenon DEF RemapStep, Quiet, Marked, Sends, bufVars, flushVars, errVars, srvVars
  <2> QED
    BY <2>1, <1>q, Zenon
<1>2. CASE InsertSticky(a)
  <2>1. Quiet
    BY <1>2, <1>a, <1>t, Zenon DEF StateType, InsertSticky, Quiet, Marked, Sends, bufVars,
       flushVars, srvVars
  <2> QED
    BY <2>1, <1>q
<1>3. CASE FlushEnsureLive(a) \/ FlushNotLive(a)
  <2>1. CASE FlushEnsureLive(a)
    <3>1. Quiet
      BY <2>1, <1>a, <1>t, Zenon DEF StateType, FlushEnsureLive, Move, At, Quiet,
         Marked, Sends, bufVars, flushVars, errVars, srvVars
    <3> QED
      BY <3>1, <1>q, Zenon
  <2>2. CASE FlushNotLive(a)
    <3>1. /\ at'[a] \in {"fl_ok", "fl_err"} /\ tgt' = tgt
          /\ \A b \in Actor : b # a => at'[b] = at[b] /\ cnt'[b] = cnt[b] /\ left'[b] = left[b]
          /\ UNCHANGED <<bufVars, errVars, srvVars, owner>>
      BY <2>2, <1>a, <1>t, Zenon DEF StateType, FlushNotLive, FlushReturns, Move
    <3>2. \A b \in Actor : \A g \in Fh :
            Sends(b, g)' => Sends(b, g) /\ cnt'[b] = cnt[b] /\ left'[b] = left[b]
      BY <3>1, Zenon DEF Sends
    <3>3. Quiet
      BY <3>1, <3>2, Zenon DEF Quiet, Marked, bufVars, errVars, srvVars
    <3> QED
      BY <3>3, <1>q, Zenon
  <2> QED
    BY <1>3, <2>1, <2>2, Zenon
<1>4. CASE SendRun(a) \/ WriteNoConn(a)
  <2>1. Quiet
    BY <1>4, <1>a, <1>t, Zenon DEF StateType, SendRun, WriteNoConn, Move, At, Quiet,
       Marked, Sends, bufVars, flushVars, errVars, srvVars
  <2> QED
    BY <2>1, <1>q
<1>5. CASE WriteOk(a)
  <2>1. /\ at[a] = "fl_rpc" /\ at' = [at EXCEPT ![a] = "fl_send"]
        /\ UNCHANGED <<bufVars, errVars, owner, tgt, cnt>>
    BY <1>5, Zenon DEF WriteOk, Move, At
  <2>2. PICK run \in SUBSET left[a] : /\ left' = [left EXCEPT ![a] = @ \ run]
                                     /\ committed' = committed \cup run
    BY <1>5, Zenon DEF WriteOk
  <2>3. \A b \in Actor : left[b] \subseteq left'[b] \cup committed'
    BY <1>a, <1>t, <2>2, Zenon DEF StateType
  <2>4. \A b \in Actor : \A g \in Fh : Sends(b, g)' => Sends(b, g)
    BY <1>a, <1>t, <2>1, Zenon DEF Sends, StateType
  <2>5. Quiet
    BY <2>1, <2>2, <2>3, <2>4, Zenon DEF Quiet, Marked, bufVars, errVars
  <2> QED
    BY <2>5, <1>q, Zenon
<1>6. CASE WriteErr(a)
  <2>1. Quiet
    BY <1>6, <1>a, <1>t, Zenon DEF StateType, WriteErr, Move, At, Quiet,
       Marked, Sends, bufVars, flushVars, errVars, srvVars
  <2> QED
    BY <2>1, <1>q
<1>7. CASE ReopenTail(a)
  <2>1. CASE afh[a] \in AppendFh /\ HasBuffered(afh[a])
    <3>1. DropHandle(afh[a]) /\ owed' = [owed EXCEPT ![a] = {afh[a]}] /\ owed[a] = {}
          /\ UNCHANGED <<at, flushVars, sticky, reported, srvVars, owner>>
      BY <1>7, <2>1, Zenon DEF ReopenTail
    <3>2. CASE f # afh[a]
      <4>1. chunks'[f] = chunks[f] /\ sending'[f] = sending[f]
        BY <3>1, <3>2, <1>t, Zenon DEF DropHandle, StateType
      <4>2. Marked(f) => Marked(f)'
        BY <3>1, <1>a, <1>t, Zenon DEF StateType, Marked
      <4>3. \A b \in Actor : Sends(b, f)' =>
              Sends(b, f) /\ cnt'[b] = cnt[b] /\ left[b] \subseteq left'[b] \cup committed'
        BY <3>1, Zenon DEF Sends, flushVars
      <4> QED
        BY <3>1, <4>1, <4>2, <4>3, Frame, Zenon DEF srvVars
    <3>3. CASE f = afh[a]
      <4>1. chunks'[f] = <<>> /\ at' = at
        BY <3>1, <3>3, <1>t, Zenon DEF DropHandle, StateType
      <4>2. f \in owed'[a]
        BY <3>1, <3>3, <1>t, Zenon DEF StateType
      <4>3. \A w \in DOMAIN owner' : Accounted(w, f)'
        BY <4>2, Zenon DEF Accounted
      <4>4. CASE \E b \in Actor : Sends(b, f)'
        BY <2>1, <3>3, <4>1, <4>2, <4>4, Zenon DEF Undercuts, Marked
      <4>5. CASE \A b \in Actor : ~Sends(b, f)'
        BY <4>3, <4>5, Zenon DEF HandleOK
      <4> QED
        BY <4>4, <4>5, Zenon
    <3> QED
      BY <3>2, <3>3, Zenon
  <2>2. CASE ~(afh[a] \in AppendFh /\ HasBuffered(afh[a]))
    <3>1. Quiet
      BY <1>7, <2>2, Zenon DEF ReopenTail, Quiet, Marked, Sends, bufVars, flushVars, srvVars
    <3> QED
      BY <3>1, <1>q
  <2> QED
    BY <2>1, <2>2, Zenon
<1>8. CASE FlushBegin(a)
  <2>1. CASE ~CanBeginFlush(tgt[a])
    <3>1. FlushReturns(a, FALSE) /\ UNCHANGED <<bufVars, errVars, srvVars, owner>>
      BY ZenonT(30), <1>8, <2>1 DEF FlushBegin
    <3>2. Quiet
      BY <3>1, <1>a, <1>t, Zenon DEF StateType, FlushReturns, Move, Quiet, Marked, Sends, bufVars,
         errVars, srvVars
    <3> QED
      BY <3>2, <1>q
  <2>2. CASE CanBeginFlush(tgt[a])
    <3>1. /\ BeginFlush(tgt[a]) /\ Move(a, "fl_send") /\ tgt' = tgt
          /\ cnt' = [cnt EXCEPT ![a] = Len(chunks[tgt[a]])]
          /\ left' = [left EXCEPT ![a] = Range(chunks[tgt[a]])]
          /\ UNCHANGED <<errVars, srvVars, owner>>
      BY <1>8, <2>2, Zenon DEF FlushBegin
    <3>2. HandleOK(f)
      OBVIOUS
    <3>3. CASE f # tgt[a]
      <4>1. chunks'[f] = chunks[f] /\ sending'[f] = sending[f]
        BY <3>1, <3>3, <1>t, Zenon DEF BeginFlush, StateType
      <4>2. \A b \in Actor : Sends(b, f)' =>
              Sends(b, f) /\ cnt'[b] = cnt[b] /\ left[b] \subseteq left'[b] \cup committed'
        BY ZenonT(30), <3>1, <3>3, <1>a, <1>t DEF Sends, Move, StateType
      <4> QED
        BY <3>1, <3>2, <4>1, <4>2, Frame, Zenon DEF srvVars, errVars, Marked
    <3>4. CASE f = tgt[a]
      <4>1. ASSUME NEW b \in Actor PROVE ~Sends(b, f)
        BY <2>2, <3>2, <3>4, Zenon DEF HandleOK, Delivering, CanBeginFlush, HasBuffered
      <4>2. ASSUME NEW b \in Actor, Sends(b, f)' PROVE b = a
        BY <3>1, <4>1, <4>2, <1>a, <1>t, Zenon DEF Sends, Move, StateType
      <4>3. Delivering(a, f)'
        <5>1. sending'[f] /\ chunks' = chunks /\ cnt'[a] = Len(chunks[f])
              /\ left'[a] = Range(chunks[f])
          BY <3>1, <3>4, <1>a, <1>t, Zenon DEF BeginFlush, StateType
        <5>2. Len(chunks[f]) \in Nat /\ DOMAIN chunks[f] = 1..Len(chunks[f])
          BY <1>t DEF StateType
        <5>4. chunks[f] # <<>>
          BY <2>2, <3>4, Zenon DEF CanBeginFlush, HasBuffered
        <5>5. 0 < Len(chunks[f])
          BY <1>t, <5>4 DEF StateType
        <5>3. \A k \in 1..Len(chunks[f]) : chunks[f][k] \in Range(chunks[f])
          BY <5>2, Zenon DEF Range
        <5> QED
          BY <5>1, <5>2, <5>3, <5>5 DEF Delivering
      <4>4. ASSUME NEW w \in DOMAIN owner', owner'[w] = f PROVE Accounted(w, f)'
        BY <3>1, <3>2, <4>4, Zenon DEF HandleOK, Accounted, BeginFlush, errVars, srvVars
      <4> QED
        BY <4>2, <4>3, <4>4, Zenon DEF HandleOK
    <3> QED
      BY <3>3, <3>4, Zenon
  <2> QED
    BY <2>1, <2>2, Zenon
<1>9. CASE FlushAck(a)
  <2>1. /\ AckFlush(tgt[a], cnt[a]) /\ FlushReturns(a, FALSE)
        /\ at[a] = "fl_send" /\ left[a] = {}
        /\ UNCHANGED <<errVars, srvVars, owner>>
    BY ZenonT(30), <1>9 DEF FlushAck, At
  <2>2. HandleOK(f)
    OBVIOUS
  <2>3. ASSUME NEW b \in Actor, Sends(b, f)'
        PROVE  b # a /\ Sends(b, f) /\ cnt'[b] = cnt[b] /\ left'[b] = left[b]
    BY <2>1, <2>3, <1>a, <1>t, Zenon DEF Sends, FlushReturns, Move, StateType
  <2>4. CASE f # tgt[a]
    <3>1. chunks'[f] = chunks[f] /\ sending'[f] = sending[f]
      BY <2>1, <2>4, <1>t, Zenon DEF AckFlush, StateType
    <3> QED
      BY <2>1, <2>2, <2>3, <3>1, Frame, Zenon DEF srvVars, errVars, Marked
  <2>5. CASE f = tgt[a]
    <3>1. Sends(a, f)
      BY <2>1, <2>5, Zenon DEF Sends
    <3>2. ASSUME NEW b \in Actor PROVE ~Sends(b, f)'
      BY <2>2, <2>3, <3>1, <1>a, Zenon DEF HandleOK
    <3> DEFINE take == IF cnt[a] <= Len(chunks[f]) THEN cnt[a] ELSE Len(chunks[f])
    <3>3. chunks'[f] = SubSeq(chunks[f], take + 1, Len(chunks[f]))
      BY ZenonT(30), <2>1, <2>5, <1>t DEF AckFlush, StateType
    <3>4. chunks[f] \in Seq(Nat) /\ take \in 0..Len(chunks[f]) /\ cnt[a] \in Nat
      BY <1>a, <1>t DEF StateType
    <3>5. \A k \in 1..take : chunks[f][k] \in committed
      <4>1. CASE Delivering(a, f)
        BY <2>1, <3>4, <4>1, Zenon DEF Delivering
      <4>2. CASE chunks[f] = <<>>
        BY <3>4, <4>2
      <4> QED
        BY <2>2, <3>1, <4>1, <4>2, <1>a, Zenon DEF HandleOK
    <3> HIDE DEF take
    <3>6. ASSUME NEW w \in DOMAIN owner', owner'[w] = f PROVE Accounted(w, f)'
      <4>1. Accounted(w, f)
        BY <2>1, <2>2, <3>6, Zenon DEF HandleOK
      <4>2. ASSUME w \in Range(chunks[f]), w \notin Range(chunks'[f]) PROVE w \in committed
        <5>1. w \notin Range(SubSeq(chunks[f], take + 1, Len(chunks[f])))
          BY <3>3, <4>2, Zenon
        <5>2. \E k \in 1..take : chunks[f][k] = w
          BY <3>4, <4>2, <5>1, SuffixRange, ZenonT(60)
        <5> QED
          BY <3>5, <5>2, Zenon
      <4> QED
        BY <2>1, <4>1, <4>2, Zenon DEF Accounted, errVars, srvVars
    <3> QED
      BY <3>2, <3>6, Zenon DEF HandleOK
  <2> QED
    BY <2>4, <2>5
<1>10. CASE FlushFail(a)
  <2>2. HandleOK(f)
    OBVIOUS
  <2>3. at[a] = "fl_fail" /\ owed[a] = {} /\ UNCHANGED <<sticky, reported, srvVars, owner>>
        /\ \E l \in {"fl_err", "fl_start"} : Move(a, l)
    BY <1>10, Zenon DEF FlushFail, At, FlushReturns
  <2>4. ASSUME NEW b \in Actor, Sends(b, f)'
        PROVE  b # a /\ Sends(b, f) /\ cnt'[b] = cnt[b] /\ left'[b] = left[b]
    <3>1. b # a /\ at'[b] = at[b]
      BY ZenonT(30), <2>3, <2>4, <1>a, <1>t DEF Sends, Move, StateType
    <3>2. tgt' = tgt /\ cnt'[b] = cnt[b] /\ left'[b] = left[b]
      BY ZenonT(30), <1>10, <3>1, <1>a, <1>t DEF FlushFail, FlushReturns, StateType
    <3> QED
      BY <2>4, <3>1, <3>2, Zenon DEF Sends
  <2>5. CASE f # tgt[a]
    <3>1. chunks'[f] = chunks[f] /\ sending'[f] = sending[f]
      <4>1. CASE DropHandle(tgt[a])
        BY <2>5, <4>1, <1>t, Zenon DEF DropHandle, StateType
      <4>2. CASE FailFlush(tgt[a])
        BY <2>5, <4>2, <1>t, Zenon DEF FailFlush, StateType
      <4> QED
        BY ZenonT(30), <1>10, <4>1, <4>2 DEF FlushFail
    <3>2. Marked(f) => Marked(f)'
      <4>1. CASE owed' = [owed EXCEPT ![a] = {tgt[a]}]
        BY <2>3, <4>1, <1>a, <1>t, Zenon DEF Marked, StateType
      <4>2. CASE UNCHANGED owed
        BY <2>3, <4>2, Zenon DEF Marked
      <4> QED
        BY ZenonT(30), <1>10, <4>1, <4>2 DEF FlushFail
    <3> QED
      BY <2>2, <2>3, <2>4, <3>1, <3>2, Frame, Zenon DEF srvVars
  <2>6. CASE f = tgt[a]
    <3>1. Sends(a, f)
      BY <2>3, <2>6, Zenon DEF Sends
    <3>2. ASSUME NEW b \in Actor PROVE ~Sends(b, f)'
      BY <2>2, <2>4, <3>1, <1>a DEF HandleOK
    <3>3. ASSUME NEW w \in DOMAIN owner', owner'[w] = f PROVE Accounted(w, f)'
      <4>1. CASE owed' = [owed EXCEPT ![a] = {tgt[a]}]
        <5>1. f \in owed'[a]
          BY <2>6, <4>1, <1>a, <1>t, Zenon DEF StateType
        <5> QED
          BY <5>1, <1>a, Zenon DEF Accounted
      <4>2. CASE FailFlush(tgt[a]) /\ UNCHANGED owed
        BY <2>2, <2>3, <3>3, <4>2, Zenon DEF HandleOK, Accounted, FailFlush, srvVars
      <4> QED
        BY ZenonT(30), <1>10, <4>1, <4>2 DEF FlushFail
    <3> QED
      BY <3>2, <3>3 DEF HandleOK
  <2> QED
    BY <2>5, <2>6
<1> QED
  BY <1>1, <1>2, <1>3, <1>4, <1>5, <1>6, <1>7, <1>8, <1>9, <1>10, Zenon DEF SharedStep, FlushStep

(* So do the steps only the FUSE thread takes: its operations and their replies. *)
LEMMA FusePreserves ==
  ASSUME StateType, NEW f \in Fh, HandleOK(f), ~Released(f)',
         \A g \in Fh : R!Registered(g) => g \in issued,
         \A g \in Fh : Released(g) => Released(g)',
         at[Fuse] = "rel_drop" => Released(ofh),
         FuseContinue \/ FuseBegin
  PROVE  HandleOK(f)'
<1> USE WriteBackParameters
<1>a. Fuse \in Actor
  BY Zenon
<1>t. StateType
  OBVIOUS
<1>q. Quiet => HandleOK(f)'
  BY QuietPreserves, Zenon
\* The steps that leave the buffer and the marks alone, and after which the FUSE
\* thread is not sending.
<1>m. ASSUME UNCHANGED <<chunks, sending, owner, committed, owed, cnt, left>>,
             sticky \subseteq sticky', reported \subseteq reported',
             \E l \in Labels \ {"fl_send", "fl_rpc", "fl_fail"} : Move(Fuse, l),
             \A b \in Actor \ {Fuse} : tgt'[b] = tgt[b]
      PROVE  HandleOK(f)'
  <2>1. ASSUME NEW b \in Actor, NEW g \in Fh, Sends(b, g)' PROVE Sends(b, g)
    BY <1>m, <1>a, <1>t, <2>1, Zenon DEF Sends, Move, StateType
  <2>2. Quiet
    BY <1>m, <2>1, Zenon DEF Quiet, Marked
  <2> QED
    BY <2>2, <1>q, Zenon
<1> USE <1>a, <1>t
<1>1. CASE \E g \in Fh : RegisterOpen(g)
  <2>1. Quiet
    BY <1>1, Zenon DEF RegisterOpen, Quiet, Marked, Sends, bufVars, flushVars, errVars, srvVars
  <2> QED
    BY <2>1, <1>q, Zenon
<1>2. CASE OpenDone \/ WriteRejected \/ WriteFlushed \/ FlushedOnce \/ LiveHandle \/ StatFlushed
  <2>1. \E l \in {"idle", "live", "setattr", "data_rpc", "all"} : Move(Fuse, l)
    BY <1>2, Zenon DEF OpenDone, WriteRejected, WriteFlushed, FlushedOnce, LiveHandle,
       StatFlushed, Reply
  <2>2. UNCHANGED <<bufVars, owner, srvVars, owed, flushVars, reported>> /\ sticky \subseteq sticky'
    BY ZenonT(30), <1>2
       DEF OpenDone, WriteRejected, WriteFlushed, FlushedOnce, LiveHandle, StatFlushed, errVars
  <2> QED
    BY <2>1, <2>2, <1>m, Zenon DEF Labels, bufVars, srvVars, flushVars
<1>3. CASE Drain \/ StatFlushNext
  <2>1. \E l \in {"fl_start", "drained", "drain_err", "getattr"} : Move(Fuse, l)
    BY <1>3, Zenon DEF Drain, StatFlushNext, StartFlush
  <2>2. UNCHANGED <<bufVars, owner, srvVars, errVars, cnt, left>>
        /\ \A b \in Actor \ {Fuse} : tgt'[b] = tgt[b]
    BY ZenonT(30), <1>3 DEF Drain, StatFlushNext, StartFlush, StateType, flushVars
  <2> QED
    BY <2>1, <2>2, <1>m, Zenon DEF Labels, bufVars, srvVars, errVars
<1>4. ASSUME NEW ok \in BOOLEAN,
             DataRpcDone(ok) \/ SetattrDone(ok) \/ ReleaseDone(ok) \/ StatDone(ok)
      PROVE HandleOK(f)'
  <2>1. Move(Fuse, "idle") /\ UNCHANGED <<bufVars, owner, committed, errVars, flushVars>>
    BY <1>4, Zenon DEF DataRpcDone, SetattrDone, ReleaseDone, StatDone, Reply, srvVars
  <2> QED
    BY <2>1, <1>m, Zenon DEF Labels, bufVars, errVars, flushVars
<1>5. CASE FuseBegin
  <2>1. \E l \in {"open", "w_live", "all", "fl_start"} : Move(Fuse, l)
    BY <1>5, Zenon DEF FuseBegin, Open, StatBegin, WriteBegin, HandleOpBegin, StartFlush
  <2>2. UNCHANGED <<bufVars, owner, srvVars, errVars, cnt, left>>
        /\ \A b \in Actor \ {Fuse} : tgt'[b] = tgt[b]
    BY ZenonT(30), <1>5
       DEF FuseBegin, Open, StatBegin, WriteBegin, HandleOpBegin, StartFlush, StateType, flushVars
  <2> QED
    BY <2>1, <2>2, <1>m, Zenon DEF Labels, bufVars, srvVars, errVars
<1>6. CASE WriteQueued
  <2>1. /\ Push(ofh, NextWrite) /\ owner' = Append(owner, ofh)
        /\ UNCHANGED <<cnt, left, errVars, srvVars>> /\ at[Fuse] = "w_live"
        /\ \E l \in {"idle", "fl_start"} : Move(Fuse, l)
        /\ \A b \in Actor \ {Fuse} : tgt'[b] = tgt[b]
    BY ZenonT(30), <1>6 DEF WriteQueued, At, Reply, StartFlush, StateType, flushVars
  <2>2. HandleOK(f)
    OBVIOUS
  <2>3. ASSUME NEW b \in Actor, Sends(b, f)' PROVE b # Fuse /\ Sends(b, f)
    BY ZenonT(30), <2>1, <2>3 DEF Sends, Move, StateType
  <2>4. NextWrite \in Nat /\ DOMAIN owner' = 1..NextWrite /\ DOMAIN owner = 1..(NextWrite - 1)
        /\ owner'[NextWrite] = ofh /\ \A w \in DOMAIN owner : owner'[w] = owner[w]
    <3>1. owner \in Seq(Fh) /\ ofh \in Fh /\ owner' = Append(owner, ofh)
      BY <2>1, Zenon DEF StateType
    <3>2. /\ Len(owner) \in Nat /\ DOMAIN owner = 1..Len(owner)
          /\ DOMAIN owner' = 1..(Len(owner) + 1)
      BY <3>1
    <3>3. owner'[Len(owner) + 1] = ofh /\ \A w \in 1..Len(owner) : owner'[w] = owner[w]
      BY <3>1
    <3>4. NextWrite = Len(owner) + 1 /\ NextWrite \in Nat /\ NextWrite - 1 = Len(owner)
      BY <3>2 DEF NextWrite
    <3> QED
      BY <3>2, <3>3, <3>4, Zenon
  <2>5. CASE f # ofh
    <3>1. chunks'[f] = chunks[f] /\ sending'[f] = sending[f]
      BY <2>1, <2>5, Zenon DEF Push, StateType
    <3>2. \A w \in DOMAIN owner' : owner'[w] = f => w \in DOMAIN owner /\ owner[w] = f
      BY <2>4, <2>5
    <3> QED
      BY <2>1, <2>2, <2>3, <3>1, <3>2, Frame, Zenon DEF srvVars, errVars, Marked
  <2>6. CASE f = ofh
    <3>1. chunks'[f] = Append(chunks[f], NextWrite) /\ sending'[f] = sending[f]
      BY <2>1, <2>6, Zenon DEF Push, StateType
    <3>2. chunks[f] \in Seq(Nat)
      BY Zenon DEF StateType
    <3>3. Range(chunks[f]) \subseteq Range(chunks'[f]) /\ NextWrite \in Range(chunks'[f])
      BY <2>4, <3>1, <3>2, AppendRange, ZenonT(60)
    <3>4. ASSUME NEW b \in Actor, Sends(b, f)' PROVE Delivering(b, f)'
      <4>1. Delivering(b, f)
        BY <2>2, <2>3, <3>4, ZenonT(60) DEF HandleOK
      <4>2. Len(chunks'[f]) = Len(chunks[f]) + 1 /\ Len(chunks[f]) \in Nat /\ cnt[b] \in Nat
            /\ \A k \in 1..Len(chunks[f]) : chunks'[f][k] = chunks[f][k]
        BY <2>4, <3>1, <3>2 DEF StateType
      <4> QED
        BY <2>1, <3>1, <4>1, <4>2 DEF Delivering, srvVars
    <3>5. ASSUME NEW b \in Actor, NEW c \in Actor, Sends(b, f)', Sends(c, f)' PROVE b = c
      BY <2>2, <2>3, <3>5, Zenon DEF HandleOK
    <3>6. ASSUME NEW w \in DOMAIN owner', owner'[w] = f PROVE Accounted(w, f)'
      <4>1. CASE w = NextWrite
        BY <3>3, <4>1, Zenon DEF Accounted
      <4>2. CASE w # NextWrite
        <5>1. w \in DOMAIN owner /\ owner[w] = f
          BY <2>4, <3>6, <4>2
        <5> QED
          BY <2>1, <2>2, <3>3, <5>1, ZenonT(60) DEF HandleOK, Accounted, srvVars, errVars
      <4> QED
        BY <4>1, <4>2, Zenon
    <3> QED
      BY <3>4, <3>5, <3>6, Zenon DEF HandleOK
  <2> QED
    BY <2>5, <2>6, Zenon
<1>7. CASE Settle
  <2>1. /\ UNCHANGED <<bufVars, flushVars, owed, srvVars, owner>> /\ sticky' = sticky \ {ofh}
        /\ reported' = (IF FlushReplyOk THEN reported ELSE reported \cup Undelivered(ofh))
        /\ \E l \in {"live", "idle"} : Move(Fuse, l)
    BY <1>7, Zenon DEF Settle, Reply
  <2>2. HandleOK(f)
    OBVIOUS
  <2>3. ASSUME NEW b \in Actor, Sends(b, f)' PROVE Sends(b, f)
    BY <2>1, <2>3, Zenon DEF Sends, Move, StateType, flushVars
  <2>4. reported \subseteq reported'
    BY <2>1, Zenon
  <2>5. CASE f \in sticky /\ f = ofh
    <3>1. \A w \in DOMAIN owner : owner[w] = f => w \in committed \/ w \in reported'
      BY <2>1, <2>5, Zenon DEF FlushReplyOk, Undelivered, Accepted
    <3>2. ASSUME NEW w \in DOMAIN owner', owner'[w] = f PROVE Accounted(w, f)'
      BY <2>1, <3>1, <3>2, Zenon DEF Accounted, srvVars
    <3>3. ASSUME NEW b \in Actor, Sends(b, f)'
          PROVE  Delivering(b, f)' \/ (b = Fuse /\ chunks'[f] = <<>>)
      BY <2>1, <2>2, <2>3, <3>3, Zenon DEF HandleOK, Delivering, bufVars, flushVars, srvVars
    <3> QED
      BY <2>2, <2>3, <3>2, <3>3, Zenon DEF HandleOK
  <2>6. CASE ~(f \in sticky /\ f = ofh)
    <3>1. Marked(f) => Marked(f)'
      BY <2>1, <2>6, Zenon DEF Marked
    <3> QED
      BY <2>1, <2>2, <2>3, <2>4, <3>1, Frame, Zenon DEF bufVars, flushVars, srvVars
  <2> QED
    BY <2>5, <2>6, Zenon
<1>8. CASE ReleaseEntry
  <2>1. /\ UNCHANGED <<bufVars, flushVars, owed, reported, srvVars, owner>>
        /\ sticky' = sticky \ {ofh} /\ Move(Fuse, "rel_drop")
    BY <1>8, Zenon DEF ReleaseEntry
  <2>2. Released(ofh)'
    BY <1>8, Zenon DEF ReleaseEntry, R!Release, R!Registered, Released, StateType,
       fuseVars
  <2>3. f # ofh /\ HandleOK(f)
    BY <2>2, <1>8, Zenon DEF ReleaseEntry, fuseVars
  <2>4. ASSUME NEW b \in Actor, Sends(b, f)' PROVE Sends(b, f)
    BY <2>1, <2>4, Zenon DEF Sends, Move, StateType, flushVars
  <2>5. Marked(f) => Marked(f)'
    BY <2>1, <2>3, Zenon DEF Marked
  <2> QED
    BY <2>1, <2>3, <2>4, <2>5, Frame, Zenon DEF bufVars, flushVars, srvVars
<1>9. CASE ReleaseDrop
  <2>1. /\ DropHandle(ofh) /\ UNCHANGED <<ofh, flushVars, errVars, srvVars, owner>>
        /\ Move(Fuse, "rel_rpc") /\ at[Fuse] = "rel_drop"
    BY <1>9, Zenon DEF ReleaseDrop, At, fuseVars
  <2>2. f # ofh /\ HandleOK(f)
    BY <2>1, Zenon DEF StateType
  <2>3. chunks'[f] = chunks[f] /\ sending'[f] = sending[f]
    BY <2>1, <2>2, Zenon DEF DropHandle, StateType
  <2>4. ASSUME NEW b \in Actor, Sends(b, f)' PROVE Sends(b, f)
    BY <2>1, <2>4, Zenon DEF Sends, Move, StateType, flushVars
  <2> QED
    BY <2>1, <2>2, <2>3, <2>4, Frame, Zenon DEF flushVars, srvVars, errVars, Marked
<1> QED
  BY <1>1, <1>2, <1>3, <1>4, <1>5, <1>6, <1>7, <1>8, <1>9, ZenonT(60) DEF FuseContinue

(* So do those of the background task, but for an age-drop under a third sender. *)
LEMMA BackgroundPreserves ==
  ASSUME StateType, NEW f \in Fh, HandleOK(f), BackgroundStep
  PROVE  \/ HandleOK(f)'
         \/ Undercuts(f) /\ \E b \in Actor \ {Fuse, Background} : Sends(b, f)
<1> USE WriteBackParameters
<1>a. Background \in Actor /\ Background # Fuse
  BY Zenon
<1>t. StateType
  OBVIOUS
<1>q. Quiet => HandleOK(f)'
  BY QuietPreserves, Zenon
<1>1. CASE Tick \/ WindowScan \/ TaskFlushed(Background) \/ TaskFlushNext(Background, "idle")
  <2>1. \E l \in {"age", "next", "idle", "fl_start"} : Move(Background, l)
    BY <1>1, Zenon DEF Tick, WindowScan, TaskFlushed, TaskFlushNext, StartFlush
  <2>2. UNCHANGED <<bufVars, owner, srvVars, errVars, cnt, left>>
        /\ \A b \in Actor \ {Background} : tgt'[b] = tgt[b]
    BY ZenonT(30), <1>1, <1>t
       DEF Tick, WindowScan, TaskFlushed, TaskFlushNext, StartFlush, StateType, flushVars
  <2>3. ASSUME NEW b \in Actor, NEW g \in Fh, Sends(b, g)' PROVE Sends(b, g)
    BY <1>a, <1>t, <2>1, <2>2, <2>3, Zenon DEF Sends, Move, StateType
  <2>4. Quiet
    BY <2>2, <2>3, Zenon DEF Quiet, Marked, bufVars, srvVars, errVars
  <2> QED
    BY <2>4, <1>q, Zenon
<1>2. ASSUME NEW g \in Fh, AgeDrop(g)
      PROVE  \/ HandleOK(f)'
             \/ Undercuts(f) /\ \E b \in Actor \ {Fuse, Background} : Sends(b, f)
  <2>1. /\ DropHandle(g) /\ UNCHANGED <<at, flushVars, sticky, reported, srvVars, owner>>
        /\ owed' = [owed EXCEPT ![Background] = IF HasBuffered(g) THEN {g} ELSE {}]
        /\ owed[Background] = {} /\ at[Background] = "age"
    BY <1>2, Zenon DEF AgeDrop, At
  <2>2. HandleOK(f)
    OBVIOUS
  <2>3. Marked(f) => Marked(f)'
    BY <1>a, <1>t, <2>1, Zenon DEF Marked, StateType
  <2>4. ASSUME NEW b \in Actor, Sends(b, f)'
        PROVE  Sends(b, f) /\ cnt'[b] = cnt[b] /\ left'[b] = left[b]
    BY <2>1, <2>4, Zenon DEF Sends, flushVars
  <2>5. CASE f # g
    <3>1. chunks'[f] = chunks[f] /\ sending'[f] = sending[f]
      BY <1>t, <2>1, <2>5, Zenon DEF DropHandle, StateType
    <3> QED
      BY <2>1, <2>2, <2>3, <2>4, <3>1, Frame, Zenon DEF srvVars
  <2>6. CASE f = g
    <3>1. chunks'[f] = <<>>
      BY <1>t, <2>1, <2>6, Zenon DEF DropHandle, StateType
    <3>3. ASSUME NEW w \in DOMAIN owner', owner'[w] = f PROVE Accounted(w, f)'
      <4>1. Accounted(w, f)
        BY <2>1, <2>2, <3>3, Zenon DEF HandleOK
      <4>2. CASE HasBuffered(f)
        <5>1. f \in owed'[Background]
          BY <1>a, <1>t, <2>1, <2>6, <4>2, Zenon DEF StateType
        <5> QED
          BY <1>a, <5>1, Zenon DEF Accounted
      <4>3. CASE ~HasBuffered(f)
        BY <2>1, <2>3, <3>1, <4>1, <4>3, Zenon DEF HasBuffered, Accounted, Marked, srvVars
      <4> QED
        BY <4>2, <4>3, Zenon
    \* A sender that is not the FUSE thread has something to send.
    <3>4. CASE \E b \in Actor \ {Fuse} : Sends(b, f)'
      <4>1. PICK b \in Actor \ {Fuse} : Sends(b, f)'
        BY <3>4, Zenon
      <4>2. b # Background /\ Sends(b, f)
        BY <2>1, <2>4, <4>1, Zenon DEF Sends
      <4>3. Delivering(b, f)
        BY <2>2, <4>1, <4>2, Zenon DEF HandleOK
      <4>4. HasBuffered(f)
        <5>1. 0 < cnt[b] /\ cnt[b] <= Len(chunks[f]) /\ cnt[b] \in Nat
          BY <1>t, <4>3 DEF Delivering, StateType
        <5>2. chunks[f] # <<>>
          BY <5>1
        <5> QED
          BY <5>2, Zenon DEF HasBuffered
      <4>5. f \in owed'[Background]
        BY <1>a, <1>t, <2>1, <2>6, <4>4, Zenon DEF StateType
      <4> QED
        BY <1>a, <2>1, <3>1, <4>1, <4>2, <4>4, <4>5, Zenon DEF Undercuts, Marked
    <3>5. CASE \A b \in Actor \ {Fuse} : ~Sends(b, f)'
      BY <3>1, <3>3, <3>5, Zenon DEF HandleOK
    <3> QED
      BY <3>4, <3>5, Zenon
  <2> QED
    BY <2>5, <2>6, Zenon
<1> QED
  BY <1>1, <1>2, Zenon DEF BackgroundStep

-----------------------------------------------------------------------------
(* A freshly mounted client, with no open file, satisfies the invariant. *)
LEMMA InvInit == Init => WriteBackInv
<1> SUFFICES ASSUME Init PROVE WriteBackInv
  BY Zenon
<1> USE WriteBackParameters
<1>1. AnyFh \in Fh
  BY Zenon DEF AnyFh
<1>2. DOMAIN openFiles = Fh /\ \A f \in Fh : ~R!Registered(f)
  BY Zenon DEF Init, R!Init, R!RemapInit, R!Registered
<1>3. StateType
  BY <1>1, <1>2 DEF Init, BufInit, StateType, Labels
<1>4. ASSUME NEW f \in Fh PROVE HandleOK(f)
  <2>1. \A a \in Actor : ~Sends(a, f)
    BY Zenon DEF Init, Sends
  <2>2. DOMAIN owner = {}
    BY DEF Init
  <2> QED
    BY <2>1, <2>2, Zenon DEF HandleOK
<1>5. at[Fuse] # "rel_drop" /\ \A a \in Actor : at[a] = "idle"
  BY Zenon DEF Init
<1> QED
  BY <1>2, <1>3, <1>4, <1>5, Zenon DEF WriteBackInv

(* Every step of the FUSE thread, the background task and the network keeps it. *)
LEMMA InvStep == WriteBackInv /\ [Next]_vars => WriteBackInv'
<1> SUFFICES ASSUME WriteBackInv, [Next]_vars PROVE WriteBackInv'
  BY Zenon
<1>1. [R!Next]_(R!vars)
  BY StepRefines, Zenon DEF WriteBackInv
<1>2. /\ DOMAIN openFiles' = Fh
      /\ \A f \in Fh : R!Registered(f)' => f \in issued'
      /\ \A f \in Fh : Released(f) => Released(f)'
  BY <1>1, RemapFacts, Zenon DEF WriteBackInv, StateType
<1>3. StateType'
  BY <1>2, StateTypeStep, Zenon DEF WriteBackInv
<1>4. /\ \A b \in Actor \ {Fuse, Background} : at'[b] = "idle"
      /\ at'[Fuse] = "rel_drop" => Released(ofh)'
  BY <1>2, ControlStep, Zenon DEF WriteBackInv
<1>5. ASSUME NEW f \in Fh \ AppendFh, ~Released(f)' PROVE HandleOK(f)'
  <2>0. StateType /\ f \in Fh /\ HandleOK(f)
    BY <1>2, <1>5, Zenon DEF WriteBackInv
  <2>1. CASE \E a \in {Fuse, Background} : SharedStep(a)
    BY <1>5, <2>0, <2>1, SharedPreserves, WriteBackParameters, Zenon
  <2>2. CASE FuseContinue \/ FuseBegin
    BY <1>2, <1>5, <2>0, <2>2, FusePreserves, Zenon DEF WriteBackInv
  <2>3. CASE BackgroundStep
    <3>1. \A b \in Actor \ {Fuse, Background} : ~Sends(b, f)
      BY Zenon DEF WriteBackInv, Sends
    <3> QED
      BY <2>0, <2>3, <3>1, BackgroundPreserves, Zenon
  <2>4. CASE Environment \/ UNCHANGED vars
    <3>1. Quiet
      BY <2>4, Zenon DEF Environment, ConnLost, LateApply, vars, Quiet, Marked, Sends,
         bufVars, flushVars, errVars, srvVars
    <3> QED
      BY <2>0, <3>1, QuietPreserves, Zenon
  <2> QED
    BY <2>1, <2>2, <2>3, <2>4, Zenon DEF Next, Progress
<1> QED
  BY <1>2, <1>3, <1>4, <1>5, Zenon DEF WriteBackInv

(* WriteBackInv is an invariant of the write-back path, for any number of
   handles and writes, any sizes and limits and any number of reconnects. *)
THEOREM Invariance == Spec => []WriteBackInv
  BY InvInit, InvStep, PTL DEF Spec

(* The write-back path uses the fh-remap only through the steps HandleRemap
   gives it, so what is proved of HandleRemap holds of every entry it reads. *)
THEOREM ImplementsRemap == Spec => RemapSpec
<1>1. Init => R!Init
  BY Zenon DEF Init
<1>2. WriteBackInv /\ [Next]_vars => [R!Next]_(R!vars)
  BY StepRefines, Zenon DEF WriteBackInv
<1> QED
  BY <1>1, <1>2, Invariance, PTL DEF Spec, RemapSpec, R!Spec

(* flush_one, the drain loop, age-drops, reconnects and late replies never lose
   track of an acknowledged write of an open positioned handle. *)
THEOREM WritesAccounted == Spec => []PositionedWriteAccounted
<1>1. WriteBackInv => PositionedWriteAccounted
  <2> SUFFICES ASSUME WriteBackInv, NEW w \in DOMAIN owner,
                      owner[w] \notin AppendFh, ~Released(owner[w])
               PROVE  Accounted(w, owner[w])
    BY Zenon DEF PositionedWriteAccounted
  <2>1. owner[w] \in Fh \ AppendFh
    BY DEF WriteBackInv, StateType
  <2>2. HandleOK(owner[w])
    BY <2>1, Zenon DEF WriteBackInv
  <2> QED
    BY <2>2, Zenon DEF HandleOK
<1> QED
  BY <1>1, Invariance, PTL

(* The sending guard of writebuf.rs keeps the FUSE thread and the background
   task from transmitting one positioned handle's chunks at the same time. *)
THEOREM OneSender == Spec => []SingleSender
<1>1. WriteBackInv => SingleSender
  BY Zenon DEF WriteBackInv, HandleOK, SingleSender
<1> QED
  BY <1>1, Invariance, PTL

-----------------------------------------------------------------------------
(* The bytes of a set of chunks. *)

(* Induction, as the least counterexample. *)
LEMMA Least ==
  ASSUME NEW T \in SUBSET Nat, T # {}
  PROVE  \E n \in T : \A m \in T : n <= m
<1> DEFINE Lt == OpToRel(<, Nat)
<1>1. IsWellFoundedOn(Lt, Nat)
  BY NatLessThanWellFounded, Zenon
<1>2. \A x, y \in Nat : <<x, y>> \in Lt <=> x < y
  BY DEF OpToRel
<1> HIDE DEF Lt
<1>3. PICK n \in T : \A m \in T : ~(<<m, n>> \in Lt)
  BY <1>1, WFMin, Zenon
<1>4. \A m \in T : ~(m < n)
  BY <1>2, <1>3, Zenon
<1> QED
  BY <1>4

\* What chunk n adds, and the sums up to k.
Share(S, n) == IF n \in S THEN Size[n] ELSE 0
Sums(S, k, g) == g[0] = 0 /\ \A n \in 1..k : g[n] = g[n - 1] + Share(S, n)

(* A chunk has a length. *)
LEMMA ShareNat == \A S : \A n \in Write : Share(S, n) \in Nat
  BY BufferParameters DEF Share, Write

(* The sums exist, ... *)
LEMMA PrefixSums ==
  ASSUME NEW S, NEW k \in 0..MaxWrites
  PROVE  \E g \in [0..k -> Nat] : Sums(S, k, g)
<1> DEFINE bad == {n \in 0..MaxWrites : ~\E g \in [0..n -> Nat] : Sums(S, n, g)}
<1> SUFFICES ASSUME bad # {} PROVE FALSE
  BY Zenon
<1>1. bad \in SUBSET Nat
  BY BufferParameters
<1>2. PICK n \in bad : \A m \in bad : n <= m
  BY <1>1, Least, Zenon
<1>3. n \in 0..MaxWrites /\ n \in Nat /\ ~\E g \in [0..n -> Nat] : Sums(S, n, g)
  BY <1>2, BufferParameters
<1>4. CASE n = 0
  <2>1. [i \in 0..n |-> 0] \in [0..n -> Nat] /\ Sums(S, n, [i \in 0..n |-> 0])
    BY <1>4 DEF Sums
  <2> QED
    BY <1>3, <2>1, Zenon
<1>5. CASE n # 0
  <2>1. n - 1 \in 0..MaxWrites /\ ~(n <= n - 1) /\ n \in Write
    BY <1>3, <1>5, BufferParameters DEF Write
  <2>2. n - 1 \notin bad
    BY <1>2, <2>1, Zenon
  <2>3. PICK g \in [0..(n - 1) -> Nat] : Sums(S, n - 1, g)
    BY <2>1, <2>2, Zenon
  <2> DEFINE h == [i \in 0..n |-> IF i = n THEN g[n - 1] + Share(S, n) ELSE g[i]]
  <2>4. g[n - 1] + Share(S, n) \in Nat
    <3>1. g[n - 1] \in Nat
      BY <1>3, <1>5
    <3> QED
      BY <2>1, <3>1, ShareNat
  <2>5. h \in [0..n -> Nat]
    BY <1>3, <2>4
  <2>6. h[0] = 0 /\ h[n] = h[n - 1] + Share(S, n)
    BY <1>3, <1>5, <2>3 DEF Sums
  <2>7. ASSUME NEW i \in 1..n PROVE h[i] = h[i - 1] + Share(S, i)
    <3>1. CASE i = n
      BY <2>6, <3>1
    <3>2. CASE i # n
      <4>1. i \in 1..(n - 1) /\ i \in 0..n /\ i - 1 \in 0..n /\ i - 1 # n
        BY <1>3, <3>2
      <4>2. h[i] = g[i] /\ h[i - 1] = g[i - 1]
        BY <3>2, <4>1, Zenon
      <4> QED
        BY <2>3, <4>1, <4>2, Zenon DEF Sums
    <3> QED
      BY <3>1, <3>2, Zenon
  <2>8. Sums(S, n, h)
    BY <2>6, <2>7, Zenon DEF Sums
  <2> QED
    BY <1>3, <2>5, <2>8, Zenon
<1> QED
  BY <1>4, <1>5, Zenon

(* ... so Bytes is the last of them. *)
LEMMA BytesIsSum ==
  ASSUME NEW S
  PROVE  \E g : Sums(S, MaxWrites, g) /\ Bytes(S) = g[MaxWrites]
<1> DEFINE F(g) == [w \in 0..MaxWrites |-> IF w = 0 THEN 0 ELSE g[w - 1] + (IF w \in S THEN Size[w] ELSE 0)]
<1>0. MaxWrites \in 0..MaxWrites
  BY BufferParameters
<1>1. PICK g \in [0..MaxWrites -> Nat] : Sums(S, MaxWrites, g)
  BY <1>0, PrefixSums, Zenon
<1>2. g = F(g)
  BY <1>1, BufferParameters DEF Sums, Share
<1> DEFINE u == CHOOSE v : v = F(v)
<1>3. u = F(u)
  BY <1>2, Zenon
<1>4. Bytes(S) = u[MaxWrites]
  BY Zenon DEF Bytes
<1> HIDE DEF u
<1>5. Sums(S, MaxWrites, u)
  <2>1. \A n \in 0..MaxWrites : u[n] = IF n = 0 THEN 0 ELSE u[n - 1] + (IF n \in S THEN Size[n] ELSE 0)
    BY <1>3, Zenon
  <2>2. 0 \in 0..MaxWrites /\ \A n \in 1..MaxWrites : n \in 0..MaxWrites /\ n # 0
    BY BufferParameters
  <2> QED
    BY <2>1, <2>2, Zenon DEF Sums, Share
<1> QED
  BY <1>4, <1>5, Zenon

(* Sums are numbers. *)
LEMMA SumsTyped ==
  ASSUME NEW S, NEW g, Sums(S, MaxWrites, g), NEW k \in 0..MaxWrites
  PROVE  g[k] \in Nat
<1> DEFINE bad == {n \in 0..MaxWrites : g[n] \notin Nat}
<1> SUFFICES ASSUME bad # {} PROVE FALSE
  BY Zenon
<1>1. bad \in SUBSET Nat
  BY BufferParameters
<1>2. PICK n \in bad : \A m \in bad : n <= m
  BY <1>1, Least, Zenon
<1>3. n \in 0..MaxWrites /\ n \in Nat /\ g[n] \notin Nat
  BY <1>2, BufferParameters
<1>4. n # 0
  BY <1>3 DEF Sums
<1>5. n - 1 \in 0..MaxWrites /\ ~(n <= n - 1) /\ n \in 1..MaxWrites
  BY <1>3, <1>4, BufferParameters
<1>6. g[n - 1] \in Nat
  BY <1>2, <1>5, Zenon
<1>7. g[n] = g[n - 1] + Share(S, n) /\ Share(S, n) \in Nat
  BY <1>5, ShareNat, Zenon DEF Sums, Write
<1> QED
  BY <1>3, <1>6, <1>7

(* The bytes of two disjoint sets add up. *)
LEMMA BytesUnion ==
  ASSUME NEW S, NEW T, S \cap T = {}
  PROVE  Bytes(S \cup T) = Bytes(S) + Bytes(T) /\ Bytes(S) \in Nat /\ Bytes(T) \in Nat
<1>1. PICK s : Sums(S, MaxWrites, s) /\ Bytes(S) = s[MaxWrites]
  BY BytesIsSum, Zenon
<1>2. PICK t : Sums(T, MaxWrites, t) /\ Bytes(T) = t[MaxWrites]
  BY BytesIsSum, Zenon
<1>3. PICK u : Sums(S \cup T, MaxWrites, u) /\ Bytes(S \cup T) = u[MaxWrites]
  BY BytesIsSum, Zenon
<1>m. MaxWrites \in 0..MaxWrites
  BY BufferParameters
<1>4. \A n \in 0..MaxWrites : s[n] \in Nat /\ t[n] \in Nat /\ u[n] \in Nat
  BY <1>1, <1>2, <1>3, SumsTyped, Zenon
<1> DEFINE bad == {n \in 0..MaxWrites : u[n] # s[n] + t[n]}
<1>5. ASSUME bad # {} PROVE FALSE
  <2>1. bad \in SUBSET Nat
    BY BufferParameters
  <2>2. PICK n \in bad : \A m \in bad : n <= m
    BY <1>5, <2>1, Least, Zenon
  <2>3. n \in 0..MaxWrites /\ n \in Nat /\ u[n] # s[n] + t[n]
    BY <2>2, BufferParameters
  <2>4. n # 0
    BY <1>1, <1>2, <1>3, <2>3 DEF Sums
  <2>5. n - 1 \in 0..MaxWrites /\ ~(n <= n - 1) /\ n \in 1..MaxWrites
    BY <2>3, <2>4, BufferParameters
  <2>6. u[n - 1] = s[n - 1] + t[n - 1]
    BY <2>2, <2>5, Zenon
  <2>7. /\ s[n] = s[n - 1] + Share(S, n) /\ t[n] = t[n - 1] + Share(T, n)
        /\ u[n] = u[n - 1] + Share(S \cup T, n)
    BY <1>1, <1>2, <1>3, <2>5, Zenon DEF Sums
  <2>8. Share(S, n) \in Nat /\ Share(T, n) \in Nat
    BY <2>5, ShareNat, Zenon DEF Write
  <2>9. Share(S \cup T, n) = Share(S, n) + Share(T, n)
    BY <2>8 DEF Share
  <2>10. s[n - 1] \in Nat /\ t[n - 1] \in Nat
    BY <1>4, <2>5, Zenon
  <2>11. u[n] = (s[n - 1] + t[n - 1]) + (Share(S, n) + Share(T, n))
    BY <2>6, <2>7, <2>9, Zenon
  <2>12. s[n] + t[n] = (s[n - 1] + Share(S, n)) + (t[n - 1] + Share(T, n))
    BY <2>7, Zenon
  <2>13. (s[n - 1] + t[n - 1]) + (Share(S, n) + Share(T, n)) = (s[n - 1] + Share(S, n)) + (t[n - 1] + Share(T, n))
    <3> DEFINE a == s[n - 1]  b == t[n - 1]  x == Share(S, n)  y == Share(T, n)
    <3>1. a \in Nat /\ b \in Nat /\ x \in Nat /\ y \in Nat
      BY <2>8, <2>10, Zenon
    <3> HIDE DEF a, b, x, y
    <3>2. (a + b) + (x + y) = (a + x) + (b + y)
      BY <3>1
    <3> QED
      BY <3>2, Zenon DEF a, b, x, y
  <2> QED
    BY <2>3, <2>11, <2>12, <2>13, Zenon
<1> QED
  BY <1>1, <1>2, <1>3, <1>4, <1>5, <1>m, Zenon

(* No chunks have no bytes. *)
LEMMA BytesOfNone == Bytes({}) = 0
<1> DEFINE none == {} \cap Write
<1>1. none \cup none = none /\ none \cap none = {} /\ none = {}
  BY Zenon
<1> HIDE DEF none
<1>2. Bytes(none) = Bytes(none) + Bytes(none) /\ Bytes(none) \in Nat
  BY <1>1, BytesUnion, Zenon
<1>3. \A b \in Nat : b = b + b => b = 0
  OBVIOUS
<1> QED
  BY <1>1, <1>2, <1>3, Zenon

(* One chunk has its length. *)
LEMMA BytesOfOne ==
  ASSUME NEW w \in Write
  PROVE  Bytes({w}) = Size[w]
<1>1. PICK u : Sums({w}, MaxWrites, u) /\ Bytes({w}) = u[MaxWrites]
  BY BytesIsSum, Zenon
<1> DEFINE bad == {n \in 0..MaxWrites : u[n] # (IF n < w THEN 0 ELSE Size[w])}
<1>2. ASSUME bad # {} PROVE FALSE
  <2>1. bad \in SUBSET Nat
    BY BufferParameters
  <2>2. PICK n \in bad : \A m \in bad : n <= m
    BY <1>2, <2>1, Least, Zenon
  <2>3. n \in 0..MaxWrites /\ n \in Nat /\ u[n] # (IF n < w THEN 0 ELSE Size[w]) /\ w \in Nat /\ 0 < w /\ Size[w] \in Nat
    BY <2>2, BufferParameters DEF Write
  <2>4. n # 0
    BY <1>1, <2>3 DEF Sums
  <2>5. n - 1 \in 0..MaxWrites /\ ~(n <= n - 1) /\ n \in 1..MaxWrites
    BY <2>3, <2>4, BufferParameters
  <2>6. u[n - 1] = IF n - 1 < w THEN 0 ELSE Size[w]
    BY <2>2, <2>5, Zenon
  <2>7. u[n] = u[n - 1] + Share({w}, n)
    BY <1>1, <2>5, Zenon DEF Sums
  <2>8. Share({w}, n) = IF n = w THEN Size[w] ELSE 0
    BY Zenon DEF Share
  <2> QED
    BY <2>3, <2>6, <2>7, <2>8
<1>3. u[MaxWrites] = Size[w]
  <2>1. MaxWrites \in 0..MaxWrites /\ ~(MaxWrites < w)
    BY BufferParameters DEF Write
  <2> QED
    BY <1>2, <2>1, Zenon
<1> QED
  BY <1>1, <1>3, Zenon
-----------------------------------------------------------------------------
(* total_bytes. *)

(* The first n chunks of a buffer and the rest. *)
LEMMA Cut ==
  ASSUME NEW s \in Seq(Nat), NEW n \in Nat, n <= Len(s)
  PROVE  LET h == SubSeq(s, 1, n)
             t == SubSeq(s, n + 1, Len(s))
         IN  /\ \A i \in DOMAIN h : i \in DOMAIN s /\ i <= n /\ h[i] = s[i]
             /\ \A i \in DOMAIN t : i + n \in DOMAIN s /\ i + n > n /\ t[i] = s[i + n]
             /\ \A i \in DOMAIN s : IF i <= n THEN i \in DOMAIN h ELSE i - n \in DOMAIN t /\ (i - n) + n = i
<1> DEFINE h == SubSeq(s, 1, n)
           t == SubSeq(s, n + 1, Len(s))
           m == Len(s)
<1>1. m \in Nat /\ DOMAIN s = 1..m
  OBVIOUS
<1>2. DOMAIN h = 1..n /\ \A i \in 1..n : h[i] = s[i]
  OBVIOUS
<1>3. t \in Seq(Nat) /\ Len(t) = m - n
  OBVIOUS
<1>4. DOMAIN t = 1..(m - n)
  BY <1>3
<1>5. \A i \in 1..(m - n) : t[i] = s[i + n]
  OBVIOUS
<1>6. n <= m
  OBVIOUS
<1> HIDE DEF h, t, m
<1>7. /\ \A i \in 1..n : i \in 1..m /\ i <= n
      /\ \A i \in 1..(m - n) : i + n \in 1..m /\ i + n > n
      /\ \A i \in 1..m : IF i <= n THEN i \in 1..n ELSE i - n \in 1..(m - n) /\ (i - n) + n = i
  BY <1>1, <1>6
<1>8. \A i \in DOMAIN h : i \in DOMAIN s /\ i <= n /\ h[i] = s[i]
  BY <1>1, <1>2, <1>7, Zenon
<1>9. \A i \in DOMAIN t : i + n \in DOMAIN s /\ i + n > n /\ t[i] = s[i + n]
  BY <1>1, <1>4, <1>5, <1>7, Zenon
<1>10. \A i \in DOMAIN s : IF i <= n THEN i \in DOMAIN h ELSE i - n \in DOMAIN t /\ (i - n) + n = i
  BY <1>1, <1>2, <1>4, <1>7, Zenon
<1> QED
  BY <1>8, <1>9, <1>10, Zenon DEF h, t, m

\* The operations of the buffer, and who calls them.
BufferOp ==
    \/ UNCHANGED <<chunks, total, owner>>
    \/ WriteQueued
    \/ owner' = owner /\ \E f \in Fh : DropHandle(f) \/ \E n \in Nat : AckFlush(f, n)

(* flush_one and ensure_live change the buffer by its operations only. *)
LEMMA SharedBufferOp ==
  ASSUME StateType, NEW a \in Actor, SharedStep(a)
  PROVE  BufferOp /\ owner' = owner
<1>0. afh[a] \in AppendFh => afh[a] \in Fh
  BY WriteBackParameters, Zenon
<1>1. tgt[a] \in Fh /\ cnt[a] \in Nat
  BY Zenon DEF StateType
<1>2. CASE RemapStep(a) \/ ReopenTail(a) \/ InsertSticky(a)
  BY <1>0, <1>2, Zenon DEF RemapStep, ReopenTail, InsertSticky, BufferOp, bufVars
<1>3. CASE FlushEnsureLive(a) \/ FlushNotLive(a) \/ FlushBegin(a) \/ SendRun(a)
  BY <1>3, Zenon DEF FlushEnsureLive, FlushNotLive, FlushBegin, BeginFlush, SendRun, BufferOp, bufVars
<1>4. CASE WriteOk(a) \/ WriteErr(a) \/ WriteNoConn(a)
  BY <1>4, Zenon DEF WriteOk, WriteErr, WriteNoConn, BufferOp, bufVars
<1>5. CASE FlushAck(a) \/ FlushFail(a)
  BY <1>1, <1>5, Zenon DEF FlushAck, FlushFail, FailFlush, BufferOp
<1> QED
  BY <1>2, <1>3, <1>4, <1>5, Zenon DEF SharedStep, FlushStep

(* So does every step. *)
LEMMA NextBufferOp ==
  ASSUME StateType, [Next]_vars
  PROVE  BufferOp
<1>0. ofh \in Fh /\ Fuse \in Actor /\ Background \in Actor
  BY WriteBackParameters, Zenon DEF StateType
<1>u. UNCHANGED <<bufVars, owner>> => BufferOp
  BY Zenon DEF BufferOp, bufVars
<1>1. CASE \E a \in {Fuse, Background} : SharedStep(a)
  BY <1>0, <1>1, SharedBufferOp, Zenon
<1>2. CASE FuseContinue
  <2>1. CASE ReleaseDrop
    BY <1>0, <2>1, Zenon DEF ReleaseDrop, BufferOp
  <2>2. CASE ~ReleaseDrop /\ ~WriteQueued
    BY <1>2, <1>u, <2>2, ZenonT(30) DEF FuseContinue, RegisterOpen, OpenDone, WriteRejected, WriteFlushed,
       FlushedOnce, Drain, Settle, LiveHandle, ReleaseEntry, StatFlushNext, StatFlushed,
       DataRpcDone, SetattrDone, ReleaseDone, StatDone
  <2> QED
    BY <2>1, <2>2, Zenon DEF BufferOp
<1>3. CASE FuseBegin
  BY <1>3, <1>u, Zenon DEF FuseBegin, Open, StatBegin, WriteBegin, HandleOpBegin
<1>4. CASE BackgroundStep
  <2>1. ASSUME NEW f \in Fh, AgeDrop(f) PROVE BufferOp
    BY <2>1, Zenon DEF AgeDrop, BufferOp
  <2> QED
    BY <1>4, <1>u, <2>1, Zenon DEF BackgroundStep, Tick, WindowScan, TaskFlushNext, TaskFlushed
<1>5. CASE Environment \/ UNCHANGED vars
  BY <1>5, <1>u, Zenon DEF Environment, ConnLost, LateApply, vars
<1> QED
  BY <1>1, <1>2, <1>3, <1>4, <1>5, Zenon DEF Next, Progress

\* The invariant behind total_bytes: a write is buffered under its own handle, and only
\* once, so what is removed from a buffer was counted.
BufferInv ==
    /\ Len(owner) <= MaxWrites
    /\ at[Fuse] = "w_live" => Len(owner) < MaxWrites
    /\ \A f \in Fh : \A w \in Range(chunks[f]) : w \in DOMAIN owner /\ owner[w] = f
    /\ BufferBounded

(* Taking the chunks H out of the buffer of f. *)
LEMMA TakesOut ==
  ASSUME StateType, BufferInv, NEW f \in Fh, NEW t, NEW H,
         chunks' = [chunks EXCEPT ![f] = t], owner' = owner,
         Range(chunks[f]) = Range(t) \cup H, Range(t) \cap H = {},
         total' = SaturatingSub(total, Bytes(H)),
         \A i, j \in DOMAIN t : t[i] = t[j] => i = j
  PROVE  /\ \A g \in Fh : \A w \in Range(chunks'[g]) : w \in DOMAIN owner' /\ owner'[w] = g
         /\ BufferBounded'
<1>1. chunks'[f] = t /\ \A g \in Fh : g # f => chunks'[g] = chunks[g]
  BY Zenon DEF StateType
<1>2. \A g \in Fh : \A w \in Range(chunks[g]) : w \in DOMAIN owner /\ owner[w] = g
  BY Zenon DEF BufferInv
<1>3. \A g \in Fh : \A w \in Range(chunks'[g]) : w \in Range(chunks[g]) /\ (w \in H => g # f)
  BY <1>1, Zenon
<1>4. \A g \in Fh : \A w \in Range(chunks'[g]) : w \in DOMAIN owner' /\ owner'[w] = g
  BY <1>2, <1>3, Zenon
<1>5. Buffered' \cap H = {}
  <2> SUFFICES ASSUME NEW w \in Buffered', w \in H PROVE FALSE
    BY Zenon
  <2>1. PICK g \in Fh : w \in Range(chunks'[g])
    BY Zenon DEF Buffered
  <2>2. w \in Range(chunks[f]) /\ w \in Range(chunks[g]) /\ g # f
    BY <1>3, <2>1, Zenon
  <2>3. owner[w] = f /\ owner[w] = g
    BY <1>2, <2>2, Zenon
  <2> QED
    BY <2>2, <2>3, Zenon
<1>6. Buffered = Buffered' \cup H
  <2>1. ASSUME NEW w \in Buffered PROVE w \in Buffered' \cup H
    <3>1. PICK g \in Fh : w \in Range(chunks[g])
      BY <2>1, Zenon DEF Buffered
    <3>2. w \in Range(chunks'[g]) \/ w \in H
      BY <1>1, <3>1, Zenon
    <3> QED
      BY <3>2, Zenon DEF Buffered
  <2>2. ASSUME NEW w \in Buffered' PROVE w \in Buffered
    BY <1>3, <2>2, Zenon DEF Buffered
  <2>3. ASSUME NEW w \in H PROVE w \in Buffered
    BY <2>3, Zenon DEF Buffered
  <2> QED
    BY <2>1, <2>2, <2>3, Zenon
<1>7. total = Bytes(Buffered') + Bytes(H) /\ Bytes(Buffered') \in Nat /\ Bytes(H) \in Nat /\ total <= HardTotal
  BY <1>5, <1>6, BytesUnion, Zenon DEF BufferInv, BufferBounded
<1>8. total' = Bytes(Buffered') /\ total' <= HardTotal
  <2> DEFINE b == Bytes(Buffered')  c == Bytes(H)
  <2>1. b \in Nat /\ c \in Nat /\ total = b + c /\ total' = SaturatingSub(total, c)
    BY <1>7, Zenon
  <2>2. HardTotal \in Nat /\ total <= HardTotal
    BY <1>7, BufferParameters DEF HardTotal
  <2> HIDE DEF b, c, HardTotal
  <2>3. total' = b /\ b <= HardTotal
    BY <2>1, <2>2 DEF SaturatingSub
  <2> QED
    BY <2>3, Zenon DEF b
<1>9. ChunksDistinct'
  <2> SUFFICES ASSUME NEW g \in Fh, NEW h \in Fh, NEW i \in DOMAIN chunks'[g], NEW j \in DOMAIN chunks'[h],
                      chunks'[g][i] = chunks'[h][j]
               PROVE  g = h /\ i = j
    BY Zenon DEF ChunksDistinct
  <2>1. g = h
    <3>1. chunks'[g][i] \in Range(chunks'[g]) /\ chunks'[h][j] \in Range(chunks'[h])
      BY Zenon DEF Range
    <3>2. owner'[chunks'[g][i]] = g /\ owner'[chunks'[h][j]] = h
      BY <1>4, <3>1, Zenon
    <3> QED
      BY <3>2, Zenon
  <2>2. CASE g = f
    BY <1>1, <2>1, <2>2, Zenon
  <2>3. CASE g # f
    <3>1. chunks'[g] = chunks[g] /\ i \in DOMAIN chunks[g] /\ j \in DOMAIN chunks[g]
      BY <1>1, <2>1, <2>3, Zenon
    <3>2. chunks[g][i] = chunks[g][j]
      BY <2>1, <3>1, Zenon
    <3>3. ChunksDistinct
      BY Zenon DEF BufferInv, BufferBounded
    <3>4. \A x, y \in DOMAIN chunks[g] : chunks[g][x] = chunks[g][y] => x = y
      BY <3>3 DEF ChunksDistinct
    <3> QED
      BY <2>1, <3>1, <3>2, <3>4, Zenon
  <2> QED
    BY <2>1, <2>2, <2>3, Zenon
<1>10. Bytes(Buffered)' = Bytes(Buffered') /\ HardTotal' = HardTotal
  BY Zenon DEF Bytes, HardTotal
<1> QED
  BY <1>4, <1>8, <1>9, <1>10, Zenon DEF BufferBounded

(* The operations of the buffer keep total_bytes exact and within the hard bound. *)
LEMMA BufferKept ==
  ASSUME StateType, BufferInv, BufferOp,
         at'[Fuse] = "w_live" => owner' = owner /\ Len(owner) < MaxWrites
  PROVE  BufferInv'
<1>0. /\ owner \in Seq(Fh) /\ chunks \in [Fh -> Seq(Nat)] /\ ofh \in Fh
      /\ \A f, g \in Fh : \A i \in DOMAIN chunks[f], j \in DOMAIN chunks[g] :
            chunks[f][i] = chunks[g][j] => f = g /\ i = j
  BY Zenon DEF StateType, BufferInv, BufferBounded, ChunksDistinct
<1>1. CASE UNCHANGED <<chunks, total, owner>>
  <2>1. Buffered' = Buffered /\ HardTotal' = HardTotal
    BY <1>1 DEF Buffered, HardTotal
  <2>3. ChunksDistinct'
    BY <1>0, <1>1 DEF ChunksDistinct
  <2>2. Bytes(Buffered)' = Bytes(Buffered)
    BY <2>1, Zenon DEF Bytes
  <2> QED
    BY <1>1, <2>1, <2>2, <2>3, Zenon DEF BufferInv, BufferBounded
<1>k. ASSUME owner' = owner, BufferBounded',
             \A g \in Fh : \A w \in Range(chunks'[g]) : w \in DOMAIN owner' /\ owner'[w] = g
      PROVE  BufferInv'
  BY <1>k, Zenon DEF BufferInv
<1>2. ASSUME NEW f \in Fh, DropHandle(f), owner' = owner PROVE BufferInv'
  <2> DEFINE t == <<>>
  <2>1. DOMAIN t = {} /\ Range(t) = {}
    BY DEF Range
  <2>2. chunks' = [chunks EXCEPT ![f] = t] /\ total' = SaturatingSub(total, Bytes(Range(chunks[f])))
    BY <1>2, Zenon DEF DropHandle
  <2> HIDE DEF t
  <2>3. Range(chunks[f]) = Range(t) \cup Range(chunks[f]) /\ Range(t) \cap Range(chunks[f]) = {}
        /\ \A i, j \in DOMAIN t : t[i] = t[j] => i = j
    BY <2>1, Zenon
  <2> QED
    BY <1>2, <1>k, <2>2, <2>3, TakesOut, Zenon
<1>3. ASSUME NEW f \in Fh, NEW n \in Nat, AckFlush(f, n), owner' = owner PROVE BufferInv'
  <2> DEFINE s == chunks[f]
             k == IF n <= Len(s) THEN n ELSE Len(s)
             h == SubSeq(s, 1, k)
             t == SubSeq(s, k + 1, Len(s))
  <2>1. s \in Seq(Nat)
    BY <1>0, Zenon
  <2>2. k \in Nat /\ k <= Len(s)
    BY <2>1
  <2>3. chunks' = [chunks EXCEPT ![f] = t] /\ total' = SaturatingSub(total, Bytes(Range(h)))
    BY <1>3, Zenon DEF AckFlush
  <2>d. \A i, j \in DOMAIN s : s[i] = s[j] => i = j
    BY <1>0, Zenon
  <2> HIDE DEF s, k
  <2>4. /\ \A i \in DOMAIN h : i \in DOMAIN s /\ i <= k /\ h[i] = s[i]
        /\ \A i \in DOMAIN t : i + k \in DOMAIN s /\ i + k > k /\ t[i] = s[i + k]
        /\ \A i \in DOMAIN s : IF i <= k THEN i \in DOMAIN h ELSE i - k \in DOMAIN t /\ (i - k) + k = i
    BY <2>1, <2>2, Cut, Zenon
  <2>i. DOMAIN s \subseteq Nat /\ DOMAIN t \subseteq Nat
    BY <2>1, <2>2
  <2> HIDE DEF h, t
  <2>5. Range(s) = Range(t) \cup Range(h)
    <3>1. ASSUME NEW i \in DOMAIN s PROVE s[i] \in Range(t) \cup Range(h)
      BY <2>4, <3>1, Zenon DEF Range
    <3>2. Range(t) \subseteq Range(s) /\ Range(h) \subseteq Range(s)
      BY <2>4, Zenon DEF Range
    <3> QED
      BY <3>1, <3>2, Zenon DEF Range
  <2>6. Range(t) \cap Range(h) = {}
    <3> SUFFICES ASSUME NEW i \in DOMAIN t, NEW j \in DOMAIN h, t[i] = h[j] PROVE FALSE
      BY Zenon DEF Range
    <3>1. i + k = j /\ j <= k /\ i + k > k /\ j \in Nat
      BY <2>4, <2>d, <2>i, Zenon
    <3> QED
      BY <2>2, <3>1
  <2>7. ASSUME NEW i \in DOMAIN t, NEW j \in DOMAIN t, t[i] = t[j] PROVE i = j
    <3>1. i + k = j + k /\ i \in Nat /\ j \in Nat
      BY <2>4, <2>7, <2>d, <2>i, Zenon
    <3> QED
      BY <2>2, <3>1
  <2> QED
    BY <1>3, <1>k, <2>3, <2>5, <2>6, <2>7, TakesOut, Zenon DEF s
<1>4. CASE WriteQueued
  <2> DEFINE w == NextWrite
             s == chunks[ofh]
             t == Append(s, w)
  <2>1. /\ at[Fuse] = "w_live" /\ ~Rejects(w)
        /\ chunks' = [chunks EXCEPT ![ofh] = t] /\ total' = total + Size[w] /\ owner' = Append(owner, ofh)
    BY <1>4, Zenon DEF WriteQueued, At, Push
  <2>2. Len(owner) \in Nat /\ Len(owner) < MaxWrites /\ DOMAIN owner = 1..Len(owner) /\ w = Len(owner) + 1
    BY <1>0, <2>1 DEF BufferInv, NextWrite
  <2>3. w \in Write /\ w \in Nat /\ w \notin DOMAIN owner /\ Len(owner) + 1 <= MaxWrites
    BY <2>2, BufferParameters DEF Write
  <2>4. /\ Len(owner') = Len(owner) + 1 /\ DOMAIN owner' = DOMAIN owner \cup {w}
        /\ owner'[w] = ofh /\ \A v \in DOMAIN owner : owner'[v] = owner[v]
    <3>1. owner \in Seq(Fh) /\ ofh \in Fh /\ owner' = Append(owner, ofh)
      BY <1>0, <2>1, Zenon
    <3>2. /\ Len(owner') = Len(owner) + 1 /\ DOMAIN owner' = DOMAIN owner \cup {Len(owner) + 1}
          /\ owner'[Len(owner) + 1] = ofh /\ \A v \in DOMAIN owner : owner'[v] = owner[v]
      BY <3>1
    <3> QED
      BY <2>2, <3>2, Zenon
  <2>5. s \in Seq(Nat)
    BY <1>0, Zenon
  <2> HIDE DEF w, s
  <2>6. /\ DOMAIN t = DOMAIN s \cup {Len(s) + 1} /\ Len(s) + 1 \notin DOMAIN s
        /\ t[Len(s) + 1] = w /\ \A i \in DOMAIN s : t[i] = s[i]
    BY <2>3, <2>5
  <2> HIDE DEF t
  <2>7. Range(t) = Range(s) \cup {w}
    <3>1. ASSUME NEW i \in DOMAIN t PROVE t[i] \in Range(s) \/ t[i] = w
      <4>1. i \in DOMAIN s \/ i = Len(s) + 1
        BY <2>6, <3>1, Zenon
      <4> QED
        BY <2>6, <4>1, Zenon DEF Range
    <3>2. w \in Range(t)
      <4>1. Len(s) + 1 \in DOMAIN t
        BY <2>6, Zenon
      <4> QED
        BY <2>6, <4>1, Zenon DEF Range
    <3>3. ASSUME NEW i \in DOMAIN s PROVE s[i] \in Range(t)
      <4>1. i \in DOMAIN t
        BY <2>6, <3>3, Zenon
      <4> QED
        BY <2>6, <3>3, <4>1, Zenon DEF Range
    <3> QED
      BY <3>1, <3>2, <3>3, Zenon DEF Range
  <2>8. chunks'[ofh] = t /\ \A g \in Fh : g # ofh => chunks'[g] = chunks[g]
    BY <1>0, <2>1, Zenon
  <2>9. \A g \in Fh : \A v \in Range(chunks'[g]) :
           \/ v \in Range(chunks[g]) /\ v \in DOMAIN owner /\ owner[v] = g
           \/ v = w /\ g = ofh
    <3> SUFFICES ASSUME NEW g \in Fh, NEW v \in Range(chunks'[g])
                 PROVE  v \in Range(chunks[g]) \/ (v = w /\ g = ofh)
      BY Zenon DEF BufferInv
    <3> QED
      BY <2>7, <2>8, Zenon DEF s
  <2>10. \A g \in Fh : \A v \in Range(chunks'[g]) : v \in DOMAIN owner' /\ owner'[v] = g
    BY <2>4, <2>9, Zenon
  <2>11. Buffered' = Buffered \cup {w} /\ Buffered \cap {w} = {}
    <3>1. \A v \in Buffered : v \in DOMAIN owner
      BY Zenon DEF Buffered, BufferInv
    <3>2. ASSUME NEW v \in Buffered' PROVE v \in Buffered \/ v = w
      <4>1. PICK g \in Fh : v \in Range(chunks'[g])
        BY <3>2, Zenon DEF Buffered
      <4> QED
        BY <2>9, <4>1, Zenon DEF Buffered
    <3>3. w \in Buffered'
      BY <1>0, <2>7, <2>8, Zenon DEF Buffered
    <3>4. ASSUME NEW g \in Fh, NEW v \in Range(chunks[g]) PROVE v \in Buffered'
      BY <2>7, <2>8, <3>4, Zenon DEF Buffered, s
    <3>5. Buffered \subseteq Buffered'
      BY <3>4, Zenon DEF Buffered
    <3> QED
      BY <2>3, <3>1, <3>2, <3>3, <3>5, Zenon
  <2>12. Bytes(Buffered') = Bytes(Buffered) + Size[w] /\ Bytes(Buffered) \in Nat
    BY <2>3, <2>11, BytesUnion, BytesOfOne, Zenon
  <2>13. total' = Bytes(Buffered') /\ total' <= HardTotal
    <3>1. total = Bytes(Buffered)
      BY Zenon DEF BufferInv, BufferBounded
    <3>2. Size[w] \in Nat /\ HardTotal \in Nat
      BY <2>3, BufferParameters DEF HardTotal
    <3> HIDE DEF HardTotal
    <3>3. total + Size[w] <= HardTotal
      BY <2>1, <2>12, <3>1, <3>2 DEF Rejects
    <3> QED
      BY <2>1, <2>12, <3>1, <3>3, Zenon
  <2>14. ChunksDistinct'
    <3> SUFFICES ASSUME NEW g \in Fh, NEW h \in Fh, NEW i \in DOMAIN chunks'[g], NEW j \in DOMAIN chunks'[h],
                        chunks'[g][i] = chunks'[h][j]
                 PROVE  g = h /\ i = j
      BY Zenon DEF ChunksDistinct
    <3>1. g = h
      <4>1. chunks'[g][i] \in Range(chunks'[g]) /\ chunks'[h][j] \in Range(chunks'[h])
        BY Zenon DEF Range
      <4>2. owner'[chunks'[g][i]] = g /\ owner'[chunks'[h][j]] = h
        BY <2>10, <4>1, Zenon
      <4> QED
        BY <4>2, Zenon
    <3>2. CASE g # ofh
      <4>1. chunks'[g] = chunks[g] /\ i \in DOMAIN chunks[g] /\ j \in DOMAIN chunks[g]
        BY <2>8, <3>1, <3>2, Zenon
      <4>2. chunks[g][i] = chunks[g][j]
        BY <3>1, <4>1, Zenon
      <4>3. \A x, y \in DOMAIN chunks[g] : chunks[g][x] = chunks[g][y] => x = y
        BY <1>0, Zenon
      <4> QED
        BY <3>1, <4>1, <4>2, <4>3, Zenon
    <3>3. CASE g = ofh
      <4>1. \A k \in DOMAIN s : s[k] # w
        <5>1. \A k \in DOMAIN s : s[k] \in Range(s)
          BY Zenon DEF Range
        <5>2. \A v \in Range(s) : v \in DOMAIN owner
          BY <1>0, Zenon DEF BufferInv, s
        <5> QED
          BY <2>3, <5>1, <5>2, Zenon
      <4>2. (i \in DOMAIN s \/ i = Len(s) + 1) /\ (j \in DOMAIN s \/ j = Len(s) + 1) /\ t[i] = t[j]
        BY <2>6, <2>8, <3>1, <3>3, Zenon
      <4>3. \A x, y \in DOMAIN s : s[x] = s[y] => x = y
        BY <1>0, Zenon DEF s
      <4> QED
        BY <2>6, <3>1, <4>1, <4>2, <4>3, Zenon
    <3> QED
      BY <3>2, <3>3, Zenon
  <2>15. at'[Fuse] # "w_live"
    <3>1. owner' # owner
      BY <2>3, <2>4, Zenon
    <3> QED
      BY <3>1, Zenon
  <2>16. Bytes(Buffered)' = Bytes(Buffered') /\ HardTotal' = HardTotal
    BY Zenon DEF Bytes, HardTotal
  <2> QED
    BY <2>3, <2>4, <2>10, <2>13, <2>14, <2>15, <2>16, Zenon DEF BufferInv, BufferBounded
<1> QED
  BY <1>1, <1>2, <1>3, <1>4, Zenon DEF BufferOp

\* The places of flush_one.
Flushing == {"fl_start", "fl_live", "fl_send", "fl_rpc", "fl_fail", "fl_ok", "fl_err"}

(* What the steps that are not the FUSE thread's own do to its operation: flush_one may
   move it between the places of a flush. *)
LEMMA OtherSteps ==
  ASSUME StateType, \/ \E a \in {Fuse, Background} : SharedStep(a)
                    \/ BackgroundStep \/ Environment \/ UNCHANGED vars
  PROVE  /\ UNCHANGED <<op, ofh, reply, owner>>
         /\ at'[Fuse] = at[Fuse] \/ (at[Fuse] \in Flushing /\ at'[Fuse] \in Flushing)
<1> USE WriteBackParameters
<1>0. Fuse \in Actor /\ Background \in Actor /\ Fuse # Background
  BY Zenon
<1>1. ASSUME NEW a \in {Fuse, Background}, SharedStep(a)
      PROVE  /\ UNCHANGED <<op, ofh, reply, owner>>
             /\ at' = at \/ \E l \in Flushing : at[a] \in Flushing /\ Move(a, l)
  <2>1. CASE RemapStep(a) \/ ReopenTail(a) \/ InsertSticky(a)
    BY <2>1, Zenon DEF RemapStep, ReopenTail, InsertSticky, fuseVars
  <2>2. CASE FlushEnsureLive(a) \/ SendRun(a) \/ WriteNoConn(a)
    BY <2>2, Zenon DEF FlushEnsureLive, SendRun, WriteNoConn, fuseVars, Flushing, At
  <2>3. CASE FlushNotLive(a) \/ FlushBegin(a) \/ FlushAck(a)
    BY <2>3, Zenon DEF FlushNotLive, FlushBegin, FlushAck, FlushReturns, fuseVars, Flushing, At
  <2>4. CASE WriteOk(a) \/ WriteErr(a)
    BY <2>4, Zenon DEF WriteOk, WriteErr, fuseVars, Flushing, At
  <2>5. CASE FlushFail(a)
    BY <2>5, Zenon DEF FlushFail, FlushReturns, fuseVars, Flushing, At
  <2> QED
    BY <1>1, <2>1, <2>2, <2>3, <2>4, <2>5, Zenon DEF SharedStep, FlushStep
<1>2. CASE BackgroundStep
  BY <1>0, <1>2, Zenon DEF BackgroundStep, Tick, WindowScan, AgeDrop, TaskFlushNext, TaskFlushed, StartFlush,
     Move, fuseVars, StateType
<1>3. CASE Environment \/ UNCHANGED vars
  BY <1>3, Zenon DEF Environment, ConnLost, LateApply, vars, fuseVars
<1> QED
  BY <1>0, <1>1, <1>2, <1>3, Zenon DEF Move, StateType

(* A write of the FUSE thread that waits to be queued began when there was room for it, and
   nothing is queued before it. *)
LEMMA WriteWaits ==
  ASSUME StateType, [Next]_vars, at'[Fuse] = "w_live"
  PROVE  \/ at[Fuse] = "w_live" /\ UNCHANGED <<ofh, owner>>
         \/ \E f \in Fh : WriteBegin(f)
<1> USE WriteBackParameters
<1>0. Fuse \in Actor
  BY Zenon
<1>1. CASE \/ \E a \in {Fuse, Background} : SharedStep(a)
           \/ BackgroundStep \/ Environment \/ UNCHANGED vars
  <2>1. "w_live" \notin Flushing
    BY Zenon DEF Flushing
  <2> QED
    BY <1>1, <2>1, OtherSteps, Zenon
<1>2. CASE FuseContinue
  <2>1. \/ at' = at /\ at[Fuse] = "open"
        \/ \E l \in {"idle", "fl_start", "live", "setattr", "drained", "drain_err", "data_rpc", "rel_drop",
                     "rel_rpc", "getattr", "all"} : Move(Fuse, l)
    BY <1>2, ZenonT(60) DEF FuseContinue, RegisterOpen, OpenDone, WriteRejected, WriteQueued, WriteFlushed,
       FlushedOnce, Drain, Settle, LiveHandle, ReleaseEntry, ReleaseDrop, StatFlushNext, StatFlushed,
       DataRpcDone, SetattrDone, ReleaseDone, StatDone, At, Reply, StartFlush
  <2> QED
    BY <1>0, <2>1, Zenon DEF Move, StateType
<1>3. CASE FuseBegin
  <2>1. \/ \E l \in {"open", "all", "fl_start"} : Move(Fuse, l)
        \/ \E f \in Fh : WriteBegin(f)
    BY <1>3, Zenon DEF FuseBegin, Open, StatBegin, HandleOpBegin, StartFlush
  <2> QED
    BY <1>0, <2>1, Zenon DEF Move, StateType
<1> QED
  BY <1>1, <1>2, <1>3, Zenon DEF Next, Progress

(* The first buffers are empty, and so is their sum. *)
LEMMA BufferStarts == Init => BufferInv
<1> SUFFICES ASSUME Init PROVE BufferInv
  BY Zenon
<1> USE WriteBackParameters, BufferParameters
<1>1. owner = <<>> /\ total = 0 /\ chunks = [f \in Fh |-> <<>>] /\ at = [a \in Actor |-> "idle"] /\ Fuse \in Actor
  BY Zenon DEF Init, BufInit
<1>2. \A f \in Fh : chunks[f] = <<>> /\ DOMAIN chunks[f] = {} /\ Range(chunks[f]) = {}
  BY <1>1 DEF Range
<1>3. Buffered = {}
  BY <1>2, Zenon DEF Buffered
<1>4. Bytes(Buffered) = 0
  BY <1>3, BytesOfNone, Zenon
<1>5. HardTotal \in Nat /\ MaxWrites \in Nat /\ Len(owner) = 0 /\ at[Fuse] # "w_live"
  BY <1>1 DEF HardTotal
<1>6. 0 <= HardTotal /\ 0 <= MaxWrites
  BY <1>5
<1>7. ChunksDistinct
  BY <1>2, Zenon DEF ChunksDistinct
<1> QED
  BY <1>1, <1>2, <1>4, <1>5, <1>6, <1>7, Zenon DEF BufferInv, BufferBounded

(* total_bytes is the sum of the chunks that are buffered, no write is buffered twice, and
   push never lets it above the hard bound: for every number of handles, writes and
   background tasks, and every interleaving of flushes with them. *)
THEOREM BytesExact == Spec => []BufferBounded
<1>1. StateType /\ BufferInv /\ [Next]_vars => BufferInv'
  <2> SUFFICES ASSUME StateType, BufferInv, [Next]_vars PROVE BufferInv'
    BY Zenon
  <2>1. BufferOp
    BY NextBufferOp, Zenon
  <2>2. at'[Fuse] = "w_live" => owner' = owner /\ Len(owner) < MaxWrites
    BY WriteWaits, Zenon DEF WriteBegin, BufferInv
  <2> QED
    BY <2>1, <2>2, BufferKept, Zenon
<1>2. WriteBackInv => StateType
  BY Zenon DEF WriteBackInv
<1>3. BufferInv => BufferBounded
  BY Zenon DEF BufferInv
<1> QED
  BY <1>1, <1>2, <1>3, BufferStarts, Invariance, PTL DEF Spec

=============================================================================
