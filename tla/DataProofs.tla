----------------------------- MODULE DataProofs -----------------------------
(* What becomes of an application's bytes.  First the files (Durability): the
   replace idiom is atomic and durable, and fsync and close tell the truth, for
   any number of files, writes, lost connections and crashes, if the host does
   not crash between a write and its fsync.  Then the bytes of one handle
   (Coalesce): for any number of writes, bytes, frames and failed flushes,
   begin_flush loses, moves and invents nothing, and, when no write begins
   inside another, the file is the last write of every byte and a read returns
   it. *)
EXTENDS Durability, Coalesce, WellFoundedInduction, TLAPS


Typed ==
    /\ tmp \in 0..used /\ dtmp \in 0..used /\ target \in 1..used /\ dtarget \in 1..used
    /\ data \in [File -> 0..NWrites] /\ ddata \in [File -> 0..NWrites]
    /\ used \in File
    /\ app \in {"idle", "writing", "synced"} /\ wrote \in 0..NWrites
    /\ fh \in 0..used
    /\ promised \in 0..used /\ closed \in 0..used

(* A file whose content is complete, in the cache and on disk. *)
Complete(f) == data[f] = NWrites /\ ddata[f] = NWrites

(* A temporary file is younger than any target, and the disk is behind. *)
Ages ==
    /\ 0 < dtarget /\ dtarget <= target /\ promised <= dtarget
    /\ tmp # 0 => target < tmp
    /\ dtmp # 0 => dtarget < dtmp

(* Targets are complete, and so is a temporary file the disk still has although
   the cache has not: it was renamed after its fsync. *)
Contents ==
    /\ Complete(target) /\ Complete(dtarget)
    /\ dtmp # 0 /\ dtmp # tmp => Complete(dtmp)

(* Where the application is in the idiom. *)
Idiom ==
    /\ app = "writing" /\ fh # 0 => fh = tmp /\ data[fh] = wrote
    /\ app = "synced" => /\ wrote = NWrites
                         /\ tmp # 0 => Complete(tmp)
                         /\ fh # 0 => Complete(fh)
    /\ closed # 0 => fh = 0 /\ data[closed] = wrote /\ ddata[closed] = wrote

IInv == Typed /\ Ages /\ Contents /\ Idiom

(* The invariant holds when the application starts. *)
LEMMA InvInit == Init => IInv
<1> SUFFICES ASSUME Init PROVE IInv
  BY Zenon
<1>1. /\ tmp = 0 /\ dtmp = 0 /\ target = 1 /\ dtarget = 1
      /\ data = [f \in File |-> IF f = 1 THEN NWrites ELSE 0] /\ ddata = data
      /\ used = 1 /\ app = "idle" /\ wrote = 0 /\ fh = 0 /\ live = FALSE /\ promised = 0 /\ closed = 0
  BY Zenon DEF Init
<1>2. 1 \in File /\ Complete(1)
  BY <1>1, DurabilityParameters DEF File, Complete
<1> QED
  BY <1>1, <1>2, DurabilityParameters DEF IInv, Typed, Ages, Contents, Idiom

(* Every step preserves it. *)
LEMMA InvStep == ASSUME ~CrashAnywhere, IInv, [Next]_vars PROVE IInv'
<1> USE DurabilityParameters
<1> USE DEF IInv, File
<1>1. CASE UNCHANGED vars
  BY <1>1, Zenon DEF vars, dirVars, Typed, Ages, Contents, Idiom, Complete
<1>2. CASE WriteBackDir
  <2>1. /\ dtmp' = tmp /\ dtarget' = target
        /\ UNCHANGED <<tmp, target, data, ddata, used, app, wrote, fh, live, promised, closed>>
    BY <1>2, Zenon DEF WriteBackDir
  <2>2. Typed'
    BY <2>1, Zenon DEF Typed
  <2>3. 0 < target /\ target <= target /\ promised <= target
    BY DEF Typed, Ages
  <2>4. Ages'
    BY <2>1, <2>3, Zenon DEF Ages
  <2> QED
    BY <2>1, <2>2, <2>4, Zenon DEF Contents, Idiom, Complete
<1>3. ASSUME NEW f \in File, WriteBackData(f) PROVE IInv'
  <2>1. /\ ddata' = [ddata EXCEPT ![f] = data[f]]
        /\ UNCHANGED <<tmp, target, dtmp, dtarget, data, used, app, wrote, fh, live, promised, closed>>
    BY <1>3, Zenon DEF WriteBackData, dirVars
  <2>2. Typed'
    BY <2>1, Zenon DEF Typed
  <2>3. \A g \in File : Complete(g) => Complete(g)'
    BY <2>1, Zenon DEF Typed, Complete
  <2>4. target \in File /\ dtarget \in File
        /\ (tmp # 0 => tmp \in File) /\ (dtmp # 0 => dtmp \in File)
        /\ (fh # 0 => fh \in File)
    BY DEF Typed, Ages
  <2> QED
    BY <2>1, <2>2, <2>3, <2>4 DEF Ages, Contents, Idiom
<1>4. CASE ConnLost
  BY <1>4, Zenon DEF ConnLost, dirVars, Typed, Ages, Contents, Idiom, Complete
<1>5. CASE HostCrash
  <2>1. /\ tmp' = dtmp /\ target' = dtarget /\ data' = ddata /\ live' = FALSE /\ app # "writing"
        /\ UNCHANGED <<dtmp, dtarget, ddata, used, app, wrote, fh, promised, closed>>
    BY <1>5, Zenon DEF HostCrash
  <2>2. Typed'
    BY <2>1, Zenon DEF Typed
  <2>3. \A g \in File : Complete(g) => Complete(g)'
    BY <2>1, Zenon DEF Complete
  <2>4. dtarget \in File /\ (dtmp # 0 => dtmp \in File) /\ (fh # 0 => fh \in File)
    BY DEF Typed, Ages
  <2>5. app = "synced" /\ dtmp # 0 => Complete(dtmp)
    BY Zenon DEF Contents, Idiom
  <2> QED
    BY <2>1, <2>2, <2>3, <2>4, <2>5 DEF Ages, Contents, Idiom
<1>6. CASE Create
  <2> DEFINE f == IF tmp = 0 THEN used + 1 ELSE tmp
  <2>1. /\ fh = 0 /\ f <= MaxFiles
        /\ used' = (IF tmp = 0 THEN used + 1 ELSE used)
        /\ tmp' = f /\ target' = target
        /\ data' = [data EXCEPT ![f] = 0]
        /\ (dtmp' = f /\ dtarget' = target) \/ (dtmp' = dtmp /\ dtarget' = dtarget)
        /\ app' = "writing" /\ wrote' = 0 /\ fh' = f /\ live' = TRUE
        /\ closed' = 0 /\ UNCHANGED <<ddata, promised>>
    BY <1>6, Zenon DEF Create, SyncParentDir
  <2>2. f \in File /\ f <= used' /\ used' \in File /\ used <= used'
    BY <2>1 DEF Typed
  <2>3. Typed'
    <3>1. data' \in [File -> 0..NWrites]
      BY <2>1 DEF Typed
    <3>2. /\ tmp' \in 0..used' /\ target' \in 1..used' /\ fh' \in 0..used'
          /\ promised' \in 0..used'
      <4>1. tmp' = f /\ fh' = f /\ f \in 0..used'
        BY <2>1, <2>2
      <4> HIDE DEF f
      <4> QED
        BY <2>1, <2>2, <4>1 DEF Typed
    <3>3. dtmp' \in 0..used' /\ dtarget' \in 1..used'
      <4>1. f \in 0..used' /\ dtmp \in 0..used' /\ target \in 1..used' /\ dtarget \in 1..used'
        BY <2>2 DEF Typed
      <4> QED
        BY <2>1, <4>1, Zenon
    <3>4. closed' \in 0..used'
      BY <2>1, <2>2
    <3> QED
      BY <2>1, <2>2, <3>1, <3>2, <3>3, <3>4, Zenon DEF Typed
  <2>4. target < f /\ dtarget < f /\ (dtmp # 0 /\ dtmp # tmp => dtmp # f)
    BY <2>1, <2>2 DEF Typed, Ages
  <2>a. 0 < target /\ target <= target /\ promised <= dtarget /\ promised <= target
        /\ 0 < dtarget /\ dtarget <= target
    BY DEF Typed, Ages
  <2>5. data'[f] = 0
    BY <2>1, <2>2, Zenon DEF Typed
  <2>6. Ages'
    BY <2>1, <2>4, <2>a, Zenon DEF Ages
  <2>7. \A g \in File : g # f /\ Complete(g) => Complete(g)'
    BY <2>1, Zenon DEF Complete, Typed
  <2>8. target \in File /\ dtarget \in File /\ (dtmp # 0 => dtmp \in File)
    BY DEF Typed, Ages
  <2>9. Complete(target)' /\ Complete(dtarget)'
    <3>1. Complete(target) /\ Complete(dtarget) /\ target # f /\ dtarget # f
      BY <2>4, <2>2, <2>8 DEF Contents
    <3>2. data'[target] = NWrites /\ ddata'[target] = NWrites
          /\ data'[dtarget] = NWrites /\ ddata'[dtarget] = NWrites
      BY <2>1, <2>8, <3>1, Zenon DEF Complete, Typed
    <3> QED
      BY <2>1, <2>5, <3>2, Zenon DEF Complete
  <2>10. Contents'
    <3>1. CASE dtmp' = tmp' /\ dtarget' = target'
      BY <2>9, <3>1, Zenon DEF Contents
    <3>2. CASE dtmp' = dtmp /\ dtarget' = dtarget
      <4>1. dtmp # 0 /\ dtmp # f => Complete(dtmp)
        BY <2>1, <2>5, Zenon DEF Contents
      <4>2. dtmp # 0 /\ dtmp # f => data'[dtmp] = NWrites /\ ddata'[dtmp] = NWrites
        BY <2>1, <2>8, <4>1, Zenon DEF Complete, Typed
      <4> QED
        BY <2>1, <2>9, <3>2, <4>2, Zenon DEF Contents, Complete
    <3> QED
      BY <2>1, <3>1, <3>2, Zenon
  <2>11. Idiom'
    BY <2>1, <2>5, Zenon DEF Idiom
  <2> QED
    BY <2>3, <2>6, <2>10, <2>11, Zenon
<1>7. CASE Reopen
  BY <1>7, Zenon DEF Reopen, dirVars, Typed, Ages, Contents, Idiom, Complete
<1>8. CASE Write
  <2>1. /\ app = "writing" /\ fh # 0 /\ wrote < NWrites
        /\ data' = (IF data[fh] = wrote THEN [data EXCEPT ![fh] = wrote + 1] ELSE data)
        /\ wrote' = wrote + 1
        /\ UNCHANGED <<tmp, target, dtmp, dtarget, ddata, used, app, fh, live, promised, closed>>
    BY <1>8, Zenon DEF Write, dirVars
  <2>2. fh = tmp /\ data[fh] = wrote /\ fh \in File
    BY <2>1 DEF Typed, Idiom
  <2>3. data' = [data EXCEPT ![fh] = wrote + 1] /\ wrote + 1 \in 0..NWrites
    BY <2>1, <2>2 DEF Typed
  <2>4. Typed'
    BY <2>1, <2>3, Zenon DEF Typed
  <2>5. target # fh /\ dtarget # fh
    BY <2>2 DEF Typed, Ages
  <2>6. target \in File /\ dtarget \in File /\ (dtmp # 0 => dtmp \in File)
    BY DEF Typed, Ages
  <2>7. Contents'
    BY <2>1, <2>2, <2>3, <2>5, <2>6, Zenon DEF Contents, Complete, Typed
  <2>8. Ages' /\ Idiom'
    BY <2>1, <2>2, <2>3, Zenon DEF Ages, Idiom, Typed
  <2> QED
    BY <2>4, <2>7, <2>8, Zenon
<1>9. CASE Fsync
  <2>1. /\ app = "writing" /\ fh # 0 /\ wrote = NWrites
        /\ \/ ddata' = [ddata EXCEPT ![fh] = data[fh]] /\ app' = "synced"
           \/ ddata' = ddata /\ app' = "idle"
        /\ UNCHANGED <<tmp, target, dtmp, dtarget, data, used, wrote, fh, live, promised, closed>>
    BY <1>9, Zenon DEF Fsync, dirVars
  <2>2. fh = tmp /\ data[fh] = NWrites /\ fh \in File
    BY <2>1 DEF Typed, Idiom
  <2>3. Typed'
    BY <2>1, <2>2, Zenon DEF Typed
  <2>4. \A g \in File : Complete(g) => Complete(g)'
    BY <2>1, <2>2, Zenon DEF Typed, Complete
  <2>5. target \in File /\ dtarget \in File /\ (dtmp # 0 => dtmp \in File)
    BY DEF Typed, Ages
  <2>6. app' = "synced" => Complete(fh)'
    BY <2>1, <2>2, Zenon DEF Typed, Complete
  <2> QED
    BY <2>1, <2>2, <2>3, <2>4, <2>5, <2>6, Zenon DEF Ages, Contents, Idiom
<1>10. CASE Rename
  <2>1. /\ app = "synced" /\ app' = "idle" /\ tmp # 0
        /\ tmp' = 0 /\ target' = tmp
        /\ (dtmp' = 0 /\ dtarget' = tmp) \/ (dtmp' = dtmp /\ dtarget' = dtarget)
        /\ promised' = promised \/ (promised' = tmp /\ dtarget' = tmp)
        /\ UNCHANGED <<data, ddata, used, wrote, fh, live, closed>>
    BY <1>10, Zenon DEF Rename, SyncParentDir
  <2>2. Complete(tmp) /\ tmp \in File /\ target < tmp
    BY <2>1 DEF Typed, Ages, Idiom
  <2>3. tmp' = 0 /\ target' = tmp
    BY <2>1, Zenon
  <2>4. Typed'
    <3>1. used' = used /\ tmp \in 1..used /\ tmp \in 0..used /\ 0 \in 0..used
      BY <2>1 DEF Typed
    <3>2. /\ tmp' \in 0..used' /\ target' \in 1..used'
          /\ dtmp' \in 0..used' /\ dtarget' \in 1..used' /\ promised' \in 0..used'
      BY <2>1, <3>1, Zenon DEF Typed
    <3> QED
      BY <2>1, <3>2, Zenon DEF Typed
  <2>a. 0 < tmp /\ tmp <= tmp /\ dtarget <= tmp /\ promised <= tmp
    BY <2>2 DEF Typed, Ages
  <2>5. Ages'
    BY <2>1, <2>a, Zenon DEF Ages
  <2>6. \A g : Complete(g)' <=> Complete(g)
    BY <2>1, Zenon DEF Complete
  <2>7. dtmp # 0 => Complete(dtmp)
    BY <2>2, Zenon DEF Contents
  <2>8. Contents'
    <3>1. CASE dtmp' = tmp' /\ dtarget' = target'
      BY <2>1, <2>2, <2>3, <3>1, Zenon DEF Contents, Complete
    <3>2. CASE dtmp' = dtmp /\ dtarget' = dtarget
      BY <2>1, <2>2, <2>3, <2>7, <3>2, Zenon DEF Contents, Complete
    <3> QED
      BY <2>1, <3>1, <3>2, Zenon
  <2>9. Idiom'
    BY <2>1, Zenon DEF Idiom
  <2> QED
    BY <2>4, <2>5, <2>8, <2>9
<1>11. CASE RenameFails
  BY <1>11, Zenon DEF RenameFails, dirVars, Typed, Ages, Contents, Idiom, Complete
<1>12. CASE Release
  <2>1. /\ fh # 0 /\ fh' = 0 /\ live' = FALSE
        /\ ddata' = [ddata EXCEPT ![fh] = data[fh]] \/ ddata' = ddata
        /\ app' = (IF app = "synced" THEN app ELSE "idle")
        /\ UNCHANGED <<tmp, target, dtmp, dtarget, data, used, wrote, promised>>
    BY <1>12, Zenon DEF Release, dirVars
  <2>2. \/ closed' = 0
        \/ closed' = fh /\ app # "idle" /\ ddata' = [ddata EXCEPT ![fh] = data[fh]]
    BY <1>12, Zenon DEF Release
  <2>3. fh \in File /\ fh \in 0..used
    BY <2>1 DEF Typed
  <2>4. closed' # 0 => data'[closed'] = wrote' /\ ddata'[closed'] = wrote'
    <3> SUFFICES ASSUME closed' # 0 PROVE data'[closed'] = wrote' /\ ddata'[closed'] = wrote'
      BY Zenon
    <3>1. closed' = fh /\ app # "idle" /\ ddata'[fh] = data[fh]
      BY <2>2, <2>3, Zenon DEF Typed
    <3>2. data[fh] = wrote
      BY <2>1, <3>1, Zenon DEF Typed, Idiom, Complete
    <3> QED
      BY <2>1, <3>1, <3>2, Zenon
  <2>5. Typed'
    <3>1. closed' \in 0..used' /\ fh' \in 0..used'
      BY <2>1, <2>2, <2>3 DEF Typed
    <3>2. ddata' \in [File -> 0..NWrites]
      BY <2>1, <2>3, Zenon DEF Typed
    <3> QED
      BY <2>1, <3>1, <3>2, Zenon DEF Typed
  <2>6. \A g \in File : Complete(g) => Complete(g)'
    BY <2>1, Zenon DEF Typed, Complete
  <2>7. target \in File /\ dtarget \in File
        /\ (tmp # 0 => tmp \in File) /\ (dtmp # 0 => dtmp \in File)
    BY DEF Typed, Ages
  <2> QED
    BY <2>1, <2>4, <2>5, <2>6, <2>7, Zenon DEF Ages, Contents, Idiom
<1> QED
  BY <1>1, <1>2, <1>3, <1>4, <1>5, <1>6, <1>7, <1>8, <1>9, <1>10, <1>11, <1>12, Zenon DEF Next

(* If the host does not crash between a write and its fsync, the replace idiom
   leaves the old file or the complete new one whenever it crashes. *)
THEOREM ReplaceIsAtomic == ASSUME ~CrashAnywhere PROVE Spec => []ReplaceAtomic
<1>1. IInv /\ [Next]_vars => IInv'
  BY InvStep, Zenon
<1>2. IInv => ReplaceAtomic
  BY Zenon DEF IInv, Contents, Complete, ReplaceAtomic
<1> QED
  BY InvInit, <1>1, <1>2, PTL DEF Spec

(* A rename whose directory was synced is never undone. *)
THEOREM ReplaceIsDurable == ASSUME ~CrashAnywhere PROVE Spec => []ReplaceDurable
<1>1. IInv /\ [Next]_vars => IInv'
  BY InvStep
<1>2. IInv => ReplaceDurable
  BY Zenon DEF IInv, Typed, Ages, ReplaceDurable
<1> QED
  BY InvInit, <1>1, <1>2, PTL DEF Spec

(* An fsync that answers Ok has everything the application wrote on disk, over
   any number of reconnects. *)
THEOREM FsyncIsDurable == ASSUME ~CrashAnywhere PROVE Spec => []FsyncMeansDurable
<1>1. IInv /\ [Next]_vars => IInv'
  BY InvStep
<1>2. IInv => FsyncMeansDurable
  BY Zenon DEF IInv, Idiom, Complete, FsyncMeansDurable
<1> QED
  BY InvInit, <1>1, <1>2, PTL DEF Spec

(* A close that syncs and answers Ok leaves all that was written on disk, over
   any number of reconnects before it and crashes after it. *)
THEOREM CloseIsDurable == ASSUME ~CrashAnywhere PROVE Spec => []CloseMeansDurable
<1>1. IInv /\ [Next]_vars => IInv'
  BY InvStep
<1>2. IInv => CloseMeansDurable
  BY Zenon DEF IInv, Idiom, CloseMeansDurable
<1> QED
  BY InvInit, <1>1, <1>2, PTL DEF Spec

-----------------------------------------------------------------------------
(* The bytes of one handle. *)


(* Induction over numbers, as the least counterexample. *)
LEMMA Least ==
  ASSUME NEW T \in SUBSET Nat, T # {}
  PROVE  \E n \in T : \A m \in T : n <= m
<1> DEFINE Lt == OpToRel(<, Nat)
<1>1. IsWellFoundedOn(Lt, Nat)
  BY NatLessThanWellFounded, Zenon
<1>2. \A x, y \in Nat : <<x, y>> \in Lt <=> x < y
  BY DEF OpToRel
<1> HIDE DEF Lt
<1>3. PICK n \in T : \A m \in T : ~(<<m, n>> \in Lt)
  BY <1>1, WFMin, Zenon
<1>4. \A m \in T : ~(m < n)
  BY <1>2, <1>3, Zenon
<1> QED
  BY <1>4

(* The same, from one number to the next, up to N. *)
LEMMA UpTo ==
  ASSUME NEW N \in Nat, NEW T, 0 \in T, \A n \in 1..N : n - 1 \in T => n \in T
  PROVE  \A n \in 0..N : n \in T
<1> DEFINE bad == {n \in 0..N : n \notin T}
<1> SUFFICES ASSUME bad # {} PROVE FALSE
  BY Zenon
<1>1. bad \in SUBSET Nat
  OBVIOUS
<1>2. PICK n \in bad : \A m \in bad : n <= m
  BY <1>1, Least, Zenon
<1>3. n \in 0..N /\ n \notin T /\ n # 0
  BY <1>2, Zenon
<1>4. n \in 1..N /\ n - 1 \in 0..N /\ ~(n <= n - 1)
  BY <1>3
<1>5. n - 1 \in T
  BY <1>2, <1>4, Zenon
<1> QED
  BY <1>3, <1>4, <1>5, Zenon

(* A set of numbers with a bound has a greatest. *)
LEMMA Greatest ==
  ASSUME NEW N \in Nat, NEW T \in SUBSET (0..N), T # {}
  PROVE  \E n \in T : \A m \in T : m <= n
<1> DEFINE U == {k \in 0..N : N - k \in T}
<1>1. PICK x \in T : TRUE
  BY Zenon
<1>2. U \in SUBSET Nat /\ N - x \in U
  <2>1. x \in 0..N
    BY Zenon
  <2>2. N - x \in 0..N /\ N - (N - x) = x
    BY <2>1
  <2> QED
    BY <2>2
<1>3. PICK k \in U : \A m \in U : k <= m
  <2>1. U # {}
    BY <1>2, Zenon
  <2> HIDE DEF U
  <2> QED
    BY <1>2, <2>1, Least, Zenon
<1>4. ASSUME NEW m \in T PROVE m <= N - k
  <2>1. m \in 0..N
    BY Zenon
  <2>2. N - m \in 0..N /\ N - (N - m) = m
    BY <2>1
  <2>3. N - m \in U
    BY <2>2, Zenon
  <2>4. k <= N - m /\ k \in 0..N
    BY <1>3, <2>3, Zenon
  <2> QED
    BY <2>1, <2>4
<1> QED
  BY <1>3, <1>4, Zenon

Unfolds(f, a, next, N) == f[0] = a /\ \A n \in 1..N : f[n] = next[n][f[n - 1]]

(* A function given by its first value and by each value from the one before exists. *)
LEMMA Recursion ==
  ASSUME NEW V, NEW N \in Nat, NEW a \in V, NEW next \in [1..N -> [V -> V]]
  PROVE  \E f \in [0..N -> V] : Unfolds(f, a, next, N)
<1> DEFINE Good(k, f) == f \in [0..k -> V] /\ f[0] = a /\ \A n \in 1..k : f[n] = next[n][f[n - 1]]
           T == {k \in 0..N : \E f : Good(k, f)}
<1>1. 0 \in T
  <2>1. Good(0, [i \in 0..0 |-> a]) /\ 0 \in 0..N
    OBVIOUS
  <2> QED
    BY <2>1, Zenon
<1>2. ASSUME NEW n \in 1..N, n - 1 \in T PROVE n \in T
  <2>1. PICK f : Good(n - 1, f)
    BY <1>2, Zenon
  <2>2. n \in Nat /\ n # 0 /\ n \in 0..N /\ n - 1 \in 0..(n - 1) /\ 0 \in 0..n /\ n \in 0..n /\ n - 1 \in 0..n /\ n - 1 # n
    OBVIOUS
  <2> DEFINE x == next[n][f[n - 1]]
             h == [i \in 0..n |-> IF i = n THEN x ELSE f[i]]
  <2>3. x \in V
    <3>1. f[n - 1] \in V
      BY <2>1, <2>2, Zenon
    <3>2. next[n] \in [V -> V]
      BY Zenon
    <3> QED
      BY <3>1, <3>2, Zenon
  <2>4. h \in [0..n -> V]
    <3>1. \A i \in 0..n : i # n => i \in 0..(n - 1)
      BY <2>2
    <3>2. \A i \in 0..n : h[i] \in V
      BY <2>1, <2>3, <3>1, Zenon
    <3> QED
      BY <3>2, Zenon
  <2>5. h[0] = a /\ h[n] = x /\ h[n - 1] = f[n - 1]
    BY <2>1, <2>2, Zenon
  <2>6. ASSUME NEW i \in 1..n PROVE h[i] = next[i][h[i - 1]]
    <3>1. CASE i = n
      BY <2>5, <3>1, Zenon
    <3>2. CASE i # n
      <4>1. i \in 1..(n - 1) /\ i \in 0..n /\ i - 1 \in 0..n /\ i - 1 # n
        BY <2>2, <3>2
      <4>2. h[i] = f[i] /\ h[i - 1] = f[i - 1]
        BY <3>2, <4>1, Zenon
      <4> QED
        BY <2>1, <4>1, <4>2, Zenon
    <3> QED
      BY <3>1, <3>2, Zenon
  <2>7. Good(n, h)
    BY <2>4, <2>5, <2>6, Zenon
  <2> QED
    BY <2>2, <2>7, Zenon
<1>3. N \in 0..N
  OBVIOUS
<1>4. N \in T
  <2> HIDE DEF T
  <2> QED
    BY <1>1, <1>2, <1>3, UpTo, Zenon
<1> QED
  BY <1>4, Zenon DEF Unfolds

\* u is s from m to n.
PartOf(u, s, m, n) == Len(u) = n - m + 1 /\ \A i \in 1..(n - m + 1) : u[i] = s[m + i - 1]

(* Part of a sequence. *)
LEMMA Part ==
  ASSUME NEW S, NEW s \in Seq(S), NEW m \in Nat, NEW n \in Nat, 1 <= m, m <= n + 1, n <= Len(s)
  PROVE  SubSeq(s, m, n) \in Seq(S) /\ PartOf(SubSeq(s, m, n), s, m, n)
  BY DEF PartOf

\* The first a elements of u are those of s, the others those of t.
Follows(u, s, a, t) ==
  /\ Len(u) = a + Len(t)
  /\ \A i \in 1..a : u[i] = s[i]
  /\ \A i \in 1..Len(t) : u[a + i] = t[i]

(* Two sequences, one after the other. *)
LEMMA Joined ==
  ASSUME NEW S, NEW s \in Seq(S), NEW t \in Seq(S)
  PROVE  s \o t \in Seq(S) /\ Follows(s \o t, s, Len(s), t)
  BY DEF Follows

-----------------------------------------------------------------------------
(* begin_flush: the order of the chunks. *)

Chunk == [off : Offset, len : Length, id : Nat \ {0}]

\* Byte b is one of those of the chunk.
Has(c, b) == c.off <= b /\ b < c.off + c.len

Ordered(t) == \A i, j \in DOMAIN t : i < j => t[i].off <= t[j].off

\* Chunks are numbered in the order they were pushed.
Numbered(s) == \A i, j \in DOMAIN s : i < j => s[i].id < s[j].id

\* No write begins inside another.
WritesDoNotCross == \A o, p \in Offset, l \in Length : o < p => o + l <= p

(* The fields of a chunk, and its bytes. *)
LEMMA ChunkFacts ==
  ASSUME NEW c \in Chunk
  PROVE  /\ c.off \in Nat /\ c.len \in Nat /\ 0 < c.len /\ c.off + c.len <= NBytes
         /\ c.id \in Nat /\ c.id # 0 /\ c.off \in Offset /\ c.len \in Length
         /\ Data(c) \in Seq(Nat) /\ Len(Data(c)) = c.len /\ \A i \in 1..c.len : Data(c)[i] = c.id
<1>1. /\ c.off \in Nat /\ c.len \in Nat /\ 0 < c.len /\ c.off + c.len <= NBytes
      /\ c.id \in Nat /\ c.id # 0 /\ c.off \in Offset /\ c.len \in Length
  <2>1. c.off \in Offset /\ c.len \in Length /\ c.id \in Nat \ {0}
    BY DEF Chunk
  <2>2. c.off \in Nat /\ c.len \in Nat \ {0} /\ c.off + c.len <= NBytes
    BY <2>1, CoalesceParameters, Zenon
  <2> QED
    BY <2>1, <2>2
<1> DEFINE n == c.len  x == c.id  d == [i \in 1..n |-> x]
<1>2. n \in Nat /\ x \in Nat /\ Data(c) = d
  BY <1>1 DEF Data
<1> HIDE DEF n, x
<1>3. d \in Seq(Nat) /\ Len(d) = n /\ \A i \in 1..n : d[i] = x
  BY <1>2
<1> QED
  BY <1>1, <1>2, <1>3 DEF n, x

(* A place for the chunk exists, between those before it or level and those after. *)
LEMMA InsertPlace ==
  ASSUME NEW t \in Seq(Chunk), Ordered(t), NEW c \in Chunk
  PROVE  \E n \in 0..Len(t) : /\ \A i \in 1..n : t[i].off <= c.off
                              /\ \A i \in (n + 1)..Len(t) : c.off < t[i].off
<1> DEFINE l == Len(t)
           T == {n \in 0..l : \A i \in (n + 1)..l : c.off < t[i].off}
<1>0. l \in Nat /\ DOMAIN t = 1..l /\ \A i \in 1..l : t[i] \in Chunk
  OBVIOUS
<1>1. T \in SUBSET Nat /\ l \in T
  BY <1>0
<1>2. PICK n \in T : \A m \in T : n <= m
  <2>1. T # {}
    BY <1>1, Zenon
  <2> HIDE DEF T
  <2> QED
    BY <1>1, <2>1, Least, Zenon
<1>3. n \in 0..l /\ n \in Nat /\ \A i \in (n + 1)..l : c.off < t[i].off
  BY <1>0, <1>2
<1>4. ASSUME NEW i \in 1..n PROVE t[i].off <= c.off
  <2>1. n # 0 /\ n \in 1..l /\ n - 1 \in 0..l /\ ~(n <= n - 1)
    BY <1>0, <1>3
  <2>2. t[n].off <= c.off
    <3>1. n - 1 \notin T
      BY <1>2, <2>1, Zenon
    <3>2. PICK j \in (n - 1 + 1)..l : ~(c.off < t[j].off)
      BY <2>1, <3>1, Zenon
    <3>3. j = n \/ j \in (n + 1)..l
      BY <1>0, <1>3
    <3>4. ~(c.off < t[n].off)
      BY <1>3, <3>2, <3>3, Zenon
    <3>5. c.off \in Nat /\ t[n].off \in Nat
      BY <1>0, <2>1, ChunkFacts, Zenon
    <3> QED
      BY <3>4, <3>5
  <2>3. i \in 1..l /\ (i < n \/ i = n)
    BY <1>0, <1>3
  <2>4. t[i].off <= t[n].off \/ i = n
    BY <1>0, <2>1, <2>3, Zenon DEF Ordered
  <2>5. c.off \in Nat /\ t[n].off \in Nat /\ t[i].off \in Nat
    BY <1>0, <2>1, <2>3, ChunkFacts, Zenon
  <2> QED
    BY <2>2, <2>4, <2>5
<1> QED
  BY <1>3, <1>4, Zenon

\* u is t with the chunk c after the first k.
InsertedAt(u, t, c, k) ==
  /\ \A i \in 1..k : u[i] = t[i] /\ t[i].off <= c.off
  /\ u[k + 1] = c
  /\ \A i \in (k + 1)..Len(t) : u[i + 1] = t[i] /\ c.off < t[i].off

(* What Insert returns: the chunk at that place, the others around it. *)
LEMMA InsertFacts ==
  ASSUME NEW t \in Seq(Chunk), Ordered(t), NEW c \in Chunk
  PROVE  /\ Insert(t, c) \in Seq(Chunk) /\ Len(Insert(t, c)) = Len(t) + 1
         /\ \E k \in 0..Len(t) : InsertedAt(Insert(t, c), t, c, k)
<1> DEFINE l == Len(t)
           k == CHOOSE n \in 0..l : /\ \A i \in 1..n : t[i].off <= c.off
                                    /\ \A i \in (n + 1)..l : c.off < t[i].off
           h == SubSeq(t, 1, k)
           q == SubSeq(t, k + 1, l)
           u == h \o <<c>> \o q
<1>0. l \in Nat /\ DOMAIN t = 1..l
  OBVIOUS
<1>1. k \in 0..l /\ (\A i \in 1..k : t[i].off <= c.off) /\ \A i \in (k + 1)..l : c.off < t[i].off
  BY InsertPlace, Zenon
<1>2. Insert(t, c) = u
  BY Zenon DEF Insert
<1> HIDE DEF k
<1>3. k \in Nat /\ k <= l
  BY <1>0, <1>1
<1>4. h \in Seq(Chunk) /\ Len(h) = k /\ \A i \in 1..k : h[i] = t[i]
  <2>1. 1 \in Nat /\ 1 <= 1 /\ 1 <= k + 1 /\ k - 1 + 1 = k /\ \A i \in 1..k : 1 + i - 1 = i
    BY <1>3
  <2>2. h \in Seq(Chunk) /\ Len(h) = k - 1 + 1 /\ \A i \in 1..(k - 1 + 1) : h[i] = t[1 + i - 1]
    <3>1. h \in Seq(Chunk) /\ PartOf(h, t, 1, k)
      BY <1>3, <2>1, Part, Zenon
    <3> QED
      BY <3>1, Zenon DEF PartOf
  <2> QED
    BY <2>1, <2>2
<1>5. q \in Seq(Chunk) /\ Len(q) = l - k /\ \A i \in (k + 1)..l : i - k \in 1..(l - k) /\ q[i - k] = t[i]
  <2>1. /\ k + 1 \in Nat /\ 1 <= k + 1 /\ k + 1 <= l + 1 /\ l <= l /\ l - (k + 1) + 1 = l - k
        /\ \A i \in (k + 1)..l : i - k \in 1..(l - k) /\ k + 1 + (i - k) - 1 = i
    BY <1>0, <1>3
  <2>2. q \in Seq(Chunk) /\ Len(q) = l - (k + 1) + 1 /\ \A i \in 1..(l - (k + 1) + 1) : q[i] = t[k + 1 + i - 1]
    <3>1. q \in Seq(Chunk) /\ PartOf(q, t, k + 1, l)
      BY <1>0, <2>1, Part, Zenon
    <3> QED
      BY <3>1, Zenon DEF PartOf
  <2>3. ASSUME NEW i \in (k + 1)..l PROVE q[i - k] = t[i]
    <3>1. q[i - k] = t[k + 1 + (i - k) - 1]
      BY <2>1, <2>2
    <3> QED
      BY <2>1, <3>1, Zenon
  <2> QED
    BY <2>1, <2>2, <2>3, Zenon
<1> HIDE DEF h, q, l
<1> DEFINE one == <<c>>
           m == h \o one
<1>6. one \in Seq(Chunk) /\ Len(one) = 1 /\ one[1] = c /\ 1 \in 1..1
  OBVIOUS
<1> HIDE DEF one
<1>7. m \in Seq(Chunk) /\ Len(m) = k + 1 /\ (\A i \in 1..k : m[i] = h[i]) /\ m[k + 1] = c
  <2>1. m \in Seq(Chunk) /\ Follows(m, h, k, one)
    BY <1>4, <1>6, Joined, Zenon
  <2> QED
    BY <1>6, <2>1, Zenon DEF Follows
<1> HIDE DEF m
<1>8. u = m \o q
  BY Zenon DEF m, one
<1>9. /\ u \in Seq(Chunk) /\ Len(u) = k + 1 + (l - k) /\ (\A i \in 1..(k + 1) : u[i] = m[i])
      /\ \A i \in 1..(l - k) : u[k + 1 + i] = q[i]
  <2> HIDE DEF u
  <2>1. u \in Seq(Chunk) /\ Follows(u, m, k + 1, q)
    BY <1>5, <1>7, <1>8, Joined, Zenon
  <2> QED
    BY <1>5, <2>1, Zenon DEF Follows
<1> HIDE DEF u
<1>10. /\ Len(u) = l + 1 /\ k + 1 \in 1..(k + 1) /\ (\A i \in 1..k : i \in 1..(k + 1))
       /\ \A i \in (k + 1)..l : k + 1 + (i - k) = i + 1
  <2>1. l \in Nat
    BY <1>0, Zenon
  <2> QED
    BY <1>3, <1>9, <2>1
<1>13. ASSUME NEW i \in (k + 1)..l PROVE u[i + 1] = t[i]
  <2>1. u[k + 1 + (i - k)] = q[i - k] /\ q[i - k] = t[i]
    BY <1>5, <1>9, Zenon
  <2> QED
    BY <1>10, <2>1, Zenon
<1>14. InsertedAt(u, t, c, k)
  BY <1>1, <1>4, <1>7, <1>9, <1>10, <1>13, Zenon DEF InsertedAt, l
<1> QED
  BY <1>1, <1>2, <1>9, <1>10, <1>14, Zenon DEF l

(* A position after the insertion: one before it, the chunk's, or one after it. *)
LEMMA InsertPositions ==
  ASSUME NEW t, NEW u, NEW c, Len(t) \in Nat, NEW k \in 0..Len(t), InsertedAt(u, t, c, k),
         NEW j \in 1..(Len(t) + 1)
  PROVE  \/ j \in 1..k /\ j \in 1..Len(t) /\ u[j] = t[j] /\ t[j].off <= c.off
         \/ j = k + 1 /\ u[j] = c
         \/ k + 1 < j /\ j - 1 \in 1..Len(t) /\ u[j] = t[j - 1] /\ c.off < t[j - 1].off
<1>1. CASE j \in 1..k
  <2>1. j \in 1..Len(t)
    BY <1>1
  <2> QED
    BY <1>1, <2>1, Zenon DEF InsertedAt
<1>2. CASE j = k + 1
  BY <1>2, Zenon DEF InsertedAt
<1>3. CASE j \notin 1..k /\ j # k + 1
  <2>1. k + 1 < j /\ j - 1 \in (k + 1)..Len(t) /\ j - 1 \in 1..Len(t) /\ j - 1 + 1 = j
    BY <1>3
  <2>2. u[j - 1 + 1] = t[j - 1] /\ c.off < t[j - 1].off
    BY <2>1, Zenon DEF InsertedAt
  <2> QED
    BY <2>1, <2>2, Zenon
<1> QED
  BY <1>1, <1>2, <1>3, Zenon

(* The chunks stay in order, ... *)
LEMMA InsertOrdered ==
  ASSUME NEW t \in Seq(Chunk), Ordered(t), NEW c \in Chunk
  PROVE  Ordered(Insert(t, c))
<1> DEFINE u == Insert(t, c)  l == Len(t)
<1>0. l \in Nat /\ DOMAIN t = 1..l /\ \A i \in 1..l : t[i] \in Chunk
  OBVIOUS
<1>1. u \in Seq(Chunk) /\ Len(u) = l + 1
  BY InsertFacts, Zenon
<1>2. PICK k \in 0..l : InsertedAt(u, t, c, k)
  BY InsertFacts, Zenon
<1> HIDE DEF u
<1>3. DOMAIN u = 1..(l + 1)
  BY <1>0, <1>1
<1> SUFFICES ASSUME NEW i \in 1..(l + 1), NEW j \in 1..(l + 1), i < j PROVE u[i].off <= u[j].off
  BY <1>3, Zenon DEF Ordered, u
<1>4. \/ i \in 1..k /\ i \in 1..l /\ u[i] = t[i] /\ t[i].off <= c.off
      \/ i = k + 1 /\ u[i] = c
      \/ k + 1 < i /\ i - 1 \in 1..l /\ u[i] = t[i - 1] /\ c.off < t[i - 1].off
  BY <1>0, <1>2, InsertPositions, ZenonT(60)
<1>5. \/ j \in 1..k /\ j \in 1..l /\ u[j] = t[j] /\ t[j].off <= c.off
      \/ j = k + 1 /\ u[j] = c
      \/ k + 1 < j /\ j - 1 \in 1..l /\ u[j] = t[j - 1] /\ c.off < t[j - 1].off
  BY <1>0, <1>2, InsertPositions, ZenonT(60)
<1>6. u[i].off \in Nat /\ u[j].off \in Nat /\ c.off \in Nat
  <2>1. u[i] \in Chunk /\ u[j] \in Chunk
    BY <1>0, <1>1
  <2> QED
    BY <2>1, ChunkFacts, Zenon
<1>7. CASE u[i].off <= c.off /\ c.off <= u[j].off
  BY <1>6, <1>7
<1>8. CASE i \in 1..k /\ j \in 1..k
  <2>1. i \in 1..l /\ j \in 1..l /\ u[i] = t[i] /\ u[j] = t[j]
    <3>1. i # k + 1 /\ j # k + 1 /\ ~(k + 1 < i) /\ ~(k + 1 < j)
      BY <1>8
    <3> QED
      BY <1>4, <1>5, <3>1, Zenon
  <2> QED
    BY <1>0, <2>1, Zenon DEF Ordered
<1>9. CASE k + 1 < i
  <2>1. i \notin 1..k /\ i # k + 1 /\ j \notin 1..k /\ j # k + 1 /\ i - 1 < j - 1
    BY <1>9
  <2>2. i - 1 \in 1..l /\ j - 1 \in 1..l /\ u[i] = t[i - 1] /\ u[j] = t[j - 1]
    BY <1>4, <1>5, <2>1, Zenon
  <2> QED
    BY <1>0, <2>1, <2>2, Zenon DEF Ordered
<1>10. (i \in 1..k /\ j \in 1..k) \/ k + 1 < i \/ (i \in 1..(k + 1) /\ j \in (k + 1)..(l + 1))
  BY <1>0
<1>11. CASE i \in 1..(k + 1) /\ j \in (k + 1)..(l + 1)
  <2>1. ~(k + 1 < i) /\ j \notin 1..k
    BY <1>11
  <2>2. u[i].off <= c.off
    BY <1>4, <1>6, <2>1
  <2>3. c.off <= u[j].off
    BY <1>5, <1>6, <2>1
  <2> QED
    BY <1>7, <2>2, <2>3, Zenon
<1> QED
  BY <1>8, <1>9, <1>10, <1>11, Zenon

(* ... so Sorted is what its definition says: chunk after chunk is inserted. *)
LEMMA SortSteps ==
  ASSUME NEW s \in Seq(Chunk)
  PROVE  \E f : /\ f[0] = <<>> /\ Sorted(s) = f[Len(s)]
                /\ \A n \in 1..Len(s) : f[n] = Insert(f[n - 1], s[n])
<1> DEFINE N == Len(s)
           V == {t \in Seq(Chunk) : Ordered(t)}
           next == [n \in 1..N |-> [t \in V |-> Insert(t, s[n])]]
           F(g) == [i \in 0..N |-> IF i = 0 THEN <<>> ELSE Insert(g[i - 1], s[i])]
<1>1. N \in Nat /\ \A n \in 1..N : s[n] \in Chunk
  OBVIOUS
<1>2. <<>> \in V
  BY DEF Ordered
<1>3. \A t \in V, n \in 1..N : Insert(t, s[n]) \in V
  BY <1>1, InsertFacts, InsertOrdered, Zenon
<1>4. next \in [1..N -> [V -> V]]
  <2> HIDE DEF V
  <2> QED
    BY <1>3, Zenon
<1>5. \A n \in 1..N : \A t \in V : next[n][t] = Insert(t, s[n])
  BY Zenon
<1> HIDE DEF V, next
<1>6. PICK f \in [0..N -> V] : f[0] = <<>> /\ \A n \in 1..N : f[n] = next[n][f[n - 1]]
  <2> DEFINE empty == <<>>
  <2>1. empty \in V
    BY <1>2, Zenon
  <2> HIDE DEF empty
  <2>2. \E f \in [0..N -> V] : Unfolds(f, empty, next, N)
    BY <1>1, <1>4, <2>1, Recursion, Zenon
  <2> QED
    BY <2>2, Zenon DEF empty, Unfolds
<1>7. \A n \in 1..N : n - 1 \in 0..N /\ n \in 0..N /\ n # 0
  BY <1>1
<1>8. \A n \in 1..N : f[n] = Insert(f[n - 1], s[n])
  BY <1>5, <1>6, <1>7, Zenon
<1>9. f = F(f)
  <2>1. \A m \in 0..N : f[m] = F(f)[m]
    <3>1. \A m \in 0..N : m = 0 \/ m \in 1..N
      BY <1>1
    <3> QED
      BY <1>6, <1>8, <3>1, Zenon
  <2> QED
    BY <2>1, Zenon
<1> DEFINE g == CHOOSE v : v = F(v)
<1>10. g = F(g)
  BY <1>9, Zenon
<1>11. Sorted(s) = g[N]
  BY Zenon DEF Sorted
<1> HIDE DEF g
<1>12. \A n \in 0..N : g[n] = IF n = 0 THEN <<>> ELSE Insert(g[n - 1], s[n])
  BY <1>10, Zenon
<1>13. 0 \in 0..N
  BY <1>1
<1> QED
  BY <1>7, <1>11, <1>12, <1>13, Zenon

\* In order, and chunks of equal offset in the order they were pushed.
Earlier(c, d) == c.off < d.off \/ (c.off = d.off /\ c.id < d.id)
Stable(t) == \A i, j \in DOMAIN t : i < j => Earlier(t[i], t[j])

\* t holds the first n chunks of s, sorted.
SortedTo(t, s, n) ==
  /\ t \in Seq(Chunk) /\ Len(t) = n /\ Stable(t)
  /\ \A i \in 1..n : \E j \in 1..n : t[j] = s[i]
  /\ \A j \in 1..n : \E i \in 1..n : s[i] = t[j]

(* What is stable is in order. *)
LEMMA StableOrdered ==
  ASSUME NEW t \in Seq(Chunk), Stable(t)
  PROVE  Ordered(t)
<1> SUFFICES ASSUME NEW i \in DOMAIN t, NEW j \in DOMAIN t, i < j PROVE t[i].off <= t[j].off
  BY Zenon DEF Ordered
<1>1. Earlier(t[i], t[j])
  BY Zenon DEF Stable
<1>2. t[i] \in Chunk /\ t[j] \in Chunk
  OBVIOUS
<1>3. t[i].off \in Nat /\ t[j].off \in Nat
  BY <1>2, ChunkFacts, Zenon
<1> QED
  BY <1>1, <1>3 DEF Earlier

(* The next chunk, which is younger than all of them, keeps them stable. *)
LEMMA InsertStable ==
  ASSUME NEW t \in Seq(Chunk), Stable(t), NEW c \in Chunk, \A i \in 1..Len(t) : t[i].id < c.id
  PROVE  Stable(Insert(t, c))
<1> DEFINE u == Insert(t, c)  l == Len(t)
<1>0. l \in Nat /\ DOMAIN t = 1..l /\ \A i \in 1..l : t[i] \in Chunk
  OBVIOUS
<1>o. Ordered(t)
  BY StableOrdered, Zenon
<1>1. u \in Seq(Chunk) /\ Len(u) = l + 1
  BY <1>o, InsertFacts, Zenon
<1>2. PICK k \in 0..l : InsertedAt(u, t, c, k)
  BY <1>o, InsertFacts, Zenon
<1> HIDE DEF u
<1>3. DOMAIN u = 1..(l + 1)
  BY <1>0, <1>1
<1> SUFFICES ASSUME NEW i \in 1..(l + 1), NEW j \in 1..(l + 1), i < j PROVE Earlier(u[i], u[j])
  BY <1>3, Zenon DEF Stable, u
<1>4. \/ i \in 1..k /\ i \in 1..l /\ u[i] = t[i] /\ t[i].off <= c.off
      \/ i = k + 1 /\ u[i] = c
      \/ k + 1 < i /\ i - 1 \in 1..l /\ u[i] = t[i - 1] /\ c.off < t[i - 1].off
  BY <1>0, <1>2, InsertPositions, ZenonT(60)
<1>5. \/ j \in 1..k /\ j \in 1..l /\ u[j] = t[j] /\ t[j].off <= c.off
      \/ j = k + 1 /\ u[j] = c
      \/ k + 1 < j /\ j - 1 \in 1..l /\ u[j] = t[j - 1] /\ c.off < t[j - 1].off
  BY <1>0, <1>2, InsertPositions, ZenonT(60)
<1>6. u[i].off \in Nat /\ u[j].off \in Nat /\ c.off \in Nat
  <2>1. u[i] \in Chunk /\ u[j] \in Chunk
    BY <1>0, <1>1
  <2> QED
    BY <2>1, ChunkFacts, Zenon
<1>8. CASE i \in 1..k /\ j \in 1..k
  <2>1. i \in 1..l /\ j \in 1..l /\ u[i] = t[i] /\ u[j] = t[j]
    <3>1. i # k + 1 /\ j # k + 1 /\ ~(k + 1 < i) /\ ~(k + 1 < j)
      BY <1>8
    <3> QED
      BY <1>4, <1>5, <3>1, Zenon
  <2> QED
    BY <1>0, <2>1, Zenon DEF Stable
<1>9. CASE k + 1 < i
  <2>1. i \notin 1..k /\ i # k + 1 /\ j \notin 1..k /\ j # k + 1 /\ i - 1 < j - 1
    BY <1>9
  <2>2. i - 1 \in 1..l /\ j - 1 \in 1..l /\ u[i] = t[i - 1] /\ u[j] = t[j - 1]
    BY <1>4, <1>5, <2>1, Zenon
  <2> QED
    BY <1>0, <2>1, <2>2, Zenon DEF Stable
<1>10. (i \in 1..k /\ j \in 1..k) \/ k + 1 < i \/ (i \in 1..k /\ j = k + 1) \/ (i \in 1..(k + 1) /\ k + 1 < j)
  BY <1>0
<1>11. CASE i \in 1..k /\ j = k + 1
  <2>1. ~(k + 1 < i) /\ i # k + 1 /\ j \notin 1..k /\ ~(k + 1 < j)
    BY <1>11
  <2>2. i \in 1..l /\ u[i] = t[i] /\ t[i].off <= c.off /\ u[j] = c
    BY <1>4, <1>5, <2>1, Zenon
  <2>3. t[i].id < c.id /\ u[i].off <= c.off
    BY <2>2, Zenon
  <2> QED
    BY <1>6, <2>2, <2>3 DEF Earlier
<1>12. CASE i \in 1..(k + 1) /\ k + 1 < j
  <2>1. ~(k + 1 < i) /\ j \notin 1..k /\ j # k + 1
    BY <1>12
  <2>2. u[i].off <= c.off
    BY <1>4, <1>6, <2>1
  <2>3. c.off < u[j].off
    BY <1>5, <1>6, <2>1
  <2> QED
    BY <1>6, <2>2, <2>3 DEF Earlier
<1> QED
  BY <1>8, <1>9, <1>10, <1>11, <1>12, Zenon

(* One chunk more. *)
LEMMA SortedStep ==
  ASSUME NEW s \in Seq(Chunk), Numbered(s), NEW n \in 1..Len(s), NEW t, SortedTo(t, s, n - 1)
  PROVE  SortedTo(Insert(t, s[n]), s, n)
<1> DEFINE u == Insert(t, s[n])
<1>0. /\ n \in Nat /\ n - 1 \in Nat /\ n - 1 + 1 = n /\ s[n] \in Chunk /\ n \in 1..n
      /\ (\A i \in 1..(n - 1) : i \in 1..n /\ i \in DOMAIN s /\ i < n) /\ n \in DOMAIN s
      /\ \A i \in 1..n : i = n \/ i \in 1..(n - 1)
  OBVIOUS
<1>1. t \in Seq(Chunk) /\ Len(t) = n - 1 /\ Stable(t) /\ Ordered(t)
  BY StableOrdered, Zenon DEF SortedTo
<1>2. u \in Seq(Chunk) /\ Len(u) = n
  BY <1>0, <1>1, InsertFacts, Zenon
<1>3. PICK k \in 0..(n - 1) : InsertedAt(u, t, s[n], k)
  BY <1>0, <1>1, InsertFacts, Zenon
<1>4. Stable(u)
  <2>1. ASSUME NEW j \in 1..(n - 1) PROVE t[j].id < s[n].id
    <3>1. PICK i \in 1..(n - 1) : s[i] = t[j]
      BY Zenon DEF SortedTo
    <3>2. s[i].id < s[n].id
      BY <1>0, Zenon DEF Numbered
    <3> QED
      BY <3>1, <3>2, Zenon
  <2> QED
    BY <1>0, <1>1, <2>1, InsertStable, Zenon
<1> HIDE DEF u
<1>5. ASSUME NEW j \in 1..n
      PROVE  \/ j \in 1..(n - 1) /\ u[j] = t[j]
             \/ j = k + 1 /\ u[j] = s[n]
             \/ j - 1 \in 1..(n - 1) /\ u[j] = t[j - 1]
  <2>1. Len(t) \in Nat /\ j \in 1..(Len(t) + 1) /\ k \in 0..Len(t)
    BY <1>0, <1>1, Zenon
  <2>2. \/ j \in 1..k /\ j \in 1..Len(t) /\ u[j] = t[j] /\ t[j].off <= s[n].off
        \/ j = k + 1 /\ u[j] = s[n]
        \/ k + 1 < j /\ j - 1 \in 1..Len(t) /\ u[j] = t[j - 1] /\ s[n].off < t[j - 1].off
    <3> DEFINE c == s[n]
    <3>1. InsertedAt(u, t, c, k)
      BY <1>3, Zenon
    <3> HIDE DEF c
    <3>2. \/ j \in 1..k /\ j \in 1..Len(t) /\ u[j] = t[j] /\ t[j].off <= c.off
          \/ j = k + 1 /\ u[j] = c
          \/ k + 1 < j /\ j - 1 \in 1..Len(t) /\ u[j] = t[j - 1] /\ c.off < t[j - 1].off
      BY <2>1, <3>1, InsertPositions, ZenonT(60)
    <3> QED
      BY <3>2, Zenon DEF c
  <2> QED
    BY <1>1, <2>2, Zenon
<1>6. ASSUME NEW i \in 1..n PROVE \E j \in 1..n : u[j] = s[i]
  <2>1. CASE i = n
    <3>1. k + 1 \in 1..n
      BY <1>0
    <3> QED
      BY <1>3, <2>1, <3>1, Zenon DEF InsertedAt
  <2>2. CASE i \in 1..(n - 1)
    <3>1. PICK j \in 1..(n - 1) : t[j] = s[i]
      BY <2>2, Zenon DEF SortedTo
    <3>2. CASE j \in 1..k
      BY <1>0, <1>3, <3>1, <3>2, Zenon DEF InsertedAt
    <3>3. CASE j \notin 1..k
      <4>1. j \in (k + 1)..(n - 1) /\ j + 1 \in 1..n
        BY <1>0, <3>3
      <4>2. u[j + 1] = t[j]
        BY <1>1, <1>3, <4>1, Zenon DEF InsertedAt
      <4> QED
        BY <3>1, <4>1, <4>2, Zenon
    <3> QED
      BY <3>2, <3>3, Zenon
  <2> QED
    BY <1>0, <2>1, <2>2, Zenon
<1>7. ASSUME NEW j \in 1..n PROVE \E i \in 1..n : s[i] = u[j]
  <2>1. CASE u[j] = s[n]
    BY <1>0, <2>1, Zenon
  <2>2. ASSUME NEW m \in 1..(n - 1), u[j] = t[m] PROVE \E i \in 1..n : s[i] = u[j]
    <3>1. PICK i \in 1..(n - 1) : s[i] = t[m]
      BY Zenon DEF SortedTo
    <3> QED
      BY <1>0, <2>2, <3>1, Zenon
  <2> QED
    BY <1>5, <2>1, <2>2, Zenon
<1> QED
  BY <1>2, <1>4, <1>6, <1>7, Zenon DEF SortedTo, u

(* begin_flush sorts the chunks. *)
LEMMA SortedFacts ==
  ASSUME NEW s \in Seq(Chunk), Numbered(s)
  PROVE  SortedTo(Sorted(s), s, Len(s))
<1>1. PICK f : /\ f[0] = <<>> /\ Sorted(s) = f[Len(s)]
               /\ \A n \in 1..Len(s) : f[n] = Insert(f[n - 1], s[n])
  BY SortSteps, Zenon
<1> DEFINE T == {n \in 0..Len(s) : SortedTo(f[n], s, n)}
<1>0. Len(s) \in Nat /\ 0 \in 0..Len(s) /\ Len(s) \in 0..Len(s) /\ \A n \in 1..Len(s) : n \in 0..Len(s)
  OBVIOUS
<1>2. 0 \in T
  <2>1. SortedTo(<<>>, s, 0)
    BY DEF SortedTo, Stable
  <2> QED
    BY <1>0, <1>1, <2>1, Zenon
<1>3. ASSUME NEW n \in 1..Len(s), n - 1 \in T PROVE n \in T
  <2>1. SortedTo(f[n - 1], s, n - 1)
    BY <1>3, Zenon
  <2>2. SortedTo(f[n], s, n)
    BY <1>1, <2>1, SortedStep, Zenon
  <2> QED
    BY <1>0, <2>2, Zenon
<1>4. Len(s) \in T
  <2> HIDE DEF T
  <2> QED
    BY <1>0, <1>2, <1>3, UpTo, Zenon
<1> QED
  BY <1>1, <1>4, Zenon

\* The chunk at i is the last of s with byte b.
LastWith(s, b, i) == i \in DOMAIN s /\ Has(s[i], b) /\ \A k \in DOMAIN s : i < k => ~Has(s[k], b)

(* Of two chunks with the same byte the later one has the higher number or the
   higher offset, and writes that do not cross cannot have a byte in common
   unless they begin together. *)
LEMMA EarlierNewer ==
  ASSUME WritesDoNotCross, NEW c \in Chunk, NEW d \in Chunk, Earlier(c, d), NEW b \in Nat, Has(c, b), Has(d, b)
  PROVE  c.id < d.id
<1>1. c.off \in Offset /\ d.off \in Offset /\ c.len \in Length /\ c.off \in Nat /\ d.off \in Nat /\ c.len \in Nat
  BY ChunkFacts, Zenon
<1>2. c.off < d.off => c.off + c.len <= d.off
  BY <1>1, Zenon DEF WritesDoNotCross
<1>3. ~(c.off < d.off)
  BY <1>1, <1>2 DEF Has
<1> QED
  BY <1>3, Zenon DEF Earlier

(* Sorting keeps the last write of a byte the last. *)
LEMMA LastSorted ==
  ASSUME WritesDoNotCross, NEW s \in Seq(Chunk), Numbered(s), NEW b \in Nat, NEW i, LastWith(s, b, i)
  PROVE  \E j : LastWith(Sorted(s), b, j) /\ Sorted(s)[j] = s[i]
<1> DEFINE t == Sorted(s)
<1>0. DOMAIN s = 1..Len(s) /\ \A k \in 1..Len(s) : s[k] \in Chunk /\ k \in Nat
  OBVIOUS
<1>1. SortedTo(t, s, Len(s))
  BY SortedFacts, Zenon
<1> HIDE DEF t
<1>2. t \in Seq(Chunk) /\ Len(t) = Len(s) /\ Stable(t)
  BY <1>1, Zenon DEF SortedTo
<1>3. DOMAIN t = 1..Len(s) /\ \A k \in 1..Len(s) : t[k] \in Chunk
  BY <1>2
<1>4. i \in 1..Len(s) /\ Has(s[i], b) /\ \A k \in 1..Len(s) : i < k => ~Has(s[k], b)
  BY <1>0, Zenon DEF LastWith
<1>5. PICK j \in 1..Len(s) : t[j] = s[i]
  BY <1>1, <1>4, Zenon DEF SortedTo
<1>6. ASSUME NEW k \in 1..Len(s), j < k, Has(t[k], b) PROVE FALSE
  <2>1. Earlier(t[j], t[k])
    BY <1>2, <1>3, <1>6, Zenon DEF Stable
  <2>2. t[j].id < t[k].id
    BY <1>3, <1>4, <1>5, <1>6, <2>1, EarlierNewer, Zenon
  <2>3. PICK m \in 1..Len(s) : s[m] = t[k]
    BY <1>1, Zenon DEF SortedTo
  <2>4. s[i].id < s[m].id /\ Has(s[m], b)
    BY <1>5, <1>6, <2>2, <2>3, Zenon
  <2>5. ~(i < m)
    BY <1>4, <2>4, Zenon
  <2>6. i = m \/ m < i
    BY <1>0, <1>4, <2>5
  <2>7. i = m \/ s[m].id < s[i].id
    BY <1>0, <1>4, <2>6, Zenon DEF Numbered
  <2>8. s[i].id \in Nat /\ s[m].id \in Nat
    BY <1>0, <1>4, ChunkFacts, Zenon
  <2>9. s[i].id = s[m].id \/ s[m].id < s[i].id
    BY <2>7, Zenon
  <2> QED
    BY <2>4, <2>8, <2>9
<1>7. LastWith(t, b, j)
  BY <1>3, <1>4, <1>5, <1>6, Zenon DEF LastWith
<1> QED
  BY <1>5, <1>7, Zenon DEF t

-----------------------------------------------------------------------------
(* begin_flush: the chunks become runs. *)

Run == [off : Nat, data : Seq(Nat)]
Covers(r, b) == r.off <= b /\ b < r.off + Len(r.data)
ByteOf(r, b) == r.data[b - r.off + 1]

(* The fields of a run. *)
LEMMA RunFields ==
  ASSUME NEW o \in Nat, NEW d \in Seq(Nat), NEW r, r = [off |-> o, data |-> d]
  PROVE  r \in Run /\ r.off = o /\ r.data = d
  BY DEF Run

(* A chunk as a run of its own, ... *)
LEMMA RunOfChunk ==
  ASSUME NEW c \in Chunk, NEW r, r = [off |-> c.off, data |-> Data(c)]
  PROVE  /\ r \in Run /\ r.off = c.off /\ Len(r.data) = c.len
         /\ \A b \in Nat : /\ Covers(r, b) <=> Has(c, b)
                           /\ Has(c, b) => ByteOf(r, b) = c.id
<1> DEFINE d == Data(c)
<1>1. c.off \in Nat /\ c.len \in Nat /\ d \in Seq(Nat) /\ Len(d) = c.len /\ \A i \in 1..c.len : d[i] = c.id
  BY ChunkFacts, Zenon
<1> HIDE DEF d
<1>2. r = [off |-> c.off, data |-> d]
  BY Zenon DEF d
<1>3. r.off = c.off /\ r.data = d /\ r \in Run
  BY <1>1, <1>2 DEF Run
<1>4. ASSUME NEW b \in Nat PROVE Covers(r, b) <=> Has(c, b)
  BY <1>1, <1>3, Zenon DEF Covers, Has
<1>5. ASSUME NEW b \in Nat, Has(c, b) PROVE ByteOf(r, b) = c.id
  <2>1. b - c.off + 1 \in 1..c.len
    BY <1>1, <1>5 DEF Has
  <2> QED
    BY <1>1, <1>3, <2>1, Zenon DEF ByteOf
<1> QED
  BY <1>1, <1>3, <1>4, <1>5, Zenon

(* ... and after the bytes of another. *)
LEMMA RunWithChunk ==
  ASSUME NEW c \in Chunk, NEW q \in Run, q.off + Len(q.data) = c.off,
         NEW r, r.off = q.off, r.data = q.data \o Data(c)
  PROVE  /\ r.data \in Seq(Nat) /\ Len(r.data) = Len(q.data) + c.len
         /\ \A b \in Nat : /\ Covers(r, b) <=> Covers(q, b) \/ Has(c, b)
                           /\ Has(c, b) => ByteOf(r, b) = c.id
                           /\ Covers(q, b) => ByteOf(r, b) = ByteOf(q, b)
<1> DEFINE d == Data(c)  e == q.data  u == e \o d  l == Len(e)
<1>1. c.off \in Nat /\ c.len \in Nat /\ d \in Seq(Nat) /\ Len(d) = c.len /\ \A i \in 1..c.len : d[i] = c.id
  BY ChunkFacts, Zenon
<1>2. q.off \in Nat /\ e \in Seq(Nat) /\ l \in Nat
  BY DEF Run
<1>3. u \in Seq(Nat) /\ Follows(u, e, l, d)
  <2> HIDE DEF d, e
  <2> QED
    BY <1>1, <1>2, Joined, Zenon
<1>4. r.off = q.off /\ r.data = u /\ q.off + l = c.off
  BY Zenon
<1> HIDE DEF d, u
<1>6. Len(u) = l + c.len
  BY <1>1, <1>3, Zenon DEF Follows
<1> HIDE DEF e, l
<1>7. ASSUME NEW b \in Nat PROVE Covers(r, b) <=> Covers(q, b) \/ Has(c, b)
  <2>1. Covers(r, b) <=> q.off <= b /\ b < q.off + (l + c.len)
    BY <1>4, <1>6, Zenon DEF Covers
  <2>2. Covers(q, b) <=> q.off <= b /\ b < q.off + l
    BY Zenon DEF Covers, e, l
  <2>3. Has(c, b) <=> c.off <= b /\ b < c.off + c.len
    BY Zenon DEF Has
  <2> QED
    <3> DEFINE o == q.off  p == c.off  m == c.len
    <3>1. o \in Nat /\ p \in Nat /\ m \in Nat /\ l \in Nat /\ o + l = p
      BY <1>1, <1>2, <1>4, Zenon
    <3> HIDE DEF o, p, m
    <3>2. (o <= b /\ b < o + (l + m)) <=> (o <= b /\ b < o + l) \/ (p <= b /\ b < p + m)
      BY <3>1
    <3> QED
      BY <2>1, <2>2, <2>3, <3>2, Zenon DEF o, p, m
<1>8. ASSUME NEW b \in Nat, Has(c, b) PROVE ByteOf(r, b) = c.id
  <2>1. b - c.off + 1 \in 1..c.len /\ b - q.off + 1 = l + (b - c.off + 1)
    <3> DEFINE o == q.off  p == c.off  m == c.len
    <3>1. o \in Nat /\ p \in Nat /\ m \in Nat /\ l \in Nat /\ o + l = p /\ p <= b /\ b < p + m
      BY <1>1, <1>2, <1>4, <1>8, Zenon DEF Has
    <3> HIDE DEF o, p, m
    <3>2. b - p + 1 \in 1..m /\ b - o + 1 = l + (b - p + 1)
      BY <3>1
    <3> QED
      BY <3>2, Zenon DEF o, p, m
  <2>2. u[l + (b - c.off + 1)] = d[b - c.off + 1]
    BY <1>1, <1>3, <2>1, Zenon DEF Follows
  <2> QED
    BY <1>1, <1>4, <2>1, <2>2, Zenon DEF ByteOf
<1>9. ASSUME NEW b \in Nat, Covers(q, b) PROVE ByteOf(r, b) = ByteOf(q, b)
  <2>0. q.off <= b /\ b < q.off + l
    BY <1>9, Zenon DEF Covers, e, l
  <2>1. b - q.off + 1 \in 1..l
    BY <1>2, <2>0
  <2>2. u[b - q.off + 1] = e[b - q.off + 1]
    BY <1>3, <2>1, Zenon DEF Follows
  <2> QED
    BY <1>4, <2>2, Zenon DEF ByteOf, e
<1> QED
  BY <1>3, <1>4, <1>6, <1>7, <1>8, <1>9, Zenon DEF l, e

\* qs is rs with the chunk c: its last run is a new one, or the last run of rs that has grown.
SameUpTo(qs, rs) ==
  /\ Len(qs) # 0 /\ Len(rs) <= Len(qs) /\ Len(qs) <= Len(rs) + 1
  /\ \A m \in 1..(Len(qs) - 1) : qs[m] = rs[m]

LastBytes(qs, rs, c) ==
  /\ \A b \in Nat : Covers(qs[Len(qs)], b) => Has(c, b) \/ (Len(qs) = Len(rs) /\ Covers(rs[Len(rs)], b))
  /\ \A b \in Nat : Has(c, b) => Covers(qs[Len(qs)], b) /\ ByteOf(qs[Len(qs)], b) = c.id
  /\ Len(qs) = Len(rs) =>
       \A b \in Nat : Covers(rs[Len(rs)], b) =>
         Covers(qs[Len(qs)], b) /\ ByteOf(qs[Len(qs)], b) = ByteOf(rs[Len(rs)], b)

LastShape(qs, rs, c) ==
  \/ /\ Len(qs) = Len(rs) /\ qs[Len(qs)].off = rs[Len(rs)].off
     /\ Len(qs[Len(qs)].data) = Len(rs[Len(rs)].data) + c.len
  \/ /\ Len(qs) = Len(rs) + 1 /\ qs[Len(qs)].off = c.off /\ Len(qs[Len(qs)].data) = c.len
     /\ Len(rs) # 0 => rs[Len(rs)].off + Len(rs[Len(rs)].data) # c.off

(* What Merge returns. *)
LEMMA MergeFacts ==
  ASSUME NEW rs \in Seq(Run), NEW c \in Chunk
  PROVE  /\ Merge(rs, c) \in Seq(Run)
         /\ SameUpTo(Merge(rs, c), rs) /\ LastBytes(Merge(rs, c), rs, c) /\ LastShape(Merge(rs, c), rs, c)
<1> DEFINE n == Len(rs)  qs == Merge(rs, c)
<1>0. n \in Nat
  OBVIOUS
<1>1. CASE n # 0 /\ rs[n].off + Len(rs[n].data) = c.off
  <2> DEFINE q == rs[n]  r == [off |-> q.off, data |-> q.data \o Data(c)]
  <2>1. qs = [rs EXCEPT ![n] = r]
    BY <1>1, Zenon DEF Merge
  <2>2. q \in Run
    BY <1>0, <1>1
  <2>3. q.off \in Nat /\ q.data \in Seq(Nat)
    BY <2>2 DEF Run
  <2>4. r.off = q.off /\ r.data = q.data \o Data(c)
    OBVIOUS
  <2>5. /\ r.data \in Seq(Nat) /\ Len(r.data) = Len(q.data) + c.len
        /\ \A b \in Nat : /\ Covers(r, b) <=> Covers(q, b) \/ Has(c, b)
                          /\ Has(c, b) => ByteOf(r, b) = c.id
                          /\ Covers(q, b) => ByteOf(r, b) = ByteOf(q, b)
    <3> HIDE DEF r, q
    <3>1. q.off + Len(q.data) = c.off
      BY <1>1, Zenon DEF q
    <3> QED
      BY <2>2, <2>4, <3>1, RunWithChunk, Zenon
  <2>6. r \in Run
    BY <2>3, <2>4, <2>5 DEF Run
  <2> HIDE DEF r, qs
  <2>7. qs \in Seq(Run) /\ Len(qs) = n /\ qs[n] = r /\ \A m \in 1..(n - 1) : qs[m] = rs[m]
    BY <1>0, <1>1, <2>1, <2>6
  <2>8. n <= n /\ n <= n + 1
    BY <1>0
  <2>9. SameUpTo(qs, rs)
    BY <1>1, <2>7, <2>8, Zenon DEF SameUpTo
  <2>10. LastBytes(qs, rs, c)
    BY <2>5, <2>7, Zenon DEF LastBytes
  <2>11. LastShape(qs, rs, c)
    BY <2>4, <2>5, <2>7, Zenon DEF LastShape
  <2> QED
    BY <2>7, <2>9, <2>10, <2>11, Zenon DEF qs
<1>2. CASE ~(n # 0 /\ rs[n].off + Len(rs[n].data) = c.off)
  <2> DEFINE r == [off |-> c.off, data |-> Data(c)]
  <2>1. qs = Append(rs, r)
    BY <1>2, Zenon DEF Merge
  <2>2. /\ r \in Run /\ r.off = c.off /\ Len(r.data) = c.len
        /\ \A b \in Nat : /\ Covers(r, b) <=> Has(c, b)
                          /\ Has(c, b) => ByteOf(r, b) = c.id
    BY RunOfChunk, Zenon
  <2> HIDE DEF r, qs
  <2>3. qs \in Seq(Run) /\ Len(qs) = n + 1 /\ qs[n + 1] = r /\ \A m \in 1..n : qs[m] = rs[m]
    BY <1>0, <2>1, <2>2
  <2>4. n + 1 # 0 /\ n <= n + 1 /\ n + 1 <= n + 1 /\ n + 1 # n /\ n + 1 - 1 = n
    BY <1>0
  <2>5. SameUpTo(qs, rs)
    <3>1. Len(qs) - 1 = n
      BY <1>0, <2>3
    <3> QED
      BY <2>3, <2>4, <3>1, Zenon DEF SameUpTo
  <2>6. LastBytes(qs, rs, c)
    BY <2>2, <2>3, <2>4, Zenon DEF LastBytes
  <2>7. LastShape(qs, rs, c)
    BY <1>2, <2>2, <2>3, Zenon DEF LastShape
  <2> QED
    BY <2>3, <2>5, <2>6, <2>7, Zenon DEF qs
<1> QED
  BY <1>1, <1>2, Zenon

(* Merged is what its definition says: chunk after chunk is merged. *)
LEMMA MergeSteps ==
  ASSUME NEW s \in Seq(Chunk)
  PROVE  \E f : /\ f[0] = <<>> /\ Merged(s) = f[Len(s)]
                /\ \A n \in 1..Len(s) : f[n] = Merge(f[n - 1], s[n])
<1> DEFINE N == Len(s)
           V == Seq(Run)
           next == [n \in 1..N |-> [t \in V |-> Merge(t, s[n])]]
           F(g) == [i \in 0..N |-> IF i = 0 THEN <<>> ELSE Merge(g[i - 1], s[i])]
           empty == <<>>
<1>1. N \in Nat /\ \A n \in 1..N : s[n] \in Chunk
  OBVIOUS
<1>2. empty \in V
  OBVIOUS
<1>3. \A t \in V, n \in 1..N : Merge(t, s[n]) \in V
  BY <1>1, MergeFacts, Zenon
<1>4. next \in [1..N -> [V -> V]]
  <2> HIDE DEF V
  <2> QED
    BY <1>3, Zenon
<1>5. \A n \in 1..N : \A t \in V : next[n][t] = Merge(t, s[n])
  BY Zenon
<1> HIDE DEF V, next, empty
<1>6. PICK f \in [0..N -> V] : Unfolds(f, empty, next, N)
  BY <1>1, <1>2, <1>4, Recursion, Zenon
<1>7. (\A n \in 1..N : n - 1 \in 0..N /\ n \in 0..N /\ n # 0) /\ 0 \in 0..N
  BY <1>1
<1>8. f[0] = <<>> /\ \A n \in 1..N : f[n] = Merge(f[n - 1], s[n])
  BY <1>5, <1>6, <1>7, Zenon DEF Unfolds, empty
<1>9. f = F(f)
  <2>1. \A m \in 0..N : f[m] = F(f)[m]
    <3>1. \A m \in 0..N : m = 0 \/ m \in 1..N
      BY <1>1
    <3> QED
      BY <1>8, <3>1, Zenon
  <2> QED
    BY <2>1, Zenon
<1> DEFINE g == CHOOSE v : v = F(v)
<1>10. g = F(g)
  BY <1>9, Zenon
<1>11. Merged(s) = g[N]
  BY Zenon DEF Merged
<1> HIDE DEF g
<1>12. \A n \in 0..N : g[n] = IF n = 0 THEN <<>> ELSE Merge(g[n - 1], s[n])
  BY <1>10, Zenon
<1> QED
  BY <1>7, <1>11, <1>12, Zenon

\* The run has the bytes of the chunk.
Carries(r, c) == \A b \in Nat : Has(c, b) => Covers(r, b) /\ ByteOf(r, b) = c.id

\* The last run with byte b is at m.
LastRun(rs, b, m) == m \in DOMAIN rs /\ Covers(rs[m], b) /\ \A k \in DOMAIN rs : m < k => ~Covers(rs[k], b)

\* The chunk at i is the last of the first n with byte b.
LastOf(t, n, b, i) == i \in 1..n /\ Has(t[i], b) /\ \A k \in 1..n : i < k => ~Has(t[k], b)

\* rs is what the first n chunks of t give: no byte that they do not have, all of
\* each chunk, and of every byte the last write last.
MergedTo(rs, t, n) ==
  /\ rs \in Seq(Run)
  /\ \A m \in DOMAIN rs, b \in Nat : Covers(rs[m], b) => \E i \in 1..n : Has(t[i], b)
  /\ \A i \in 1..n : \E m \in DOMAIN rs : Carries(rs[m], t[i])
  /\ \A b \in Nat, i \in 1..n :
       LastOf(t, n, b, i) => \E m \in DOMAIN rs : LastRun(rs, b, m) /\ ByteOf(rs[m], b) = t[i].id

(* One chunk more. *)
LEMMA MergedStep ==
  ASSUME NEW t \in Seq(Chunk), NEW n \in 1..Len(t), NEW rs, MergedTo(rs, t, n - 1)
  PROVE  MergedTo(Merge(rs, t[n]), t, n)
<1> DEFINE c == t[n]  qs == Merge(rs, c)  l == Len(rs)  k == Len(qs)
<1>0. /\ n \in Nat /\ n \in 1..n /\ c \in Chunk
      /\ (\A i \in 1..(n - 1) : i \in 1..n /\ i < n)
      /\ \A i \in 1..n : i = n \/ i \in 1..(n - 1)
  OBVIOUS
<1>1. rs \in Seq(Run)
  BY Zenon DEF MergedTo
<1>2. qs \in Seq(Run) /\ SameUpTo(qs, rs) /\ LastBytes(qs, rs, c)
  BY <1>0, <1>1, MergeFacts, Zenon
<1> HIDE DEF qs, c
<1>3. l \in Nat /\ k \in Nat /\ DOMAIN rs = 1..l /\ DOMAIN qs = 1..k
  BY <1>1, <1>2
<1> HIDE DEF l, k
<1>4. k # 0 /\ l <= k /\ k <= l + 1 /\ \A m \in 1..(k - 1) : qs[m] = rs[m]
  BY <1>2, Zenon DEF SameUpTo, l, k
<1>5. /\ \A b \in Nat : Covers(qs[k], b) => Has(c, b) \/ (k = l /\ Covers(rs[l], b))
      /\ \A b \in Nat : Has(c, b) => Covers(qs[k], b) /\ ByteOf(qs[k], b) = c.id
      /\ k = l => \A b \in Nat : Covers(rs[l], b) => Covers(qs[k], b) /\ ByteOf(qs[k], b) = ByteOf(rs[l], b)
  BY <1>2, Zenon DEF LastBytes, l, k
\* The places of rs and those of qs.
<1>6. /\ k \in DOMAIN qs
      /\ \A m \in DOMAIN rs : m \in DOMAIN qs /\ m \in Nat
      /\ \A m \in DOMAIN rs : m \in 1..(k - 1) \/ (m = k /\ k = l)
      /\ \A m \in DOMAIN qs : m = k \/ (m \in 1..(k - 1) /\ m \in DOMAIN rs)
      /\ \A m \in DOMAIN qs : ~(k < m) /\ m \in Nat
      /\ k = l => k \in DOMAIN rs
  BY <1>3, <1>4
<1>7. ASSUME NEW m \in DOMAIN qs, NEW b \in Nat, Covers(qs[m], b) PROVE \E i \in 1..n : Has(t[i], b)
  <2>1. Has(c, b) \/ \E j \in DOMAIN rs : Covers(rs[j], b)
    BY <1>4, <1>5, <1>6, <1>7, Zenon
  <2>2. (\E j \in DOMAIN rs : Covers(rs[j], b)) => \E i \in 1..(n - 1) : Has(t[i], b)
    BY Zenon DEF MergedTo
  <2> QED
    BY <1>0, <2>1, <2>2, Zenon DEF c
<1>8. ASSUME NEW i \in 1..n PROVE \E m \in DOMAIN qs : Carries(qs[m], t[i])
  <2>1. CASE i = n
    <3>1. Carries(qs[k], c)
      BY <1>5, Zenon DEF Carries
    <3> QED
      BY <1>6, <2>1, <3>1, Zenon DEF c
  <2>2. CASE i \in 1..(n - 1)
    <3>1. PICK m \in DOMAIN rs : Carries(rs[m], t[i])
      BY <2>2, Zenon DEF MergedTo
    <3>2. CASE m \in 1..(k - 1)
      BY <1>4, <1>6, <3>1, <3>2, Zenon
    <3>3. CASE m = k /\ k = l
      <4>1. Carries(qs[k], t[i])
        BY <1>5, <3>1, <3>3, Zenon DEF Carries
      <4> QED
        BY <1>6, <4>1, Zenon
    <3> QED
      BY <1>6, <3>2, <3>3, Zenon
  <2> QED
    BY <1>0, <2>1, <2>2, Zenon
<1>9. ASSUME NEW b \in Nat, NEW i \in 1..n, LastOf(t, n, b, i)
      PROVE  \E m \in DOMAIN qs : LastRun(qs, b, m) /\ ByteOf(qs[m], b) = t[i].id
  <2>1. CASE i = n
    <3>1. Has(c, b)
      BY <1>9, <2>1, Zenon DEF LastOf, c
    <3>2. LastRun(qs, b, k) /\ ByteOf(qs[k], b) = c.id
      BY <1>5, <1>6, <3>1, Zenon DEF LastRun
    <3> QED
      BY <1>6, <2>1, <3>2, Zenon DEF c
  <2>2. CASE i \in 1..(n - 1)
    <3>1. LastOf(t, n - 1, b, i) /\ ~Has(c, b)
      BY <1>0, <1>9, <2>2, Zenon DEF LastOf, c
    <3>2. PICK m \in DOMAIN rs : LastRun(rs, b, m) /\ ByteOf(rs[m], b) = t[i].id
      BY <2>2, <3>1, Zenon DEF MergedTo
    <3>3. Covers(rs[m], b) /\ \A j \in DOMAIN rs : m < j => ~Covers(rs[j], b)
      BY <3>2, Zenon DEF LastRun
    <3>4. Covers(qs[m], b) /\ ByteOf(qs[m], b) = ByteOf(rs[m], b)
      <4>1. CASE m \in 1..(k - 1)
        BY <1>4, <3>3, <4>1, Zenon
      <4>2. CASE m = k /\ k = l
        BY <1>5, <3>3, <4>2, Zenon
      <4> QED
        BY <1>6, <4>1, <4>2, Zenon
    <3>5. ASSUME NEW j \in DOMAIN qs, m < j, Covers(qs[j], b) PROVE FALSE
      <4>1. CASE j = k
        <5>1. k = l /\ Covers(rs[l], b)
          BY <1>5, <3>1, <3>5, <4>1, Zenon
        <5>2. k \in DOMAIN rs /\ Covers(rs[k], b)
          BY <1>6, <5>1, Zenon
        <5> QED
          BY <3>3, <3>5, <4>1, <5>2, Zenon
      <4>2. CASE j \in 1..(k - 1) /\ j \in DOMAIN rs
        BY <1>4, <3>3, <3>5, <4>2, Zenon
      <4> QED
        BY <1>6, <4>1, <4>2, Zenon
    <3>6. m \in DOMAIN qs
      BY <1>6, Zenon
    <3>7. LastRun(qs, b, m)
      BY <3>4, <3>5, <3>6, Zenon DEF LastRun
    <3> QED
      BY <3>2, <3>4, <3>6, <3>7, Zenon
  <2> QED
    BY <1>0, <2>1, <2>2, Zenon
<1> QED
  BY <1>2, <1>7, <1>8, <1>9, Zenon DEF MergedTo, qs, c

(* begin_flush merges the chunks. *)
LEMMA MergedFacts ==
  ASSUME NEW t \in Seq(Chunk)
  PROVE  MergedTo(Merged(t), t, Len(t))
<1>1. PICK f : /\ f[0] = <<>> /\ Merged(t) = f[Len(t)]
               /\ \A n \in 1..Len(t) : f[n] = Merge(f[n - 1], t[n])
  BY MergeSteps, Zenon
<1> DEFINE T == {n \in 0..Len(t) : MergedTo(f[n], t, n)}
<1>0. Len(t) \in Nat /\ 0 \in 0..Len(t) /\ Len(t) \in 0..Len(t) /\ \A n \in 1..Len(t) : n \in 0..Len(t)
  OBVIOUS
<1>2. 0 \in T
  <2>1. <<>> \in Seq(Run) /\ DOMAIN <<>> = {} /\ 1..0 = {}
    OBVIOUS
  <2>2. MergedTo(<<>>, t, 0)
    BY <2>1, Zenon DEF MergedTo
  <2> QED
    BY <1>0, <1>1, <2>2, Zenon
<1>3. ASSUME NEW n \in 1..Len(t), n - 1 \in T PROVE n \in T
  <2>1. MergedTo(f[n - 1], t, n - 1)
    BY <1>3, Zenon
  <2>2. MergedTo(f[n], t, n)
    BY <1>1, <2>1, MergedStep, Zenon
  <2> QED
    BY <1>0, <2>2, Zenon
<1>4. Len(t) \in T
  <2> HIDE DEF T
  <2> QED
    BY <1>0, <1>2, <1>3, UpTo, Zenon
<1> QED
  BY <1>1, <1>4, Zenon

-----------------------------------------------------------------------------
(* The state. *)

Reading == [st : {"none", "busy", "done"}, from : Nat, len : Nat, quiet : BOOLEAN,
            off : Nat, got : Seq(Nat)]

DataType ==
  /\ chunks \in Seq(Chunk) /\ Numbered(chunks) /\ \A i \in DOMAIN chunks : chunks[i].id <= pushed
  /\ cnt \in 0..Len(chunks) /\ runs \in Seq(Run) /\ (cnt = 0 => runs = <<>>)
  /\ pushed \in Nat /\ file \in [Byte -> Nat] /\ want \in [Byte -> Nat] /\ rd \in Reading

\* What the server has not written yet is of chunks that were sent.
RunsSent ==
  \A m \in DOMAIN runs, b \in Byte : Covers(runs[m], b) => \E i \in 1..cnt : Has(chunks[i], b)

\* The newest chunk with a byte is what the application wants there.
NewestWanted ==
  \A b \in Byte : \A i \in DOMAIN chunks : LastWith(chunks, b, i) => want[b] = chunks[i].id

\* A byte of no chunk is as the application wants it.
OthersWritten ==
  \A b \in Byte : (\A i \in DOMAIN chunks : ~Has(chunks[i], b)) => file[b] = want[b]

\* The last run with byte b still to be written has x there; if there is none, the file has it.
OnItsWay(rs, f, b, x) ==
  \/ \E m \in DOMAIN rs : LastRun(rs, b, m) /\ ByteOf(rs[m], b) = x
  \/ f[b] = x /\ \A m \in DOMAIN rs : ~Covers(rs[m], b)

\* The newest sent chunk with a byte is what the file will have there.
NewestOnItsWay ==
  \A b \in Byte : \A i \in 1..cnt : LastOf(chunks, cnt, b, i) => OnItsWay(runs, file, b, chunks[i].id)

\* A quiet read has the bytes up to where it is.
ReadSoFar ==
  /\ rd.st = "busy" => rd.off = rd.from + Len(rd.got) /\ Len(rd.got) <= rd.len
  /\ rd.st = "busy" /\ rd.quiet =>
       /\ chunks = <<>> /\ Len(rd.got) <= AtLeast0(FileSize(want) - rd.from)
       /\ \A i \in 1..Len(rd.got) : rd.got[i] = want[rd.from + i - 1]

BytesInv == DataType /\ RunsSent /\ NewestWanted /\ OthersWritten /\ NewestOnItsWay
DataInv == BytesInv /\ ReadSoFar /\ ReadsBack

(* Put writes the bytes of a run and no other. *)
LEMMA PutFacts ==
  ASSUME NEW f \in [Byte -> Nat], NEW r \in Run
  PROVE  /\ Put(f, r.off, r.data) \in [Byte -> Nat]
         /\ \A b \in Byte : Covers(r, b) => Put(f, r.off, r.data)[b] = ByteOf(r, b)
         /\ \A b \in Byte : ~Covers(r, b) => Put(f, r.off, r.data)[b] = f[b]
<1> DEFINE o == r.off  d == r.data
           p == [b \in Byte |-> IF b \in o..(o + Len(d) - 1) THEN d[b - o + 1] ELSE f[b]]
<1>0. Put(f, o, d) = p
  BY Zenon DEF Put
<1>1. o \in Nat /\ d \in Seq(Nat)
  BY DEF Run
<1>2. \A b \in Byte : Covers(r, b) <=> o <= b /\ b < o + Len(d)
  BY Zenon DEF Covers
<1>3. \A b \in Byte : ByteOf(r, b) = d[b - o + 1]
  BY Zenon DEF ByteOf
<1> HIDE DEF o, d
<1>4. \A b \in Byte : b \in Nat
  BY CoalesceParameters DEF Byte
<1>5. Len(d) \in Nat
  BY <1>1
<1>6. \A b \in Byte : Covers(r, b) <=> b \in o..(o + Len(d) - 1)
  BY <1>1, <1>2, <1>4, <1>5
<1>7. ASSUME NEW b \in Byte, b \in o..(o + Len(d) - 1) PROVE d[b - o + 1] \in Nat
  <2>1. b - o + 1 \in 1..Len(d)
    BY <1>1, <1>4, <1>5, <1>7
  <2> QED
    BY <1>1, <2>1
<1>8. \A b \in Byte : p[b] = IF b \in o..(o + Len(d) - 1) THEN d[b - o + 1] ELSE f[b]
  BY Zenon
<1>9. p \in [Byte -> Nat]
  <2>1. \A b \in Byte : p[b] \in Nat
    BY <1>7, <1>8, Zenon
  <2> QED
    BY <2>1, Zenon
<1> QED
  BY <1>0, <1>3, <1>6, <1>8, <1>9, Zenon DEF o, d

(* push. *)
LEMMA PushKeeps ==
  ASSUME BytesInv, NEW off \in Offset, NEW len \in Length, Push(off, len)
  PROVE  BytesInv'
<1> DEFINE c == [off |-> off, len |-> len, id |-> pushed + 1]
           r == [off |-> c.off, data |-> Data(c)]
           n == Len(chunks)  m == n + 1
<1>1. /\ chunks \in Seq(Chunk) /\ Numbered(chunks) /\ \A i \in DOMAIN chunks : chunks[i].id <= pushed
      /\ cnt \in 0..n /\ runs \in Seq(Run) /\ (cnt = 0 => runs = <<>>)
      /\ pushed \in Nat /\ file \in [Byte -> Nat] /\ want \in [Byte -> Nat] /\ rd \in Reading
  BY Zenon DEF BytesInv, DataType
<1>2. c \in Chunk /\ c.id = pushed + 1 /\ c.off = off
  BY <1>1 DEF Chunk
<1>3. /\ chunks' = Append(chunks, c) /\ want' = Put(want, off, Data(c)) /\ pushed' = pushed + 1 /\ rd' = NoRead
      /\ cnt' = cnt /\ runs' = runs /\ file' = file
  BY Zenon DEF Push
<1>4. r \in Run /\ r.off = off /\ r.data = Data(c)
  <2>1. r \in Run
    BY <1>2, RunOfChunk, Zenon
  <2> QED
    BY <1>2, <2>1
<1>5. \A b \in Byte : b \in Nat
  BY CoalesceParameters DEF Byte
<1>6. \A b \in Byte : (Covers(r, b) <=> Has(c, b)) /\ (Has(c, b) => ByteOf(r, b) = c.id)
  BY <1>2, <1>5, RunOfChunk, Zenon
<1> HIDE DEF r
<1>7. /\ want' \in [Byte -> Nat]
      /\ \A b \in Byte : Has(c, b) => want'[b] = c.id
      /\ \A b \in Byte : ~Has(c, b) => want'[b] = want[b]
  <2> DEFINE w == Put(want, r.off, r.data)
  <2>1. /\ w \in [Byte -> Nat]
        /\ \A b \in Byte : Covers(r, b) => w[b] = ByteOf(r, b)
        /\ \A b \in Byte : ~Covers(r, b) => w[b] = want[b]
    BY <1>1, <1>4, PutFacts, Zenon
  <2>2. want' = w
    BY <1>3, <1>4, Zenon
  <2> HIDE DEF w
  <2> QED
    BY <1>6, <2>1, <2>2, Zenon
<1> HIDE DEF c
<1>8. /\ chunks' \in Seq(Chunk) /\ Len(chunks') = m /\ DOMAIN chunks' = 1..m /\ chunks'[m] = c
      /\ DOMAIN chunks = 1..n /\ n \in Nat /\ \A i \in 1..n : chunks'[i] = chunks[i]
  BY <1>1, <1>2, <1>3
<1> HIDE DEF n
<1>9. /\ m \in 1..m /\ (\A i \in 1..m : i = m \/ i \in 1..n) /\ \A i \in 1..n : i \in 1..m /\ i < m /\ ~(m < i)
      /\ ~(m < m) /\ (\A i \in 1..cnt : i \in 1..n) /\ cnt \in 0..m
  BY <1>1, <1>8
<1>10. (\A i \in 1..n : chunks[i].id <= pushed) /\ \A i \in 1..n : chunks[i].id \in Nat
  <2>1. \A i \in 1..n : chunks[i] \in Chunk
    BY <1>1, <1>8
  <2> QED
    BY <1>1, <1>8, <2>1, ChunkFacts, Zenon
<1>11. \A i \in 1..n : chunks[i].id < c.id /\ chunks[i].id <= pushed + 1
  BY <1>1, <1>2, <1>10
<1>12. DataType'
  <2>1. Numbered(chunks')
    <3> SUFFICES ASSUME NEW i \in 1..m, NEW j \in 1..m, i < j PROVE chunks'[i].id < chunks'[j].id
      BY <1>8, Zenon DEF Numbered
    <3>1. i \in 1..n
      BY <1>9, Zenon
    <3>2. CASE j = m
      BY <1>8, <1>11, <3>1, <3>2, Zenon
    <3>3. CASE j \in 1..n
      BY <1>1, <1>8, <3>1, <3>3, Zenon DEF Numbered
    <3> QED
      BY <1>9, <3>2, <3>3, Zenon
  <2>2. \A i \in DOMAIN chunks' : chunks'[i].id <= pushed'
    <3>1. c.id <= pushed + 1
      BY <1>1, <1>2
    <3> QED
      BY <1>3, <1>8, <1>9, <1>11, <3>1, Zenon
  <2>3. NoRead \in Reading /\ pushed + 1 \in Nat
    BY <1>1 DEF NoRead, Reading
  <2> QED
    BY <1>1, <1>3, <1>7, <1>8, <1>9, <2>1, <2>2, <2>3, Zenon DEF DataType
<1>13. RunsSent'
  BY <1>3, <1>8, <1>9, Zenon DEF BytesInv, RunsSent
<1>14. NewestWanted'
  <2> SUFFICES ASSUME NEW b \in Byte, NEW i \in 1..m, LastWith(chunks', b, i) PROVE want'[b] = chunks'[i].id
    BY <1>8, Zenon DEF NewestWanted
  <2>1. Has(chunks'[i], b) /\ \A k \in 1..m : i < k => ~Has(chunks'[k], b)
    BY <1>8, Zenon DEF LastWith
  <2>2. CASE i = m
    BY <1>7, <1>8, <2>1, <2>2, Zenon
  <2>3. CASE i \in 1..n
    <3>1. ~Has(c, b)
      BY <1>8, <1>9, <2>1, <2>3, Zenon
    <3>2. LastWith(chunks, b, i)
      BY <1>8, <1>9, <2>1, <2>3, Zenon DEF LastWith
    <3>3. want[b] = chunks[i].id
      BY <1>8, <2>3, <3>2, Zenon DEF BytesInv, NewestWanted
    <3> QED
      BY <1>7, <1>8, <2>3, <3>1, <3>3, Zenon
  <2> QED
    BY <1>9, <2>2, <2>3, Zenon
<1>15. OthersWritten'
  <2> SUFFICES ASSUME NEW b \in Byte, \A i \in 1..m : ~Has(chunks'[i], b) PROVE file[b] = want'[b]
    BY <1>3, <1>8, Zenon DEF OthersWritten
  <2>1. ~Has(c, b) /\ \A i \in 1..n : ~Has(chunks[i], b)
    BY <1>8, <1>9, Zenon
  <2>2. file[b] = want[b]
    BY <1>8, <2>1, Zenon DEF BytesInv, OthersWritten
  <2> QED
    BY <1>7, <2>1, <2>2, Zenon
<1>16. NewestOnItsWay'
  <2> SUFFICES ASSUME NEW b \in Byte, NEW i \in 1..cnt, LastOf(chunks', cnt, b, i)
               PROVE  OnItsWay(runs, file, b, chunks'[i].id)
    BY <1>3, Zenon DEF NewestOnItsWay
  <2>1. LastOf(chunks, cnt, b, i)
    BY <1>8, <1>9, Zenon DEF LastOf
  <2>2. OnItsWay(runs, file, b, chunks[i].id)
    BY <2>1, Zenon DEF BytesInv, NewestOnItsWay
  <2> QED
    BY <1>8, <1>9, <2>2, Zenon
<1> QED
  BY <1>12, <1>13, <1>14, <1>15, <1>16, Zenon DEF BytesInv

(* begin_flush. *)
LEMMA FlushKeeps ==
  ASSUME WritesDoNotCross, BytesInv, BeginFlush
  PROVE  BytesInv'
<1> DEFINE n == Len(chunks)  t == Sorted(chunks)  rs == Merged(t)
<1>1. /\ chunks \in Seq(Chunk) /\ Numbered(chunks) /\ \A i \in DOMAIN chunks : chunks[i].id <= pushed
      /\ pushed \in Nat /\ file \in [Byte -> Nat] /\ want \in [Byte -> Nat] /\ rd \in Reading
  BY Zenon DEF BytesInv, DataType
<1>2. /\ chunks' = chunks /\ want' = want /\ pushed' = pushed /\ rd' = rd /\ file' = file
      /\ cnt' = n /\ runs' = rs /\ chunks # <<>>
  BY Zenon DEF BeginFlush, Runs
<1>3. n \in Nat /\ n # 0 /\ n \in 0..n /\ DOMAIN chunks = 1..n
  BY <1>1, <1>2
<1>4. SortedTo(t, chunks, n)
  BY <1>1, SortedFacts, Zenon
<1>5. t \in Seq(Chunk) /\ Len(t) = n
  BY <1>4, Zenon DEF SortedTo
<1>6. MergedTo(rs, t, n)
  BY <1>5, MergedFacts, Zenon
<1>7. \A b \in Byte : b \in Nat
  BY CoalesceParameters DEF Byte
<1> HIDE DEF n, rs
<1>8. DataType'
  BY <1>1, <1>2, <1>3, <1>6, Zenon DEF DataType, MergedTo, n
<1>9. RunsSent'
  <2> SUFFICES ASSUME NEW m \in DOMAIN rs, NEW b \in Byte, Covers(rs[m], b) PROVE \E i \in 1..n : Has(chunks[i], b)
    BY <1>2, Zenon DEF RunsSent
  <2>1. PICK j \in 1..n : Has(t[j], b)
    BY <1>6, <1>7, Zenon DEF MergedTo
  <2>2. PICK i \in 1..n : chunks[i] = t[j]
    BY <1>4, Zenon DEF SortedTo
  <2> QED
    BY <2>1, <2>2, Zenon
<1>10. NewestWanted' /\ OthersWritten'
  BY <1>2, Zenon DEF BytesInv, NewestWanted, OthersWritten
<1>11. NewestOnItsWay'
  <2> SUFFICES ASSUME NEW b \in Byte, NEW i \in 1..n, LastOf(chunks, n, b, i)
               PROVE  OnItsWay(rs, file, b, chunks[i].id)
    BY <1>2, Zenon DEF NewestOnItsWay
  <2>1. LastWith(chunks, b, i)
    BY <1>3, Zenon DEF LastOf, LastWith
  <2>2. PICK j : LastWith(t, b, j) /\ t[j] = chunks[i]
    BY <1>1, <1>7, <2>1, LastSorted, Zenon
  <2> HIDE DEF t
  <2>3. DOMAIN t = 1..n
    BY <1>3, <1>5
  <2>4. LastOf(t, n, b, j) /\ j \in 1..n
    BY <2>2, <2>3, Zenon DEF LastOf, LastWith
  <2>5. PICK m \in DOMAIN rs : LastRun(rs, b, m) /\ ByteOf(rs[m], b) = t[j].id
    BY <1>6, <1>7, <2>4, Zenon DEF MergedTo
  <2> QED
    BY <2>2, <2>5, Zenon DEF OnItsWay
<1> QED
  BY <1>8, <1>9, <1>10, <1>11, Zenon DEF BytesInv

(* A frame and what it leaves are the run, cut in two. *)
LEMMA CutFacts ==
  ASSUME NEW r \in Run, NEW p, p.off = r.off, p.data = Frame(r), NEW q, q = Rest(r)
  PROVE  /\ p.data \in Seq(Nat) /\ q \in Run
         /\ \A b \in Nat : /\ Covers(r, b) <=> Covers(p, b) \/ Covers(q, b)
                           /\ ~(Covers(p, b) /\ Covers(q, b))
                           /\ Covers(p, b) => ByteOf(p, b) = ByteOf(r, b)
                           /\ Covers(q, b) => ByteOf(q, b) = ByteOf(r, b)
<1> DEFINE o == r.off  d == r.data  l == Len(d)  k == FrameLen(r)
           u == SubSeq(d, 1, k)  v == SubSeq(d, k + 1, l)
<1>1. o \in Nat /\ d \in Seq(Nat) /\ l \in Nat
  BY DEF Run
<1>2. k \in Nat /\ k <= l
  <2>1. FrameSize \in Nat
    BY CoalesceParameters
  <2> QED
    BY <1>1, <2>1 DEF FrameLen
<1>3. p.off = o /\ p.data = u /\ q.off = o + k /\ q.data = v /\ q = [off |-> o + k, data |-> v]
  <2>1. p.off = o /\ p.data = u /\ q = [off |-> o + k, data |-> v]
    BY Zenon DEF Frame, Rest
  <2> HIDE DEF o, k, u, v
  <2> QED
    BY <2>1
<1>4. \A b \in Nat : (Covers(r, b) <=> o <= b /\ b < o + l) /\ ByteOf(r, b) = d[b - o + 1]
  BY Zenon DEF Covers, ByteOf
<1> HIDE DEF k, o, d
<1>5. u \in Seq(Nat) /\ Len(u) = k /\ \A i \in 1..k : u[i] = d[i]
  <2>1. 1 <= 1 /\ 1 \in Nat /\ 1 <= k + 1 /\ k - 1 + 1 = k /\ \A i \in 1..k : 1 + i - 1 = i
    BY <1>2
  <2>2. u \in Seq(Nat) /\ Len(u) = k - 1 + 1 /\ \A i \in 1..(k - 1 + 1) : u[i] = d[1 + i - 1]
    <3>1. u \in Seq(Nat) /\ PartOf(u, d, 1, k)
      BY <1>1, <1>2, <2>1, Part, Zenon
    <3> QED
      BY <3>1, Zenon DEF PartOf
  <2> QED
    BY <2>1, <2>2
<1>6. v \in Seq(Nat) /\ Len(v) = l - k /\ \A i \in 1..(l - k) : v[i] = d[k + i]
  <2>1. /\ k + 1 \in Nat /\ 1 <= k + 1 /\ k + 1 <= l + 1 /\ l <= l /\ l - (k + 1) + 1 = l - k
        /\ \A i \in 1..(l - k) : k + 1 + i - 1 = k + i
    BY <1>1, <1>2
  <2>2. v \in Seq(Nat) /\ Len(v) = l - (k + 1) + 1 /\ \A i \in 1..(l - (k + 1) + 1) : v[i] = d[k + 1 + i - 1]
    <3>1. v \in Seq(Nat) /\ PartOf(v, d, k + 1, l)
      BY <1>1, <2>1, Part, Zenon
    <3> QED
      BY <3>1, Zenon DEF PartOf
  <2> QED
    BY <2>1, <2>2
<1> HIDE DEF u, v, l
<1>8. q \in Run
  BY <1>1, <1>2, <1>3, <1>6 DEF Run
<1>9. ASSUME NEW b \in Nat
      PROVE  /\ Covers(p, b) <=> o <= b /\ b < o + k
             /\ Covers(q, b) <=> o + k <= b /\ b < o + k + (l - k)
             /\ ByteOf(p, b) = u[b - o + 1] /\ ByteOf(q, b) = v[b - (o + k) + 1]
  BY <1>3, <1>5, <1>6, Zenon DEF Covers, ByteOf
<1>10. ASSUME NEW b \in Nat
       PROVE  /\ Covers(r, b) <=> Covers(p, b) \/ Covers(q, b)
              /\ ~(Covers(p, b) /\ Covers(q, b))
  <2>1. /\ (o <= b /\ b < o + l) <=> (o <= b /\ b < o + k) \/ (o + k <= b /\ b < o + k + (l - k))
        /\ ~(b < o + k /\ o + k <= b)
    BY <1>1, <1>2
  <2> QED
    BY <1>4, <1>9, <2>1, Zenon
<1>11. ASSUME NEW b \in Nat, Covers(p, b) PROVE ByteOf(p, b) = ByteOf(r, b)
  <2>1. b - o + 1 \in 1..k
    BY <1>1, <1>2, <1>9, <1>11
  <2> QED
    BY <1>4, <1>5, <1>9, <2>1, Zenon
<1>12. ASSUME NEW b \in Nat, Covers(q, b) PROVE ByteOf(q, b) = ByteOf(r, b)
  <2>1. b - (o + k) + 1 \in 1..(l - k) /\ k + (b - (o + k) + 1) = b - o + 1
    BY <1>1, <1>2, <1>9, <1>12
  <2>2. v[b - (o + k) + 1] = d[k + (b - (o + k) + 1)]
    BY <1>6, <2>1, Zenon
  <2> QED
    BY <1>4, <1>9, <2>1, <2>2, Zenon
<1> QED
  BY <1>3, <1>5, <1>8, <1>10, <1>11, <1>12, Zenon

\* rs is runs after one frame of the first run: its rest q comes first unless it is empty.
Shortened(rs, q) ==
  /\ rs \in Seq(Run)
  /\ \A m \in DOMAIN rs : rs[m] = q \/ \E k \in DOMAIN runs : k # 1 /\ rs[m] = runs[k]
  /\ \A b \in Byte, m \in DOMAIN runs :
       m # 1 /\ LastRun(runs, b, m) => \E k \in DOMAIN rs : LastRun(rs, b, k) /\ rs[k] = runs[m]
  /\ \A b \in Byte : LastRun(runs, b, 1) /\ Covers(q, b) => \E k \in DOMAIN rs : LastRun(rs, b, k) /\ rs[k] = q

(* The runs a frame leaves. *)
LEMMA FrameRuns ==
  ASSUME runs \in Seq(Run), runs # <<>>, NEW q \in Run, NEW rs,
         rs = IF q.data = <<>> THEN Tail(runs) ELSE <<q>> \o Tail(runs)
  PROVE  Shortened(rs, q)
<1> DEFINE l == Len(runs)
<1>1. l \in Nat /\ l # 0 /\ DOMAIN runs = 1..l /\ Tail(runs) \in Seq(Run) /\ Len(Tail(runs)) = l - 1
  OBVIOUS
<1>2. \A m \in 1..(l - 1) : Tail(runs)[m] = runs[m + 1]
  OBVIOUS
<1>3. CASE q.data = <<>>
  <2>1. rs = Tail(runs)
    BY <1>3, Zenon
  <2>2. rs \in Seq(Run) /\ DOMAIN rs = 1..(l - 1) /\ \A m \in 1..(l - 1) : rs[m] = runs[m + 1]
    <3>1. rs \in Seq(Run) /\ Len(rs) = l - 1 /\ \A m \in 1..(l - 1) : rs[m] = runs[m + 1]
      BY <1>1, <1>2, <2>1, Zenon
    <3> HIDE DEF l
    <3>2. DOMAIN rs = 1..(l - 1)
      BY <3>1
    <3> QED
      BY <3>1, <3>2, Zenon
  <2> HIDE DEF l
  <2>3. /\ \A m \in 1..(l - 1) : m + 1 \in 1..l /\ m + 1 # 1
        /\ \A m \in 1..l : m # 1 => m - 1 \in 1..(l - 1) /\ m - 1 + 1 = m
    BY <1>1
  <2>4. \A m \in DOMAIN rs : rs[m] = q \/ \E k \in DOMAIN runs : k # 1 /\ rs[m] = runs[k]
    BY <1>1, <2>2, <2>3, Zenon
  <2>5. ASSUME NEW b \in Byte, NEW m \in DOMAIN runs, m # 1, LastRun(runs, b, m)
        PROVE  \E k \in DOMAIN rs : LastRun(rs, b, k) /\ rs[k] = runs[m]
    <3>1. m - 1 \in 1..(l - 1) /\ rs[m - 1] = runs[m]
      <4>1. m - 1 \in 1..(l - 1) /\ m - 1 + 1 = m
        BY <1>1, <2>3, <2>5, Zenon
      <4>2. rs[m - 1] = runs[m - 1 + 1]
        BY <2>2, <4>1, Zenon
      <4> QED
        BY <4>1, <4>2, Zenon
    <3>2. Covers(runs[m], b) /\ \A k \in 1..l : m < k => ~Covers(runs[k], b)
      BY <1>1, <2>5, Zenon DEF LastRun
    <3>3. ASSUME NEW k \in 1..(l - 1), m - 1 < k PROVE ~Covers(rs[k], b)
      <4>1. m < k + 1
        BY <1>1, <2>3, <3>3
      <4> QED
        BY <2>2, <2>3, <3>2, <4>1, Zenon
    <3>4. LastRun(rs, b, m - 1)
      BY <2>2, <3>1, <3>2, <3>3, Zenon DEF LastRun
    <3> QED
      BY <2>2, <3>1, <3>4, Zenon
  <2>6. ASSUME NEW b \in Byte PROVE ~Covers(q, b)
    <3>1. Len(q.data) = 0
      BY <1>3
    <3>2. q.off \in Nat /\ b \in Nat
      BY CoalesceParameters DEF Run, Byte
    <3> QED
      BY <3>1, <3>2 DEF Covers
  <2> QED
    BY <2>2, <2>4, <2>5, <2>6, Zenon DEF Shortened
<1>4. CASE q.data # <<>>
  <2> DEFINE one == <<q>>  tl == Tail(runs)
  <2>1. rs = one \o tl
    BY <1>4, Zenon
  <2>2. one \in Seq(Run) /\ Len(one) = 1 /\ one[1] = q
    OBVIOUS
  <2> HIDE DEF one
  <2>3. rs \in Seq(Run) /\ Follows(rs, one, 1, tl)
    BY <1>1, <2>1, <2>2, Joined, Zenon
  <2>4. Len(rs) = 1 + (l - 1) /\ rs[1] = q /\ \A m \in 1..(l - 1) : rs[1 + m] = runs[m + 1]
    <3>1. 1 \in 1..1
      OBVIOUS
    <3> QED
      BY <1>1, <1>2, <2>2, <2>3, <3>1, Zenon DEF Follows
  <2> HIDE DEF l
  <2>5. DOMAIN rs = 1..l
    <3>1. Len(rs) = l
      BY <1>1, <2>4
    <3> QED
      BY <2>3, <3>1
  <2>6. ASSUME NEW m \in 1..l, m # 1 PROVE rs[m] = runs[m]
    <3>1. m - 1 \in 1..(l - 1) /\ 1 + (m - 1) = m /\ m - 1 + 1 = m
      BY <1>1, <2>6
    <3>2. rs[1 + (m - 1)] = runs[m - 1 + 1]
      BY <2>4, <3>1, Zenon
    <3> QED
      BY <3>1, <3>2, Zenon
  <2>7. 1 \in 1..l /\ \A k \in 1..l : 1 < k => k # 1
    BY <1>1
  <2>8. \A m \in DOMAIN rs : rs[m] = q \/ \E k \in DOMAIN runs : k # 1 /\ rs[m] = runs[k]
    BY <1>1, <2>4, <2>5, <2>6, Zenon
  <2>9. ASSUME NEW b \in Byte, NEW m \in DOMAIN runs, m # 1, LastRun(runs, b, m)
        PROVE  \E k \in DOMAIN rs : LastRun(rs, b, k) /\ rs[k] = runs[m]
    <3>1. m \in 1..l /\ Covers(runs[m], b) /\ \A k \in 1..l : m < k => ~Covers(runs[k], b)
      BY <1>1, <2>9, Zenon DEF LastRun
    <3>2. \A k \in 1..l : m < k => k # 1
      BY <1>1, <3>1
    <3>3. LastRun(rs, b, m)
      BY <2>5, <2>6, <2>9, <3>1, <3>2, Zenon DEF LastRun
    <3> QED
      BY <2>5, <2>6, <2>9, <3>1, <3>3, Zenon
  <2>10. ASSUME NEW b \in Byte, LastRun(runs, b, 1), Covers(q, b)
         PROVE  \E k \in DOMAIN rs : LastRun(rs, b, k) /\ rs[k] = q
    <3>1. \A k \in 1..l : 1 < k => ~Covers(runs[k], b)
      BY <1>1, <2>10, Zenon DEF LastRun
    <3>2. LastRun(rs, b, 1)
      BY <2>4, <2>5, <2>6, <2>7, <2>10, <3>1, Zenon DEF LastRun
    <3> QED
      BY <2>4, <2>5, <2>7, <3>2, Zenon
  <2> QED
    BY <2>3, <2>8, <2>9, <2>10, Zenon DEF Shortened
<1> QED
  BY <1>3, <1>4, Zenon

(* handle_write. *)
LEMMA FrameKeeps ==
  ASSUME BytesInv, WriteFrame
  PROVE  BytesInv'
<1> DEFINE r == Head(runs)  p == [off |-> r.off, data |-> Frame(r)]  q == Rest(r)
<1>1. /\ chunks \in Seq(Chunk) /\ Numbered(chunks) /\ \A i \in DOMAIN chunks : chunks[i].id <= pushed
      /\ cnt \in 0..Len(chunks) /\ runs \in Seq(Run) /\ (cnt = 0 => runs = <<>>)
      /\ pushed \in Nat /\ file \in [Byte -> Nat] /\ want \in [Byte -> Nat] /\ rd \in Reading
  BY Zenon DEF BytesInv, DataType
<1>2. /\ runs # <<>> /\ file' = Put(file, r.off, Frame(r))
      /\ runs' = IF q.data = <<>> THEN Tail(runs) ELSE <<q>> \o Tail(runs)
      /\ chunks' = chunks /\ cnt' = cnt /\ want' = want /\ pushed' = pushed /\ rd' = rd
  BY Zenon DEF WriteFrame
<1>3. r \in Run /\ r = runs[1] /\ 1 \in DOMAIN runs
  BY <1>1, <1>2
<1>4. p.off = r.off /\ p.data = Frame(r)
  <2> HIDE DEF r
  <2> QED
    OBVIOUS
<1>5. \A b \in Byte : b \in Nat
  BY CoalesceParameters DEF Byte
<1> HIDE DEF p, q, r
<1>6. /\ p.data \in Seq(Nat) /\ q \in Run
      /\ \A b \in Nat : /\ Covers(r, b) <=> Covers(p, b) \/ Covers(q, b)
                        /\ ~(Covers(p, b) /\ Covers(q, b))
                        /\ Covers(p, b) => ByteOf(p, b) = ByteOf(r, b)
                        /\ Covers(q, b) => ByteOf(q, b) = ByteOf(r, b)
  <2>1. q = Rest(r)
    BY Zenon DEF q
  <2> QED
    BY <1>3, <1>4, <2>1, CutFacts, Zenon
<1>7. p \in Run
  <2>1. p = [off |-> r.off, data |-> Frame(r)]
    BY Zenon DEF p
  <2>2. r.off \in Nat
    BY <1>3 DEF Run
  <2> QED
    BY <1>4, <1>6, <2>1, <2>2 DEF Run
<1>8. /\ file' \in [Byte -> Nat]
      /\ \A b \in Byte : Covers(p, b) => file'[b] = ByteOf(r, b)
      /\ \A b \in Byte : ~Covers(p, b) => file'[b] = file[b]
  <2> DEFINE w == Put(file, p.off, p.data)
  <2>1. /\ w \in [Byte -> Nat]
        /\ \A b \in Byte : Covers(p, b) => w[b] = ByteOf(p, b)
        /\ \A b \in Byte : ~Covers(p, b) => w[b] = file[b]
    BY <1>1, <1>7, PutFacts, Zenon
  <2>2. file' = w
    BY <1>2, <1>4, Zenon
  <2> HIDE DEF w
  <2> QED
    BY <1>5, <1>6, <2>1, <2>2, Zenon
<1>9. Shortened(runs', q)
  BY <1>1, <1>2, <1>6, FrameRuns, Zenon
<1>10. ASSUME NEW m \in DOMAIN runs', NEW b \in Byte, Covers(runs'[m], b) PROVE \E k \in DOMAIN runs : Covers(runs[k], b)
  <2>1. runs'[m] = q \/ \E k \in DOMAIN runs : runs'[m] = runs[k]
    BY <1>9, Zenon DEF Shortened
  <2> QED
    BY <1>3, <1>5, <1>6, <1>10, <2>1, Zenon
<1>11. DataType'
  <2>1. cnt = 0 => FALSE
    BY <1>1, <1>2, Zenon
  <2> QED
    BY <1>1, <1>2, <1>8, <1>9, <2>1, Zenon DEF DataType, Shortened
<1>12. RunsSent'
  <2> SUFFICES ASSUME NEW m \in DOMAIN runs', NEW b \in Byte, Covers(runs'[m], b)
               PROVE  \E i \in 1..cnt : Has(chunks[i], b)
    BY <1>2, Zenon DEF RunsSent
  <2> QED
    BY <1>10, Zenon DEF BytesInv, RunsSent
<1>13. NewestWanted'
  BY <1>2, Zenon DEF BytesInv, NewestWanted
<1>14. OthersWritten'
  <2> SUFFICES ASSUME NEW b \in Byte, \A i \in DOMAIN chunks : ~Has(chunks[i], b) PROVE file'[b] = want[b]
    BY <1>2, Zenon DEF OthersWritten
  <2>1. \A i \in 1..cnt : i \in DOMAIN chunks
    BY <1>1
  <2>2. ~Covers(runs[1], b)
    BY <1>3, <2>1, Zenon DEF BytesInv, RunsSent
  <2>3. ~Covers(p, b)
    BY <1>3, <1>5, <1>6, <2>2, Zenon
  <2> QED
    BY <1>8, <2>3, Zenon DEF BytesInv, OthersWritten
<1>15. NewestOnItsWay'
  <2> SUFFICES ASSUME NEW b \in Byte, NEW i \in 1..cnt, LastOf(chunks, cnt, b, i)
               PROVE  OnItsWay(runs', file', b, chunks[i].id)
    BY <1>2, Zenon DEF NewestOnItsWay
  <2>0. OnItsWay(runs, file, b, chunks[i].id)
    BY Zenon DEF BytesInv, NewestOnItsWay
  <2>1. ASSUME NEW m \in DOMAIN runs, LastRun(runs, b, m), ByteOf(runs[m], b) = chunks[i].id
        PROVE  OnItsWay(runs', file', b, chunks[i].id)
    <3>1. CASE m # 1
      <4>1. PICK k \in DOMAIN runs' : LastRun(runs', b, k) /\ runs'[k] = runs[m]
        BY <1>9, <2>1, <3>1, Zenon DEF Shortened
      <4> QED
        BY <2>1, <4>1, Zenon DEF OnItsWay
    <3>2. CASE m = 1 /\ Covers(q, b)
      <4>1. PICK k \in DOMAIN runs' : LastRun(runs', b, k) /\ runs'[k] = q
        BY <1>9, <2>1, <3>2, Zenon DEF Shortened
      <4>2. ByteOf(q, b) = chunks[i].id
        BY <1>3, <1>5, <1>6, <2>1, <3>2, Zenon
      <4> QED
        BY <4>1, <4>2, Zenon DEF OnItsWay
    <3>3. CASE m = 1 /\ ~Covers(q, b)
      <4>1. Covers(r, b) /\ \A k \in DOMAIN runs : 1 < k => ~Covers(runs[k], b)
        BY <1>3, <2>1, <3>3, Zenon DEF LastRun
      <4>2. Covers(p, b)
        BY <1>5, <1>6, <3>3, <4>1, Zenon
      <4>3. file'[b] = chunks[i].id
        BY <1>3, <1>8, <2>1, <3>3, <4>2, Zenon
      <4>4. \A k \in DOMAIN runs : k # 1 => 1 < k
        BY <1>1
      <4>5. \A k \in DOMAIN runs' : ~Covers(runs'[k], b)
        BY <1>9, <3>3, <4>1, <4>4, Zenon DEF Shortened
      <4> QED
        BY <4>3, <4>5, Zenon DEF OnItsWay
    <3> QED
      BY <3>1, <3>2, <3>3, Zenon
  <2>2. ASSUME file[b] = chunks[i].id, \A m \in DOMAIN runs : ~Covers(runs[m], b)
        PROVE  OnItsWay(runs', file', b, chunks[i].id)
    <3>1. ~Covers(p, b)
      BY <1>3, <1>5, <1>6, <2>2, Zenon
    <3>2. file'[b] = chunks[i].id
      BY <1>8, <2>2, <3>1, Zenon
    <3>3. \A k \in DOMAIN runs' : ~Covers(runs'[k], b)
      BY <1>10, <2>2, Zenon
    <3> QED
      BY <3>2, <3>3, Zenon DEF OnItsWay
  <2> QED
    BY <2>0, <2>1, <2>2, Zenon DEF OnItsWay
<1> QED
  BY <1>11, <1>12, <1>13, <1>14, <1>15, Zenon DEF BytesInv

(* ack_flush. *)
LEMMA AckKeeps ==
  ASSUME BytesInv, Ack
  PROVE  BytesInv'
<1> DEFINE n == Len(chunks)  s == SubSeq(chunks, cnt + 1, n)
<1>1. /\ chunks \in Seq(Chunk) /\ Numbered(chunks) /\ \A i \in DOMAIN chunks : chunks[i].id <= pushed
      /\ cnt \in 0..n /\ runs \in Seq(Run) /\ (cnt = 0 => runs = <<>>)
      /\ pushed \in Nat /\ file \in [Byte -> Nat] /\ want \in [Byte -> Nat] /\ rd \in Reading
  BY Zenon DEF BytesInv, DataType
<1>2. /\ runs = <<>> /\ chunks' = s /\ cnt' = 0
      /\ file' = file /\ runs' = runs /\ want' = want /\ pushed' = pushed /\ rd' = rd
  BY Zenon DEF Ack
<1>3. n \in Nat /\ DOMAIN chunks = 1..n /\ cnt \in Nat /\ cnt <= n
  BY <1>1
<1>4. s \in Seq(Chunk) /\ PartOf(s, chunks, cnt + 1, n)
  <2>1. cnt + 1 \in Nat /\ 1 <= cnt + 1 /\ cnt + 1 <= n + 1 /\ n <= n
    BY <1>3
  <2> QED
    BY <1>1, <1>3, <2>1, Part, Zenon
<1> HIDE DEF n, s
<1>5. n - (cnt + 1) + 1 = n - cnt /\ n - cnt \in Nat /\ \A i \in 1..(n - cnt) : cnt + 1 + i - 1 = cnt + i
  BY <1>3
<1>6. Len(s) = n - cnt /\ \A i \in 1..(n - cnt) : s[i] = chunks[cnt + i]
  <2>1. Len(s) = n - cnt /\ \A i \in 1..(n - cnt) : s[i] = chunks[cnt + 1 + i - 1]
    BY <1>4, <1>5, Zenon DEF PartOf
  <2> QED
    BY <1>5, <2>1, Zenon
<1>7. DOMAIN s = 1..(n - cnt)
  BY <1>4, <1>5, <1>6
<1>8. /\ \A i \in 1..(n - cnt) : cnt + i \in 1..n /\ i \in Nat
      /\ \A i, j \in 1..(n - cnt) : i < j <=> cnt + i < cnt + j
      /\ \A i \in 1..n : i \in 1..cnt \/ (i - cnt \in 1..(n - cnt) /\ cnt + (i - cnt) = i)
      /\ \A i \in 1..cnt : i \in 1..n
      /\ 1..0 = {} /\ 0 \in 0..(n - cnt) /\ DOMAIN <<>> = {}
  BY <1>3
<1>9. DataType'
  <2>1. Numbered(s)
    <3> SUFFICES ASSUME NEW i \in 1..(n - cnt), NEW j \in 1..(n - cnt), i < j PROVE s[i].id < s[j].id
      BY <1>7, Zenon DEF Numbered
    <3>1. cnt + i \in 1..n /\ cnt + j \in 1..n /\ cnt + i < cnt + j
      BY <1>8, Zenon
    <3>2. chunks[cnt + i].id < chunks[cnt + j].id
      BY <1>1, <1>3, <3>1, Zenon DEF Numbered
    <3> QED
      BY <1>6, <3>2, Zenon
  <2>2. \A i \in DOMAIN s : s[i].id <= pushed
    BY <1>1, <1>3, <1>6, <1>7, <1>8, Zenon
  <2> QED
    BY <1>1, <1>2, <1>4, <1>6, <1>8, <2>1, <2>2, Zenon DEF DataType
<1>10. RunsSent'
  BY <1>2, <1>8, Zenon DEF RunsSent
<1>11. NewestOnItsWay'
  BY <1>2, <1>8, Zenon DEF NewestOnItsWay
<1>12. NewestWanted'
  <2> SUFFICES ASSUME NEW b \in Byte, NEW i \in 1..(n - cnt), LastWith(s, b, i) PROVE want[b] = s[i].id
    BY <1>2, <1>7, Zenon DEF NewestWanted
  <2>1. Has(s[i], b) /\ \A k \in 1..(n - cnt) : i < k => ~Has(s[k], b)
    BY <1>7, Zenon DEF LastWith
  <2>2. ASSUME NEW k \in 1..n, cnt + i < k PROVE ~Has(chunks[k], b)
    <3>1. k - cnt \in 1..(n - cnt) /\ i < k - cnt /\ cnt + (k - cnt) = k
      BY <1>3, <2>2
    <3> QED
      BY <1>6, <2>1, <3>1, Zenon
  <2>3. LastWith(chunks, b, cnt + i)
    BY <1>3, <1>6, <1>8, <2>1, <2>2, Zenon DEF LastWith
  <2>4. want[b] = chunks[cnt + i].id
    BY <1>3, <1>8, <2>3, Zenon DEF BytesInv, NewestWanted
  <2> QED
    BY <1>6, <2>4, Zenon
<1>13. OthersWritten'
  <2> SUFFICES ASSUME NEW b \in Byte, \A i \in 1..(n - cnt) : ~Has(s[i], b) PROVE file[b] = want[b]
    BY <1>2, <1>7, Zenon DEF OthersWritten
  <2> DEFINE T == {i \in 1..n : Has(chunks[i], b)}
  <2>1. CASE T = {}
    BY <1>3, <2>1, Zenon DEF BytesInv, OthersWritten
  <2>2. CASE T # {}
    <3>1. T \in SUBSET (0..n)
      BY <1>3
    <3>2. PICK i \in T : \A k \in T : k <= i
      <4> HIDE DEF T
      <4> QED
        BY <1>3, <2>2, <3>1, Greatest, Zenon
    <3>3. i \in 1..n /\ Has(chunks[i], b)
      BY <3>2, Zenon
    <3>4. ASSUME NEW k \in 1..n, i < k PROVE ~Has(chunks[k], b)
      <4>1. ~(k <= i)
        BY <1>3, <3>3, <3>4
      <4> QED
        BY <3>2, <4>1, Zenon
    <3>5. want[b] = chunks[i].id
      <4>1. LastWith(chunks, b, i)
        BY <1>3, <3>3, <3>4, Zenon DEF LastWith
      <4> QED
        BY <1>3, <3>3, <4>1, Zenon DEF BytesInv, NewestWanted
    <3>6. i \in 1..cnt
      <4>1. ASSUME i - cnt \in 1..(n - cnt), cnt + (i - cnt) = i PROVE FALSE
        <5>1. s[i - cnt] = chunks[i]
          BY <1>6, <4>1, Zenon
        <5> QED
          BY <3>3, <4>1, <5>1, Zenon
      <4> QED
        BY <1>8, <3>3, <4>1, Zenon
    <3>7. LastOf(chunks, cnt, b, i)
      BY <1>8, <3>3, <3>4, <3>6, Zenon DEF LastOf
    <3>8. OnItsWay(runs, file, b, chunks[i].id)
      BY <3>6, <3>7, Zenon DEF BytesInv, NewestOnItsWay
    <3>9. file[b] = chunks[i].id
      BY <1>2, <1>8, <3>8, Zenon DEF OnItsWay
    <3> QED
      BY <3>5, <3>9, Zenon
  <2> QED
    BY <2>1, <2>2, Zenon
<1> QED
  BY <1>9, <1>10, <1>11, <1>12, <1>13, Zenon DEF BytesInv

(* fail_flush. *)
LEMMA FailKeeps ==
  ASSUME BytesInv, Fail
  PROVE  BytesInv'
<1>1. /\ cnt' = 0 /\ runs' = <<>> /\ chunks' = chunks /\ file' = file /\ want' = want
      /\ pushed' = pushed /\ rd' = rd
  BY Zenon DEF Fail
<1>2. 1..0 = {} /\ DOMAIN <<>> = {} /\ <<>> \in Seq(Run)
  OBVIOUS
<1>3. 0 \in 0..Len(chunks)
  BY DEF BytesInv, DataType
<1>4. DataType'
  BY <1>1, <1>2, <1>3, Zenon DEF BytesInv, DataType
<1>5. RunsSent' /\ NewestOnItsWay'
  BY <1>1, <1>2, Zenon DEF RunsSent, NewestOnItsWay
<1>6. NewestWanted' /\ OthersWritten'
  BY <1>1, Zenon DEF BytesInv, NewestWanted, OthersWritten
<1> QED
  BY <1>4, <1>5, <1>6, Zenon DEF BytesInv

-----------------------------------------------------------------------------
(* Reads. *)

(* A file has a size, ... *)
LEMMA FileSizeFacts ==
  ASSUME NEW f \in [Byte -> Nat]
  PROVE  FileSize(f) \in 0..NBytes
<1> DEFINE IsSize(n) == (n = 0 \/ f[n - 1] # 0) /\ \A b \in Byte : n <= b => f[b] = 0
           T == {b \in Byte : f[b] # 0}
<1>0. NBytes \in Nat /\ \A b \in Byte : b \in 0..NBytes /\ b \in Nat /\ b + 1 \in 0..NBytes /\ (b + 1) - 1 = b
  BY CoalesceParameters DEF Byte
<1>1. \E n \in 0..NBytes : IsSize(n)
  <2>1. CASE T = {}
    <3>1. IsSize(0) /\ 0 \in 0..NBytes
      BY <1>0, <2>1
    <3> QED
      BY <3>1, Zenon
  <2>2. CASE T # {}
    <3>1. PICK m \in T : \A b \in T : b <= m
      <4>1. T \in SUBSET (0..NBytes)
        BY <1>0, Zenon
      <4> HIDE DEF T
      <4> QED
        BY <1>0, <2>2, <4>1, Greatest, Zenon
    <3>2. m \in Byte /\ f[m] # 0
      BY <3>1, Zenon
    <3>3. ASSUME NEW b \in Byte, m + 1 <= b PROVE f[b] = 0
      <4>1. ~(b <= m)
        BY <1>0, <3>2, <3>3
      <4> QED
        BY <3>1, <4>1, Zenon
    <3>4. m + 1 \in 0..NBytes /\ (m + 1) - 1 = m
      BY <1>0, <3>2, Zenon
    <3>5. IsSize(m + 1)
      <4>1. f[(m + 1) - 1] = f[m]
        BY <3>4, Zenon
      <4>2. f[(m + 1) - 1] # 0
        BY <3>2, <4>1, Zenon
      <4>3. m + 1 = 0 \/ f[(m + 1) - 1] # 0
        BY <4>2, Zenon
      <4>4. \A b \in Byte : m + 1 <= b => f[b] = 0
        BY <3>3, Zenon
      <4> QED
        BY <4>3, <4>4, Zenon
    <3> QED
      BY <3>4, <3>5, Zenon
  <2> QED
    BY <2>1, <2>2, Zenon
<1> QED
  BY <1>1, Zenon DEF FileSize

\* The lengths of the next frame of a read that has k of len bytes.
FrameLens(len, k, off, size) ==
  LET avail == Lesser(Lesser(len - k, ReadChunk), AtLeast0(size - off))
  IN  IF avail = 0 THEN {0} ELSE 1..avail

ReadsUpTo(n, len, k, from, size) ==
  /\ n \in Nat /\ k + n <= len /\ (n # 0 => from + k + n <= size)
  /\ k <= AtLeast0(size - from) => k + n <= AtLeast0(size - from)
  /\ k <= AtLeast0(size - from) /\ (n = 0 \/ len - k = n) => k + n = Lesser(len, AtLeast0(size - from))

(* ... and a frame of a read ends at it, at what was asked for, or before. *)
LEMMA ReadCount ==
  ASSUME NEW len \in Nat, NEW k \in Nat, NEW from \in Nat, NEW size \in Nat, k <= len,
         NEW n \in FrameLens(len, k, from + k, size)
  PROVE  ReadsUpTo(n, len, k, from, size)
<1>1. ReadChunk \in Nat /\ ReadChunk # 0
  BY CoalesceParameters
<1> DEFINE avail == Lesser(Lesser(len - k, ReadChunk), AtLeast0(size - (from + k)))
<1>2. /\ avail \in Nat /\ avail <= len - k /\ (avail # 0 => avail <= size - (from + k))
      /\ avail = 0 => len = k \/ size <= from + k
  BY <1>1 DEF Lesser, AtLeast0
<1>3. n \in IF avail = 0 THEN {0} ELSE 1..avail
  BY Zenon DEF FrameLens
<1> HIDE DEF avail
<1>4. n \in Nat /\ n <= avail /\ (n = 0 => avail = 0)
  BY <1>2, <1>3
<1>5. n \in Nat /\ k + n <= len /\ (n # 0 => from + k + n <= size) /\ (n = 0 => len = k \/ size <= from + k)
  BY <1>2, <1>4
<1> QED
  BY <1>5 DEF Lesser, AtLeast0, ReadsUpTo

(* One turn of handle_read. *)
LEMMA ReadFrameKeeps ==
  ASSUME DataInv, ReadFrame
  PROVE  DataInv'
<1> DEFINE k == Len(rd.got)  from == rd.from  size == FileSize(file)
<1>1. /\ DataType /\ rd \in Reading /\ file \in [Byte -> Nat] /\ want \in [Byte -> Nat]
      /\ rd.st = "busy" /\ chunks' = chunks /\ cnt' = cnt /\ runs' = runs /\ file' = file
      /\ want' = want /\ pushed' = pushed
  BY Zenon DEF DataInv, BytesInv, DataType, ReadFrame
<1>2. /\ rd.from \in Nat /\ rd.len \in Nat /\ rd.quiet \in BOOLEAN /\ rd.off \in Nat /\ rd.got \in Seq(Nat)
      /\ k \in Nat
  BY <1>1 DEF Reading
<1>3. rd.off = from + k /\ k <= rd.len
  BY <1>1, Zenon DEF DataInv, ReadSoFar
<1>4. size \in 0..NBytes /\ size \in Nat /\ NBytes \in Nat
  <2>1. size \in 0..NBytes
    BY <1>1, FileSizeFacts, Zenon
  <2> HIDE DEF size
  <2> QED
    BY <2>1, CoalesceParameters
<1>5. PICK n : /\ n \in FrameLens(rd.len, k, rd.off, size)
               /\ rd' = [rd EXCEPT !.got = @ \o ReadAt(rd.off, n), !.off = @ + n,
                                   !.st = IF n = 0 \/ rd.len - k = n THEN "done" ELSE "busy"]
  BY Zenon DEF ReadFrame, FrameLens
<1> DEFINE limit == AtLeast0(size - from)
<1>6. /\ n \in Nat /\ k + n <= rd.len /\ (n # 0 => from + k + n <= size)
      /\ k <= limit => k + n <= limit
      /\ k <= limit /\ (n = 0 \/ rd.len - k = n) => k + n = Lesser(rd.len, limit)
  <2>1. n \in FrameLens(rd.len, k, from + k, size)
    BY <1>3, <1>5, Zenon
  <2> HIDE DEF k, size
  <2>2. ReadsUpTo(n, rd.len, k, from, size)
    BY <1>2, <1>3, <1>4, <2>1, ReadCount, Zenon
  <2> QED
    BY <2>2, Zenon DEF ReadsUpTo
<1> DEFINE u == ReadAt(rd.off, n)  g == rd.got \o u
<1>7. u \in Seq(Nat) /\ Len(u) = n /\ \A i \in 1..n : u[i] = file[from + k + i - 1]
  <2> DEFINE o == from + k
  <2>1. u = [i \in 1..n |-> file[o + i - 1]]
    BY <1>3, Zenon DEF ReadAt
  <2>2. \A i \in 1..n : o + i - 1 \in Byte
    <3>1. o \in Nat /\ (n # 0 => o + n <= size)
      <4>1. from \in Nat /\ k \in Nat /\ (n # 0 => from + k + n <= size)
        BY <1>2, <1>6, Zenon
      <4> HIDE DEF from, k, size
      <4> QED
        BY <4>1
    <3> HIDE DEF size, o
    <3> QED
      BY <1>4, <1>6, <3>1 DEF Byte
  <2> HIDE DEF u, o
  <2>3. \A i \in 1..n : file[o + i - 1] \in Nat
    BY <1>1, <2>2, Zenon
  <2>4. u \in Seq(Nat) /\ Len(u) = n /\ \A i \in 1..n : u[i] = file[o + i - 1]
    BY <1>6, <2>1, <2>3
  <2> QED
    BY <2>4, Zenon DEF o
<1> HIDE DEF u
<1>8. g \in Seq(Nat) /\ Follows(g, rd.got, k, u)
  BY <1>2, <1>7, Joined, Zenon
<1>9. /\ rd' \in Reading /\ rd'.got = g /\ rd'.off = rd.off + n /\ rd'.from = rd.from /\ rd'.len = rd.len
      /\ rd'.quiet = rd.quiet /\ rd'.st = IF n = 0 \/ rd.len - k = n THEN "done" ELSE "busy"
  <2> DEFINE st == IF n = 0 \/ rd.len - k = n THEN "done" ELSE "busy"
  <2>1. rd' = [rd EXCEPT !.got = g, !.off = @ + n, !.st = st]
    BY <1>5, Zenon DEF u
  <2>2. st \in {"none", "busy", "done"}
    OBVIOUS
  <2> HIDE DEF g, st
  <2>3. rd.off + n \in Nat
    BY <1>2, <1>6
  <2>4. /\ rd' \in Reading /\ rd'.got = g /\ rd'.off = rd.off + n /\ rd'.from = rd.from /\ rd'.len = rd.len
        /\ rd'.quiet = rd.quiet /\ rd'.st = st
    BY <1>1, <1>8, <2>1, <2>2, <2>3, Zenon DEF Reading
  <2> QED
    BY <2>4, Zenon DEF st
<1> HIDE DEF g, k, size
<1>10. Len(g) = k + n
  BY <1>7, <1>8, Zenon DEF Follows
<1>11. BytesInv'
  <2>1. DataType'
    BY <1>1, <1>9, Zenon DEF DataType
  <2> QED
    BY <1>1, <2>1, Zenon DEF DataInv, BytesInv, RunsSent, NewestWanted, OthersWritten, NewestOnItsWay
<1>12. ASSUME rd.quiet
       PROVE  /\ chunks = <<>> /\ file = want /\ k <= limit /\ k + n <= limit
              /\ \A i \in 1..(k + n) : g[i] = want[from + i - 1]
  <2>1. chunks = <<>> /\ k <= AtLeast0(FileSize(want) - from) /\ \A i \in 1..k : rd.got[i] = want[from + i - 1]
    BY <1>1, <1>12, Zenon DEF DataInv, ReadSoFar, k
  <2>2. file = want
    <3>1. \A b \in Byte : file[b] = want[b]
      <4>1. DOMAIN chunks = {}
        BY <2>1
      <4> QED
        BY <4>1, Zenon DEF DataInv, BytesInv, OthersWritten
    <3> QED
      BY <1>1, <3>1
  <2>3. k <= limit
    BY <2>1, <2>2, Zenon DEF size
  <2>4. ASSUME NEW i \in 1..(k + n) PROVE g[i] = want[from + i - 1]
    <3>1. CASE i \in 1..k
      BY <1>8, <2>1, <3>1, Zenon DEF Follows
    <3>2. CASE i \notin 1..k
      <4>1. i - k \in 1..n /\ k + (i - k) = i /\ from + k + (i - k) - 1 = from + i - 1
        BY <1>2, <1>6, <3>2
      <4>2. g[k + (i - k)] = u[i - k] /\ u[i - k] = file[from + k + (i - k) - 1]
        BY <1>7, <1>8, <4>1, Zenon DEF Follows
      <4>3. g[i] = u[i - k] /\ u[i - k] = file[from + i - 1]
        BY <4>1, <4>2, Zenon
      <4> QED
        BY <2>2, <4>3, Zenon
    <3> QED
      BY <3>1, <3>2, Zenon
  <2> QED
    BY <1>6, <2>1, <2>2, <2>3, <2>4, Zenon
<1>13. ReadSoFar'
  <2>1. rd'.off = from + Len(rd'.got) /\ Len(rd'.got) = k + n
    <3>1. rd'.off = from + k + n /\ from \in Nat /\ Len(rd'.got) = k + n
      BY <1>2, <1>3, <1>9, <1>10, Zenon
    <3> QED
      BY <1>2, <1>6, <3>1
  <2>2. rd'.from = from /\ rd'.len = rd.len /\ rd'.quiet = rd.quiet
    BY <1>9, Zenon
  <2>3. ASSUME rd.quiet PROVE /\ chunks' = <<>> /\ k + n <= AtLeast0(FileSize(want') - rd'.from)
                              /\ \A i \in 1..(k + n) : rd'.got[i] = want'[rd'.from + i - 1]
    BY <1>1, <1>9, <1>12, <2>3, Zenon DEF size
  <2> QED
    BY <1>6, <2>1, <2>2, <2>3, Zenon DEF ReadSoFar
<1>14. ReadsBack'
  <2> SUFFICES ASSUME rd'.st = "done", rd.quiet
               PROVE  rd'.got = [i \in 1..Lesser(rd.len, AtLeast0(FileSize(want) - from)) |-> want[from + i - 1]]
    BY <1>1, <1>9, Zenon DEF ReadsBack
  <2>1. n = 0 \/ rd.len - k = n
    BY <1>9
  <2>2. Lesser(rd.len, AtLeast0(FileSize(want) - from)) = k + n
    BY <1>6, <1>12, <2>1, Zenon DEF size
  <2>3. DOMAIN g = 1..(k + n)
    BY <1>2, <1>6, <1>8, <1>10
  <2>4. g = [i \in 1..(k + n) |-> want[from + i - 1]]
    <3>1. g = [i \in DOMAIN g |-> g[i]]
      BY <1>8
    <3> QED
      BY <1>12, <2>3, <3>1, Zenon
  <2> QED
    BY <1>9, <2>2, <2>4, Zenon
<1> QED
  BY <1>11, <1>13, <1>14, Zenon DEF DataInv

-----------------------------------------------------------------------------
(* The invariant. *)

(* Initially. *)
LEMMA DataStarts == DataInit => DataInv
<1> SUFFICES ASSUME DataInit PROVE DataInv
  OBVIOUS
<1> DEFINE zero == [b \in Byte |-> 0]
<1>1. chunks = <<>> /\ cnt = 0 /\ runs = <<>> /\ pushed = 0 /\ file = zero /\ want = zero /\ rd = NoRead
  BY Zenon DEF DataInit
<1>2. /\ <<>> \in Seq(Chunk) /\ <<>> \in Seq(Run) /\ DOMAIN <<>> = {} /\ 0 \in 0..Len(<<>>) /\ 0 \in Nat
      /\ zero \in [Byte -> Nat] /\ 1..0 = {}
  OBVIOUS
<1>3. NoRead \in Reading /\ NoRead.st = "none"
  BY DEF NoRead, Reading
<1> HIDE DEF zero
<1>4. DataType
  BY <1>1, <1>2, <1>3, Zenon DEF DataType, Numbered
<1>5. RunsSent /\ NewestWanted /\ OthersWritten /\ NewestOnItsWay
  BY <1>1, <1>2, Zenon DEF RunsSent, NewestWanted, OthersWritten, NewestOnItsWay
<1>6. ReadSoFar /\ ReadsBack
  BY <1>1, <1>3 DEF ReadSoFar, ReadsBack
<1> QED
  BY <1>4, <1>5, <1>6, Zenon DEF DataInv, BytesInv

(* A step of the writes leaves a read alone, or forgets it. *)
LEMMA ReadStands ==
  ASSUME DataInv, rd' = NoRead \/ (rd' = rd /\ want' = want /\ (chunks = <<>> => chunks' = <<>>))
  PROVE  ReadSoFar' /\ ReadsBack'
<1>1. CASE rd' = NoRead
  BY <1>1 DEF NoRead, ReadSoFar, ReadsBack
<1>2. CASE rd' = rd /\ want' = want /\ (chunks = <<>> => chunks' = <<>>)
  BY <1>2, Zenon DEF DataInv, ReadSoFar, ReadsBack
<1> QED
  BY <1>1, <1>2, Zenon

(* The beginning and the failure of a read. *)
LEMMA ReadBounds ==
  ASSUME DataInv, ReadFails \/ \E o \in ReadOffset, l \in ReadLength : BeginRead(o, l)
  PROVE  DataInv'
<1>1. /\ chunks' = chunks /\ cnt' = cnt /\ runs' = runs /\ file' = file /\ want' = want /\ pushed' = pushed
  BY Zenon DEF BeginRead, ReadFails
<1>2. BytesInv' /\ ReadSoFar' /\ ReadsBack'
  <2>1. ASSUME rd' \in Reading PROVE BytesInv'
    <3>1. DataType'
      BY <1>1, <2>1, Zenon DEF DataInv, BytesInv, DataType
    <3> QED
      BY <1>1, <3>1, Zenon DEF DataInv, BytesInv, RunsSent, NewestWanted, OthersWritten, NewestOnItsWay
  <2>2. CASE ReadFails
    <3>1. rd' = NoRead
      BY <2>2, Zenon DEF ReadFails
    <3>2. NoRead \in Reading
      BY DEF NoRead, Reading
    <3> QED
      BY <2>1, <3>1, <3>2, ReadStands, Zenon
  <2>3. ASSUME NEW o \in ReadOffset, NEW l \in ReadLength, BeginRead(o, l) PROVE BytesInv' /\ ReadSoFar' /\ ReadsBack'
    <3> DEFINE quiet == chunks = <<>>
    <3>1. rd' = [st |-> "busy", from |-> o, len |-> l, quiet |-> quiet, off |-> o, got |-> <<>>]
      BY <2>3, Zenon DEF BeginRead
    <3>2. o \in Nat /\ l \in Nat /\ quiet \in BOOLEAN
      BY CoalesceParameters
    <3>3. quiet => chunks = <<>>
      OBVIOUS
    <3> HIDE DEF quiet
    <3>4. /\ rd' \in Reading /\ rd'.st = "busy" /\ rd'.from = o /\ rd'.len = l /\ rd'.quiet = quiet
          /\ rd'.off = o /\ rd'.got = <<>>
      BY <3>1, <3>2 DEF Reading
    <3>5. 0 <= l /\ o + 0 = o /\ Len(<<>>) = 0 /\ 1..0 = {}
      BY <3>2
    <3>6. 0 <= AtLeast0(FileSize(want) - o)
      <4>1. FileSize(want) \in 0..NBytes
        BY FileSizeFacts, Zenon DEF DataInv, BytesInv, DataType
      <4> HIDE DEF FileSize
      <4> QED
        BY <3>2, <4>1, CoalesceParameters DEF AtLeast0
    <3>7. ReadSoFar'
      BY <1>1, <3>3, <3>4, <3>5, <3>6, Zenon DEF ReadSoFar
    <3>8. rd'.st # "done"
      BY <3>4
    <3>9. ReadsBack'
      BY <3>8, Zenon DEF ReadsBack
    <3> QED
      BY <2>1, <3>4, <3>7, <3>9, Zenon
  <2> QED
    BY <2>2, <2>3, Zenon
<1> QED
  BY <1>2, Zenon DEF DataInv

(* Every step keeps it. *)
LEMMA DataStep ==
  ASSUME WritesDoNotCross, DataInv, [DataNext]_dataVars
  PROVE  DataInv'
<1>0. BytesInv
  BY Zenon DEF DataInv
<1>1. CASE \E o \in Offset, l \in Length : Push(o, l)
  <2>1. PICK o \in Offset, l \in Length : Push(o, l)
    BY <1>1, Zenon
  <2>2. BytesInv'
    BY <1>0, <2>1, PushKeeps, Zenon
  <2>3. rd' = NoRead
    BY <2>1, Zenon DEF Push
  <2> QED
    BY <2>2, <2>3, ReadStands, Zenon DEF DataInv
<1>2. CASE BeginFlush
  <2>1. rd' = rd /\ want' = want /\ chunks' = chunks
    BY <1>2, Zenon DEF BeginFlush
  <2> QED
    BY <1>0, <1>2, <2>1, FlushKeeps, ReadStands, Zenon DEF DataInv
<1>3. CASE WriteFrame
  <2>1. rd' = rd /\ want' = want /\ chunks' = chunks
    BY <1>3, Zenon DEF WriteFrame
  <2> QED
    BY <1>0, <1>3, <2>1, FrameKeeps, ReadStands, Zenon DEF DataInv
<1>4. CASE Ack
  <2>1. rd' = rd /\ want' = want /\ cnt # 0
    BY <1>4, Zenon DEF Ack
  <2>2. chunks # <<>>
    BY <1>0, <2>1 DEF BytesInv, DataType
  <2> QED
    BY <1>0, <1>4, <2>1, <2>2, AckKeeps, ReadStands, Zenon DEF DataInv
<1>5. CASE Fail
  <2>1. rd' = rd /\ want' = want /\ chunks' = chunks
    BY <1>5, Zenon DEF Fail
  <2> QED
    BY <1>0, <1>5, <2>1, FailKeeps, ReadStands, Zenon DEF DataInv
<1>6. CASE \E o \in ReadOffset, l \in ReadLength : BeginRead(o, l)
  BY <1>6, ReadBounds, Zenon
<1>7. CASE ReadFrame
  BY <1>7, ReadFrameKeeps, Zenon
<1>8. CASE ReadFails
  BY <1>8, ReadBounds, Zenon
<1>9. CASE UNCHANGED dataVars
  BY <1>9, Zenon DEF dataVars, DataInv, BytesInv, DataType, RunsSent, NewestWanted, OthersWritten, NewestOnItsWay, ReadSoFar, ReadsBack
<1> QED
  BY <1>1, <1>2, <1>3, <1>4, <1>5, <1>6, <1>7, <1>8, <1>9, Zenon DEF DataNext

(* Writes that do not cross are written, frame by frame, acknowledged, and sent
   again as BytesInv says. *)
THEOREM DataInvariance == ASSUME WritesDoNotCross PROVE DataSpec => []DataInv
<1>1. DataInit => DataInv
  BY DataStarts
<1>2. DataInv /\ [DataNext]_dataVars => DataInv'
  BY DataStep, Zenon
<1> QED
  BY <1>1, <1>2, PTL DEF DataSpec

(* FileIsLastWrite for every number of writes, bytes, and size of a frame. *)
THEOREM LastWriteWins == ASSUME WritesDoNotCross PROVE DataSpec => []FileIsLastWrite
<1>1. DataInv => FileIsLastWrite
  <2> SUFFICES ASSUME DataInv, chunks = <<>> PROVE file = want
    BY Zenon DEF FileIsLastWrite
  <2>1. DOMAIN chunks = {}
    OBVIOUS
  <2>2. (\A b \in Byte : file[b] = want[b]) /\ file \in [Byte -> Nat] /\ want \in [Byte -> Nat]
    BY <2>1, Zenon DEF DataInv, BytesInv, DataType, OthersWritten
  <2> QED
    BY <2>2
<1> QED
  BY <1>1, DataInvariance, PTL

(* ReadsBack likewise, for every read. *)
THEOREM ReadsAreExact == ASSUME WritesDoNotCross PROVE DataSpec => []ReadsBack
<1>1. DataInv => ReadsBack
  BY Zenon DEF DataInv
<1> QED
  BY <1>1, DataInvariance, PTL

-----------------------------------------------------------------------------
(* RunsAreTheChunks: the lengths, and the shape. *)

\* g is the sums of the first elements of f.
SumsOf(f, g) == g[0] = 0 /\ \A n \in 1..Len(f) : g[n] = g[n - 1] + f[n]

(* Sum is what its definition says. *)
LEMMA SumSteps ==
  ASSUME NEW f \in Seq(Nat)
  PROVE  \E g \in [0..Len(f) -> Nat] : SumsOf(f, g) /\ Sum(f) = g[Len(f)]
<1> DEFINE N == Len(f)
           next == [n \in 1..N |-> [x \in Nat |-> x + f[n]]]
           F(g) == [i \in 0..N |-> IF i = 0 THEN 0 ELSE g[i - 1] + f[i]]
<1>1. N \in Nat /\ \A n \in 1..N : f[n] \in Nat
  OBVIOUS
<1>2. \A x \in Nat, n \in 1..N : x + f[n] \in Nat
  BY <1>1
<1>3. next \in [1..N -> [Nat -> Nat]]
  BY <1>2, Zenon
<1>4. \A n \in 1..N : \A x \in Nat : next[n][x] = x + f[n]
  BY Zenon
<1>5. PICK h \in [0..N -> Nat] : Unfolds(h, 0, next, N)
  <2> HIDE DEF next
  <2>1. 0 \in Nat
    OBVIOUS
  <2> QED
    BY <1>1, <1>3, <2>1, Recursion, Zenon
<1> HIDE DEF next
<1>6. (\A n \in 1..N : n - 1 \in 0..N /\ n \in 0..N /\ n # 0) /\ 0 \in 0..N /\ N \in 0..N
  BY <1>1
<1>7. h[0] = 0 /\ \A n \in 1..N : h[n] = h[n - 1] + f[n]
  BY <1>4, <1>5, <1>6, Zenon DEF Unfolds
<1>8. h = F(h)
  <2>1. \A m \in 0..N : h[m] = F(h)[m]
    <3>1. \A m \in 0..N : m = 0 \/ m \in 1..N
      BY <1>1
    <3> QED
      BY <1>7, <3>1, Zenon
  <2> QED
    BY <2>1, Zenon
<1> DEFINE g == CHOOSE v : v = F(v)
<1>9. g = F(g)
  BY <1>8, Zenon
<1>10. Sum(f) = g[N]
  BY Zenon DEF Sum
<1> HIDE DEF g
<1>11. \A n \in 0..N : g[n] = IF n = 0 THEN 0 ELSE g[n - 1] + f[n]
  BY <1>9, Zenon
<1>12. SumsOf(f, g)
  BY <1>6, <1>11, Zenon DEF SumsOf
<1>13. g \in [0..N -> Nat]
  <2> DEFINE T == {n \in 0..N : g[n] \in Nat}
  <2>1. 0 \in T
    BY <1>6, <1>12 DEF SumsOf
  <2>2. ASSUME NEW n \in 1..N, n - 1 \in T PROVE n \in T
    <3>1. g[n - 1] \in Nat /\ g[n] = g[n - 1] + f[n] /\ n \in 0..N
      BY <1>6, <1>12, <2>2, Zenon DEF SumsOf
    <3>2. g[n - 1] + f[n] \in Nat
      BY <1>2, <3>1, Zenon
    <3> QED
      BY <3>1, <3>2, Zenon
  <2>3. \A n \in 0..N : n \in T
    <3> HIDE DEF T
    <3> QED
      BY <1>1, <2>1, <2>2, UpTo, Zenon
  <2> QED
    BY <1>9, <2>3, Zenon
<1> QED
  BY <1>10, <1>12, <1>13, Zenon

(* The order of two summands. *)
LEMMA Swapped ==
  ASSUME NEW a \in Nat, NEW b \in Nat, NEW x \in Nat
  PROVE  (a + x) + b = (a + b) + x
  OBVIOUS

\* h is f with x in place k + 1, the rest one further on ...
OneMore(h, f, x, k) ==
  /\ Len(h) = Len(f) + 1 /\ h[k + 1] = x
  /\ \A i \in 1..k : h[i] = f[i]
  /\ \A i \in (k + 1)..Len(f) : h[i + 1] = f[i]

(* ... and its sum more by x. *)
LEMMA SumInsert ==
  ASSUME NEW f \in Seq(Nat), NEW h \in Seq(Nat), NEW x \in Nat, NEW k \in 0..Len(f), OneMore(h, f, x, k)
  PROVE  Sum(h) = Sum(f) + x
<1> DEFINE N == Len(f)
<1>0. N \in Nat /\ k \in Nat /\ k <= N
  OBVIOUS
<1>1. PICK F \in [0..N -> Nat] : SumsOf(f, F) /\ Sum(f) = F[N]
  BY SumSteps, Zenon
<1>2. PICK H \in [0..Len(h) -> Nat] : SumsOf(h, H) /\ Sum(h) = H[Len(h)]
  BY SumSteps, Zenon
<1>3. Len(h) = N + 1 /\ \A n \in 1..(N + 1) : H[n] = H[n - 1] + h[n]
  BY <1>2, Zenon DEF SumsOf, OneMore
<1>4. \A n \in 1..N : F[n] = F[n - 1] + f[n]
  BY <1>1, Zenon DEF SumsOf
<1> HIDE DEF N
<1> DEFINE T == {n \in 0..N : IF n < k THEN H[n] = F[n] ELSE H[n + 1] = F[n] + x /\ (n = k => H[n] = F[n])}
<1>5. H[0] = 0 /\ F[0] = 0
  BY <1>1, <1>2, Zenon DEF SumsOf
<1>6. 0 \in T
  <2>1. 0 \in 0..N
    BY <1>0
  <2>2. CASE k = 0
    <3>1. 1 \in 1..(N + 1) /\ 1 - 1 = 0 /\ 0 + 1 = 1 /\ ~(0 < 0)
      BY <1>0
    <3>2. H[1] = H[1 - 1] + h[1] /\ h[1] = x
      BY <1>3, <2>2, <3>1, Zenon DEF OneMore
    <3>3. H[0 + 1] = F[0] + x
      BY <1>5, <3>1, <3>2
    <3> QED
      BY <1>5, <2>1, <2>2, <3>1, <3>3, Zenon
  <2>3. CASE k # 0
    <3>1. 0 < k
      BY <1>0, <2>3
    <3> QED
      BY <1>5, <2>1, <3>1, Zenon
  <2> QED
    BY <2>2, <2>3, Zenon
<1>7. ASSUME NEW n \in 1..N, n - 1 \in T PROVE n \in T
  <2>0. n \in Nat /\ n \in 0..N /\ n \in 1..(N + 1) /\ n + 1 \in 1..(N + 1) /\ (n + 1) - 1 = n /\ n - 1 + 1 = n
    BY <1>0
  <2>t. F[n] \in Nat /\ F[n - 1] \in Nat /\ f[n] \in Nat
    <3>1. n - 1 \in 0..N
      BY <1>0
    <3>2. f[n] \in Nat
      BY <1>0 DEF N
    <3> QED
      BY <2>0, <3>1, <3>2, Zenon
  <2>f. F[n] = F[n - 1] + f[n]
    BY <1>4, Zenon
  <2>1. ASSUME n <= k PROVE H[n] = F[n]
    <3>1. n - 1 < k /\ n \in 1..k
      BY <1>0, <2>0, <2>1
    <3>2. H[n - 1] = F[n - 1] /\ H[n] = H[n - 1] + h[n] /\ h[n] = f[n]
      BY <1>3, <1>7, <2>0, <3>1, Zenon DEF OneMore
    <3> QED
      BY <2>f, <3>2
  <2>2. CASE n < k
    <3>1. n <= k
      BY <1>0, <2>0, <2>2
    <3> QED
      BY <2>0, <2>1, <2>2, <3>1, Zenon
  <2>3. CASE n = k
    <3>1. ~(n < k) /\ n <= k
      BY <1>0, <2>0, <2>3
    <3>2. H[n + 1] = H[(n + 1) - 1] + h[n + 1]
      BY <1>3, <2>0, Zenon
    <3>3. h[n + 1] = x
      BY <2>3, Zenon DEF OneMore
    <3>4. H[(n + 1) - 1] = F[n]
      BY <2>0, <2>1, <3>1, Zenon
    <3>5. H[n + 1] = F[n] + x
      BY <3>2, <3>3, <3>4, Zenon
    <3> QED
      BY <2>0, <2>1, <3>1, <3>5, Zenon
  <2>4. CASE k < n
    <3>1. ~(n < k) /\ n # k /\ ~(n - 1 < k) /\ n \in (k + 1)..N
      BY <1>0, <2>0, <2>4
    <3>2. H[n - 1 + 1] = F[n - 1] + x
      BY <1>7, <3>1, Zenon
    <3>5. H[n + 1] = H[(n + 1) - 1] + h[n + 1] /\ h[n + 1] = f[n]
      BY <1>3, <2>0, <3>1, Zenon DEF OneMore, N
    <3>3. H[n] = F[n - 1] + x /\ H[n + 1] = H[n] + f[n]
      <4>1. H[n] = H[n - 1 + 1] /\ H[(n + 1) - 1] = H[n]
        BY <2>0, Zenon
      <4>2. H[n] = F[n - 1] + x
        BY <3>2, <4>1, Zenon
      <4>3. H[n + 1] = H[n] + h[n + 1]
        BY <3>5, <4>1, Zenon
      <4> QED
        BY <3>5, <4>2, <4>3, Zenon
    <3>4. H[n + 1] = F[n] + x
      <4>1. H[n + 1] = (F[n - 1] + x) + f[n]
        BY <3>3, Zenon
      <4>2. (F[n - 1] + x) + f[n] = (F[n - 1] + f[n]) + x
        BY <2>t, Swapped, Zenon
      <4>3. H[n + 1] = (F[n - 1] + f[n]) + x
        BY <4>1, <4>2, Zenon
      <4> QED
        BY <2>f, <4>3, Zenon
    <3> QED
      BY <2>0, <3>1, <3>4, Zenon
  <2> QED
    BY <1>0, <2>0, <2>2, <2>3, <2>4
<1>8. N \in T
  <2>1. \A n \in 0..N : n \in T
    <3> HIDE DEF T
    <3> QED
      BY <1>0, <1>6, <1>7, UpTo, Zenon
  <2> QED
    BY <1>0, <2>1
<1>9. H[N + 1] = F[N] + x
  <2>1. ~(N < k)
    BY <1>0
  <2> QED
    BY <1>8, <2>1, Zenon
<1> QED
  BY <1>1, <1>2, <1>3, <1>9, Zenon DEF N

\* h is f with x more in its last place ...
LastMore(h, f, x) ==
  /\ Len(h) = Len(f) /\ Len(f) # 0 /\ h[Len(f)] = f[Len(f)] + x
  /\ \A i \in 1..(Len(f) - 1) : h[i] = f[i]

(* ... and so is its sum. *)
LEMMA SumGrow ==
  ASSUME NEW f \in Seq(Nat), NEW h \in Seq(Nat), NEW x \in Nat, LastMore(h, f, x)
  PROVE  Sum(h) = Sum(f) + x
<1> DEFINE N == Len(f)
<1>0. N \in Nat /\ N # 0 /\ N \in 1..N /\ N - 1 \in 0..N /\ N - 1 \in Nat /\ N - 1 \in 0..(N - 1)
  BY DEF LastMore
<1>1. PICK F \in [0..N -> Nat] : SumsOf(f, F) /\ Sum(f) = F[N]
  BY SumSteps, Zenon
<1>2. PICK H \in [0..Len(h) -> Nat] : SumsOf(h, H) /\ Sum(h) = H[Len(h)]
  BY SumSteps, Zenon
<1>3. Len(h) = N /\ \A n \in 1..N : H[n] = H[n - 1] + h[n]
  BY <1>2, Zenon DEF SumsOf, LastMore
<1>4. \A n \in 1..N : F[n] = F[n - 1] + f[n]
  BY <1>1, Zenon DEF SumsOf
<1>5. H[0] = 0 /\ F[0] = 0 /\ h[N] = f[N] + x /\ f[N] \in Nat /\ F[N - 1] \in Nat
  <2>1. f[N] \in Nat
    BY <1>0
  <2> QED
    BY <1>0, <1>1, <1>2, <2>1, Zenon DEF SumsOf, LastMore
<1>e. \A i \in 1..(N - 1) : h[i] = f[i]
  BY Zenon DEF LastMore
<1> HIDE DEF N
<1> DEFINE T == {n \in 0..(N - 1) : H[n] = F[n]}
<1>6. 0 \in T
  BY <1>0, <1>5
<1>7. ASSUME NEW n \in 1..(N - 1), n - 1 \in T PROVE n \in T
  <2>1. n \in 1..N /\ n \in 0..(N - 1)
    BY <1>0
  <2>2. H[n - 1] = F[n - 1] /\ H[n] = H[n - 1] + h[n] /\ F[n] = F[n - 1] + f[n] /\ h[n] = f[n]
    BY <1>3, <1>4, <1>7, <1>e, <2>1, Zenon
  <2> QED
    BY <2>1, <2>2
<1>8. H[N - 1] = F[N - 1]
  <2>1. \A n \in 0..(N - 1) : n \in T
    <3> HIDE DEF T
    <3> QED
      BY <1>0, <1>6, <1>7, UpTo, Zenon
  <2> QED
    BY <1>0, <2>1, Zenon
<1>9. H[N] = H[N - 1] + h[N] /\ F[N] = F[N - 1] + f[N]
  BY <1>0, <1>3, <1>4, Zenon
<1>10. H[N] = F[N] + x
  BY <1>5, <1>8, <1>9
<1> QED
  BY <1>1, <1>2, <1>3, <1>10, Zenon DEF N

Lens(s) == [i \in 1..Len(s) |-> s[i].len]
RunLens(rs) == [j \in 1..Len(rs) |-> Len(rs[j].data)]

LensOf(l, s) == l \in Seq(Nat) /\ Len(l) = Len(s) /\ \A i \in 1..Len(s) : l[i] = s[i].len
RunLensOf(l, rs) == l \in Seq(Nat) /\ Len(l) = Len(rs) /\ \A i \in 1..Len(rs) : l[i] = Len(rs[i].data)

(* The lengths of chunks and of runs. *)
LEMMA LensFacts ==
  ASSUME NEW s \in Seq(Chunk)
  PROVE  LensOf(Lens(s), s)
<1>1. \A i \in 1..Len(s) : s[i] \in Chunk
  OBVIOUS
<1>2. \A i \in 1..Len(s) : s[i].len \in Nat
  BY <1>1, ChunkFacts, Zenon
<1> QED
  BY <1>2 DEF Lens, LensOf

LEMMA RunLensFacts ==
  ASSUME NEW rs \in Seq(Run)
  PROVE  RunLensOf(RunLens(rs), rs)
<1>1. \A i \in 1..Len(rs) : rs[i] \in Run
  OBVIOUS
<1>2. \A r \in Run : Len(r.data) \in Nat
  BY DEF Run
<1>3. \A i \in 1..Len(rs) : Len(rs[i].data) \in Nat
  BY <1>1, <1>2, Zenon
<1> QED
  BY <1>3 DEF RunLens, RunLensOf

(* Sorting changes no length ... *)
LEMMA SortedLens ==
  ASSUME NEW s \in Seq(Chunk), Numbered(s)
  PROVE  Sum(Lens(Sorted(s))) = Sum(Lens(s))
<1> DEFINE N == Len(s)
<1>1. PICK f : /\ f[0] = <<>> /\ Sorted(s) = f[N]
               /\ \A n \in 1..N : f[n] = Insert(f[n - 1], s[n])
  BY SortSteps, Zenon
<1>2. LensOf(Lens(s), s)
  BY LensFacts, Zenon
<1>3. PICK S \in [0..N -> Nat] : SumsOf(Lens(s), S) /\ Sum(Lens(s)) = S[N]
  <2>1. Lens(s) \in Seq(Nat) /\ Len(Lens(s)) = N
    BY <1>2, Zenon DEF LensOf
  <2>2. PICK S \in [0..Len(Lens(s)) -> Nat] : SumsOf(Lens(s), S) /\ Sum(Lens(s)) = S[Len(Lens(s))]
    BY <2>1, SumSteps, Zenon
  <2> QED
    BY <2>1, <2>2, Zenon
<1>4. S[0] = 0 /\ \A n \in 1..N : S[n] = S[n - 1] + s[n].len
  BY <1>2, <1>3, Zenon DEF SumsOf, LensOf
<1>0. N \in Nat /\ 0 \in 0..N /\ N \in 0..N /\ \A n \in 1..N : n \in 0..N /\ s[n] \in Chunk
  OBVIOUS
<1> HIDE DEF N
<1> DEFINE T == {n \in 0..N : SortedTo(f[n], s, n) /\ Sum(Lens(f[n])) = S[n]}
<1>5. 0 \in T
  <2>1. SortedTo(<<>>, s, 0)
    BY DEF SortedTo, Stable
  <2>2. Sum(Lens(<<>>)) = 0
    <3> DEFINE l == Lens(<<>>)
    <3>1. l \in Seq(Nat) /\ Len(l) = 0
      BY DEF Lens
    <3> HIDE DEF l
    <3>2. PICK F \in [0..Len(l) -> Nat] : SumsOf(l, F) /\ Sum(l) = F[Len(l)]
      BY <3>1, SumSteps, Zenon
    <3>3. Sum(l) = 0
      BY <3>1, <3>2, Zenon DEF SumsOf
    <3> QED
      BY <3>3, Zenon DEF l
  <2> QED
    BY <1>0, <1>1, <1>4, <2>1, <2>2, Zenon
<1>6. ASSUME NEW n \in 1..N, n - 1 \in T PROVE n \in T
  <2> DEFINE t == f[n - 1]  c == s[n]  u == f[n]
  <2>1. SortedTo(t, s, n - 1) /\ Sum(Lens(t)) = S[n - 1]
    BY <1>6, Zenon
  <2>2. u = Insert(t, c) /\ c \in Chunk
    BY <1>0, <1>1, Zenon
  <2>3. SortedTo(u, s, n)
    <3>1. n \in 1..Len(s)
      BY Zenon DEF N
    <3> QED
      BY <2>1, <2>2, <3>1, SortedStep, Zenon
  <2>4. t \in Seq(Chunk) /\ u \in Seq(Chunk) /\ Ordered(t)
    BY <2>1, <2>3, StableOrdered, Zenon DEF SortedTo
  <2> HIDE DEF t, c, u
  <2>5. Len(u) = Len(t) + 1 /\ \E k \in 0..Len(t) : InsertedAt(u, t, c, k)
    BY <2>2, <2>4, InsertFacts, Zenon
  <2>6. PICK k \in 0..Len(t) : InsertedAt(u, t, c, k)
    BY <2>5, Zenon
  <2> DEFINE h == Lens(u)  g == Lens(t)
  <2>7. LensOf(h, u) /\ LensOf(g, t)
    BY <2>4, LensFacts, Zenon
  <2>8. c.len \in Nat
    BY <2>2, ChunkFacts, Zenon
  <2> HIDE DEF h, g
  <2>9. OneMore(h, g, c.len, k)
    <3> DEFINE m == Len(t)
    <3>0. m \in Nat /\ k \in Nat /\ k <= m
      BY <2>4
    <3> HIDE DEF m
    <3>1. (\A i \in 1..k : i \in 1..m /\ i \in 1..(m + 1)) /\ k + 1 \in 1..(m + 1)
          /\ \A i \in (k + 1)..m : i \in 1..m /\ i + 1 \in 1..(m + 1)
      BY <3>0
    <3>2. Len(h) = m + 1 /\ Len(g) = m
      BY <2>5, <2>7, Zenon DEF LensOf, m
    <3>3. (\A i \in 1..(m + 1) : h[i] = u[i].len) /\ \A i \in 1..m : g[i] = t[i].len
      BY <2>5, <2>7, Zenon DEF LensOf, m
    <3>4. h[k + 1] = c.len
      BY <2>6, <3>1, <3>3, Zenon DEF InsertedAt
    <3>5. \A i \in 1..k : h[i] = g[i]
      BY <2>6, <3>1, <3>3, Zenon DEF InsertedAt
    <3>6. \A i \in (k + 1)..m : h[i + 1] = g[i]
      BY <2>6, <3>1, <3>3, Zenon DEF InsertedAt, m
    <3> QED
      BY <3>2, <3>4, <3>5, <3>6, Zenon DEF OneMore
  <2>10. Sum(h) = Sum(g) + c.len
    <3>1. h \in Seq(Nat) /\ g \in Seq(Nat) /\ k \in 0..Len(g)
      BY <2>7, Zenon DEF LensOf
    <3> QED
      BY <2>8, <2>9, <3>1, SumInsert, Zenon
  <2>11. Sum(h) = S[n]
    <3>1. Sum(g) = S[n - 1] /\ S[n] = S[n - 1] + c.len
      BY <1>4, <2>1, Zenon DEF g, c
    <3> QED
      BY <2>10, <3>1, Zenon
  <2> QED
    BY <1>0, <2>3, <2>11, Zenon DEF h, u
<1>7. N \in T
  <2> HIDE DEF T
  <2> QED
    BY <1>0, <1>5, <1>6, UpTo, Zenon
<1> QED
  BY <1>1, <1>3, <1>7, Zenon

\* rs is what the first n chunks of t give, as long as they are together (sum), in
\* offset order, no run ending where the next one begins.
InOrderTo(rs, t, n, sum) ==
  /\ rs \in Seq(Run) /\ Sum(RunLens(rs)) = sum
  /\ Len(rs) # 0 => n # 0 /\ rs[Len(rs)].off <= t[n].off
  /\ \A j \in 1..(Len(rs) - 1) :
       rs[j].off <= rs[j + 1].off /\ rs[j].off + Len(rs[j].data) # rs[j + 1].off

(* ... and merging neither: one chunk more adds its length. *)
LEMMA MergeLens ==
  ASSUME NEW rs \in Seq(Run), NEW c \in Chunk
  PROVE  Sum(RunLens(Merge(rs, c))) = Sum(RunLens(rs)) + c.len
<1> DEFINE qs == Merge(rs, c)  h == RunLens(qs)  g == RunLens(rs)  m == Len(rs)
<1>1. qs \in Seq(Run) /\ SameUpTo(qs, rs) /\ LastShape(qs, rs, c)
  BY MergeFacts, Zenon
<1>2. c.len \in Nat
  BY ChunkFacts, Zenon
<1> HIDE DEF qs
<1>3. RunLensOf(h, qs) /\ RunLensOf(g, rs)
  BY <1>1, RunLensFacts, Zenon
<1> HIDE DEF h, g
<1>4. h \in Seq(Nat) /\ g \in Seq(Nat) /\ Len(h) = Len(qs) /\ Len(g) = m
      /\ (\A i \in 1..Len(qs) : h[i] = Len(qs[i].data)) /\ \A i \in 1..m : g[i] = Len(rs[i].data)
  BY <1>3, Zenon DEF RunLensOf
<1>5. Len(qs) # 0 /\ \A i \in 1..(Len(qs) - 1) : qs[i] = rs[i]
  BY <1>1, Zenon DEF SameUpTo
<1>0. m \in Nat
  OBVIOUS
<1> HIDE DEF m
<1>6. CASE Len(qs) = m /\ Len(qs[Len(qs)].data) = Len(rs[m].data) + c.len
  <2>1. m # 0 /\ m \in 1..m /\ \A i \in 1..(m - 1) : i \in 1..m
    BY <1>0, <1>5, <1>6
  <2>2. h[m] = g[m] + c.len
    BY <1>4, <1>6, <2>1, Zenon
  <2>3. \A i \in 1..(m - 1) : h[i] = g[i]
    BY <1>4, <1>5, <1>6, <2>1, Zenon
  <2>4. LastMore(h, g, c.len)
    BY <1>4, <1>6, <2>1, <2>2, <2>3, Zenon DEF LastMore
  <2> QED
    BY <1>2, <1>4, <2>4, SumGrow, Zenon DEF h, g, qs
<1>7. CASE Len(qs) = m + 1 /\ Len(qs[Len(qs)].data) = c.len
  <2>1. m + 1 \in 1..(m + 1) /\ (m + 1) - 1 = m /\ (\A i \in 1..m : i \in 1..(m + 1)) /\ (m + 1)..m = {} /\ m \in 0..m
    BY <1>0
  <2>2. h[m + 1] = c.len
    BY <1>4, <1>7, <2>1, Zenon
  <2>3. \A i \in 1..m : h[i] = g[i]
    BY <1>4, <1>5, <1>7, <2>1, Zenon
  <2>4. OneMore(h, g, c.len, m)
    BY <1>4, <1>7, <2>1, <2>2, <2>3, Zenon DEF OneMore
  <2> QED
    BY <1>2, <1>4, <2>1, <2>4, SumInsert, Zenon DEF h, g, qs
<1> QED
  BY <1>1, <1>6, <1>7, Zenon DEF LastShape, m

(* One chunk more, of chunks in offset order. *)
LEMMA InOrderStep ==
  ASSUME NEW t \in Seq(Chunk), Ordered(t), NEW n \in 1..Len(t), NEW rs, NEW sum, InOrderTo(rs, t, n - 1, sum)
  PROVE  InOrderTo(Merge(rs, t[n]), t, n, sum + t[n].len)
<1> DEFINE c == t[n]  qs == Merge(rs, c)  m == Len(rs)
<1>0. n # 0 /\ n \in Nat /\ c \in Chunk /\ DOMAIN t = 1..Len(t)
  OBVIOUS
<1>1. rs \in Seq(Run) /\ Sum(RunLens(rs)) = sum /\ (m # 0 => n - 1 # 0 /\ rs[m].off <= t[n - 1].off)
      /\ \A j \in 1..(m - 1) : rs[j].off <= rs[j + 1].off /\ rs[j].off + Len(rs[j].data) # rs[j + 1].off
  BY Zenon DEF InOrderTo
<1>2. m \in Nat /\ \A j \in 1..m : rs[j].off \in Nat
  <2>1. m \in Nat /\ \A j \in 1..m : rs[j] \in Run
    BY <1>1
  <2>2. \A r \in Run : r.off \in Nat
    BY DEF Run
  <2> QED
    BY <2>1, <2>2, Zenon
<1>3. m # 0 => rs[m].off <= c.off
  <2> SUFFICES ASSUME m # 0 PROVE rs[m].off <= c.off
    BY Zenon
  <2>1. n - 1 \in 1..Len(t) /\ n - 1 < n
    BY <1>0, <1>1
  <2>2. t[n - 1].off <= c.off
    BY <1>0, <2>1, Zenon DEF Ordered
  <2>3. t[n - 1].off \in Nat /\ c.off \in Nat
    <3>1. t[n - 1] \in Chunk
      BY <2>1
    <3> QED
      BY <1>0, <3>1, ChunkFacts, Zenon
  <2>4. rs[m].off \in Nat /\ rs[m].off <= t[n - 1].off
    <3>1. m \in 1..m
      BY <1>2
    <3> QED
      BY <1>1, <1>2, <3>1, Zenon
  <2> DEFINE x == rs[m].off  y == t[n - 1].off  z == c.off
  <2> HIDE DEF x, y, z
  <2>5. x \in Nat /\ y \in Nat /\ z \in Nat /\ x <= y /\ y <= z
    BY <2>2, <2>3, <2>4, Zenon DEF x, y, z
  <2>6. x <= z
    BY <2>5
  <2> QED
    BY <2>6, Zenon DEF x, z
<1>4. qs \in Seq(Run) /\ SameUpTo(qs, rs) /\ LastShape(qs, rs, c) /\ Sum(RunLens(qs)) = sum + c.len
  BY <1>0, <1>1, MergeFacts, MergeLens, Zenon
<1> HIDE DEF qs, c
<1>5. Len(qs) # 0 /\ \A i \in 1..(Len(qs) - 1) : qs[i] = rs[i]
  BY <1>4, Zenon DEF SameUpTo
<1> HIDE DEF m
<1>6. CASE Len(qs) = m /\ qs[Len(qs)].off = rs[m].off
  <2>1. m # 0 /\ \A j \in 1..(m - 1) : j \in 1..m /\ (j + 1 = m \/ j + 1 \in 1..(m - 1))
    BY <1>2, <1>5, <1>6
  <2>2. \A j \in 1..(m - 1) : qs[j] = rs[j] /\ qs[j + 1].off = rs[j + 1].off
    <3> SUFFICES ASSUME NEW j \in 1..(m - 1) PROVE qs[j] = rs[j] /\ qs[j + 1].off = rs[j + 1].off
      BY Zenon
    <3>1. CASE j + 1 = m
      BY <1>5, <1>6, <3>1, Zenon
    <3>2. CASE j + 1 \in 1..(m - 1)
      BY <1>5, <1>6, <3>2, Zenon
    <3> QED
      BY <2>1, <3>1, <3>2, Zenon
  <2>3. \A j \in 1..(m - 1) : qs[j].off <= qs[j + 1].off /\ qs[j].off + Len(qs[j].data) # qs[j + 1].off
    BY <1>1, <2>2, Zenon DEF m
  <2>4. qs[m].off <= c.off
    BY <1>3, <1>6, <2>1, Zenon
  <2> QED
    BY <1>0, <1>4, <1>6, <2>3, <2>4, Zenon DEF InOrderTo, c, qs
<1>7. CASE Len(qs) = m + 1 /\ qs[Len(qs)].off = c.off /\ (m # 0 => rs[m].off + Len(rs[m].data) # c.off)
  <2>1. (m + 1) - 1 = m /\ \A j \in 1..m : j = m \/ (j \in 1..(m - 1) /\ j + 1 \in 1..m)
    BY <1>2
  <2>2. ASSUME NEW j \in 1..m PROVE qs[j].off <= qs[j + 1].off /\ qs[j].off + Len(qs[j].data) # qs[j + 1].off
    <3>1. qs[j] = rs[j]
      BY <1>5, <1>7, <2>1, Zenon
    <3>2. CASE j = m
      <4>1. m # 0
        BY <1>2, <3>2
      <4>2. qs[m + 1].off = c.off /\ qs[m] = rs[m]
        BY <1>7, <3>1, <3>2, Zenon
      <4>3. qs[m].off <= qs[m + 1].off /\ qs[m].off + Len(qs[m].data) # qs[m + 1].off
        BY <1>3, <1>7, <4>1, <4>2, Zenon
      <4> QED
        BY <3>2, <4>3, Zenon
    <3>3. CASE j \in 1..(m - 1) /\ j + 1 \in 1..m
      <4>1. qs[j + 1] = rs[j + 1]
        BY <1>5, <1>7, <2>1, <3>3, Zenon
      <4> QED
        BY <1>1, <3>1, <3>3, <4>1, Zenon DEF m
    <3> QED
      BY <2>1, <3>2, <3>3, Zenon
  <2>3. qs[Len(qs)].off <= c.off
    <3>1. c.off \in Nat
      BY <1>0, ChunkFacts, Zenon DEF c
    <3>2. c.off <= c.off
      BY <3>1
    <3> QED
      BY <1>7, <3>2, Zenon
  <2>4. \A j \in 1..(Len(qs) - 1) : qs[j].off <= qs[j + 1].off /\ qs[j].off + Len(qs[j].data) # qs[j + 1].off
    BY <1>7, <2>1, <2>2, Zenon
  <2> QED
    BY <1>0, <1>4, <2>3, <2>4, Zenon DEF InOrderTo, c, qs
<1> QED
  BY <1>4, <1>6, <1>7, Zenon DEF LastShape, m

(* All of them. *)
LEMMA MergedInOrder ==
  ASSUME NEW t \in Seq(Chunk), Ordered(t)
  PROVE  InOrderTo(Merged(t), t, Len(t), Sum(Lens(t)))
<1> DEFINE N == Len(t)
<1>1. PICK f : /\ f[0] = <<>> /\ Merged(t) = f[N]
               /\ \A n \in 1..N : f[n] = Merge(f[n - 1], t[n])
  BY MergeSteps, Zenon
<1>2. LensOf(Lens(t), t)
  BY LensFacts, Zenon
<1>3. PICK S \in [0..N -> Nat] : SumsOf(Lens(t), S) /\ Sum(Lens(t)) = S[N]
  <2>1. Lens(t) \in Seq(Nat) /\ Len(Lens(t)) = N
    BY <1>2, Zenon DEF LensOf
  <2>2. PICK S \in [0..Len(Lens(t)) -> Nat] : SumsOf(Lens(t), S) /\ Sum(Lens(t)) = S[Len(Lens(t))]
    BY <2>1, SumSteps, Zenon
  <2> QED
    BY <2>1, <2>2, Zenon
<1>4. S[0] = 0 /\ \A n \in 1..N : S[n] = S[n - 1] + t[n].len
  BY <1>2, <1>3, Zenon DEF SumsOf, LensOf
<1>0. N \in Nat /\ 0 \in 0..N /\ N \in 0..N /\ \A n \in 1..N : n \in 0..N
  OBVIOUS
<1> HIDE DEF N
<1> DEFINE T == {n \in 0..N : InOrderTo(f[n], t, n, S[n])}
<1>5. 0 \in T
  <2> DEFINE l == RunLens(<<>>)
  <2>1. l \in Seq(Nat) /\ Len(l) = 0
    BY DEF RunLens
  <2>2. <<>> \in Seq(Run) /\ Len(<<>>) = 0 /\ 1..(0 - 1) = {}
    OBVIOUS
  <2>3. Sum(l) = 0
    <3> HIDE DEF l
    <3>2. PICK F \in [0..Len(l) -> Nat] : SumsOf(l, F) /\ Sum(l) = F[Len(l)]
      BY <2>1, SumSteps, Zenon
    <3> QED
      BY <2>1, <3>2, Zenon DEF SumsOf
  <2>4. InOrderTo(<<>>, t, 0, 0)
    BY <2>2, <2>3, Zenon DEF InOrderTo
  <2> QED
    BY <1>0, <1>1, <1>4, <2>4, Zenon
<1>6. ASSUME NEW n \in 1..N, n - 1 \in T PROVE n \in T
  <2>1. InOrderTo(f[n - 1], t, n - 1, S[n - 1]) /\ n \in 1..Len(t)
    BY <1>6, Zenon DEF N
  <2>2. InOrderTo(Merge(f[n - 1], t[n]), t, n, S[n - 1] + t[n].len)
    BY <2>1, InOrderStep, Zenon
  <2>3. InOrderTo(f[n], t, n, S[n])
    BY <1>1, <1>4, <2>2, Zenon
  <2> QED
    BY <1>0, <2>3, Zenon
<1>7. N \in T
  <2> HIDE DEF T
  <2> QED
    BY <1>0, <1>5, <1>6, UpTo, Zenon
<1> QED
  BY <1>1, <1>3, <1>7, Zenon DEF N

\* The chunk lies whole in the run, at its own offset.
LiesIn(c, r) ==
  LET from == c.off - r.off IN
  /\ from >= 0 /\ from + c.len <= Len(r.data)
  /\ SubSeq(r.data, from + 1, from + c.len) = Data(c)

(* Functions that agree everywhere are the same. *)
LEMMA SameFunction ==
  ASSUME NEW D, NEW u \in [D -> Nat], NEW w \in [D -> Nat], \A i \in D : u[i] = w[i]
  PROVE  u = w
  OBVIOUS

(* A run that has every byte of a chunk has the chunk whole. *)
LEMMA CarriedWhole ==
  ASSUME NEW c \in Chunk, NEW r \in Run, Carries(r, c)
  PROVE  LiesIn(c, r)
<1> DEFINE o == c.off  l == c.len  p == r.off  d == r.data  from == o - p
<1>1. /\ o \in Nat /\ l \in Nat /\ 0 < l /\ Data(c) \in Seq(Nat) /\ Len(Data(c)) = l
      /\ \A i \in 1..l : Data(c)[i] = c.id
  BY ChunkFacts, Zenon
<1>2. p \in Nat /\ d \in Seq(Nat) /\ Len(d) \in Nat
  BY DEF Run
<1>3. \A b \in Nat : o <= b /\ b < o + l => p <= b /\ b < p + Len(d) /\ d[b - p + 1] = c.id
  BY Zenon DEF Carries, Has, Covers, ByteOf
<1> HIDE DEF o, l, p, d
<1>4. from \in Nat /\ from + l <= Len(d)
  <2>1. o \in Nat /\ o <= o /\ o < o + l
    BY <1>1
  <2>2. p <= o
    BY <1>3, <2>1, Zenon
  <2>3. o + l - 1 \in Nat /\ o <= o + l - 1 /\ o + l - 1 < o + l
    BY <1>1
  <2>4. o + l - 1 < p + Len(d)
    BY <1>3, <2>3, Zenon
  <2> DEFINE m == Len(d)
  <2>5. o \in Nat /\ l \in Nat /\ p \in Nat /\ m \in Nat /\ p <= o /\ o + l - 1 < p + m
    BY <1>1, <1>2, <2>2, <2>4, Zenon
  <2> HIDE DEF m
  <2>6. from \in Nat /\ from + l <= m
    BY <2>5
  <2> QED
    BY <2>6, Zenon DEF m
<1>5. \A i \in 1..l : d[from + i] = c.id
  <2> SUFFICES ASSUME NEW i \in 1..l PROVE d[from + i] = c.id
    BY Zenon
  <2>1. o + i - 1 \in Nat /\ o <= o + i - 1 /\ o + i - 1 < o + l /\ (o + i - 1) - p + 1 = from + i
    BY <1>1, <1>2
  <2>2. d[(o + i - 1) - p + 1] = c.id
    BY <1>3, <2>1, Zenon
  <2> QED
    BY <2>1, <2>2, Zenon
<1>6. SubSeq(d, from + 1, from + l) = Data(c)
  <2> DEFINE u == SubSeq(d, from + 1, from + l)  w == Data(c)
  <2> HIDE DEF from
  <2>0. from \in Nat /\ l \in Nat
    BY <1>1, <1>4, Zenon
  <2>1. /\ from + 1 \in Nat /\ from + l \in Nat /\ 1 <= from + 1 /\ from + 1 <= (from + l) + 1
        /\ (from + l) - (from + 1) + 1 = l
        /\ \A i \in 1..l : (from + 1) + i - 1 = from + i
    BY <2>0
  <2>2. u \in Seq(Nat) /\ PartOf(u, d, from + 1, from + l)
    BY <1>2, <1>4, <2>1, Part, Zenon
  <2> HIDE DEF u
  <2>3. Len(u) = l /\ \A i \in 1..l : u[i] = d[(from + 1) + i - 1]
    BY <2>1, <2>2, Zenon DEF PartOf
  <2>4. \A i \in 1..l : u[i] = c.id
    BY <1>5, <2>1, <2>3, Zenon
  <2>5. \A i \in 1..l : u[i] = w[i]
    BY <1>1, <2>4, Zenon
  <2>6. w \in Seq(Nat) /\ Len(w) = l
    BY <1>1, Zenon
  <2> HIDE DEF w
  <2>7. u = w
    <3>1. u \in [1..l -> Nat]
      BY <2>2, <2>3
    <3>2. w \in [1..l -> Nat]
      BY <2>6
    <3> QED
      BY <2>5, <3>1, <3>2, SameFunction, Zenon
  <2> QED
    BY <2>7, Zenon DEF u, w
<1>7. from >= 0
  BY <1>4
<1> QED
  BY <1>4, <1>6, <1>7, Zenon DEF LiesIn, o, l, p, d

\* What every push and every acknowledgement keep of the chunks.
ChunksInv ==
  /\ chunks \in Seq(Chunk) /\ Numbered(chunks) /\ \A i \in DOMAIN chunks : chunks[i].id <= pushed
  /\ cnt \in 0..Len(chunks) /\ pushed \in Nat

(* The flush of chunks as they are buffered. *)
LEMMA FlushOfChunks ==
  ASSUME ChunksInv
  PROVE  RunsAreTheChunks
<1> DEFINE t == Sorted(chunks)  rs == Merged(t)  N == Len(chunks)
<1>1. chunks \in Seq(Chunk) /\ Numbered(chunks) /\ DOMAIN chunks = 1..N
  BY DEF ChunksInv
<1>2. SortedTo(t, chunks, N) /\ Sum(Lens(t)) = Sum(Lens(chunks))
  BY <1>1, SortedFacts, SortedLens, Zenon
<1>3. t \in Seq(Chunk) /\ Len(t) = N /\ Ordered(t) /\ \A i \in 1..N : \E k \in 1..N : t[k] = chunks[i]
  BY <1>2, StableOrdered, Zenon DEF SortedTo
<1> HIDE DEF t
<1>4. MergedTo(rs, t, N) /\ InOrderTo(rs, t, N, Sum(Lens(chunks)))
  BY <1>2, <1>3, MergedFacts, MergedInOrder, Zenon
<1>5. rs = Runs(chunks)
  BY Zenon DEF Runs, t
<1> HIDE DEF rs
<1>6. rs \in Seq(Run) /\ \A i \in 1..N : \E m \in DOMAIN rs : Carries(rs[m], t[i])
  BY <1>4, Zenon DEF MergedTo
<1>7. \A m \in DOMAIN rs : rs[m] \in Run
  BY <1>6
<1>8. \A i \in DOMAIN chunks : \E j \in DOMAIN rs : LiesIn(chunks[i], rs[j])
  <2> SUFFICES ASSUME NEW i \in 1..N PROVE \E j \in DOMAIN rs : LiesIn(chunks[i], rs[j])
    BY <1>1, Zenon
  <2>1. PICK k \in 1..N : t[k] = chunks[i]
    BY <1>3, Zenon
  <2>2. PICK m \in DOMAIN rs : Carries(rs[m], t[k])
    BY <1>6, Zenon
  <2>3. chunks[i] \in Chunk
    BY <1>1
  <2>4. LiesIn(chunks[i], rs[m])
    BY <1>7, <2>1, <2>2, <2>3, CarriedWhole, Zenon
  <2> QED
    BY <2>4, Zenon
<1>9. Sum(RunLens(rs)) = Sum(Lens(chunks))
      /\ \A j \in 1..(Len(rs) - 1) : rs[j].off <= rs[j + 1].off /\ rs[j].off + Len(rs[j].data) # rs[j + 1].off
  BY <1>4, Zenon DEF InOrderTo
<1> QED
  BY <1>5, <1>8, <1>9, Zenon DEF RunsAreTheChunks, LiesIn, RunLens, Lens

(* A push appends a chunk with the next number ... *)
LEMMA PushChunks ==
  ASSUME ChunksInv, NEW o \in Offset, NEW l \in Length, Push(o, l)
  PROVE  ChunksInv'
<1> DEFINE c == [off |-> o, len |-> l, id |-> pushed + 1]  N == Len(chunks)  s == Append(chunks, c)
<1>1. /\ chunks \in Seq(Chunk) /\ Numbered(chunks) /\ (\A i \in DOMAIN chunks : chunks[i].id <= pushed)
      /\ cnt \in 0..N /\ pushed \in Nat
  BY Zenon DEF ChunksInv
<1>2. pushed' = pushed + 1 /\ chunks' = s /\ cnt' = cnt
  BY Zenon DEF Push
<1>3. c \in Chunk /\ c.id = pushed + 1
  BY <1>1 DEF Chunk
<1> HIDE DEF c
<1>4. N \in Nat /\ DOMAIN chunks = 1..N /\ s \in Seq(Chunk) /\ Len(s) = N + 1 /\ DOMAIN s = 1..(N + 1)
      /\ s[N + 1] = c /\ \A i \in 1..N : s[i] = chunks[i]
  BY <1>1, <1>3
<1> HIDE DEF s
<1>5. \A i \in 1..N : s[i].id \in Nat /\ s[i].id <= pushed
  <2>1. \A i \in 1..N : chunks[i] \in Chunk
    BY <1>1
  <2> QED
    BY <1>1, <1>4, <2>1, ChunkFacts, Zenon
<1>6. \A i \in 1..(N + 1) : i \in 1..N \/ i = N + 1
  BY <1>4
<1>7. Numbered(s)
  <2> SUFFICES ASSUME NEW i \in 1..(N + 1), NEW j \in 1..(N + 1), i < j PROVE s[i].id < s[j].id
    BY <1>4, Zenon DEF Numbered
  <2>1. i \in 1..N
    BY <1>4
  <2>2. CASE j \in 1..N
    BY <1>1, <1>4, <2>1, <2>2, Zenon DEF Numbered
  <2>3. CASE j = N + 1
    <3>1. s[j].id = pushed + 1
      BY <1>3, <1>4, <2>3, Zenon
    <3> QED
      BY <1>1, <1>5, <2>1, <3>1
  <2> QED
    BY <1>6, <2>2, <2>3, Zenon
<1>8. \A i \in 1..(N + 1) : s[i].id <= pushed + 1
  <2> SUFFICES ASSUME NEW i \in 1..(N + 1) PROVE s[i].id <= pushed + 1
    BY Zenon
  <2>1. CASE i \in 1..N
    BY <1>1, <1>5, <2>1
  <2>2. CASE i = N + 1
    <3>1. s[i].id = pushed + 1
      BY <1>3, <1>4, <2>2, Zenon
    <3> QED
      BY <1>1, <3>1
  <2> QED
    BY <1>6, <2>1, <2>2, Zenon
<1>9. cnt \in 0..(N + 1) /\ pushed + 1 \in Nat
  BY <1>1, <1>4
<1> QED
  BY <1>2, <1>4, <1>7, <1>8, <1>9, Zenon DEF ChunksInv

(* ... and an acknowledgement removes those that were sent. *)
LEMMA AckChunks ==
  ASSUME ChunksInv, Ack
  PROVE  ChunksInv'
<1> DEFINE n == Len(chunks)  s == SubSeq(chunks, cnt + 1, n)
<1>1. /\ chunks \in Seq(Chunk) /\ Numbered(chunks) /\ (\A i \in DOMAIN chunks : chunks[i].id <= pushed)
      /\ cnt \in 0..n /\ pushed \in Nat
  BY Zenon DEF ChunksInv
<1>2. chunks' = s /\ cnt' = 0 /\ pushed' = pushed
  BY Zenon DEF Ack
<1>3. n \in Nat /\ DOMAIN chunks = 1..n /\ cnt \in Nat /\ cnt <= n
  BY <1>1
<1>4. s \in Seq(Chunk) /\ PartOf(s, chunks, cnt + 1, n)
  <2>1. cnt + 1 \in Nat /\ 1 <= cnt + 1 /\ cnt + 1 <= n + 1 /\ n <= n
    BY <1>3
  <2> QED
    BY <1>1, <1>3, <2>1, Part, Zenon
<1> HIDE DEF n, s
<1>5. n - (cnt + 1) + 1 = n - cnt /\ n - cnt \in Nat /\ \A i \in 1..(n - cnt) : cnt + 1 + i - 1 = cnt + i
  BY <1>3
<1>6. Len(s) = n - cnt /\ \A i \in 1..(n - cnt) : s[i] = chunks[cnt + i]
  <2>1. Len(s) = n - cnt /\ \A i \in 1..(n - cnt) : s[i] = chunks[cnt + 1 + i - 1]
    BY <1>4, <1>5, Zenon DEF PartOf
  <2> QED
    BY <1>5, <2>1, Zenon
<1>7. DOMAIN s = 1..(n - cnt) /\ 0 \in 0..Len(s)
  BY <1>4, <1>5, <1>6
<1>8. /\ \A i \in 1..(n - cnt) : cnt + i \in 1..n
      /\ \A i, j \in 1..(n - cnt) : i < j <=> cnt + i < cnt + j
  BY <1>3
<1>9. Numbered(s)
  <2> SUFFICES ASSUME NEW i \in 1..(n - cnt), NEW j \in 1..(n - cnt), i < j PROVE s[i].id < s[j].id
    BY <1>7, Zenon DEF Numbered
  <2>1. cnt + i \in 1..n /\ cnt + j \in 1..n /\ cnt + i < cnt + j
    BY <1>8, Zenon
  <2>2. chunks[cnt + i].id < chunks[cnt + j].id
    BY <1>1, <1>3, <2>1, Zenon DEF Numbered
  <2> QED
    BY <1>6, <2>2, Zenon
<1>10. \A i \in DOMAIN s : s[i].id <= pushed
  BY <1>1, <1>3, <1>6, <1>7, <1>8, Zenon
<1> QED
  BY <1>1, <1>2, <1>4, <1>7, <1>9, <1>10, Zenon DEF ChunksInv

(* RunsAreTheChunks for every number of writes, however they cross. *)
THEOREM FlushIsExact == DataSpec => []RunsAreTheChunks
<1>1. DataInit => ChunksInv
  <2> SUFFICES ASSUME DataInit PROVE ChunksInv
    BY Zenon
  <2>1. chunks = <<>> /\ cnt = 0 /\ pushed = 0
    BY Zenon DEF DataInit
  <2>2. <<>> \in Seq(Chunk) /\ DOMAIN <<>> = {} /\ 0 \in 0..Len(<<>>) /\ 0 \in Nat
    OBVIOUS
  <2> QED
    BY <2>1, <2>2, Zenon DEF ChunksInv, Numbered
<1>2. ChunksInv /\ [DataNext]_dataVars => ChunksInv'
  <2> SUFFICES ASSUME ChunksInv, [DataNext]_dataVars PROVE ChunksInv'
    BY Zenon
  <2>1. CASE \E o \in Offset, l \in Length : Push(o, l)
    BY <2>1, PushChunks, Zenon
  <2>2. CASE Ack
    BY <2>2, AckChunks, Zenon
  <2>3. ASSUME chunks' = chunks, pushed' = pushed, cnt' = cnt \/ cnt' = 0 \/ cnt' = Len(chunks) PROVE ChunksInv'
    <3>1. 0 \in 0..Len(chunks) /\ Len(chunks) \in 0..Len(chunks)
      BY DEF ChunksInv
    <3>2. cnt' \in 0..Len(chunks)
      BY <2>3, <3>1, Zenon DEF ChunksInv
    <3> QED
      BY <2>3, <3>2, Zenon DEF ChunksInv, Numbered
  <2>4. CASE BeginFlush
    BY <2>3, <2>4, Zenon DEF BeginFlush
  <2>5. CASE Fail
    BY <2>3, <2>5, Zenon DEF Fail
  <2>6. CASE WriteFrame \/ ReadFrame \/ ReadFails
    BY <2>3, <2>6, Zenon DEF WriteFrame, ReadFrame, ReadFails
  <2>7. CASE \E o \in ReadOffset, l \in ReadLength : BeginRead(o, l)
    BY <2>3, <2>7, Zenon DEF BeginRead
  <2>8. CASE UNCHANGED dataVars
    BY <2>3, <2>8, Zenon DEF dataVars
  <2> QED
    BY <2>1, <2>2, <2>4, <2>5, <2>6, <2>7, <2>8, Zenon DEF DataNext
<1>3. ChunksInv => RunsAreTheChunks
  BY FlushOfChunks, Zenon
<1> QED
  BY <1>1, <1>2, <1>3, PTL DEF DataSpec
=============================================================================
