-------------------------- MODULE FileServerProofs --------------------------
(***************************************************************************)
(* For any number of writes, sessions, files and stripes and any number of *)
(* frames: no write is torn, appends are contiguous, and an abandoned      *)
(* write is over once its successor is acknowledged.                       *)
(***************************************************************************)
EXTENDS FileServer, FiniteSetTheorems, TLAPS

Block == Rpc \cup {0}
FileOf(w) == file[Req[w].ino]

(* How far a request can be, on the client and on the server: frames come after the
   call, the task after the first frame, an acknowledgement after the response;
   and only a task that has, or had, the stripe has written anything. *)
Stages ==
    \A w \in Rpc :
        /\ arrived[w] > 0 => client[w] # "idle"
        /\ task[w] # "none" => arrived[w] > 0
        /\ client[w] = "acked" => task[w] = "ok"
        /\ written[w] > 0 => Holds(w) \/ task[w] \in Ended

(* A write that follows another one, whose task has started, waits behind it. *)
InOrder ==
    \A w \in Rpc : LET p == Req[w].after IN
        p # 0 /\ w \notin overtaken =>
            /\ client[w] # "idle" => task[p] # "none"
            /\ task[w] = "queued" /\ task[p] = "queued" => p \in ahead[w]
            /\ task[w] = "ok" => task[p] # "queued"

(* A block was written by a request for the file; positioned ones write the first
   NFrames blocks only. *)
Origin ==
    \A i \in Ino : \A b \in DOMAIN file[i] : LET v == file[i][b] IN
        v # 0 => Req[v].ino = i /\ written[v] > 0 /\ (Req[v].append \/ b <= NFrames)

(* What the positioned write that has the stripe has written is its own still, or
   cut off by a truncation. *)
OwnPrefix ==
    \A w \in Rpc : Holds(w) /\ ~Req[w].append =>
        \A b \in DOMAIN FileOf(w) : b <= written[w] => FileOf(w)[b] \in {w, 0}

(* What the append that has the stripe has written is at the end of the file. *)
OwnTail ==
    \A w \in Rpc : Holds(w) /\ Req[w].append =>
        \A b \in DOMAIN FileOf(w) : FileOf(w)[b] = w => FileOf(w)[Len(FileOf(w))] = w

(* NotTorn without cardinalities. *)
OneOwner ==
    \A i \in Ino :
        (\A w \in Positioned(i) : written[w] > 0 => task[w] = "ok")
            => \A b, c \in DOMAIN file[i] :
                 file[i][b] \in Positioned(i) /\ file[i][c] \in Positioned(i) => file[i][b] = file[i][c]

IInv ==
    TypeOK /\ Stages /\ InOrder /\ Origin /\ OwnPrefix /\ OwnTail /\ OneOwner /\ AppendContiguous

-----------------------------------------------------------------------------
(* An O_APPEND write_at adds its block at the end of the file. *)
LEMMA PutAppend ==
  ASSUME NEW blocks \in Seq(Block), NEW w \in Rpc, NEW k \in 1..NFrames,
         NEW p, p = Put(blocks, w, k), Req[w].append
  PROVE  /\ p \in Seq(Block)
         /\ Len(p) = Len(blocks) + 1
         /\ p[Len(blocks) + 1] = w
         /\ \A b \in 1..Len(blocks) : p[b] = blocks[b]
<1>1. p = Append(blocks, w) /\ w \in Block
  BY Zenon DEF Put, Block
<1> QED
  BY <1>1

(* A positioned write_at puts its block at k and leaves the others as they are, with
   holes before k where there were none. *)
LEMMA PutAt ==
  ASSUME NEW blocks \in Seq(Block), NEW w \in Rpc, NEW k \in 1..NFrames,
         NEW p, p = Put(blocks, w, k), ~Req[w].append
  PROVE  /\ p \in Seq(Block)
         /\ p[k] = w
         /\ \A b \in DOMAIN p : \/ b = k
                                \/ b \in DOMAIN blocks /\ p[b] = blocks[b]
                                \/ b < k /\ p[b] = 0
<1> DEFINE n == IF k > Len(blocks) THEN k ELSE Len(blocks)
<1>1. NFrames \in Nat /\ w \in Block /\ 0 \in Block /\ k \in Nat /\ k >= 1
  BY ServerParameters DEF Block
<1>2. Len(blocks) \in Nat /\ DOMAIN blocks = 1..Len(blocks) /\ \A b \in 1..Len(blocks) : blocks[b] \in Block
  OBVIOUS
<1>3. p = [b \in 1..n |-> IF b = k THEN w ELSE IF b <= Len(blocks) THEN blocks[b] ELSE 0]
  BY Zenon DEF Put
<1>4. n \in Nat /\ n >= k /\ (n = k \/ n = Len(blocks))
  BY <1>1, <1>2
<1> HIDE DEF n
<1>5. DOMAIN p = 1..n
  BY <1>3, Zenon
<1>6. ASSUME NEW b \in 1..n
      PROVE  /\ b = k => p[b] = w
             /\ b # k /\ b <= Len(blocks) => p[b] = blocks[b]
             /\ b # k /\ ~(b <= Len(blocks)) => p[b] = 0
  BY <1>3, Zenon
<1>7. ASSUME NEW b \in 1..n PROVE \/ b = k
                                  \/ b \in DOMAIN blocks /\ p[b] = blocks[b]
                                  \/ b < k /\ p[b] = 0
  <2>1. b \in Nat /\ b >= 1 /\ b <= n
    BY <1>4
  <2>2. CASE b <= Len(blocks)
    BY <1>2, <1>6, <2>1, <2>2
  <2>3. CASE ~(b <= Len(blocks))
    <3>1. b <= k
      BY <1>1, <1>2, <1>4, <2>1, <2>3, Zenon
    <3>2. b # k => p[b] = 0
      BY <1>6, <2>3, Zenon
    <3> QED
      BY <1>1, <2>1, <3>1, <3>2
  <2> QED
    BY <2>2, <2>3, Zenon
<1>8. ASSUME NEW b \in 1..n PROVE p[b] \in Block
  BY <1>1, <1>2, <1>6, <1>7, Zenon
<1>9. p \in [1..n -> Block]
  BY <1>3, <1>8, Zenon
<1>10. p \in Seq(Block) /\ p[k] = w
  BY <1>1, <1>4, <1>6, <1>9
<1> QED
  BY <1>5, <1>7, <1>10, Zenon

(* Two tasks cannot both hold the stripe: of two in its line one is behind the other. *)
LEMMA OneHolder ==
  ASSUME TypeOK, NEW v \in Rpc, NEW w \in Rpc, Holds(v), Holds(w), StripeOf(v) = StripeOf(w)
  PROVE  v = w
BY Zenon DEF TypeOK, Holds, Queued

(* In an initial state every file is empty and no task has started. *)
LEMMA InitIInv == Init => IInv
<1> SUFFICES ASSUME Init PROVE IInv
  BY Zenon
<1>1. TypeOK
  BY ServerParameters DEF Init, TypeOK, Queued
<1>2. \A i \in Ino : DOMAIN file[i] = {}
  BY DEF Init
<1>3. Stages
  BY ServerParameters DEF Init, Stages
<1>4. InOrder
  BY Zenon DEF Init, InOrder
<1>5. Origin /\ AppendContiguous /\ OneOwner
  BY <1>2, Zenon DEF Origin, AppendContiguous, OneOwner
<1>6. OwnPrefix /\ OwnTail
  BY Zenon DEF Init, OwnPrefix, OwnTail, Holds
<1> QED
  BY <1>1, <1>3, <1>4, <1>5, <1>6, Zenon DEF IInv

-----------------------------------------------------------------------------
(* The part of TypeOK about the stripes' queues. *)
Line ==
    /\ task \in [Rpc -> {"none", "queued"} \cup Ended]
    /\ ahead \in [Rpc -> SUBSET Rpc]
    /\ \A w \in Rpc : ahead[w] \subseteq Queued(StripeOf(w)) \ {w}
    /\ \A v, w \in Rpc : v # w /\ task[v] = "queued" /\ w \in Queued(StripeOf(v))
            => (v \in ahead[w] <=> w \notin ahead[v])

(* A task that ends leaves the line of its stripe, and nobody else's place changes. *)
LEMMA EndLine ==
  ASSUME Line, NEW w \in Rpc, NEW how \in Ended, End(w, how)
  PROVE  /\ Line'
         /\ \A v \in Rpc \ {w} : task'[v] = task[v] /\ ahead'[v] = ahead[v] \ {w}
         /\ task'[w] = how
<1>1. /\ task' \in [Rpc -> {"none", "queued"} \cup Ended] /\ ahead' \in [Rpc -> SUBSET Rpc]
      /\ \A v \in Rpc \ {w} : task'[v] = task[v] /\ ahead'[v] = ahead[v] \ {w}
      /\ task'[w] = how /\ ahead'[w] = {} /\ how # "queued"
  BY Zenon DEF Line, End, Ended
<1>2. \A v \in Rpc : ahead'[v] \subseteq Queued(StripeOf(v))' \ {v}
  BY <1>1 DEF Line, Queued, StripeOf
<1>3. \A u, v \in Rpc : u # v /\ task'[u] = "queued" /\ v \in Queued(StripeOf(u))'
            => (u \in ahead'[v] <=> v \notin ahead'[u])
  BY <1>1 DEF Line, Queued, StripeOf
<1> QED
  BY <1>1, <1>2, <1>3, Zenon DEF Line, StripeOf

(* A task that starts goes to the end of the line of its stripe. *)
LEMMA StartLine ==
  ASSUME Line, NEW w \in Rpc, Start(w)
  PROVE  /\ Line'
         /\ \A v \in Rpc \ {w} : task'[v] = task[v] /\ ahead'[v] = ahead[v]
         /\ task'[w] \in {"queued", "stale"}
         /\ task'[w] = "queued" => ahead'[w] = Queued(StripeOf(w))
<1>1. CASE task' = [task EXCEPT ![w] = "stale"] /\ UNCHANGED ahead
  <2>1. \A v \in Rpc : w \notin ahead[v]
    BY Zenon DEF Line, Start, Queued
  <2>2. /\ task' \in [Rpc -> {"none", "queued"} \cup Ended] /\ task'[w] = "stale" /\ task[w] = "none"
        /\ \A v \in Rpc \ {w} : task'[v] = task[v]
    BY <1>1, Zenon DEF Line, Ended, Start
  <2>3. \A v \in Rpc : ahead'[v] \subseteq Queued(StripeOf(v))' \ {v}
    BY <1>1, <2>1, <2>2 DEF Line, Queued, StripeOf
  <2>4. \A u, v \in Rpc : u # v /\ task'[u] = "queued" /\ v \in Queued(StripeOf(u))'
            => (u \in ahead'[v] <=> v \notin ahead'[u])
    BY <1>1, <2>2, ZenonT(60) DEF Line, Queued, StripeOf
  <2> QED
    BY <1>1, <2>2, <2>3, <2>4, Zenon DEF Line, StripeOf
<1>2. CASE task' = [task EXCEPT ![w] = "queued"] /\ ahead' = [ahead EXCEPT ![w] = Queued(StripeOf(w))]
  <2>1. \A v \in Rpc : w \notin ahead[v]
    BY DEF Line, Start, Queued
  <2>2. /\ task' \in [Rpc -> {"none", "queued"} \cup Ended] /\ ahead' \in [Rpc -> SUBSET Rpc]
        /\ task'[w] = "queued" /\ task[w] = "none" /\ ahead'[w] = Queued(StripeOf(w))
        /\ \A v \in Rpc \ {w} : task'[v] = task[v] /\ ahead'[v] = ahead[v]
    BY <1>2 DEF Line, Ended, Start, Queued
  <2>3. \A v \in Rpc : ahead'[v] \subseteq Queued(StripeOf(v))' \ {v}
    BY <2>1, <2>2 DEF Line, Queued, StripeOf
  <2>4. ASSUME NEW u \in Rpc, NEW v \in Rpc, u # v, task'[u] = "queued", v \in Queued(StripeOf(u))'
        PROVE  u \in ahead'[v] <=> v \notin ahead'[u]
    BY <2>1, <2>2, <2>4 DEF Line, Queued, StripeOf
  <2> QED
    BY <2>2, <2>3, <2>4, Zenon DEF Line, StripeOf
<1> QED
  BY <1>1, <1>2, Zenon DEF Start

(* The steps that write a block of w, whether or not the write then fails. *)
Writes(w) ==
    /\ Holds(w) /\ written[w] < arrived[w]
    /\ written' = [written EXCEPT ![w] = @ + 1]
    /\ file' = [file EXCEPT ![Req[w].ino] = Put(@, w, written[w] + 1)]

(* A block is written to the file of w alone, and within the frames that arrived. *)
LEMMA WritesTyped ==
  ASSUME TypeOK, NEW w \in Rpc, Writes(w)
  PROVE  /\ written[w] + 1 \in 1..NFrames /\ written'[w] = written[w] + 1
         /\ written' \in [Rpc -> 0..NFrames]
         /\ \A v \in Rpc \ {w} : written'[v] = written[v]
         /\ \A v \in Rpc : written'[v] <= arrived[v]
         /\ Req[w].ino \in Ino /\ FileOf(w) \in Seq(Block)
         /\ file'[Req[w].ino] = Put(FileOf(w), w, written[w] + 1)
         /\ \A i \in Ino \ {Req[w].ino} : file'[i] = file[i]
         /\ file' \in [Ino -> Seq(Block)]
<1>1. Req[w].ino \in Ino
  BY Zenon DEF Ino
<1>2. NFrames \in Nat /\ arrived[w] \in 0..NFrames /\ written[w] \in 0..NFrames /\ written[w] < arrived[w]
  BY ServerParameters, Zenon DEF TypeOK, Writes
<1>3. /\ written[w] + 1 \in 1..NFrames /\ written[w] + 1 \in 0..NFrames /\ written[w] + 1 <= arrived[w]
  BY <1>2
<1>4. /\ written' \in [Rpc -> 0..NFrames] /\ written'[w] = written[w] + 1
      /\ \A v \in Rpc \ {w} : written'[v] = written[v]
  BY <1>3, ZenonT(60) DEF TypeOK, Writes
<1>5. \A v \in Rpc : written'[v] <= arrived[v]
  BY <1>3, <1>4, Zenon DEF TypeOK
<1>6. FileOf(w) \in Seq(Block)
  BY <1>1, Zenon DEF TypeOK, FileOf, Block
<1>7. Put(FileOf(w), w, written[w] + 1) \in Seq(Block)
  BY <1>3, <1>6, PutAppend, PutAt
<1>8. /\ file'[Req[w].ino] = Put(FileOf(w), w, written[w] + 1)
      /\ \A i \in Ino \ {Req[w].ino} : file'[i] = file[i]
      /\ file' \in [Ino -> Seq(Block)]
  BY <1>1, <1>7, ZenonT(60) DEF TypeOK, Writes, FileOf, Block
<1> QED
  BY <1>1, <1>3, <1>4, <1>5, <1>6, <1>8, Zenon

-----------------------------------------------------------------------------
(* What the files hold. *)
Contents == Origin /\ OwnPrefix /\ OwnTail /\ OneOwner /\ AppendContiguous

(* In particular a task that has written nothing has no block in any file, and one
   that waits has written nothing. *)
LEMMA WaitingWroteNothing ==
  ASSUME TypeOK, Stages, NEW v \in Rpc, ~Holds(v), task[v] \notin Ended
  PROVE  written[v] = 0
BY ServerParameters DEF TypeOK, Stages

(* A step that writes nothing keeps what is known of each block, whoever gets the
   stripe next. *)
LEMMA FilesKept ==
  ASSUME IInv, UNCHANGED <<written, file>>,
         \A v \in Rpc : Holds(v)' => Holds(v) \/ written[v] = 0
  PROVE  Origin' /\ OwnPrefix' /\ OwnTail' /\ AppendContiguous'
<1>1. Origin' /\ AppendContiguous'
  BY ZenonT(60) DEF IInv, Origin, AppendContiguous
<1>2. ASSUME NEW v \in Rpc
      PROVE  Req[v].ino \in Ino /\ FileOf(v)' = FileOf(v) /\ FileOf(v) \in Seq(Block)
  BY DEF IInv, TypeOK, FileOf, Ino, Block
<1>3. ASSUME NEW v \in Rpc, Holds(v)', ~Req[v].append, NEW b \in DOMAIN FileOf(v), b <= written[v]
      PROVE  FileOf(v)[b] \in {v, 0}
  <2>1. b \in Nat /\ b >= 1
    BY <1>2, <1>3
  <2>2. written[v] # 0
    BY <1>3, <2>1
  <2> QED
    BY <1>3, <2>2, Zenon DEF IInv, OwnPrefix
<1>4. ASSUME NEW v \in Rpc, Holds(v)', Req[v].append, NEW b \in DOMAIN FileOf(v), FileOf(v)[b] = v
      PROVE  FileOf(v)[Len(FileOf(v))] = v
  <2>1. v # 0
    BY ServerParameters, Zenon
  <2>2. written[v] > 0
    BY <1>2, <1>4, <2>1 DEF IInv, Origin, FileOf
  <2> QED
    BY <1>4, <2>2 DEF IInv, OwnTail
<1>5. OwnPrefix'
  BY <1>2, <1>3, Zenon DEF OwnPrefix
<1>6. OwnTail'
  BY <1>2, <1>4, Zenon DEF OwnTail
<1> QED
  BY <1>1, <1>5, <1>6, Zenon

(* A start, or a step of a client or the network, changes no file. *)
LEMMA StartContents ==
  ASSUME IInv, NEW w \in Rpc, Start(w)
  PROVE  Contents'
<1>1. Line
  BY Zenon DEF IInv, TypeOK, Line
<1>2. /\ \A v \in Rpc \ {w} : task'[v] = task[v] /\ ahead'[v] = ahead[v]
      /\ task'[w] \in {"queued", "stale"}
  BY <1>1, StartLine, Zenon
<1>3. written[w] = 0
  BY WaitingWroteNothing, Zenon DEF IInv, Start, Holds, Ended
<1>4. UNCHANGED <<written, file>>
  BY Zenon DEF Start
<1>5. \A v \in Rpc : Holds(v)' => Holds(v) \/ written[v] = 0
  BY <1>2, <1>3, Zenon DEF Holds
<1>6. Origin' /\ OwnPrefix' /\ OwnTail' /\ AppendContiguous'
  BY <1>4, <1>5, FilesKept, Zenon
<1>7. \A v \in Rpc : (written'[v] > 0 => task'[v] = "ok") => (written[v] > 0 => task[v] = "ok")
  BY <1>2, <1>3, <1>4, Zenon
<1>8. OneOwner'
  BY <1>4, <1>7 DEF IInv, OneOwner, Positioned
<1> QED
  BY <1>6, <1>8, Zenon DEF Contents

(* A completed write owns every block a positioned write can touch; one that ends
   otherwise leaves the files as they are. *)
LEMMA EndContents ==
  ASSUME IInv, NEW w \in Rpc, NEW how \in Ended, End(w, how), task[w] = "queued",
         UNCHANGED <<written, file>>, how = "ok" => Holds(w) /\ written[w] = NFrames
  PROVE  Contents'
<1>1. Line
  BY Zenon DEF IInv, TypeOK, Line
<1>2. /\ \A v \in Rpc \ {w} : task'[v] = task[v] /\ ahead'[v] = ahead[v] \ {w}
      /\ task'[w] = how
  BY <1>1, EndLine, Zenon
<1>3. ASSUME NEW v \in Rpc, Holds(v)' PROVE Holds(v) \/ written[v] = 0
  <2>1. v # w /\ task[v] = "queued"
    BY <1>2, <1>3, Zenon DEF Holds, Ended
  <2> QED
    BY <2>1, WaitingWroteNothing, Zenon DEF IInv, Ended
<1>4. Origin' /\ OwnPrefix' /\ OwnTail' /\ AppendContiguous'
  BY <1>3, FilesKept, Zenon
<1>5. ASSUME NEW i \in Ino, \A v \in Positioned(i) : written'[v] > 0 => task'[v] = "ok",
             NEW b \in DOMAIN file[i], NEW c \in DOMAIN file[i],
             file[i][b] \in Positioned(i), file[i][c] \in Positioned(i)
      PROVE  file[i][b] = file[i][c]
  <2>1. CASE how = "ok" /\ w \in Positioned(i)
    <3>1. Req[w].ino = i /\ ~Req[w].append /\ FileOf(w) = file[i] /\ Holds(w) /\ written[w] = NFrames
      BY <2>1, Zenon DEF Positioned, FileOf
    <3>2. ASSUME NEW d \in DOMAIN file[i], file[i][d] \in Positioned(i) PROVE file[i][d] = w
      <4>1. file[i][d] # 0 /\ ~Req[file[i][d]].append
        BY <3>2, ServerParameters, Zenon DEF Positioned
      <4>2. d <= NFrames
        BY <4>1, Zenon DEF IInv, Origin
      <4>3. file[i][d] \in {w, 0}
        BY <3>1, <4>2, Zenon DEF IInv, OwnPrefix
      <4> QED
        BY <4>1, <4>3, Zenon
    <3> QED
      BY <1>5, <3>2, Zenon
  <2>2. CASE ~(how = "ok" /\ w \in Positioned(i))
    <3>1. \A v \in Positioned(i) : written[v] > 0 => task[v] = "ok"
      BY <1>2, <1>5, <2>2, Zenon DEF Positioned
    <3> QED
      BY <1>5, <3>1, Zenon DEF IInv, OneOwner
  <2> QED
    BY <2>1, <2>2, Zenon
<1>6. OneOwner'
  BY <1>5 DEF OneOwner, Positioned
<1> QED
  BY <1>4, <1>6, Zenon DEF Contents

(* A truncation to nothing takes every block of one file away. *)
LEMMA TruncateContents ==
  ASSUME IInv, NEW i \in Ino, Truncate(i)
  PROVE  Contents'
<1>1. /\ file'[i] = <<>> /\ \A j \in Ino \ {i} : file'[j] = file[j]
      /\ UNCHANGED <<written, task, ahead>>
  BY ZenonT(60) DEF IInv, TypeOK, Truncate
<1>2. DOMAIN file'[i] = {}
  BY <1>1
<1>3. Origin'
  BY <1>1, <1>2 DEF IInv, Origin
<1>4. AppendContiguous'
  BY <1>1, <1>2 DEF IInv, AppendContiguous
<1>5. OneOwner'
  BY <1>1, <1>2 DEF IInv, OneOwner, Positioned
<1>6. \A v \in Rpc : Req[v].ino \in Ino /\ (Holds(v)' <=> Holds(v))
  BY <1>1, Zenon DEF Ino, Holds
<1>7. OwnPrefix' /\ OwnTail'
  BY <1>1, <1>2, <1>6, Zenon DEF IInv, OwnPrefix, OwnTail, FileOf
<1> QED
  BY <1>3, <1>4, <1>5, <1>7, Zenon DEF Contents

(* A block written by the task that has the stripe continues what that task wrote, and
   overwrites no block of an append it could split. *)
LEMMA WriteContents ==
  ASSUME IInv, NEW w \in Rpc, Writes(w), UNCHANGED <<task, ahead>> \/ End(w, "failed")
  PROVE  Contents'
<1> DEFINE n == Req[w].ino
           k == written[w] + 1
           old == FileOf(w)
           new == file'[Req[w].ino]
<1>t. TypeOK /\ Stages /\ Origin /\ OwnPrefix /\ OwnTail /\ OneOwner /\ AppendContiguous /\ Line
  BY Zenon DEF IInv, TypeOK, Line
<1>w. /\ k \in 1..NFrames /\ written'[w] = k
      /\ \A v \in Rpc \ {w} : written'[v] = written[v]
      /\ n \in Ino /\ old \in Seq(Block) /\ old = file[n]
      /\ new = Put(old, w, k)
      /\ \A i \in Ino \ {n} : file'[i] = file[i]
  BY <1>t, WritesTyped, Zenon DEF FileOf
<1>k. k \in Nat /\ k >= 1 /\ k <= NFrames /\ w # 0 /\ NFrames \in Nat /\ written[w] \in Nat
  BY <1>t, <1>w, ServerParameters DEF TypeOK
<1>l. Len(old) \in Nat /\ DOMAIN old = 1..Len(old)
  BY <1>w
<1>a. Req[w].append => /\ new \in Seq(Block) /\ Len(new) = Len(old) + 1 /\ new[Len(old) + 1] = w
                       /\ \A b \in 1..Len(old) : new[b] = old[b]
  <2> HIDE DEF k, old, new
  <2> SUFFICES ASSUME Req[w].append
               PROVE  /\ new \in Seq(Block) /\ Len(new) = Len(old) + 1 /\ new[Len(old) + 1] = w
                      /\ \A b \in 1..Len(old) : new[b] = old[b]
    BY Zenon
  <2>1. k \in 1..NFrames /\ old \in Seq(Block) /\ new = Put(old, w, k)
    BY <1>w, Zenon
  <2> QED
    BY <2>1, PutAppend
<1>p. ~Req[w].append => /\ new \in Seq(Block) /\ new[k] = w
                        /\ \A b \in DOMAIN new : \/ b = k
                                                 \/ b \in DOMAIN old /\ new[b] = old[b]
                                                 \/ b < k /\ new[b] = 0
  <2> HIDE DEF k, old, new
  <2>1. k \in 1..NFrames /\ old \in Seq(Block) /\ new = Put(old, w, k)
    BY <1>w, Zenon
  <2> QED
    BY <2>1, PutAt
<1>d. DOMAIN new = 1..Len(new) /\ Len(new) \in Nat
  BY <1>a, <1>p
<1>ad. Req[w].append => DOMAIN new = 1..(Len(old) + 1)
  BY <1>a, <1>d, Zenon
<1>h. Holds(w) /\ task[w] = "queued"
  BY Zenon DEF Writes, Holds
<1>s. /\ \A v \in Rpc \ {w} : task'[v] = task[v]
      /\ task'[w] # "ok" /\ (Holds(w)' => UNCHANGED <<task, ahead>>)
  <2>1. CASE UNCHANGED <<task, ahead>>
    BY <1>h, <2>1, Zenon
  <2>2. CASE End(w, "failed")
    BY <1>t, <2>2, EndLine, Zenon DEF Ended, Holds
  <2> QED
    BY <2>1, <2>2, Zenon
<1>o. ASSUME NEW v \in Rpc \ {w}, Holds(v)'
      PROVE  (written[v] = 0 /\ written'[v] = 0) \/ (Holds(v) /\ Req[v].ino # n)
  <2>1. task[v] = "queued"
    BY <1>s, <1>o, Zenon DEF Holds
  <2>2. CASE Holds(v)
    <3>1. StripeOf(v) # StripeOf(w)
      BY <1>t, <1>h, <2>2, OneHolder, Zenon
    <3> QED
      BY <2>2, <3>1, Zenon DEF StripeOf
  <2>3. CASE ~Holds(v)
    BY <1>t, <1>w, <2>1, <2>3, WaitingWroteNothing, Zenon DEF Ended
  <2> QED
    BY <2>2, <2>3, Zenon
<1> HIDE DEF n, k, old, new
<1>u. n = Req[w].ino /\ k = written[w] + 1 /\ old = FileOf(w) /\ new = file'[n]
  BY Zenon DEF n, k, old, new
<1>g. \A v \in Rpc : written[v] > 0 => written'[v] > 0
  BY <1>w, <1>k
\* Every block of the new file is the one written, an old one, or a hole.
<1>e. ASSUME NEW b \in DOMAIN new
      PROVE  \/ new[b] = w /\ (~Req[w].append => b = k)
             \/ b \in DOMAIN old /\ new[b] = old[b]
             \/ new[b] = 0
  <2>1. CASE Req[w].append
    BY <1>a, <1>ad, <1>l, <2>1
  <2>2. CASE ~Req[w].append
    BY <1>p, <2>2, ZenonT(60)
  <2> QED
    BY <2>1, <2>2, Zenon
<1>1. Origin'
  <2>1. ASSUME NEW b \in DOMAIN new, new[b] # 0
        PROVE  Req[new[b]].ino = n /\ written'[new[b]] > 0 /\ (Req[new[b]].append \/ b <= NFrames)
    <3>1. CASE new[b] = w /\ (~Req[w].append => b = k)
      BY <1>u, <1>w, <1>k, <3>1
    <3>2. CASE b \in DOMAIN old /\ new[b] = old[b]
      <4>1. old[b] \in Rpc
        BY <1>w, <2>1, <3>2 DEF Block
      <4>2. Req[old[b]].ino = n /\ written[old[b]] > 0 /\ (Req[old[b]].append \/ b <= NFrames)
        BY <1>t, <1>w, <2>1, <3>2, Zenon DEF Origin
      <4> QED
        BY <1>g, <3>2, <4>1, <4>2, Zenon
    <3> QED
      BY <1>e, <2>1, <3>1, <3>2, ZenonT(60)
  <2>2. ASSUME NEW i \in Ino \ {n}, NEW b \in DOMAIN file[i], file[i][b] # 0
        PROVE  /\ Req[file[i][b]].ino = i /\ written'[file[i][b]] > 0
               /\ Req[file[i][b]].append \/ b <= NFrames
    <3>1. file[i][b] \in Rpc
      BY <1>t, <2>2 DEF TypeOK
    <3>2. Req[file[i][b]].ino = i /\ written[file[i][b]] > 0 /\ (Req[file[i][b]].append \/ b <= NFrames)
      BY <1>t, <2>2, Zenon DEF Origin
    <3> QED
      BY <1>g, <3>1, <3>2, Zenon
  <2>3. \A i \in Ino : i = n \/ file'[i] = file[i]
    BY <1>w, Zenon
  <2> QED
    BY <1>u, <2>1, <2>2, <2>3 DEF Origin
<1>2. OwnPrefix'
  <2>1. ASSUME NEW v \in Rpc, Holds(v)', ~Req[v].append,
               NEW b \in DOMAIN file'[Req[v].ino], b <= written'[v]
        PROVE  file'[Req[v].ino][b] \in {v, 0}
    <3>1. CASE v = w
      <4>1. b \in DOMAIN new /\ b <= k /\ file'[Req[v].ino][b] = new[b]
        BY <1>u, <1>w, <2>1, <3>1, Zenon
      <4>2. b \in Nat
        BY <1>d, <4>1
      <4>3. CASE b = k
        BY <1>p, <2>1, <3>1, <4>1, <4>3, Zenon
      <4>4. CASE b # k /\ b \in DOMAIN old /\ new[b] = old[b]
        <5>1. b <= written[w]
          BY <1>u, <1>k, <4>1, <4>2, <4>4
        <5>2. old[b] \in {w, 0}
          BY <1>t, <1>h, <1>u, <2>1, <3>1, <4>4, <5>1, ZenonT(60) DEF OwnPrefix
        <5> QED
          BY <3>1, <4>1, <4>4, <5>2, Zenon
      <4> QED
        BY <1>p, <2>1, <3>1, <4>1, <4>3, <4>4, Zenon
    <3>2. CASE v # w
      <4>1. Req[v].ino \in Ino /\ written'[v] = written[v]
        BY <1>w, <3>2, Zenon DEF Ino
      <4>2. CASE written'[v] = 0
        <5>1. file'[Req[v].ino] \in Seq(Block)
          BY <1>t, <4>1, WritesTyped, Zenon
        <5> QED
          BY <2>1, <4>2, <5>1
      <4>3. CASE Holds(v) /\ Req[v].ino # n
        <5>1. file'[Req[v].ino] = FileOf(v)
          BY <1>w, <4>1, <4>3, Zenon DEF FileOf
        <5> QED
          BY <1>t, <2>1, <4>1, <4>3, <5>1, Zenon DEF OwnPrefix
      <4> QED
        BY <1>o, <2>1, <3>2, <4>2, <4>3, Zenon
    <3> QED
      BY <3>1, <3>2, Zenon
  <2> QED
    BY <2>1, Zenon DEF OwnPrefix, FileOf
<1>3. OwnTail'
  <2>1. ASSUME NEW v \in Rpc, Holds(v)', Req[v].append,
               NEW b \in DOMAIN file'[Req[v].ino], file'[Req[v].ino][b] = v
        PROVE  file'[Req[v].ino][Len(file'[Req[v].ino])] = v
    <3>1. CASE v = w
      BY <1>u, <1>a, <2>1, <3>1, Zenon
    <3>2. CASE v # w
      <4>1. Req[v].ino \in Ino /\ v # 0
        BY ServerParameters, Zenon DEF Ino
      <4>2. written'[v] > 0
        BY <1>1, <2>1, <4>1, ZenonT(60) DEF Origin
      <4>3. Holds(v) /\ Req[v].ino # n
        BY <1>o, <2>1, <3>2, <4>2
      <4>4. file'[Req[v].ino] = FileOf(v)
        BY <1>w, <4>1, <4>3, Zenon DEF FileOf
      <4> QED
        BY <1>t, <2>1, <4>3, <4>4, Zenon DEF OwnTail
    <3> QED
      BY <3>1, <3>2, Zenon
  <2> QED
    BY <2>1, Zenon DEF OwnTail, FileOf
<1>4. OneOwner'
  <2>1. ASSUME NEW i \in Ino, \A v \in Positioned(i) : written'[v] > 0 => task'[v] = "ok",
               NEW b \in DOMAIN file'[i], NEW c \in DOMAIN file'[i],
               file'[i][b] \in Positioned(i), file'[i][c] \in Positioned(i)
        PROVE  file'[i][b] = file'[i][c]
    <3>1. w \notin Positioned(i)
      BY <1>w, <1>k, <1>s, <2>1
    <3>2. \A v \in Positioned(i) : written[v] > 0 => task[v] = "ok"
      BY <1>w, <1>s, <2>1, <3>1, Zenon DEF Positioned
    <3>3. ASSUME NEW e \in DOMAIN file'[i], file'[i][e] \in Positioned(i)
          PROVE  e \in DOMAIN file[i] /\ file'[i][e] = file[i][e]
      <4>1. CASE i = n
        <5>1. file'[i][e] # w /\ file'[i][e] # 0
          BY <3>1, <3>3, ServerParameters, Zenon DEF Positioned
        <5> QED
          BY <1>e, <1>u, <1>w, <3>3, <4>1, <5>1, Zenon
      <4>2. CASE i # n
        BY <1>w, <3>3, <4>2, Zenon
      <4> QED
        BY <4>1, <4>2, Zenon
    <3> QED
      BY <1>t, <2>1, <3>2, <3>3, Zenon DEF OneOwner
  <2> QED
    BY <2>1, Zenon DEF OneOwner, Positioned
<1>5. AppendContiguous'
  <2>o. ASSUME NEW j \in DOMAIN old, NEW m \in DOMAIN old, j < m, old[j] = old[m], old[j] # 0,
               Req[old[j]].append, NEW l \in j..m
        PROVE  old[l] = old[j]
    BY <1>t, <1>w, <2>o, Zenon DEF AppendContiguous
  <2>1. ASSUME NEW j \in DOMAIN new, NEW m \in DOMAIN new, j < m, new[j] = new[m], new[j] # 0,
               Req[new[j]].append, NEW l \in j..m
        PROVE  new[l] = new[j]
    <3>1. j \in Nat /\ m \in Nat /\ l \in Nat /\ j >= 1 /\ j <= l /\ l <= m /\ m <= Len(new) /\ l \in DOMAIN new
      BY <1>d, <2>1
    <3>2. CASE Req[w].append
      <4>1. j \in 1..Len(old) /\ new[j] = old[j]
        BY <1>a, <1>l, <2>1, <3>1, <3>2
      <4>2. CASE m \in 1..Len(old)
        <5>1. l \in 1..Len(old) /\ new[l] = old[l] /\ new[m] = old[m]
          BY <1>a, <1>l, <3>1, <3>2, <4>2
        <5>2. old[l] = old[j]
          BY <1>l, <2>o, <2>1, <4>1, <4>2, <5>1, Zenon
        <5> QED
          BY <4>1, <5>1, <5>2, Zenon
      <4>3. CASE m \notin 1..Len(old)
        <5>0. m = Len(old) + 1
          BY <1>a, <1>l, <3>1, <3>2, <4>3
        <5>1. m = Len(old) + 1 /\ new[m] = w /\ old[j] = w
          BY <1>a, <2>1, <3>2, <4>1, <5>0, Zenon
        <5>2. old[Len(old)] = w
          BY <1>t, <1>h, <1>u, <1>l, <3>2, <4>1, <5>1, Zenon DEF OwnTail
        <5>3. CASE l = m
          BY <2>1, <5>3, Zenon
        <5>4. CASE l # m
          <6>1. l \in 1..Len(old) /\ new[l] = old[l] /\ Len(old) \in DOMAIN old
            BY <1>a, <1>l, <3>1, <3>2, <4>1, <5>1, <5>4
          <6>2. CASE j = Len(old)
            BY <1>l, <3>1, <4>1, <5>1, <5>2, <6>1, <6>2
          <6>3. CASE j < Len(old)
            <7>1. l \in j..Len(old)
              BY <1>l, <3>1, <6>1
            <7>2. old[l] = old[j]
              BY <1>l, <1>k, <2>o, <3>2, <4>1, <5>1, <5>2, <6>1, <6>3, <7>1, ZenonT(60)
            <7> QED
              BY <4>1, <6>1, <7>2, Zenon
          <6> QED
            BY <1>l, <4>1, <6>2, <6>3
        <5> QED
          BY <5>3, <5>4, Zenon
      <4> QED
        BY <4>2, <4>3, Zenon
    <3>3. CASE ~Req[w].append
      <4>1. new[j] # w
        BY <2>1, <3>3, Zenon
      <4>2. j \in DOMAIN old /\ new[j] = old[j] /\ m \in DOMAIN old /\ new[m] = old[m]
        BY <1>e, <2>1, <4>1, Zenon
      <4>3. ~(j <= written[w])
        <5>1. old[j] # w /\ old[j] # 0
          BY <2>1, <4>1, <4>2, Zenon
        <5> QED
          BY <1>t, <1>h, <1>u, <3>3, <4>2, <5>1, Zenon DEF OwnPrefix
      <4>4. j # k
        BY <1>p, <3>3, <4>1, Zenon
      <4>5. l > k
        BY <1>u, <1>k, <3>1, <4>3, <4>4
      <4>6. l \in DOMAIN old /\ new[l] = old[l]
        BY <1>p, <1>k, <3>1, <3>3, <4>5
      <4>7. old[l] = old[j]
        BY <2>o, <2>1, <4>2, Zenon
      <4> QED
        BY <4>2, <4>6, <4>7, Zenon
    <3> QED
      BY <3>2, <3>3, Zenon
  <2>2. \A i \in Ino : i = n \/ file'[i] = file[i]
    BY <1>w
  <2>3. ASSUME NEW i \in Ino, NEW j \in DOMAIN file'[i], NEW m \in DOMAIN file'[i], j < m,
               file'[i][j] = file'[i][m], file'[i][j] # 0, Req[file'[i][j]].append, NEW l \in j..m
        PROVE  file'[i][l] = file'[i][j]
    <3>1. CASE i = n
      BY <1>u, <2>1, <2>3, <3>1, Zenon
    <3>2. CASE i # n
      BY <1>t, <2>2, <2>3, <3>2 DEF AppendContiguous
    <3> QED
      BY <3>1, <3>2, Zenon
  <2> QED
    BY <2>3, Zenon DEF AppendContiguous
<1> QED
  BY <1>1, <1>2, <1>3, <1>4, <1>5, Zenon DEF Contents

-----------------------------------------------------------------------------
(* What a task's end does to the order of the writes: only a task that has the stripe
   completes, and then nothing it follows is in the queue. *)
LEMMA EndOrder ==
  ASSUME IInv, NEW w \in Rpc, NEW how \in Ended, End(w, how), task[w] = "queued",
         how = "ok" => Holds(w), UNCHANGED <<client, arrived, overtaken>>,
         \A v \in Rpc \ {w} : written'[v] = written[v]
  PROVE  Stages' /\ InOrder'
<1>t. Line /\ TypeOK /\ Stages /\ InOrder
  BY Zenon DEF IInv, TypeOK, Line
<1>1. /\ \A v \in Rpc \ {w} : task'[v] = task[v] /\ ahead'[v] = ahead[v] \ {w}
      /\ task'[w] = how
  BY <1>t, EndLine, Zenon
<1>2. \A v \in Rpc \ {w} : Holds(v) => Holds(v)'
  BY <1>1, Zenon DEF Holds
<1>3. Stages'
  BY <1>t, <1>1, <1>2, Zenon DEF Stages, Ended
<1>4. ASSUME NEW v \in Rpc, Req[v].after # 0, v \notin overtaken
      PROVE  /\ client[v] # "idle" => task'[Req[v].after] # "none"
             /\ task'[v] = "queued" /\ task'[Req[v].after] = "queued" => Req[v].after \in ahead'[v]
             /\ task'[v] = "ok" => task'[Req[v].after] # "queued"
  <2>1. /\ Req[v].after \in Rpc /\ Req[v].after # v
        /\ client[v] # "idle" => task[Req[v].after] # "none"
        /\ task[v] = "queued" /\ task[Req[v].after] = "queued" => Req[v].after \in ahead[v]
        /\ task[v] = "ok" => task[Req[v].after] # "queued"
    BY <1>t, <1>4, ServerParameters, Zenon DEF InOrder
  <2>2. CASE v = w
    BY <1>1, <2>1, <2>2, Zenon DEF Holds, Ended
  <2>3. CASE v # w
    BY <1>1, <2>1, <2>3, Zenon DEF Ended
  <2> QED
    BY <2>2, <2>3, Zenon
<1>5. InOrder'
  BY <1>4, Zenon DEF InOrder
<1> QED
  BY <1>3, <1>5, Zenon

(* A task that starts queues behind the one it follows; and no task starts once a later
   write has been sent that counts on it. *)
LEMMA StartOrder ==
  ASSUME IInv, NEW w \in Rpc, Start(w)
  PROVE  Stages' /\ InOrder'
<1>t. Line /\ TypeOK /\ Stages /\ InOrder
  BY Zenon DEF IInv, TypeOK, Line
<1>u. UNCHANGED <<client, arrived, written, overtaken>> /\ task[w] = "none" /\ arrived[w] > 0
  BY Zenon DEF Start
<1>1. /\ \A v \in Rpc \ {w} : task'[v] = task[v] /\ ahead'[v] = ahead[v]
      /\ task'[w] \in {"queued", "stale"}
      /\ task'[w] = "queued" => ahead'[w] = Queued(StripeOf(w))
  BY <1>t, StartLine, Zenon
<1>2. written[w] = 0
  BY <1>t, <1>u, WaitingWroteNothing, Zenon DEF Holds, Ended
<1>3. \A v \in Rpc \ {w} : Holds(v) => Holds(v)'
  BY <1>1, Zenon DEF Holds
<1>4. Stages'
  BY <1>t, <1>u, <1>1, <1>2, <1>3 DEF Stages
<1>5. ASSUME NEW v \in Rpc, Req[v].after # 0, v \notin overtaken
      PROVE  /\ client[v] # "idle" => task'[Req[v].after] # "none"
             /\ task'[v] = "queued" /\ task'[Req[v].after] = "queued" => Req[v].after \in ahead'[v]
             /\ task'[v] = "ok" => task'[Req[v].after] # "queued"
  <2> DEFINE q == Req[v].after
  <2>1. /\ q \in Rpc /\ q # v /\ Req[q].ino = Req[v].ino
        /\ client[v] # "idle" => task[q] # "none"
        /\ task[v] = "queued" /\ task[q] = "queued" => q \in ahead[v]
        /\ task[v] = "ok" => task[q] # "queued"
    BY <1>t, <1>5, ServerParameters, Zenon DEF InOrder
  <2> HIDE DEF q
  <2>2. CASE v = w
    <3>1. task[q] = "queued" => q \in Queued(StripeOf(w))
      BY <2>1, <2>2, Zenon DEF Queued, StripeOf
    <3>2. task'[q] = task[q] /\ task'[v] # "ok"
      BY <1>1, <2>1, <2>2, Zenon
    <3>3. client[v] # "idle" => task'[q] # "none"
      BY <2>1, <3>2, Zenon
    <3> QED
      BY <1>1, <2>2, <3>1, <3>2, <3>3, Zenon DEF q
  <2>3. CASE v # w /\ q = w
    <3>1. client[v] = "idle"
      BY <1>u, <2>1, <2>3, Zenon
    <3>2. task[v] = "none"
      BY <1>t, <3>1, Zenon DEF Stages
    <3>3. task'[v] = "none"
      BY <1>1, <2>3, <3>2, Zenon
    <3> QED
      BY <3>1, <3>3, Zenon
  <2>4. CASE v # w /\ q # w
    <3>1. task'[v] = task[v] /\ task'[q] = task[q] /\ ahead'[v] = ahead[v]
      BY <1>1, <2>1, <2>4, Zenon
    <3> QED
      BY <2>1, <3>1, Zenon DEF q
  <2> QED
    BY <2>2, <2>3, <2>4, Zenon
<1>6. InOrder'
  BY <1>u, <1>5, Zenon DEF InOrder
<1> QED
  BY <1>4, <1>6, Zenon

(* Every step keeps the invariant. *)
LEMMA StepIInv == IInv /\ [Next]_vars => IInv'
<1> SUFFICES ASSUME IInv, [Next]_vars PROVE IInv'
  BY Zenon
<1>t. Line /\ TypeOK /\ Stages /\ InOrder /\ Contents
  BY Zenon DEF IInv, TypeOK, Line, Contents
<1>i. ASSUME TypeOK', Stages', InOrder', Contents' PROVE IInv'
  BY <1>i, Zenon DEF IInv, Contents
\* A step that leaves the tasks and the files alone.
<1>q. ASSUME UNCHANGED <<task, written, ahead, file>> PROVE Contents'
  <2>1. \A v \in Rpc : Holds(v)' <=> Holds(v)
    BY <1>q, Zenon DEF Holds
  <2>2. Origin' /\ OwnPrefix' /\ OwnTail' /\ AppendContiguous'
    BY <1>q, <2>1, FilesKept, Zenon
  <2>3. OneOwner'
    BY <1>q, <1>t DEF Contents, OneOwner, Positioned
  <2> QED
    BY <2>2, <2>3, Zenon DEF Contents
\* The tasks leave their line as it is.
<1>l. ASSUME UNCHANGED <<task, ahead>> PROVE Line' /\ \A v \in Rpc : Holds(v)' <=> Holds(v)
  BY <1>l, <1>t, Zenon DEF Line, Queued, StripeOf, Holds
\* A task that ends without writing.
<1>e. ASSUME NEW w \in Rpc, NEW how \in Ended, End(w, how), task[w] = "queued",
             how = "ok" => Holds(w) /\ written[w] = NFrames,
             UNCHANGED <<client, arrived, written, handles, live, file, overtaken>>
      PROVE  IInv'
  <2>1. Line'
    BY <1>t, <1>e, EndLine, Zenon
  <2>2. TypeOK'
    BY <1>t, <1>e, <2>1, Zenon DEF TypeOK, Line
  <2>3. Stages' /\ InOrder'
    BY <1>e, EndOrder, Zenon
  <2>4. Contents'
    BY <1>e, EndContents, Zenon
  <2> QED
    BY <1>i, <2>2, <2>3, <2>4, Zenon
<1>1. CASE \E w \in Rpc : Send(w)
  <2> PICK w \in Rpc : Send(w)
    BY <1>1, Zenon
  <2>1. /\ client[w] = "idle" /\ client' = [client EXCEPT ![w] = "pending"]
        /\ UNCHANGED <<arrived, task, written, ahead, handles, live, file>>
        /\ overtaken \subseteq overtaken' /\ overtaken' \subseteq overtaken \cup {w}
        /\ Req[w].after # 0 /\ w \notin overtaken' => task[Req[w].after] # "none"
    BY Zenon DEF Send
  <2>2. TypeOK'
    BY <1>t, <1>l, <2>1, Zenon DEF TypeOK, Line
  <2>3. Stages'
    BY <1>t, <1>l, <2>1, ZenonT(60) DEF Stages, TypeOK
  <2>4. InOrder'
    BY <1>t, <2>1, ZenonT(60) DEF InOrder, TypeOK
  <2> QED
    BY <1>i, <1>q, <2>1, <2>2, <2>3, <2>4, Zenon
<1>2. CASE \E w \in Rpc : FrameArrives(w)
  <2> PICK w \in Rpc : FrameArrives(w)
    BY <1>2
  <2>1. /\ client[w] # "idle" /\ arrived[w] < NFrames /\ arrived' = [arrived EXCEPT ![w] = @ + 1]
        /\ UNCHANGED <<client, task, written, ahead, handles, live, file, overtaken>>
    BY Zenon DEF FrameArrives
  <2>2. NFrames \in Nat /\ \A v \in Rpc : arrived[v] \in 0..NFrames /\ written[v] \in 0..NFrames
    BY <1>t, ServerParameters, Zenon DEF TypeOK
  <2>3. /\ arrived' \in [Rpc -> 0..NFrames]
        /\ \A v \in Rpc : arrived'[v] >= arrived[v] /\ (v # w => arrived'[v] = arrived[v])
    BY <1>t, <2>1, <2>2 DEF TypeOK
  <2>4. \A v \in Rpc : written[v] <= arrived'[v]
    BY <1>t, <2>2, <2>3 DEF TypeOK
  <2>5. TypeOK'
    BY <1>t, <1>l, <2>1, <2>3, <2>4, Zenon DEF TypeOK, Line
  <2>6. Stages'
    BY <1>t, <1>l, <2>1, <2>2, <2>3 DEF Stages
  <2>7. InOrder'
    BY <1>t, <2>1, Zenon DEF InOrder
  <2> QED
    BY <1>i, <1>q, <2>1, <2>5, <2>6, <2>7, Zenon
<1>3. CASE \E w \in Rpc : Respond(w)
  <2> PICK w \in Rpc : Respond(w)
    BY <1>3
  <2>1. /\ client[w] = "pending" /\ UNCHANGED <<arrived, task, written, ahead, handles, live, file, overtaken>>
        /\ client' \in [Rpc -> {"idle", "pending", "acked", "error"}]
        /\ \A v \in Rpc \ {w} : client'[v] = client[v]
        /\ client'[w] # "idle" /\ (client'[w] = "acked" => task[w] = "ok")
    BY <1>t, ZenonT(60) DEF Respond, TypeOK
  <2>2. TypeOK'
    BY <1>t, <1>l, <2>1, Zenon DEF TypeOK, Line
  <2>3. Stages'
    BY <1>t, <1>l, <2>1, Zenon DEF Stages
  <2>4. InOrder'
    BY <1>t, <2>1, Zenon DEF InOrder
  <2> QED
    BY <1>i, <1>q, <2>1, <2>2, <2>3, <2>4, Zenon
<1>4. CASE \E w \in Rpc : Start(w)
  <2> PICK w \in Rpc : Start(w)
    BY <1>4
  <2>1. Line'
    BY <1>t, StartLine, Zenon
  <2>2. TypeOK'
    BY <1>t, <2>1, Zenon DEF TypeOK, Line, Start
  <2> QED
    BY <1>i, <2>2, StartOrder, StartContents, Zenon
<1>5. CASE \E w \in Rpc : WriteFrame(w)
  <2> PICK w \in Rpc : WriteFrame(w)
    BY <1>5
  <2>1. Writes(w) /\ UNCHANGED <<client, arrived, task, ahead, handles, live, overtaken>>
    BY Zenon DEF WriteFrame, Writes
  <2>2. TypeOK'
    BY <1>t, <1>l, <2>1, WritesTyped, Zenon DEF TypeOK, Line, Block
  <2>3. Stages'
    BY <1>t, <1>l, <2>1, WritesTyped, Zenon DEF Stages, Writes
  <2>4. InOrder'
    BY <1>t, <2>1, Zenon DEF InOrder
  <2> QED
    BY <1>i, <2>1, <2>2, <2>3, <2>4, WriteContents, Zenon
<1>6. CASE \E w \in Rpc : WriteFails(w)
  <2> PICK w \in Rpc : WriteFails(w)
    BY <1>6
  <2>1. /\ End(w, "failed") /\ task[w] = "queued" /\ "failed" \in Ended
        /\ UNCHANGED <<client, arrived, handles, live, overtaken>>
        /\ Writes(w) \/ UNCHANGED <<written, file>>
    BY Zenon DEF WriteFails, Writes, Holds, Ended
  <2>2. CASE UNCHANGED <<written, file>>
    BY <1>e, <2>1, <2>2, Zenon
  <2>3. CASE Writes(w)
    <3>1. Line'
      BY <1>t, <2>1, EndLine, Zenon
    <3>2. TypeOK'
      BY <1>t, <2>1, <2>3, <3>1, WritesTyped, Zenon DEF TypeOK, Line, Block
    <3>3. \A v \in Rpc \ {w} : written'[v] = written[v]
      BY <1>t, <2>3, WritesTyped, Zenon
    <3>4. Stages' /\ InOrder'
      BY <2>1, <3>3, EndOrder, Zenon
    <3> QED
      BY <1>i, <2>1, <2>3, <3>2, <3>4, WriteContents, Zenon
  <2> QED
    BY <2>1, <2>2, <2>3, Zenon
<1>7. CASE \E w \in Rpc : Finish(w)
  BY <1>7, <1>e, Zenon DEF Finish, Holds, Ended
<1>8. CASE \E w \in Rpc : StreamEnds(w)
  BY <1>8, <1>e, Zenon DEF StreamEnds, Holds, Ended
<1>9. CASE \E w \in Rpc : Timeout(w)
  BY <1>9, <1>e, Zenon DEF Timeout, Ended
<1>10. CASE (\E s \in Sess : ConnLost(s) \/ \E i \in Ino : Release(s, i)) \/ UNCHANGED vars
  <2>1. /\ UNCHANGED <<client, arrived, task, written, ahead, file, overtaken>>
        /\ live' \subseteq live /\ handles' \subseteq handles
    BY <1>10, Zenon DEF ConnLost, Release, vars
  <2>2. TypeOK'
    BY <1>t, <1>l, <2>1, Zenon DEF TypeOK, Line
  <2>3. Stages' /\ InOrder'
    BY <1>t, <1>l, <2>1, Zenon DEF Stages, InOrder
  <2> QED
    BY <1>i, <1>q, <2>1, <2>2, <2>3, Zenon
<1>11. CASE \E i \in Ino : Truncate(i)
  <2> PICK i \in Ino : Truncate(i)
    BY <1>11, Zenon
  <2>1. /\ UNCHANGED <<client, arrived, task, written, ahead, handles, live, overtaken>>
        /\ file' = [file EXCEPT ![i] = <<>>]
    BY Zenon DEF Truncate
  <2>2. TypeOK'
    BY <1>t, <1>l, <2>1 DEF TypeOK, Line
  <2>3. Stages' /\ InOrder'
    BY <1>t, <1>l, <2>1, Zenon DEF Stages, InOrder
  <2> QED
    BY <1>i, <2>2, <2>3, TruncateContents, Zenon
<1> QED
  BY <1>1, <1>2, <1>3, <1>4, <1>5, <1>6, <1>7, <1>8, <1>9, <1>10, <1>11, Zenon DEF Next, TaskStep

(* IInv is invariant. *)
LEMMA Invariance == Spec => []IInv
<1> QED
  BY InitIInv, StepIInv, PTL DEF Spec

(* Whatever writes, appends, timeouts, disconnects and truncations meet on a file: once
   the positioned writes to it are complete, the blocks they overlap on are one's. *)
THEOREM WritesAreNotTorn == Spec => []NotTorn
<1>1. IInv => NotTorn
  <2> SUFFICES ASSUME IInv, NEW i \in Ino, \A w \in Positioned(i) : written[w] > 0 => task[w] = "ok"
               PROVE  Cardinality(Range(file[i]) \cap Positioned(i)) <= 1
    BY Zenon DEF NotTorn
  <2> DEFINE S == Range(file[i]) \cap Positioned(i)
  <2>1. \A x, y \in S : x = y
    BY ZenonT(60) DEF IInv, OneOwner, Range
  <2>2. S = {} \/ \E x : S = {x}
    BY <2>1, Zenon
  <2> HIDE DEF S
  <2>3. Cardinality(S) = 0 \/ Cardinality(S) = 1
    BY <2>2, FS_EmptySet, FS_Singleton, Zenon
  <2> QED
    BY <2>3 DEF S
<1> QED
  BY <1>1, Invariance, PTL

(* The frames of an O_APPEND write lie next to each other, for any number of appenders
   and positioned writers in any number of sessions. *)
THEOREM AppendsAreContiguous == Spec => []AppendContiguous
<1>1. IInv => AppendContiguous
  BY Zenon DEF IInv
<1> QED
  BY <1>1, Invariance, PTL

(* When a write is acknowledged, the one it follows, if its task had started when the
   later one was sent, neither holds the stripe nor waits for it. *)
THEOREM AbandonedWritesAreOver == Spec => []AbandonedIsOver
<1>1. IInv => AbandonedIsOver
  BY Zenon DEF IInv, AbandonedIsOver, Stages, InOrder
<1> QED
  BY <1>1, Invariance, PTL
=============================================================================
