----------------------------- MODULE TrustProofs -----------------------------
(***************************************************************************)
(* For any number of mounts, names and keys, and wherever processes die:   *)
(* known_hosts keeps its pins, a mount keeps its key, the server keeps its *)
(* identity, and a restarted server is accepted by everyone who pinned it. *)
(***************************************************************************)
EXTENDS Trust, TLAPS

(* What p finds and holds in load_or_generate_at while nothing interferes: it
   generates only if there is no key file, and what it has read is the pair. *)
PairOf(p) ==
    /\ stage[p] \in {"gen", "crt_cut", "crt_put"} => key = Absent
    /\ stage[p] \in {"crt_cut", "crt_put", "key_cut"} => id[p].crt \in Key /\ id[p].key = id[p].crt
    /\ stage[p] \in {"crt_put", "key_cut"} => crt = id[p].crt
    /\ stage[p] = "key_cut" => key \notin Key
    /\ stage[p] \in {"crt_read", "key_read", "done"} => key \in Key /\ crt = key
    /\ stage[p] = "key_read" => id[p].crt = crt
    /\ stage[p] = "done" => id[p] = [crt |-> crt, key |-> key]

(* A call that generates is alone, and a key file that exists is complete and fits
   the certificate, unless it is being written. *)
Alone == \A p, q \in IdProc : stage[p] \in Writing /\ p # q => stage[q] \notin Busy
Paired == key # Absent => (key \in Key /\ crt = key) \/ \E p \in IdProc : stage[p] = "key_cut"
IdInv == ~interfered => Alone /\ Paired /\ \A p \in IdProc : PairOf(p)

(* While nothing spoils known_hosts: the file holds what was saved, except between
   the truncation and the write of the one mount that is saving; that mount's map
   repeats what was saved, every other map is out of date, and a map that is not
   is what was saved. *)
KnownInv ==
    ~spoiled =>
        /\ cutting = {} => disk = kept
        /\ cutting # {} => disk = K!Blank
        /\ \A m \in cutting : /\ \A n \in Mount \ {m} : n \in stale /\ n \notin cutting
                              /\ \A h \in Host : kept[h] # None => view[m][h] = kept[h]
        /\ \A m \in Mount : at[m] # "off" /\ m \notin stale /\ m \notin cutting => view[m] = kept

(* Where a mount is in connect() or reconnect(), what it expects and whom it has met. *)
MountOk(m) ==
    /\ at[m] # "off" => host[m] \in Host
    /\ m \in cutting <=> at[m] = "save"
    /\ at[m] \in {"off", "decide", "save"} => m \notin mounted
    /\ at[m] = "off" => expected[m] = None
    /\ at[m] = "establish" /\ m \notin mounted => expected[m] = view[m][host[m]]
    /\ at[m] \in {"decide", "save"} => expected[m] = None /\ peer[m] \in Key
    /\ at[m] = "decide" => view[m][host[m]] = None
    /\ at[m] = "save" => view[m][host[m]] = peer[m]
    /\ at[m] \in {"hello", "up"} \/ m \in mounted => expected[m] \in Key /\ peer[m] = expected[m]
    /\ ~spoiled /\ expected[m] # None => expected[m] = kept[host[m]]

(* While nothing interferes and the operator leaves the key alone, every key that
   anyone has met, pinned or is about to pin is the one on the server's disk. *)
Pinned ==
    ~interfered /\ rotations = 0 =>
        /\ \A m \in Mount : peer[m] \in {None, key} /\ expected[m] \in {None, key}
        /\ \A m \in Mount, h \in Host : view[m][h] \in {None, key}
        /\ \A h \in Host : disk[h] \in {None, key}

TInv == TypeOK /\ IdInv /\ KnownInv /\ (\A m \in Mount : MountOk(m)) /\ Pinned
-----------------------------------------------------------------------------
(* Identity.                                                               *)

(* load_or_generate_at keeps the types. *)
LEMMA IdTyped ==
    ASSUME IdTypeOK, NEW p \in IdProc, IdStep(p) \/ Stop(p)
    PROVE  IdTypeOK'
<1> USE DEF IdTypeOK, To, Stages, Busy, Writing, Pem
<1>1. CASE Check(p)
  BY <1>1, Zenon DEF Check
<1>2. CASE ReadCrt(p) \/ ReadKey(p)
  BY <1>2 DEF ReadCrt, ReadKey
<1>3. CASE Generate(p)
  BY <1>3 DEF Generate
<1>4. CASE PutCrt(p) \/ CutKey(p) \/ PutKey(p)
  BY <1>4, Zenon DEF PutCrt, CutKey, PutKey
<1>5. CASE Stop(p)
  BY <1>5, Zenon DEF Stop, NoId
<1> QED
  BY <1>1, <1>2, <1>3, <1>4, <1>5, Zenon DEF IdStep

(* One process at a time, in load_or_generate_at or ending. *)
LEMMA IdInvStep ==
    ASSUME IdTypeOK, IdInv, NEW p \in IdProc, IdStep(p) \/ Stop(p)
    PROVE  IdInv'
<1> SUFFICES ASSUME ~interfered' PROVE Alone' /\ Paired' /\ \A q \in IdProc : PairOf(q)'
  BY Zenon DEF IdInv
<1>0. /\ ~interfered /\ Alone /\ Paired /\ \A q \in IdProc : PairOf(q)
      /\ \A q \in IdProc \ {p} : stage'[q] = stage[q] /\ id'[q] = id[q]
  BY Zenon DEF IdTypeOK, IdInv, IdStep, Check, ReadCrt, ReadKey, Generate, PutCrt, CutKey,
     PutKey, Stop, To
<1>1. CASE Check(p)
  <2>1. /\ stage[p] = "start" /\ UNCHANGED <<crt, key, id>>
        /\ \A q \in IdProc \ {p} : stage[q] \notin Writing
        /\ \/ stage'[p] = "crt_read" /\ key # Absent
           \/ /\ stage'[p] = "gen" /\ (crt = Absent \/ key = Absent)
              /\ \A q \in IdProc \ {p} : stage[q] \notin Busy
    BY <1>1, Zenon DEF Check, To, OthersWriting, OthersBusy, IdTypeOK
  <2>2. \A q \in IdProc : stage[q] # "key_cut"
    BY <2>1, Zenon DEF Writing
  <2>3. key # Absent => key \in Key /\ crt = key
    BY <1>0, <2>2, Zenon DEF Paired
  <2>4. stage'[p] = "gen" => key = Absent
    BY <2>1, <2>3, FileStates, Zenon
  <2>5. Alone'
    BY <1>0, <2>1, Zenon DEF Alone, Writing, Busy
  <2>6. \A q \in IdProc : PairOf(q)'
    BY <1>0, <2>1, <2>3, <2>4, Zenon DEF PairOf
  <2> QED
    BY <2>1, <2>3, <2>5, <2>6, Zenon DEF Paired
<1>2. CASE ReadCrt(p)
  <2>1. /\ stage[p] = "crt_read" /\ stage'[p] = "key_read" /\ UNCHANGED <<crt, key>>
        /\ id'[p].crt = crt
    BY <1>2, Zenon DEF ReadCrt, To, IdTypeOK
  <2>2. Alone' /\ Paired'
    BY <1>0, <2>1, ZenonT(60) DEF Alone, Paired, PairOf, Writing, Busy
  <2>3. \A q \in IdProc : PairOf(q)'
    BY <1>0, <2>1, ZenonT(60) DEF PairOf
  <2> QED
    BY <2>2, <2>3, Zenon
<1>3. CASE ReadKey(p)
  <2>1. /\ stage[p] = "key_read" /\ stage'[p] \in {"done", "failed"} /\ UNCHANGED <<crt, key>>
        /\ id'[p] = [crt |-> id[p].crt, key |-> key]
    BY <1>3, Zenon DEF ReadKey, To, IdTypeOK
  <2>2. Alone' /\ Paired'
    BY <1>0, <2>1, Zenon DEF Alone, Paired, PairOf, Writing, Busy
  <2>3. \A q \in IdProc : PairOf(q)'
    BY <1>0, <2>1, ZenonT(60) DEF PairOf
  <2> QED
    BY <2>2, <2>3
<1>4. CASE Generate(p)
  <2>1. /\ stage[p] = "gen" /\ stage'[p] = "crt_cut" /\ UNCHANGED key
        /\ id'[p].crt \in Key /\ id'[p].key = id'[p].crt
    BY <1>4 DEF Generate, To, IdTypeOK
  <2>2. key = Absent
    BY <1>0, <2>1, Zenon DEF PairOf
  <2>3. Alone' /\ Paired'
    BY <1>0, <2>1, <2>2, Zenon DEF Alone, Paired, Writing, Busy
  <2>4. \A q \in IdProc \ {p} : stage[q] \notin Busy /\ stage[q] # "done"
    BY <1>0, <2>1, <2>2, FileStates, Zenon DEF Alone, PairOf, Writing
  <2>5. \A q \in IdProc : PairOf(q)'
    BY <1>0, <2>1, <2>2, <2>4, FileStates DEF PairOf, Busy, Writing
  <2> QED
    BY <2>3, <2>5
<1>5. CASE PutCrt(p)
  <2>1. /\ stage[p] = "crt_cut" /\ stage'[p] = "crt_put" /\ UNCHANGED <<key, id>>
        /\ crt' = id[p].crt
    BY <1>5, Zenon DEF PutCrt, To, IdTypeOK
  <2>2. key = Absent
    BY <1>0, <2>1, Zenon DEF PairOf
  <2>3. Alone' /\ Paired'
    BY <1>0, <2>1, <2>2, Zenon DEF Alone, Paired, Writing, Busy
  <2>4. \A q \in IdProc \ {p} : stage[q] \notin Busy /\ stage[q] # "done"
    BY <1>0, <2>1, <2>2, FileStates, Zenon DEF Alone, PairOf, Writing
  <2>5. \A q \in IdProc : PairOf(q)'
    BY <1>0, <2>1, <2>2, <2>4, FileStates DEF PairOf, Busy, Writing
  <2> QED
    BY <2>3, <2>5
<1>6. CASE CutKey(p)
  <2>1. /\ stage[p] = "crt_put" /\ stage'[p] = "key_cut" /\ UNCHANGED <<crt, id>>
        /\ key' = Emptied /\ key = Absent
    BY <1>0, <1>6, Zenon DEF CutKey, To, IdTypeOK, PairOf
  <2>2. Alone' /\ Paired'
    BY <1>0, <2>1, Zenon DEF Alone, Paired, Writing, Busy
  <2>3. \A q \in IdProc \ {p} : stage[q] \notin Busy /\ stage[q] # "done"
    BY <1>0, <2>1, FileStates, Zenon DEF Alone, PairOf, Writing
  <2>4. \A q \in IdProc : PairOf(q)'
    BY <1>0, <2>1, <2>3, FileStates DEF PairOf, Busy, Writing
  <2> QED
    BY <2>2, <2>4
<1>7. CASE PutKey(p)
  <2>1. /\ stage[p] = "key_cut" /\ stage'[p] = "done" /\ UNCHANGED <<crt, id>>
        /\ key' = id[p].key /\ key \notin Key
        /\ id[p].crt \in Key /\ id[p].key = id[p].crt /\ crt = id[p].crt
    BY <1>0, <1>7, Zenon DEF PutKey, To, IdTypeOK, PairOf
  <2>2. id[p] = [crt |-> crt, key |-> key']
    BY <2>1, Zenon DEF IdTypeOK
  <2>3. Alone' /\ Paired'
    BY <1>0, <2>1, Zenon DEF Alone, Paired, Writing, Busy
  <2>4. \A q \in IdProc \ {p} : stage[q] \notin Busy /\ stage[q] # "done"
    BY <1>0, <2>1, Zenon DEF Alone, PairOf, Writing
  <2>5. \A q \in IdProc \ {p} : PairOf(q)'
    BY <1>0, <2>1, <2>4, Zenon DEF PairOf, Busy, Writing
  <2>6. PairOf(p)'
    BY <2>1, <2>2, Zenon DEF PairOf
  <2> QED
    BY <2>3, <2>5, <2>6, Zenon
<1>8. CASE Stop(p)
  <2>1. /\ stage[p] # "key_cut" /\ stage'[p] = "start" /\ UNCHANGED <<crt, key>>
    BY <1>8, Zenon DEF Stop, To, IdTypeOK
  <2>2. Alone' /\ Paired'
    BY <1>0, <2>1, Zenon DEF Alone, Paired, Writing, Busy
  <2>3. \A q \in IdProc : PairOf(q)'
    BY <1>0, <2>1, ZenonT(60) DEF PairOf
  <2> QED
    BY <2>2, <2>3
<1> QED
  BY <1>1, <1>2, <1>3, <1>4, <1>5, <1>6, <1>7, <1>8, Zenon DEF IdStep
-----------------------------------------------------------------------------
(* known_hosts and the mounts.                                             *)

(* The mounts keep the types. *)
LEMMA MountTyped ==
    ASSUME TypeOK, MountSide
    PROVE  TypeOK'
<1> USE TrustParameters DEF TypeOK, K!FileTypeOK, K!Entries, Goto, MountAt
<1>0. IdTypeOK'
  BY Zenon DEF MountSide, Start, Established, Accept, Saved, Handshake, Reconnect, Leave,
     idVars, IdTypeOK
<1>b. K!Blank \in K!Entries
  BY Zenon DEF K!Blank
<1>1. ASSUME NEW m \in Mount, NEW h \in Host, Start(m, h) PROVE TypeOK'
  BY <1>0, <1>1, Zenon DEF Start, K!Load
<1>2. ASSUME NEW m \in Mount, NEW k \in Key, Established(m, k) PROVE TypeOK'
  BY <1>0, <1>2, Zenon DEF Established, knownVars
<1>3. ASSUME NEW m \in Mount, Accept(m) PROVE TypeOK'
  <2>1. view' \in [Mount -> K!Entries]
    BY <1>3, Zenon DEF Accept, K!Cut
  <2> QED
    BY <1>0, <1>b, <1>3, <2>1, Zenon DEF Accept, K!Cut
<1>4. ASSUME NEW m \in Mount, Saved(m) PROVE TypeOK'
  <2>1. disk' \in K!Entries /\ kept' \in K!Entries
    BY <1>4 DEF Saved, K!Put, K!Over
  <2> QED
    BY <1>0, <1>4, <2>1, Zenon DEF Saved, K!Put
<1>5. ASSUME NEW m \in Mount, Handshake(m) \/ Reconnect(m) PROVE TypeOK'
  BY <1>0, <1>5, Zenon DEF Handshake, Reconnect, knownVars
<1>6. ASSUME NEW m \in Mount, Leave(m) PROVE TypeOK'
  BY <1>0, <1>b, <1>6, Zenon DEF Leave, K!Die
<1> QED
  BY <1>1, <1>2, <1>3, <1>4, <1>5, <1>6, Zenon DEF MountSide

(* A step of one mount leaves the others where they are. *)
Waits(n) ==
    /\ at'[n] = at[n] /\ host'[n] = host[n] /\ expected'[n] = expected[n] /\ peer'[n] = peer[n]
    /\ view'[n] = view[n] /\ (n \in mounted' <=> n \in mounted)

(* connect() starts: known_hosts is loaded. *)
LEMMA StartInv ==
    ASSUME TInv, NEW m \in Mount, NEW h \in Host, Start(m, h)
    PROVE  KnownInv' /\ \A n \in Mount : MountOk(n)'
<1>1. /\ at[m] = "off" /\ at'[m] = "establish" /\ host'[m] = h /\ view'[m] = disk
      /\ expected'[m] = disk[h] /\ stale' = stale \ {m} /\ (~spoiled' => ~spoiled /\ cutting = {})
      /\ UNCHANGED <<disk, cutting, kept, mounted>>
      /\ \A n \in Mount \ {m} : Waits(n)
  BY Zenon DEF Start, Goto, K!Load, TInv, TypeOK, K!FileTypeOK, Waits
<1>2. MountOk(m) /\ KnownInv /\ \A n \in Mount : MountOk(n)
  BY Zenon DEF TInv
<1>3. KnownInv'
  BY <1>1, <1>2, Zenon DEF KnownInv, Waits
<1>4. MountOk(m)'
  BY <1>1, <1>2, Zenon DEF MountOk, KnownInv
<1>5. \A n \in Mount \ {m} : MountOk(n)'
  BY <1>1, <1>2 DEF MountOk, Waits
<1> QED
  BY <1>3, <1>4, <1>5, Zenon

(* The first contact is accepted: the file is truncated. *)
LEMMA AcceptInv ==
    ASSUME TInv, NEW m \in Mount, Accept(m)
    PROVE  KnownInv' /\ \A n \in Mount : MountOk(n)'
<1>0. MountOk(m) /\ KnownInv /\ \A n \in Mount : MountOk(n)
  BY Zenon DEF TInv
<1>1. /\ at[m] = "decide" /\ at'[m] = "save" /\ host'[m] = host[m] /\ host[m] \in Host
      /\ view' = [view EXCEPT ![m][host[m]] = peer[m]]
      /\ peer'[m] = peer[m] /\ peer[m] # None /\ expected'[m] = expected[m]
      /\ disk' = K!Blank /\ cutting' = cutting \cup {m} /\ stale' = Mount \ {m}
      /\ (~spoiled' => ~spoiled /\ cutting = {} /\ m \notin stale)
      /\ UNCHANGED <<kept, mounted>>
  BY <1>0, TrustParameters, Zenon DEF Accept, Goto, K!Cut, TInv, TypeOK, MountOk
<1>2. /\ \A x \in Host : view'[m][x] = IF x = host[m] THEN peer[m] ELSE view[m][x]
      /\ \A n \in Mount \ {m} : Waits(n)
  BY <1>1, Zenon DEF Accept, Goto, TInv, TypeOK, K!FileTypeOK, K!Entries, Waits
<1>3. ~spoiled' => view[m] = kept /\ kept[host[m]] = None
  BY <1>0, <1>1, Zenon DEF KnownInv, MountOk
<1>4. KnownInv'
  BY <1>1, <1>2, <1>3, Zenon DEF KnownInv, Waits
<1>5. MountOk(m)'
  BY <1>0, <1>1, <1>2, Zenon DEF MountOk
<1>6. \A n \in Mount \ {m} : MountOk(n)'
  BY <1>0, <1>1, <1>2 DEF MountOk, Waits
<1> QED
  BY <1>4, <1>5, <1>6, Zenon

(* The file is written. *)
LEMMA SavedInv ==
    ASSUME TInv, NEW m \in Mount, Saved(m)
    PROVE  KnownInv' /\ \A n \in Mount : MountOk(n)'
<1>0. MountOk(m) /\ KnownInv /\ \A n \in Mount : MountOk(n)
  BY DEF TInv
<1>1. /\ at[m] = "save" /\ at'[m] = "hello" /\ m \in cutting /\ cutting' = cutting \ {m}
      /\ disk' \in {view[m], K!Over(view[m], disk)} /\ kept' = K!Over(view[m], kept)
      /\ host'[m] = host[m] /\ peer'[m] = peer[m] /\ expected'[m] = peer[m]
      /\ UNCHANGED <<view, stale, spoiled, mounted>>
      /\ \A n \in Mount \ {m} : Waits(n)
  BY Zenon DEF Saved, Goto, K!Put, TInv, TypeOK, Waits
<1>2. ~spoiled => disk' = view[m] /\ kept' = view[m]
  <2> SUFFICES ASSUME ~spoiled PROVE disk' = view[m] /\ kept' = view[m]
    BY Zenon
  <2>1. view[m] \in K!Entries /\ disk = K!Blank
    BY <1>0, <1>1, Zenon DEF KnownInv, TInv, TypeOK, K!FileTypeOK
  <2>2. K!Over(view[m], disk) = view[m]
    BY <2>1, Zenon DEF K!Over, K!Blank, K!Entries
  <2>3. K!Over(view[m], kept) = view[m]
    BY <1>0, <1>1, <2>1, Zenon DEF K!Over, K!Entries, KnownInv
  <2> QED
    BY <1>1, <2>2, <2>3, Zenon
<1>3. KnownInv'
  BY <1>0, <1>1, <1>2, Zenon DEF KnownInv, Waits
<1>4. MountOk(m)'
  BY <1>0, <1>1, <1>2, Zenon DEF MountOk
<1>5. \A n \in Mount \ {m} : MountOk(n)'
  <2> SUFFICES ASSUME NEW n \in Mount \ {m} PROVE MountOk(n)'
    BY Zenon
  <2>1. MountOk(n) /\ Waits(n)
    BY <1>0, <1>1, Zenon
  <2>2. ~spoiled /\ expected[n] # None => expected[n] = kept'[host[n]]
    <3> SUFFICES ASSUME ~spoiled, expected[n] # None PROVE expected[n] = kept'[host[n]]
      BY Zenon
    <3>1. host[n] \in Host /\ expected[n] = kept[host[n]]
      BY <2>1, Zenon DEF MountOk, TInv, TypeOK, MountAt
    <3> QED
      BY <1>0, <1>1, <1>2, <3>1, Zenon DEF KnownInv
  <2> QED
    BY <1>1, <2>1, <2>2, Zenon DEF MountOk, Waits
<1> QED
  BY <1>3, <1>4, <1>5

(* A mount gives up or dies. *)
LEMMA LeaveInv ==
    ASSUME TInv, NEW m \in Mount, Leave(m)
    PROVE  KnownInv' /\ \A n \in Mount : MountOk(n)'
<1>0. MountOk(m) /\ KnownInv /\ \A n \in Mount : MountOk(n)
  BY DEF TInv
<1>1. /\ at'[m] = "off" /\ expected'[m] = None /\ cutting' = cutting \ {m}
      /\ (~spoiled' => ~spoiled /\ m \notin cutting) /\ mounted' = mounted \ {m}
      /\ UNCHANGED <<disk, kept, stale>>
      /\ \A n \in Mount \ {m} : Waits(n)
  BY Zenon DEF Leave, Goto, K!Die, TInv, TypeOK, K!FileTypeOK, Waits
<1>2. cutting \subseteq Mount
  BY Zenon DEF TInv, TypeOK, K!FileTypeOK
<1>3. KnownInv'
  BY <1>0, <1>1, <1>2 DEF KnownInv, Waits
<1>4. MountOk(m)'
  BY <1>1, Zenon DEF MountOk
<1>5. \A n \in Mount \ {m} : MountOk(n)'
  BY <1>0, <1>1 DEF MountOk, Waits
<1> QED
  BY <1>3, <1>4, <1>5

(* The connection is established, approved, or lost. *)
LEMMA ConnectionInv ==
    ASSUME TInv, NEW m \in Mount,
           (\E k \in Key : Established(m, k)) \/ Handshake(m) \/ Reconnect(m)
    PROVE  KnownInv' /\ \A n \in Mount : MountOk(n)'
<1>0. MountOk(m) /\ KnownInv /\ \A n \in Mount : MountOk(n)
  BY Zenon DEF TInv
<1>1. /\ UNCHANGED <<disk, view, cutting, kept, stale, spoiled, host, expected>>
      /\ at[m] # "off" /\ at'[m] # "off" /\ at' \in [Mount -> MountAt]
      /\ \A n \in Mount \ {m} : Waits(n)
  BY Zenon DEF TInv, TypeOK, Established, Handshake, Reconnect, Goto, knownVars, Waits, MountAt
<1>2. KnownInv'
  BY <1>0, <1>1, ZenonT(60) DEF KnownInv, Waits
<1>3. \A n \in Mount \ {m} : MountOk(n)'
  BY <1>0, <1>1 DEF MountOk, Waits
<1>4. MountOk(m)'
  <2>1. ASSUME NEW k \in Key, Established(m, k) PROVE MountOk(m)'
    <3>1. /\ at[m] = "establish" /\ expected[m] \in {None, k} /\ peer'[m] = k /\ mounted' = mounted
          /\ at'[m] = IF m \notin mounted /\ expected[m] = None THEN "decide" ELSE "hello"
      BY <2>1, Zenon DEF Established, Goto, TInv, TypeOK
    <3> QED
      BY <1>0, <1>1, <3>1, TrustParameters, Zenon DEF MountOk
  <2>2. CASE Handshake(m)
    <3>1. at[m] = "hello" /\ at'[m] = "up" /\ mounted' = mounted \cup {m} /\ peer' = peer
      BY <2>2, Zenon DEF Handshake, Goto, TInv, TypeOK
    <3> QED
      BY <1>0, <1>1, <3>1, Zenon DEF MountOk
  <2>3. CASE Reconnect(m)
    <3>1. m \in mounted /\ at[m] \in {"up", "hello"} /\ at'[m] = "establish"
          /\ UNCHANGED <<mounted, peer>>
      BY <2>3, Zenon DEF Reconnect, Goto, TInv, TypeOK
    <3> QED
      BY <1>0, <1>1, <3>1, Zenon DEF MountOk
  <2> QED
    BY <2>1, <2>2, <2>3, Zenon
<1> QED
  BY <1>2, <1>3, <1>4
-----------------------------------------------------------------------------
(* The key the mounts meet is the one on the server's disk.                *)

(* A complete key file is not touched. *)
LEMMA KeyStays ==
    ASSUME TInv, ServerSide, ~interfered'
    PROVE  ~interfered /\ (key' = key \/ key \notin Key)
<1>1. PICK p \in IdProc : IdStep(p) \/ Stop(p)
  BY Zenon DEF ServerSide
<1>2. ~interfered
  BY <1>1, Zenon DEF IdStep, Check, ReadCrt, ReadKey, Generate, PutCrt, CutKey, PutKey, Stop
<1>3. PairOf(p)
  BY <1>2, Zenon DEF TInv, IdInv
<1>4. key' = key \/ stage[p] = "crt_put" \/ stage[p] = "key_cut"
  BY <1>1, Zenon DEF IdStep, Check, ReadCrt, ReadKey, Generate, PutCrt, CutKey, PutKey, Stop
<1> QED
  BY <1>2, <1>3, <1>4, FileStates, Zenon DEF PairOf

(* What the server presents is on its disk. *)
LEMMA ServesTheKey ==
    ASSUME TInv, ~interfered, NEW k \in Key, Serves(k)
    PROVE  key = k
<1>1. PairOf(Server) /\ stage[Server] = "done" /\ id[Server] = [crt |-> k, key |-> k]
  BY TrustParameters, Zenon DEF TInv, IdInv, Serves
<1> QED
  BY <1>1 DEF PairOf

(* What mounts do with the keys they meet. *)
LEMMA PinnedMount ==
    ASSUME TInv, MountSide, ~interfered, rotations = 0
    PROVE  Pinned'
<1> DEFINE Ours == {None, key}
<1> HIDE DEF Ours
<1>0. /\ \A n \in Mount : peer[n] \in Ours /\ expected[n] \in Ours
      /\ \A n \in Mount, h \in Host : view[n][h] \in Ours
      /\ \A h \in Host : disk[h] \in Ours
      /\ None \in Ours /\ key' = key
  BY Zenon DEF TInv, Pinned, Ours, MountSide, Start, Established, Accept, Saved, Handshake,
     Reconnect, Leave, idVars
<1> SUFFICES /\ \A n \in Mount : peer'[n] \in Ours /\ expected'[n] \in Ours
             /\ \A n \in Mount, h \in Host : view'[n][h] \in Ours
             /\ \A h \in Host : disk'[h] \in Ours
  BY <1>0, Zenon DEF Pinned, Ours
<1> USE <1>0
<1>t. /\ expected \in [Mount -> Key \cup {None}] /\ peer \in [Mount -> Key \cup {None}]
      /\ view \in [Mount -> K!Entries] /\ \A h \in Host : K!Blank[h] = None
  BY Zenon DEF TInv, TypeOK, K!FileTypeOK, K!Blank
<1>1. ASSUME NEW m \in Mount, NEW g \in Host, Start(m, g)
      PROVE  /\ \A n \in Mount : peer'[n] \in Ours /\ expected'[n] \in Ours
             /\ \A n \in Mount, h \in Host : view'[n][h] \in Ours
             /\ \A h \in Host : disk'[h] \in Ours
  BY <1>1, <1>t, Zenon DEF Start, K!Load
<1>2. ASSUME NEW m \in Mount, NEW k \in Key, Established(m, k)
      PROVE  /\ \A n \in Mount : peer'[n] \in Ours /\ expected'[n] \in Ours
             /\ UNCHANGED <<view, disk>>
  <2>1. k \in Ours
    BY <1>2, ServesTheKey, Zenon DEF Established, Ours
  <2> QED
    BY <1>2, <1>t, <2>1, Zenon DEF Established, knownVars
<1>3. ASSUME NEW m \in Mount, Accept(m)
      PROVE  /\ UNCHANGED <<peer, expected>>
             /\ \A n \in Mount, h \in Host : view'[n][h] \in Ours
             /\ \A h \in Host : disk'[h] \in Ours
  BY <1>3, <1>t, Zenon DEF Accept, K!Cut, K!Entries
<1>4. ASSUME NEW m \in Mount, Saved(m)
      PROVE  /\ \A n \in Mount : peer'[n] \in Ours /\ expected'[n] \in Ours
             /\ UNCHANGED view
             /\ \A h \in Host : disk'[h] \in Ours
  BY <1>4, <1>t, Zenon DEF Saved, K!Put, K!Over
<1>5. ASSUME NEW m \in Mount, Handshake(m) \/ Reconnect(m)
      PROVE  UNCHANGED <<peer, expected, view, disk>>
  BY <1>5, Zenon DEF Handshake, Reconnect, knownVars
<1>6. ASSUME NEW m \in Mount, Leave(m)
      PROVE  /\ \A n \in Mount : peer'[n] \in Ours /\ expected'[n] \in Ours
             /\ \A n \in Mount, h \in Host : view'[n][h] \in Ours
             /\ UNCHANGED disk
  BY <1>6, <1>t, Zenon DEF Leave, K!Die
<1> QED
  BY <1>1, <1>2, <1>3, <1>4, <1>5, <1>6, Zenon DEF MountSide

-----------------------------------------------------------------------------
(* The invariant is inductive. *)
LEMMA TInvStep == TInv /\ [Next]_vars => TInv'
<1> SUFFICES ASSUME TInv, [Next]_vars PROVE TInv'
  BY Zenon
<1>1. CASE UNCHANGED vars
  BY <1>1 DEF TInv, TypeOK, IdTypeOK, K!FileTypeOK, IdInv, Alone, Paired, PairOf, KnownInv, MountOk,
              Pinned, vars, idVars, knownVars, mountVars
<1>2. CASE ServerSide
  <2>1. UNCHANGED <<knownVars, mountVars, rotations>>
    BY <1>2, Zenon DEF ServerSide
  <2>2. PICK p \in IdProc : IdStep(p) \/ Stop(p)
    BY <1>2, Zenon DEF ServerSide
  <2>3. IdTypeOK' /\ IdInv'
    BY <2>2, IdTyped, IdInvStep, Zenon DEF TInv, TypeOK
  <2>4. starts' \in 0..MaxStarts
    BY <1>2, TrustParameters DEF ServerSide, TInv, TypeOK
  <2>5. TypeOK'
    BY <2>1, <2>3, <2>4, Zenon DEF TInv, TypeOK, K!FileTypeOK, knownVars, mountVars
  <2>6. KnownInv' /\ \A m \in Mount : MountOk(m)'
    BY <2>1 DEF TInv, KnownInv, MountOk, knownVars, mountVars
  <2>7. Pinned'
    <3> SUFFICES ASSUME ~interfered', rotations' = 0 PROVE Pinned'
      BY Zenon DEF Pinned
    <3>1. ~interfered /\ rotations = 0 /\ (key' = key \/ key \notin Key)
      BY <1>2, <2>1, KeyStays, Zenon
    <3> QED
      BY <2>1, <3>1 DEF TInv, TypeOK, K!FileTypeOK, K!Entries, Pinned, knownVars, mountVars
  <2> QED
    BY <2>3, <2>5, <2>6, <2>7, Zenon DEF TInv
<1>3. CASE Rotate
  <2>1. /\ \A p \in IdProc : stage[p] = "start"
        /\ crt' = Absent /\ key' = Absent /\ rotations' = rotations + 1 /\ rotations < MaxRotations
        /\ UNCHANGED <<stage, id, made, interfered, knownVars, mountVars, starts>>
    BY <1>3, Zenon DEF Rotate
  <2>2. TypeOK'
    BY <2>1, TrustParameters DEF TInv, TypeOK, IdTypeOK, Pem, K!FileTypeOK, knownVars, mountVars
  <2>3. IdInv'
    BY <2>1, Zenon DEF IdInv, Alone, Paired, PairOf, Writing
  <2>4. KnownInv' /\ \A m \in Mount : MountOk(m)'
    BY <2>1 DEF TInv, KnownInv, MountOk, knownVars, mountVars
  <2>5. Pinned'
    BY <2>1, TrustParameters DEF TInv, TypeOK, Pinned
  <2> QED
    BY <2>2, <2>3, <2>4, <2>5, Zenon DEF TInv
<1>4. CASE MountSide
  <2>1. UNCHANGED idVars /\ UNCHANGED rotations
    BY <1>4, Zenon DEF MountSide, Start, Established, Accept, Saved, Handshake, Reconnect, Leave
  <2>2. TypeOK'
    BY <1>4, MountTyped, Zenon DEF TInv
  <2>3. IdInv'
    BY <2>1, Zenon DEF TInv, IdInv, Alone, Paired, PairOf, idVars
  <2>4. KnownInv' /\ \A m \in Mount : MountOk(m)'
    BY <1>4, StartInv, AcceptInv, SavedInv, LeaveInv, ConnectionInv, Zenon DEF MountSide
  <2>5. Pinned'
    BY <1>4, <2>1, PinnedMount, Zenon DEF Pinned, idVars
  <2> QED
    BY <2>2, <2>3, <2>4, <2>5 DEF TInv
<1> QED
  BY <1>1, <1>2, <1>3, <1>4, Zenon DEF Next

(* The invariant holds throughout. *)
LEMMA TrustInvariance == Spec => []TInv
<1>1. Init => TInv
  <2> SUFFICES ASSUME Init PROVE TInv
    BY Zenon
  <2> USE TrustParameters DEF Init, IdInit, K!FileInit
  <2>1. TypeOK
    <3>1. IdTypeOK
      BY Zenon DEF IdTypeOK, Stages, Pem, NoId
    <3>2. K!FileTypeOK
      BY Zenon DEF K!FileTypeOK, K!Entries, K!Blank
    <3>3. starts \in 0..MaxStarts /\ rotations \in 0..MaxRotations
      OBVIOUS
    <3> QED
      BY <3>1, <3>2, <3>3, Zenon DEF TypeOK, MountAt
  <2>2. IdInv
    BY Zenon DEF IdInv, Alone, Paired, PairOf, Writing
  <2>3. KnownInv /\ \A m \in Mount : MountOk(m)
    BY Zenon DEF KnownInv, MountOk
  <2>4. Pinned
    BY Zenon DEF Pinned, K!Blank
  <2> QED
    BY <2>1, <2>2, <2>3, <2>4, Zenon DEF TInv
<1> QED
  BY <1>1, TInvStep, PTL DEF Spec

(* known_hosts keeps every pin, however mounts load, save and die, unless saves
   overlapped or were cut short (trust.rs, KnownHosts::save). *)
THEOREM PinsAreKept == Spec => []PinsKept
<1>1. TInv => PinsKept
  BY Zenon DEF TInv, KnownInv, PinsKept, K!EntriesKept
<1> QED
  BY <1>1, TrustInvariance, PTL

(* Mounts of one host agree on its key, the pinned one, under the same proviso
   (conn.rs, connect and decide_first_contact). *)
THEOREM MountsAgree == Spec => []OnePinPerHost
<1>1. TInv => OnePinPerHost
  BY TrustParameters, Zenon DEF TInv, TypeOK, MountOk, OnePinPerHost
<1> QED
  BY <1>1, TrustInvariance, PTL

(* "Keys are generated once and reused", through crashes and restarts, unless calls
   overlapped or one died with the key file empty (identity.rs, load_or_generate_at). *)
THEOREM IdentityIsReused == Spec => []IdentityReused
<1>1. TInv => IdentityReused
  BY Zenon DEF TInv, IdInv, PairOf, IdentityReused, GeneratedOnce
<1> QED
  BY <1>1, TrustInvariance, PTL

(* A restarted server is accepted by every mount and every pin (main.rs,
   load_or_generate at each start; conn.rs, expected_fp). *)
THEOREM RestartIsAccepted == Spec => []RestartKeepsPins
<1>1. TInv => RestartKeepsPins
  <2> SUFFICES ASSUME TInv, ~interfered, rotations = 0, NEW k \in Key, Serves(k)
               PROVE  /\ \A m \in mounted : expected[m] = k
                      /\ \A h \in Host : disk[h] \in {None, k}
    BY Zenon DEF RestartKeepsPins
  <2>1. key = k
    BY ServesTheKey, Zenon
  <2> QED
    BY <2>1, TrustParameters, ZenonT(60) DEF TInv, TypeOK, Pinned, MountOk
<1> QED
  BY <1>1, TrustInvariance, PTL

(* A mount never goes from one server key to another (conn.rs, reconnect enforces
   expected_fp). *)
THEOREM KeyIsForLife == Spec => KeyNeverChanges
<1>1. TInv /\ [Next]_vars => [\A m \in mounted \cap mounted' : peer'[m] = peer[m] /\ peer[m] # None]_vars
  <2> SUFFICES ASSUME TInv, Next, NEW m \in mounted \cap mounted'
               PROVE  peer'[m] = peer[m] /\ peer[m] # None
    BY Zenon
  <2>1. m \in Mount /\ MountOk(m) /\ peer[m] = expected[m] /\ expected[m] \in Key
    BY Zenon DEF TInv, TypeOK, MountOk
  <2>2. CASE ServerSide \/ Rotate
    BY <2>1, <2>2, TrustParameters, Zenon DEF ServerSide, Rotate, mountVars
  <2>3. CASE MountSide
    <3>1. ASSUME NEW n \in Mount, NEW k \in Key, Established(n, k) PROVE peer'[m] = peer[m]
      BY <2>1, <3>1, TrustParameters, Zenon DEF Established, TInv, TypeOK
    <3>2. ASSUME NEW n \in Mount, Leave(n) PROVE peer'[m] = peer[m]
      BY <2>1, <3>2, Zenon DEF Leave, TInv, TypeOK
    <3> QED
      BY <2>1, <2>3, <3>1, <3>2, TrustParameters, Zenon
         DEF MountSide, Start, Accept, Saved, Handshake, Reconnect
  <2> QED
    BY <2>2, <2>3, Zenon DEF Next
<1> QED
  BY <1>1, TrustInvariance, PTL DEF Spec, KeyNeverChanges
=============================================================================
