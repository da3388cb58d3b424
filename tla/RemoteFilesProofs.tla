------------------------- MODULE RemoteFilesProofs -------------------------
(***************************************************************************)
(* For any number of actors, handles, files, sessions and renames: a       *)
(* handle reopened by ensure_live is never taken for live on a connection  *)
(* it does not belong to; the composed system is an implementation of the  *)
(* handle tables, and an RPC finds the file its client handle was opened   *)
(* on, or none.                                                            *)
(***************************************************************************)
EXTENDS RemoteFiles, TLAPS

-----------------------------------------------------------------------------
(* The client's handle remapping on its own.                               *)

(* SomeFh is a handle. *)
LEMMA SomeFhType == SomeFh \in Fh
BY HasHandles, Zenon DEF SomeFh

(* Clearing the locals of a finished call keeps every variable in its type. *)
LEMMA FinishType ==
  ASSUME TypeOK, NEW a \in Actor, Finish(a)
  PROVE  TypeOK'
<1> USE DEF TypeOK, Finish, Goto
<1>1. pc' \in [Actor -> PcStates]
  BY Zenon DEF PcStates
<1>2. sess' \in [Actor -> Nat] /\ cur' \in [Actor -> Nat]
  BY Zenon
<1>3. call' \in [Actor -> {"ensure_live", "open", "other"}]
  BY Zenon
<1>4. afh' \in [Actor -> Fh]
  BY SomeFhType, Zenon
<1> QED
  BY <1>1, <1>2, <1>3, <1>4, Zenon

(* TypeOK is inductive on its own. *)
THEOREM TypeCorrect == Spec => []TypeOK
<1> USE ActorRoles, HasHandles
<1>1. Init => TypeOK
  BY SomeFhType DEF Init, ConnInit, RemapInit, TypeOK, PcStates, ConnPc, NoEntry
<1>2. TypeOK /\ [Next]_vars => TypeOK'
  <2> SUFFICES ASSUME TypeOK, [Next]_vars PROVE TypeOK'
    BY Zenon
  <2> USE DEF TypeOK, PcStates, ConnPc, connVars, remapVars, Goto
  <2>1. ASSUME NEW a \in Actor, NEW f \in Fh, EnsureLive(a, f) PROVE TypeOK'
    BY <2>1, Zenon DEF EnsureLive
  <2>2. ASSUME NEW a \in Actor, ReadEntry(a) PROVE TypeOK'
    BY <2>2, Zenon DEF ReadEntry, Registered, NoEntry
  <2>3. ASSUME NEW a \in Actor, OpenRpcOk(a) PROVE TypeOK'
    BY <2>3, Zenon DEF OpenRpcOk
  <2>4. ASSUME NEW a \in Actor, RpcEnd(a) PROVE TypeOK'
    <3>1. CASE call[a] = "other"
      BY <2>4, <3>1, FinishType, Zenon DEF RpcEnd
    <3>2. CASE call[a] # "other"
      BY <2>4, <3>2, Zenon DEF RpcEnd
    <3> QED
      BY <3>1, <3>2, Zenon
  <2>5. ASSUME NEW a \in Actor, Stamp(a) PROVE TypeOK'
    BY <2>5 DEF Stamp
  <2>6. ASSUME NEW a \in Actor, Return(a) PROVE TypeOK'
    BY <2>6, FinishType, Zenon DEF Return
  <2>7. ASSUME NEW a \in Actor, ConnStep(a) PROVE TypeOK'
    <3> USE <2>7 DEF ConnStep
    <3>1. CASE UseLiveConn(a, "rpc")
      BY <3>1, Zenon DEF UseLiveConn
    <3>2. CASE FindConnClosed(a)
      BY <3>2, Zenon DEF FindConnClosed
    <3>3. CASE DoConnect(a)
      BY <3>3 DEF DoConnect
    <3>4. CASE BumpGen(a, "rpc")
      BY <3>4 DEF BumpGen
    <3>5. CASE ReconnectDeadline(a, "none")
      BY <3>5, Zenon DEF ReconnectDeadline
    <3> QED
      BY <3>1, <3>2, <3>3, <3>4, <3>5, Zenon
  <2>8. CASE Open
    BY <2>8, Zenon DEF Open
  <2>9. ASSUME NEW f \in Fh, RegisterOpen(f) PROVE TypeOK'
    BY <2>9, Zenon DEF RegisterOpen
  <2>10. ASSUME NEW f \in Fh, Release(f) PROVE TypeOK'
    BY <2>10, Zenon DEF Release
  <2>11. ASSUME NEW s \in Session, ConnLost(s), UNCHANGED <<pc, remapVars>> PROVE TypeOK'
    BY <2>11 DEF ConnLost
  <2>12. ASSUME NEW a \in Actor, OtherRpc(a) PROVE TypeOK'
    BY <2>12, Zenon DEF OtherRpc
  <2>13. ASSUME NEW a \in Actor, ReopenTail(a) PROVE TypeOK'
    BY <2>13, Zenon DEF ReopenTail
  <2>14. CASE UNCHANGED vars
    BY <2>14, Zenon DEF vars
  <2> QED
    BY <2>1, <2>2, <2>3, <2>4, <2>5, <2>6, <2>7, <2>8, <2>9, <2>10, <2>11, <2>12, <2>13, <2>14,
       Zenon DEF Next, ActorStep
<1> QED
  BY <1>1, <1>2, PTL DEF Spec

-----------------------------------------------------------------------------
(* Every installed connection is counted in the generation or about to be: the
   actors that have one still to count are as many as the generations missing,
   which they can share out among them. *)
SharedOut(due, S, from, to) ==
    /\ due \in [S -> (from + 1)..to]
    /\ \A a, b \in S : due[a] = due[b] => a = b
    /\ \A g \in (from + 1)..to : \E a \in S : due[a] = g
Counted == gen <= conn /\ \E due : SharedOut(due, Bumping, gen, conn)

(* The generation an actor read on entering ensure_live is not above the
   session its reopen runs on, because the connection is looked up later. *)
ReadBefore ==
    \A a \in Actor :
        /\ cur[a] <= gen
        /\ pc[a] \in {"rpc", "bump_gen"} => sess[a] <= conn /\ cur[a] <= sess[a]
        /\ pc[a] \in {"stamp", "register"} => sh[a] <= conn /\ cur[a] <= sh[a]

(* The same of every entry a reopen has stored. *)
StampedBefore ==
    \A f \in Fh : Registered(f) =>
        /\ openFiles[f].sh <= conn
        /\ f \notin fromOpen => openFiles[f].gen <= openFiles[f].sh

RemapInv == Counted /\ ReadBefore /\ StampedBefore

(* The generation never runs ahead of the connections installed. *)
LEMMA GenAtMostConn ==
    ASSUME TypeOK, Counted
    PROVE  gen <= conn /\ (Bumping = {} => gen = conn)
<1>1. gen <= conn /\ \A g \in (gen + 1)..conn : \E a \in Bumping : TRUE
  BY Zenon DEF Counted, SharedOut
<1>2. gen # conn => gen + 1 \in (gen + 1)..conn
  BY <1>1 DEF TypeOK
<1> QED
  BY <1>1, <1>2, Zenon

(* A step that neither installs nor counts a connection leaves Counted alone. *)
LEMMA CountedStutter ==
    ASSUME Counted, conn' = conn, gen' = gen, Bumping' = Bumping
    PROVE  Counted'
BY Zenon DEF Counted, SharedOut

(* Installing a connection adds its actor to Bumping, for the next generation. *)
LEMMA CountedDoConnect ==
    ASSUME TypeOK, Counted, NEW a \in Actor, DoConnect(a)
    PROVE  Counted'
<1>1. Bumping' = Bumping \cup {a} /\ a \notin Bumping
  BY Zenon DEF Bumping, DoConnect, Goto, TypeOK
<1>2. conn' = conn + 1 /\ gen' = gen /\ gen <= conn /\ conn \in Nat /\ gen \in Nat
  BY Zenon DEF DoConnect, Counted, TypeOK
<1>3. PICK due : SharedOut(due, Bumping, gen, conn)
  BY Zenon DEF Counted
<1> DEFINE new == [b \in Bumping' |-> IF b = a THEN conn + 1 ELSE due[b]]
<1>4. /\ new \in [Bumping' -> (gen' + 1)..conn']
      /\ \A b, c \in Bumping' : new[b] = new[c] => b = c
  BY <1>1, <1>2, <1>3 DEF SharedOut
<1>5. ASSUME NEW g \in (gen' + 1)..conn' PROVE \E b \in Bumping' : new[b] = g
  <2>1. CASE g = conn + 1
    BY <1>1, <2>1, Zenon
  <2>2. CASE g # conn + 1
    <3>1. g \in (gen + 1)..conn
      BY <1>2, <2>2
    <3>2. PICK b \in Bumping : due[b] = g
      BY <1>3, <3>1, Zenon DEF SharedOut
    <3> QED
      BY <1>1, <3>2, Zenon
  <2> QED
    BY <2>1, <2>2, Zenon
<1>6. SharedOut(new, Bumping', gen', conn')
  BY <1>4, <1>5, Zenon DEF SharedOut
<1> QED
  BY <1>2, <1>6 DEF Counted

(* Counting one removes the actor again; if the generation was another's share,
   they swap. *)
LEMMA CountedBumpGen ==
    ASSUME TypeOK, Counted, NEW a \in Actor, BumpGen(a, "rpc")
    PROVE  Counted'
<1>1. Bumping' = Bumping \ {a} /\ a \in Bumping
  BY Zenon DEF Bumping, BumpGen, Goto, TypeOK
<1>2. conn' = conn /\ gen' = gen + 1 /\ conn \in Nat /\ gen \in Nat
  BY Zenon DEF BumpGen, TypeOK
<1>3. PICK due : SharedOut(due, Bumping, gen, conn)
  BY Zenon DEF Counted
<1>4. due[a] \in (gen + 1)..conn /\ gen + 1 <= conn
  BY <1>1, <1>2, <1>3 DEF SharedOut
<1> DEFINE new == [b \in Bumping' |-> IF due[b] = gen + 1 THEN due[a] ELSE due[b]]
<1>5. new \in [Bumping' -> (gen' + 1)..conn']
  BY <1>1, <1>2, <1>3, <1>4 DEF SharedOut
<1>6. ASSUME NEW b \in Bumping', NEW c \in Bumping', new[b] = new[c] PROVE b = c
  <2>1. /\ b \in Bumping \ {a} /\ c \in Bumping \ {a}
        /\ due[b] # due[a] /\ due[c] # due[a]
        /\ due[b] = due[c] => b = c
    BY <1>1, <1>3, Zenon DEF SharedOut
  <2> QED
    BY <1>1, <1>6, <2>1, Zenon
<1>7. ASSUME NEW g \in (gen' + 1)..conn' PROVE \E b \in Bumping' : new[b] = g
  <2>1. g \in (gen + 1)..conn /\ g # gen + 1
    BY <1>2
  <2>2. PICK b \in Bumping : due[b] = g
    BY <1>3, <2>1, Zenon DEF SharedOut
  <2>3. PICK c \in Bumping : due[c] = gen + 1
    BY <1>2, <1>3, <1>4 DEF SharedOut
  <2> QED
    BY <1>1, <2>1, <2>2, <2>3, Zenon
<1>8. SharedOut(new, Bumping', gen', conn')
  BY <1>5, <1>6, <1>7, Zenon DEF SharedOut
<1> QED
  BY <1>2, <1>4, <1>8, Zenon DEF Counted

(* The invariant behind NoStaleAsLive is inductive. *)
LEMMA RemapInvStep == TypeOK /\ TypeOK' /\ RemapInv /\ [Next]_vars => RemapInv'
<1> SUFFICES ASSUME TypeOK, TypeOK', RemapInv, [Next]_vars PROVE RemapInv'
  BY Zenon
<1> USE ActorRoles
<1>g. gen <= conn
  BY GenAtMostConn, Zenon DEF RemapInv
<1>s. ASSUME conn' = conn, gen' = gen, Bumping' = Bumping PROVE Counted'
  BY <1>s, CountedStutter, Zenon DEF RemapInv
<1> USE DEF TypeOK, RemapInv, ReadBefore, StampedBefore, connVars, remapVars, Goto
<1>1. ASSUME NEW a \in Actor, NEW f \in Fh, EnsureLive(a, f) PROVE RemapInv'
  <2>1. Counted'
    BY <1>1, <1>s, Zenon DEF EnsureLive, Bumping
  <2> QED
    BY <1>1, <2>1 DEF EnsureLive, Registered
<1>2. ASSUME NEW a \in Actor, ReadEntry(a) PROVE RemapInv'
  <2>1. Counted'
    BY <1>2, <1>s, Zenon DEF ReadEntry, Bumping
  <2> QED
    BY <1>2, <2>1 DEF ReadEntry, Registered
<1>3. ASSUME NEW a \in Actor, OpenRpcOk(a) PROVE RemapInv'
  <2>1. Counted'
    BY <1>3, <1>s, Zenon DEF OpenRpcOk, Bumping
  <2> QED
    BY <1>3, <2>1, Zenon DEF OpenRpcOk, Registered
<1>4. ASSUME NEW a \in Actor, RpcEnd(a) PROVE RemapInv'
  <2>1. Counted'
    BY <1>4, <1>s, ZenonT(60) DEF RpcEnd, Finish, Bumping
  <2>2. pc'[a] \in {"idle", "none"} /\ cur'[a] \in {0, cur[a]}
        /\ UNCHANGED <<conn, gen, openFiles, fromOpen, sh>>
    BY <1>4, ZenonT(60) DEF RpcEnd, Finish
  <2>3. \A b \in Actor \ {a} : pc'[b] = pc[b] /\ sess'[b] = sess[b] /\ cur'[b] = cur[b]
    BY <1>4, Zenon DEF RpcEnd, Finish
  <2>4. 0 <= gen
    OBVIOUS
  <2>5. ReadBefore'
    BY <2>2, <2>3, <2>4, Zenon
  <2> QED
    BY <2>1, <2>2, <2>5, Zenon DEF Registered
<1>5. ASSUME NEW a \in Actor, Stamp(a) PROVE RemapInv'
  <2>1. Counted'
    BY <1>5, <1>s, Zenon DEF Stamp, Bumping
  <2> QED
    <3>1. pc[a] = "stamp" /\ pc'[a] = "reopened" /\ UNCHANGED <<conn, gen, cur, sh, sess>>
          /\ \A b \in Actor \ {a} : pc'[b] = pc[b]
      BY <1>5, Zenon DEF Stamp
    <3>2. ReadBefore'
      BY <3>1, Zenon
    <3>3. fromOpen' \in {fromOpen, fromOpen \ {afh[a]}} /\ sh[a] <= conn /\ cur[a] <= sh[a]
      BY <1>5, <3>1, Zenon DEF Stamp
    <3>4. ASSUME NEW f \in Fh, Registered(f)'
          PROVE  openFiles'[f].sh <= conn' /\ (f \notin fromOpen' => openFiles'[f].gen <= openFiles'[f].sh)
      <4>1. CASE openFiles'[f] = openFiles[f] /\ (f \notin fromOpen' => f \notin fromOpen)
        BY <3>1, <3>4, <4>1, Zenon DEF Registered
      <4>2. CASE openFiles'[f] = [sh |-> sh[a], gen |-> cur[a]]
        <5>1. openFiles'[f].sh = sh[a] /\ openFiles'[f].gen = cur[a]
          BY <4>2
        <5> QED
          BY <3>1, <3>3, <5>1, Zenon
      <4> QED
        BY <1>5, <4>1, <4>2, Zenon DEF Stamp
    <3> QED
      BY <2>1, <3>2, <3>4, Zenon
<1>6. ASSUME NEW a \in Actor, Return(a) PROVE RemapInv'
  <2>1. Counted'
    BY <1>6, <1>s, Zenon DEF Return, Finish, Bumping
  <2> QED
    BY <1>6, <2>1 DEF Return, Finish, Registered
<1>7. ASSUME NEW a \in Actor, UNCHANGED remapVars, UseLiveConn(a, "rpc") PROVE RemapInv'
  <2>1. Counted'
    BY <1>7, <1>s, Zenon DEF UseLiveConn, Bumping
  <2> QED
    BY <1>7, <1>g, <2>1 DEF UseLiveConn, Registered
<1>8. ASSUME NEW a \in Actor, UNCHANGED remapVars,
             FindConnClosed(a) \/ ReconnectDeadline(a, "none") PROVE RemapInv'
  <2>1. Counted'
    BY <1>8, <1>s DEF FindConnClosed, ReconnectDeadline, Bumping
  <2> QED
    BY <1>8, <2>1 DEF FindConnClosed, ReconnectDeadline, Registered
<1>9. ASSUME NEW a \in Actor, UNCHANGED remapVars, DoConnect(a) PROVE RemapInv'
  <2>1. Counted'
    BY <1>9, CountedDoConnect, Zenon
  <2> QED
    BY <1>9, <1>g, <2>1 DEF DoConnect, Registered
<1>10. ASSUME NEW a \in Actor, UNCHANGED remapVars, BumpGen(a, "rpc") PROVE RemapInv'
  <2>1. Counted'
    BY <1>10, CountedBumpGen, Zenon
  <2> QED
    BY <1>10, <2>1 DEF BumpGen, Registered
<1>11. CASE Open
  <2>1. Counted'
    BY <1>11, <1>s, Zenon DEF Open, Bumping
  <2> QED
    BY <1>11, <2>1, Zenon DEF Open, Registered
<1>12. ASSUME NEW f \in Fh, RegisterOpen(f) PROVE RemapInv'
  <2>1. Counted'
    BY <1>12, <1>s, Zenon DEF RegisterOpen, Bumping
  <2> QED
    BY <1>12, <2>1, Zenon DEF RegisterOpen, Registered
<1>13. ASSUME NEW f \in Fh, Release(f) PROVE RemapInv'
  <2>1. Counted'
    BY <1>13, <1>s, Zenon DEF Release, Bumping
  <2> QED
    BY <1>13, <2>1, Zenon DEF Release, Registered
<1>14. ASSUME NEW s \in Session, ConnLost(s), UNCHANGED <<pc, remapVars>> PROVE RemapInv'
  <2>1. Counted'
    BY <1>14, <1>s, Zenon DEF ConnLost, Bumping
  <2> QED
    BY <1>14, <2>1, Zenon DEF ConnLost, Registered
<1>15. ASSUME NEW a \in Actor, OtherRpc(a) PROVE RemapInv'
  <2>1. Counted'
    BY <1>15, <1>s, Zenon DEF OtherRpc, Bumping
  <2> QED
    BY <1>15, <2>1 DEF OtherRpc, Registered
<1>16. ASSUME NEW a \in Actor, ReopenTail(a) PROVE RemapInv'
  <2>1. Counted'
    BY <1>16, <1>s, Zenon DEF ReopenTail, Bumping
  <2> QED
    BY <1>16, <2>1, Zenon DEF ReopenTail, Registered
<1>17. CASE UNCHANGED vars
  <2>1. Counted'
    BY <1>17, <1>s, Zenon DEF vars, Bumping
  <2> QED
    BY <1>17, <2>1, Zenon DEF vars, Registered
<1> QED
  BY <1>1, <1>2, <1>3, <1>4, <1>5, <1>6, <1>7, <1>8, <1>9, <1>10, <1>11, <1>12,
     <1>13, <1>14, <1>15, <1>16, <1>17, Zenon DEF Next, ActorStep, ConnStep

(* A reopened handle stamped with the current generation belongs to the current
   connection, whatever the interleaving of reconnects and reopens. *)
THEOREM ReopenNeverStaleAsLive == Spec => []NoStaleAsLive
<1>1. Init => RemapInv
  <2>1. Init => Bumping = {}
    BY Zenon DEF Init, Bumping
  <2> QED
    <3>1. ASSUME Init PROVE SharedOut(<<>>, Bumping, gen, conn)
      BY <2>1, <3>1 DEF Init, ConnInit, SharedOut
    <3> QED
      BY <3>1 DEF Init, ConnInit, RemapInit, RemapInv, Counted, ReadBefore, StampedBefore,
                  Registered
<1>2. TypeOK /\ RemapInv => NoStaleAsLive
  BY GenAtMostConn DEF RemapInv, StampedBefore, NoStaleAsLive, TypeOK, Registered
<1> QED
  BY <1>1, <1>2, RemapInvStep, TypeCorrect, PTL DEF Spec

-----------------------------------------------------------------------------
(* The handle tables on their own.                                         *)

(* Types without the handle limit, which plays no part here. *)
TTyped ==
    /\ past \subseteq T!Epoch /\ live \subseteq past
    /\ opens \in [T!Epoch -> 0..MaxOpens]
    /\ counter \in [T!Epoch -> T!Ids]
    /\ table \in [T!Epoch -> [T!Ids -> File \cup {NoFile}]]
    /\ given \subseteq [epoch : past, num : 1..MaxOpens, file : File]

TInv == TTyped /\ T!Provenance

(* Multiplication by the radix is monotone. *)
LEMMA TimesRadix == \A m, n \in Nat : m <= n => m * Radix <= n * Radix
BY TableParameters

(* An id whose number fits in the low half is not wrapped. *)
LEMMA IdPlain ==
    ASSUME NEW e \in T!Epoch, NEW n \in 0..(Radix - 1)
    PROVE  /\ T!Id(e, n) = e * Radix + n
           /\ T!Id(e, n) \in T!Ids
<1>1. e \in Nat /\ e + 1 \in Nat /\ e + 1 <= NEpoch /\ NEpoch \in Nat
  BY TableParameters DEF T!Epoch
<1>2. (e + 1) * Radix <= NEpoch * Radix
  BY <1>1, TimesRadix, Zenon
<1>3. (e + 1) * Radix = e * Radix + Radix /\ e * Radix \in Nat /\ NEpoch * Radix \in Nat
  BY <1>1, TableParameters
<1>4. e * Radix + n \in Nat /\ e * Radix + n < T!Space /\ T!Space \in Nat
  BY <1>2, <1>3, TableParameters DEF T!Space
<1>5. \A a, b \in Nat : a < b => a % b = a
  OBVIOUS
<1> QED
  BY <1>4, <1>5 DEF T!Id, T!Ids

(* Two ids are equal only if their epochs and their numbers are. *)
LEMMA IdInjective ==
    ASSUME NEW d \in T!Epoch, NEW e \in T!Epoch,
           NEW m \in 0..(Radix - 1), NEW n \in 0..(Radix - 1),
           T!Id(d, m) = T!Id(e, n)
    PROVE  d = e /\ m = n
<1>1. d \in Nat /\ e \in Nat /\ d + 1 \in Nat /\ e + 1 \in Nat
  BY TableParameters DEF T!Epoch
<1>2. d * Radix + m = e * Radix + n
  BY IdPlain, Zenon
<1>3. d * Radix \in Nat /\ e * Radix \in Nat
      /\ (d + 1) * Radix = d * Radix + Radix /\ (e + 1) * Radix = e * Radix + Radix
  BY <1>1, TableParameters
<1>4. ~(d < e)
  <2>1. SUFFICES ASSUME d < e PROVE FALSE
    BY Zenon
  <2>2. (d + 1) * Radix <= e * Radix
    BY <1>1, <2>1, TimesRadix
  <2> QED
    BY <1>2, <1>3, <2>2, TableParameters
<1>5. ~(e < d)
  <2>1. SUFFICES ASSUME e < d PROVE FALSE
    BY Zenon
  <2>2. (e + 1) * Radix <= d * Radix
    BY <1>1, <2>1, TimesRadix
  <2> QED
    BY <1>2, <1>3, <2>2, TableParameters
<1>6. d = e
  BY <1>1, <1>4, <1>5
<1> QED
  BY <1>2, <1>3, <1>6, TableParameters

(* The successor of a number's id is the id of its successor. *)
LEMMA IdNext ==
    ASSUME NEW e \in T!Epoch, NEW n \in 0..(Radix - 1)
    PROVE  (T!Id(e, n) + 1) % T!Space = T!Id(e, n + 1)
<1>1. T!Id(e, n) = e * Radix + n
  BY IdPlain, Zenon
<1>2. e * Radix \in Nat
  BY TableParameters DEF T!Epoch
<1>3. (e * Radix + n) + 1 = e * Radix + (n + 1)
  BY <1>2
<1> QED
  BY <1>1, <1>3, Zenon DEF T!Id

(* The smallest id is one. *)
LEMMA IdsHasZero == 0 \in T!Ids
<1>1. NEpoch >= 1 /\ NEpoch * Radix >= 1 * Radix
  BY TimesRadix, TableParameters
<1>2. NEpoch * Radix \in Int
  BY TableParameters
<1> QED
  BY <1>1, <1>2, TableParameters DEF T!Ids, T!Space

(* Every id that was handed out is one. *)
LEMMA IssuedInRange ==
    ASSUME MaxOpens < Radix, TTyped, NEW k \in given
    PROVE  /\ k.epoch \in T!Epoch /\ k.num \in 0..(Radix - 1) /\ k.file \in File
           /\ T!Id(k.epoch, k.num) \in T!Ids
<1>1. k.epoch \in T!Epoch /\ k.num \in 0..(Radix - 1) /\ k.file \in File
  BY TableParameters DEF TTyped
<1> QED
  BY <1>1, IdPlain, Zenon

(* The invariant holds of fresh sessions. *)
LEMMA InvInit == ASSUME MaxOpens < Radix, T!Init PROVE TInv
<1>1. \A e \in T!Epoch : T!Id(e, 1) \in T!Ids
  BY IdPlain, TableParameters
<1>2. TTyped
  BY <1>1, IdsHasZero, TableParameters DEF T!Init, TTyped, T!Empty
<1>3. \A e \in T!Epoch : T!Open(e) = {}
  BY Zenon DEF T!Init, T!Open, T!Empty
<1>4. \A e \in past : counter[e] = T!Id(e, opens[e] + 1)
  BY DEF T!Init
<1>5. T!Provenance
  BY <1>3, <1>4, Zenon DEF T!Init, T!Provenance
<1> QED
  BY <1>2, <1>5, Zenon DEF TInv

(* Every step of the server preserves the invariant. *)
LEMMA InvStep == ASSUME MaxOpens < Radix, TInv, [T!Next]_(T!vars) PROVE TInv'
<1> USE TableParameters DEF TInv
<1>1. CASE UNCHANGED T!vars
  BY <1>1 DEF T!vars, TTyped, T!Provenance, T!Open
<1>2. ASSUME NEW e \in T!Epoch, T!NewSession(e) PROVE TInv'
  <2>1. /\ e \notin past /\ past' = past \cup {e} /\ live' = live \cup {e}
        /\ counter' = [counter EXCEPT ![e] = T!Id(e, 1)]
        /\ opens' = [opens EXCEPT ![e] = 0]
        /\ table' = [table EXCEPT ![e] = T!Empty]
        /\ given' = given
    BY <1>2, Zenon DEF T!NewSession
  <2>2. T!Id(e, 1) \in T!Ids
    BY IdPlain
  <2>3. TTyped'
    BY <2>1, <2>2 DEF TTyped, T!Empty
  <2>4. \A d \in past' : counter'[d] = T!Id(d, opens'[d] + 1)
    BY <2>1 DEF TTyped, T!Provenance
  <2>5. \A k \in given' : k.num <= opens'[k.epoch]
    BY <2>1 DEF TTyped, T!Provenance
  <2>6. \A d \in T!Epoch : \A id \in T!Open(d)' : id \in T!Open(d) /\ table'[d][id] = table[d][id]
    BY <2>1, Zenon DEF T!Open, T!Empty, TTyped
  <2>7. T!Provenance'
    BY <2>1, <2>4, <2>5, <2>6 DEF T!Provenance
  <2> QED
    BY <2>3, <2>7, Zenon
<1>3. ASSUME NEW e \in T!Epoch, T!EndSession(e) PROVE TInv'
  <2>1. /\ past' = past /\ live' = live \ {e} /\ counter' = counter /\ opens' = opens
        /\ table' = [table EXCEPT ![e] = T!Empty] /\ given' = given
    BY <1>3, Zenon DEF T!EndSession
  <2>2. TTyped'
    BY <2>1, Zenon DEF TTyped, T!Empty
  <2>3. \A d \in T!Epoch : \A id \in T!Open(d)' : id \in T!Open(d) /\ table'[d][id] = table[d][id]
    BY <2>1, Zenon DEF T!Open, T!Empty, TTyped
  <2>4. T!Provenance'
    BY <2>1, <2>3 DEF T!Provenance
  <2> QED
    BY <2>2, <2>4
<1>4. ASSUME NEW e \in T!Epoch, NEW f \in File, T!Insert(e, f) PROVE TInv'
  <2> DEFINE new == [epoch |-> e, num |-> opens[e] + 1, file |-> f]
  <2>1. /\ e \in live /\ opens[e] < MaxOpens
        /\ table' = [table EXCEPT ![e][counter[e]] = f]
        /\ counter' = [counter EXCEPT ![e] = (@ + 1) % T!Space]
        /\ opens' = [opens EXCEPT ![e] = @ + 1]
        /\ given' = given \cup {new}
        /\ past' = past /\ live' = live
    BY <1>4, Zenon DEF T!Insert
  <2>2. e \in past /\ opens[e] \in Nat /\ opens[e] + 1 \in 0..(Radix - 1)
        /\ counter[e] = T!Id(e, opens[e] + 1)
    BY <2>1 DEF TTyped, T!Provenance
  <2>3. counter'[e] = T!Id(e, opens'[e] + 1)
    <3>1. (counter[e] + 1) % T!Space = T!Id(e, (opens[e] + 1) + 1)
      BY <2>2, IdNext, Zenon
    <3> QED
      BY <2>1, <3>1, Zenon DEF TTyped
  <2>4. TTyped'
    <3>1. T!Space \in Nat /\ T!Space > 0
      BY IdsHasZero DEF T!Ids, T!Space
    <3>2. (counter[e] + 1) % T!Space \in T!Ids
      BY <3>1 DEF TTyped, T!Ids
    <3>3. new \in [epoch : past, num : 1..MaxOpens, file : File]
      BY <2>1, <2>2
    <3>4. counter[e] \in T!Ids
      BY Zenon DEF TTyped
    <3> QED
      BY <2>1, <2>2, <3>2, <3>3, <3>4 DEF TTyped
  <2>5. \A d \in past' : counter'[d] = T!Id(d, opens'[d] + 1)
    BY <2>1, <2>3, ZenonT(60) DEF TTyped, T!Provenance
  <2>6. \A k \in given' : k.num <= opens'[k.epoch]
    BY <2>1, <2>2 DEF TTyped, T!Provenance
  <2>7. ASSUME NEW d \in T!Epoch, NEW id \in T!Open(d)'
        PROVE  \E k \in given' : k.epoch = d /\ T!Id(k.epoch, k.num) = id
                                   /\ k.file = table'[d][id]
    <3>1. id \in T!Ids /\ table'[d][id] # NoFile
      BY <2>7, Zenon DEF T!Open
    <3>2. CASE d = e /\ id = counter[e]
      <4>1. table'[d][id] = f
        BY <2>1, <3>1, <3>2, Zenon DEF TTyped
      <4>2. new \in given' /\ new.epoch = d /\ T!Id(new.epoch, new.num) = id /\ new.file = f
        BY <2>1, <2>2, <3>2, Zenon
      <4> QED
        BY <4>1, <4>2, Zenon
    <3>3. CASE ~(d = e /\ id = counter[e])
      <4>1. table'[d][id] = table[d][id]
        BY <2>1, <3>1, <3>3, Zenon DEF TTyped
      <4>2. id \in T!Open(d)
        BY <3>1, <4>1, Zenon DEF T!Open
      <4> QED
        BY <2>1, <4>1, <4>2 DEF T!Provenance
    <3> QED
      BY <3>2, <3>3, Zenon
  <2>8. \A k, l \in given' : k.epoch = l.epoch /\ k.num = l.num => k.file = l.file
    <3>1. \A k \in given : k.epoch = e => k.num # opens[e] + 1
      BY <2>2 DEF TTyped, T!Provenance
    <3> QED
      BY <2>1, <3>1 DEF T!Provenance
  <2> QED
    BY <2>4, <2>5, <2>6, <2>7, <2>8, Zenon DEF T!Provenance
<1>5. ASSUME NEW e \in T!Epoch, NEW k \in given, T!Remove(e, T!Id(k.epoch, k.num)) PROVE TInv'
  <2>1. /\ table' = [table EXCEPT ![e][T!Id(k.epoch, k.num)] = NoFile]
        /\ past' = past /\ live' = live /\ opens' = opens
        /\ counter' = counter /\ given' = given
    BY <1>5, Zenon DEF T!Remove
  <2>2. T!Id(k.epoch, k.num) \in T!Ids
    BY <1>5, IssuedInRange, Zenon
  <2>3. TTyped'
    BY <2>1, <2>2, Zenon DEF TTyped
  <2>4. \A d \in T!Epoch : \A id \in T!Open(d)' : id \in T!Open(d) /\ table'[d][id] = table[d][id]
    BY <2>1, <2>2, Zenon DEF T!Open, TTyped
  <2>5. T!Provenance'
    BY <2>1, <2>4 DEF T!Provenance
  <2> QED
    BY <2>3, <2>5, Zenon
<1> QED
  BY <1>1, <1>2, <1>3, <1>4, <1>5, Zenon DEF T!Next

(* The invariant gives the property: an entry found under the id was given by
   the session that is asked, under the same epoch and number, so it is the id's
   own. *)
LEMMA InvRightFile == ASSUME MaxOpens < Radix, TInv PROVE T!RightFile
<1>1. SUFFICES ASSUME NEW k \in given, NEW e \in T!Epoch,
                      table[e][T!Id(k.epoch, k.num)] # NoFile
               PROVE  table[e][T!Id(k.epoch, k.num)] = k.file
  BY Zenon DEF T!RightFile
<1>2. k.epoch \in T!Epoch /\ k.num \in 0..(Radix - 1) /\ T!Id(k.epoch, k.num) \in T!Open(e)
  BY <1>1, IssuedInRange, Zenon DEF TInv, T!Open
<1>3. PICK l \in given : /\ l.epoch = e /\ T!Id(l.epoch, l.num) = T!Id(k.epoch, k.num)
                          /\ l.file = table[e][T!Id(k.epoch, k.num)]
  BY <1>2 DEF TInv, T!Provenance
<1>4. l.epoch \in T!Epoch /\ l.num \in 0..(Radix - 1)
  BY IssuedInRange, Zenon DEF TInv
<1>5. l.epoch = k.epoch /\ l.num = k.num
  BY <1>2, <1>3, <1>4, IdInjective
<1> QED
  BY <1>1, <1>3, <1>5, Zenon DEF TInv, T!Provenance

(* A handle never reaches a file other than the one it was given for, over any
   number of sessions, provided none of them opens 2^32 files or more. *)
THEOREM StaleNeverWrong == ASSUME MaxOpens < Radix PROVE T!Spec => []T!RightFile
<1>1. T!Init => TInv
  BY InvInit, Zenon
<1>2. TInv /\ [T!Next]_(T!vars) => TInv'
  BY InvStep, Zenon
<1>3. TInv => T!RightFile
  BY InvRightFile, Zenon
<1> QED
  BY <1>1, <1>2, <1>3, PTL DEF T!Spec

-----------------------------------------------------------------------------
(* The fh-remap over the tables.                                           *)

(* The types the argument needs, next to those of HandleRemap. *)
RTyped ==
    /\ conn \in Session /\ sess \in [Actor -> Session]
    /\ epochOf \in [Session -> Epoch]
    /\ names \in [Path -> File] /\ moved \subseteq Fh
    /\ eid \in [Fh -> Ids] /\ file \in [Fh -> File \cup {NoFile}]
    /\ hid \in [Actor -> Ids] /\ hfh \in [Actor -> Fh \cup {NoFh}]

(* id was handed out for a file, and for f's own unless f's path moved on. *)
Held(id, f) ==
    \E k \in given : Id(k.epoch, k.num) = id /\ (f \notin moved => k.file = file[f])

(* The ids in open_files, and those actors hold, were handed out for their
   handles. *)
IdsHeld ==
    /\ \A f \in Fh : Registered(f) => f \in issued /\ Held(eid[f], f)
    /\ \A a \in Actor : hfh[a] # NoFh =>
          /\ Held(hid[a], hfh[a])
          /\ hfh[a] \in issued \/ (a = Fuse /\ pc[a] = "register" /\ hfh[a] = Opening)
    /\ rel => hfh[Fuse] # NoFh

(* A path still names the file its handle was opened on, unless it moved on. *)
NamesFile ==
    /\ \A f \in issued \ moved : names[PathOf[f]] = file[f]
    /\ pc[Fuse] = "register" /\ Opening \notin moved => names[PathOf[Opening]] = file[Opening]

(* Where an actor is in an open or a reopen, and for which handle. *)
InRpc(a) == pc[a] \in ConnPc \cup {"rpc"}
ControlOf(a) ==
    /\ call[a] = "open" => a = Fuse
    /\ pc[a] = "entry" => call[a] = "ensure_live"
    /\ InRpc(a) /\ call[a] = "open" => issued # Fh
    /\ pc[a] = "register" => a = Fuse /\ issued # Fh /\ hfh[a] = Opening
    /\ InRpc(a) /\ call[a] = "ensure_live" => afh[a] \in issued
    /\ pc[a] = "stamp" => afh[a] \in issued /\ hfh[a] = afh[a]
Control == \A a \in Actor : ControlOf(a)

RInv == RTyped /\ IdsHeld /\ NamesFile /\ Control /\ TInv

(* The tables use the same ids. *)
LEMMA SameIds == T!Epoch = Epoch /\ T!Ids = Ids /\ \A e, n : T!Id(e, n) = Id(e, n)
BY Zenon DEF T!Epoch, T!Ids, T!Id, T!Space, Epoch, Ids, Id, Space

(* The handle an open is about to get is a fresh one. *)
LEMMA OpeningFresh == ASSUME issued \subseteq Fh, issued # Fh PROVE Opening \in Fh \ issued
BY Zenon DEF Opening

(* The composed system only adds to the remap: its steps are remap steps. *)
LEMMA RemapStep == RemoteNext => Next \/ UNCHANGED vars
<1>1. ASSUME NEW a \in Actor,
             RemoteOpened(a) \/ RemoteOpenLost(a) \/ RemoteStamp(a) \/ RemoteReadEntry(a)
             \/ RemoteRpcEnd(a) \/ RemoteReturn(a)
      PROVE  Next
  BY <1>1, Zenon DEF RemoteOpened, RemoteOpenLost, RemoteStamp, RemoteReadEntry, RemoteRpcEnd,
              RemoteReturn, Next, ActorStep
<1>2. ASSUME NEW a \in Actor, RemoteOther(a) \/ RemoteConnect(a) PROVE Next
  BY <1>2, Zenon DEF RemoteOther, RemoteConnect, Next, ActorStep, ConnStep
<1>3. ASSUME NEW f \in Fh, RemoteRegister(f) \/ RemoteRelease(f) PROVE Next
  BY <1>3, Zenon DEF RemoteRegister, RemoteRelease, Next
<1>4. ASSUME RemoteOpen PROVE Next
  BY <1>4, Zenon DEF RemoteOpen, Next
<1>5. ASSUME NEW s \in Session, RemoteConnLost(s) \/ RemoteSessionEnds(s)
      PROVE  Next \/ UNCHANGED vars
  BY <1>5, Zenon DEF RemoteConnLost, RemoteSessionEnds, Next
<1>6. ASSUME NEW p \in Path, NEW g \in File, Rename(p, g) PROVE UNCHANGED vars
  BY <1>6, Zenon DEF Rename
<1> QED
  BY <1>1, <1>2, <1>3, <1>4, <1>5, <1>6, Zenon DEF RemoteNext

(* What handle_open enters in the table is a file, in a table of the server. *)
LEMMA OpensType ==
    ASSUME TypeOK, RInv, NEW a \in Actor, InRpc(a), call[a] # "other"
    PROVE  /\ epochOf[sess[a]] \in Epoch
           /\ OpensFor(a) \in Fh /\ Resolved(a) \in File
<1>1. epochOf[sess[a]] \in Epoch
  BY Zenon DEF RInv, RTyped
<1>2. OpensFor(a) \in Fh
  BY OpeningFresh, Zenon DEF OpensFor, TypeOK, RInv, Control, ControlOf
<1>3. PathOf[OpensFor(a)] \in Path
  BY <1>2, RemoteParameters, Zenon
<1> QED
  BY <1>1, <1>2, <1>3, Zenon DEF Resolved, RInv, RTyped

(* The server's side of a step is a step of the tables. *)
LEMMA TableStep == ASSUME TypeOK, RInv, RemoteNext PROVE T!Next \/ UNCHANGED tableVars
<1>1. ASSUME NEW a \in Actor, RemoteOpened(a) \/ RemoteOpenLost(a) PROVE T!Next
  <2>1. pc[a] = "rpc" /\ call[a] # "other" /\ T!Insert(epochOf[sess[a]], Resolved(a))
    BY <1>1, Zenon DEF RemoteOpened, RemoteOpenLost, OpenRpcOk, RpcEnd, ServerOpens
  <2>2. epochOf[sess[a]] \in Epoch /\ Resolved(a) \in File
    BY <2>1, OpensType, Zenon DEF InRpc
  <2> QED
    BY <2>1, <2>2, SameIds, Zenon DEF T!Next
<1>2. ASSUME NEW a \in Actor, RemoteRpcEnd(a) PROVE T!Next \/ UNCHANGED tableVars
  <2>1. CASE UNCHANGED tableVars
    BY <2>1, Zenon
  <2>2. CASE /\ a = Fuse /\ rel
             /\ T!Remove(epochOf[sess[a]], hid[a])
    <3>1. epochOf[sess[a]] \in Epoch
      BY Zenon DEF RInv, RTyped
    <3>2. \E k \in given : Id(k.epoch, k.num) = hid[a]
      BY <2>2, Zenon DEF RInv, IdsHeld, Held
    <3> QED
      BY <2>2, <3>1, <3>2, SameIds, Zenon DEF T!Next
  <2> QED
    BY <1>2, <2>1, <2>2, Zenon DEF RemoteRpcEnd
<1>3. ASSUME NEW a \in Actor, RemoteConnect(a) PROVE T!Next
  BY <1>3, SameIds, Zenon DEF RemoteConnect, T!Next
<1>4. ASSUME NEW s \in Session, RemoteSessionEnds(s) PROVE T!Next
  <2>1. epochOf[s] \in Epoch
    BY Zenon DEF RInv, RTyped
  <2> QED
    BY <1>4, <2>1, SameIds, Zenon DEF RemoteSessionEnds, T!Next
<1>5. ASSUME \/ RemoteOpen
             \/ \E a \in Actor : RemoteStamp(a) \/ RemoteReadEntry(a) \/ RemoteReturn(a)
                                 \/ RemoteOther(a)
             \/ \E f \in Fh : RemoteRegister(f) \/ RemoteRelease(f)
             \/ \E s \in Session : RemoteConnLost(s)
             \/ \E p \in Path : \E g \in File : Rename(p, g)
      PROVE  UNCHANGED tableVars
  BY <1>5, Zenon DEF RemoteOpen, RemoteStamp, RemoteReadEntry, RemoteReturn, RemoteOther,
     RemoteRegister, RemoteRelease, RemoteConnLost, Rename
<1> QED
  BY <1>1, <1>2, <1>3, <1>4, <1>5, Zenon DEF RemoteNext

(* The tables' invariant is preserved, and no id is forgotten. *)
LEMMA TableInv ==
    ASSUME MaxOpens < Radix, TypeOK, RInv, RemoteNext
    PROVE  TInv' /\ given \subseteq given'
<1>1. T!Next \/ UNCHANGED T!vars
  BY TableStep, Zenon DEF T!vars, tableVars
<1>2. TInv'
  BY <1>1, InvStep, Zenon DEF RInv
<1>3. given \subseteq given'
  BY <1>1, Zenon DEF T!Next, T!NewSession, T!EndSession, T!Insert, T!Remove, T!vars
<1> QED
  BY <1>2, <1>3, Zenon

(* The id an open hands out is on record for the file that was opened. *)
LEMMA NewId ==
    ASSUME RInv, NEW e \in Epoch, NEW g, T!Insert(e, g)
    PROVE  /\ counter[e] \in Ids
           /\ \E k \in given' : Id(k.epoch, k.num) = counter[e] /\ k.file = g
<1> DEFINE new == [epoch |-> e, num |-> opens[e] + 1, file |-> g]
<1>1. e \in live /\ new \in given'
  BY Zenon DEF T!Insert
<1>2. counter[e] = Id(e, opens[e] + 1) /\ counter[e] \in Ids
  BY <1>1, SameIds, Zenon DEF RInv, TInv, TTyped, T!Provenance
<1>3. Id(new.epoch, new.num) = counter[e] /\ new.file = g
  BY <1>2, Zenon
<1> QED
  BY <1>1, <1>2, <1>3, Zenon

(* A step that hands no id around. *)
LEMMA Frame ==
    ASSUME RInv, given \subseteq given',
           UNCHANGED <<eid, hid, hfh, rel, file, names, moved, openFiles, issued>>,
           pc'[Fuse] = "register" <=> pc[Fuse] = "register"
    PROVE  IdsHeld' /\ NamesFile'
<1>1. Opening' = Opening /\ \A f : Registered(f)' <=> Registered(f)
  BY Zenon DEF Opening, Registered
<1>2. \A f, id : Held(id, f) => Held(id, f)'
  BY Zenon DEF Held
<1>3. IdsHeld'
  BY <1>1, <1>2, Zenon DEF RInv, IdsHeld
<1>4. NamesFile'
  BY <1>1, Zenon DEF RInv, NamesFile
<1> QED
  BY <1>3, <1>4, Zenon

(* A step of one actor leaves the others where they are. *)
Waits(b) == pc'[b] = pc[b] /\ call'[b] = call[b] /\ afh'[b] = afh[b] /\ hfh'[b] = hfh[b]
LEMMA FrameControl ==
    ASSUME RInv, NEW a \in Actor, \A b \in Actor \ {a} : Waits(b), issued' = issued,
           ControlOf(a)'
    PROVE  Control'
<1>1. ASSUME NEW b \in Actor \ {a} PROVE ControlOf(b)'
  <2>1. ControlOf(b) /\ Waits(b)
    BY Zenon DEF RInv, Control
  <2> QED
    BY <2>1, Zenon DEF ControlOf, Waits, InRpc, Opening
<1> QED
  BY <1>1, Zenon DEF Control

LEMMA FrameNames ==
    ASSUME RInv, NEW a \in Actor, \A b \in Actor \ {a} : Waits(b), pc'[a] # "register",
           UNCHANGED <<names, file, moved, issued>>
    PROVE  NamesFile'
<1>1. pc'[Fuse] = "register" => pc[Fuse] = "register"
  <2>1. CASE a = Fuse
    BY <2>1, Zenon
  <2>2. CASE a # Fuse
    BY <2>2, ActorRoles, Zenon DEF Waits
  <2> QED
    BY <2>1, <2>2, Zenon
<1> QED
  BY <1>1 DEF RInv, NamesFile, Opening

(* The invariant holds at the start. *)
LEMMA RInvInit == ASSUME MaxOpens < Radix, RemoteInit PROVE RInv
<1> USE RemoteParameters, ActorRoles, SessionBound DEF RemoteInit, Init, ConnInit, RemapInit
<1>1. TInv
  BY InvInit, Zenon
<1>2. 0 \in Ids /\ 0 \in Epoch /\ 0 \in Session
  <2>1. 0 \in Ids
    BY IdsHasZero, SameIds, Zenon
  <2> QED
    BY <2>1, TableParameters DEF Epoch, Session
<1>3. RTyped
  BY <1>2, Zenon DEF RTyped
<1>4. IdsHeld
  BY Zenon DEF IdsHeld, Registered
<1>5. NamesFile
  BY Zenon DEF NamesFile
<1>6. Control
  BY Zenon DEF Control, ControlOf, InRpc, ConnPc
<1> QED
  BY <1>1, <1>3, <1>4, <1>5, <1>6, Zenon DEF RInv

(* An open or a reopen hands an id to the actor. *)
LEMMA OpenedInv ==
    ASSUME MaxOpens < Radix, TypeOK, TypeOK', RInv, given \subseteq given',
           NEW a \in Actor, RemoteOpened(a)
    PROVE  RTyped' /\ IdsHeld' /\ NamesFile' /\ Control'
<1> DEFINE HeldN(id, g) ==
               \E k \in given' : Id(k.epoch, k.num) = id /\ (g \notin moved' => k.file = file'[g])
<1> HIDE DEF HeldN
<1>0. pc[a] = "rpc" /\ call[a] # "other" /\ InRpc(a)
  BY Zenon DEF RemoteOpened, OpenRpcOk, InRpc
<1>e. PICK e \in Epoch : e = epochOf[sess[a]]
  BY <1>0, OpensType, Zenon
<1>f. PICK f \in Fh : f = OpensFor(a)
  BY <1>0, OpensType, Zenon
<1>1. /\ pc[a] = "rpc" /\ call[a] # "other" /\ InRpc(a)
      /\ pc' = [pc EXCEPT ![a] = IF call[a] = "open" THEN "register" ELSE "stamp"]
      /\ T!Insert(e, Resolved(a))
      /\ hid' = [hid EXCEPT ![a] = counter[e]] /\ hfh' = [hfh EXCEPT ![a] = f]
      /\ UNCHANGED <<conn, dead, gen, sess, openFiles, issued, cur, afh, call>>
      /\ UNCHANGED <<epochOf, names, eid, rel>>
  BY <1>0, <1>e, <1>f, Zenon DEF RemoteOpened, OpenRpcOk, ServerOpens, Goto, connVars, nameVars
<1>2. Resolved(a) \in File /\ Resolved(a) = names[PathOf[f]]
  BY <1>0, <1>f, OpensType, Zenon DEF Resolved
<1>3. PICK k \in given' : Id(k.epoch, k.num) = counter[e] /\ k.file = Resolved(a)
  BY <1>1, NewId, ZenonT(60)
<1>4. counter[e] \in Ids
  BY <1>1, NewId, Zenon
<1>5. Opening' = Opening /\ \A g : Registered(g)' <=> Registered(g)
  BY <1>1, Zenon DEF Opening, Registered
<1>6. CASE call[a] = "open"
  <2>1. a = Fuse /\ f = Opening /\ issued # Fh /\ f \in Fh \ issued
    BY <1>1, <1>6, <1>f, OpeningFresh, Zenon DEF OpensFor, RInv, Control, ControlOf, TypeOK
  <2>2. file' = [file EXCEPT ![f] = Resolved(a)] /\ moved' = moved \ {f}
    BY <1>6, <2>1, Zenon DEF RemoteOpened
  <2>3. RTyped'
    BY <1>1, <1>2, <1>4, <2>2, Zenon DEF RInv, RTyped
  <2>4. HeldN(hid'[a], f) /\ hfh'[a] = f
    BY <1>1, <1>3, <2>2, Zenon DEF Held, HeldN, RInv, RTyped
  <2>5. \A g \in issued : \A id : Held(id, g) => HeldN(id, g)
    BY <2>1, <2>2 DEF Held, HeldN, RInv, RTyped
  <2>6. \A b \in Actor \ {a} : hfh'[b] = hfh[b] /\ hid'[b] = hid[b]
                               /\ (hfh[b] # NoFh => hfh[b] \in issued)
    BY <1>1, <2>1, Zenon DEF RInv, RTyped, IdsHeld
  <2>7. IdsHeld'
    <3>1. pc'[a] = "register"
      BY <1>1, <1>6, Zenon DEF TypeOK
    <3>2. \A g \in Fh : Registered(g)' => g \in issued' /\ HeldN(eid'[g], g)
      BY <1>1, <1>5, <2>5, Zenon DEF RInv, IdsHeld
    <3>3. ASSUME NEW b \in Actor, hfh'[b] # NoFh
          PROVE  /\ HeldN(hid'[b], hfh'[b])
                 /\ hfh'[b] \in issued' \/ (b = Fuse /\ pc'[b] = "register" /\ hfh'[b] = Opening')
      <4>1. CASE b = a
        BY <1>5, <2>1, <2>4, <3>1, <4>1, Zenon
      <4>2. CASE b # a
        <5>1. hfh[b] \in issued /\ Held(hid[b], hfh[b])
          BY <2>6, <3>3, <4>2, Zenon DEF RInv, IdsHeld
        <5>2. HeldN(hid'[b], hfh'[b])
          BY <2>5, <2>6, <4>2, <5>1, Zenon
        <5> QED
          BY <1>1, <2>6, <4>2, <5>1, <5>2
      <4> QED
        BY <4>1, <4>2, Zenon
    <3>4. rel' => hfh'[Fuse] # NoFh
      BY <1>2, <2>1, <2>4, RemoteParameters, ZenonT(60)
    <3> QED
      BY <3>2, <3>3, <3>4, Zenon DEF IdsHeld, Held, HeldN
  <2>8. NamesFile'
    BY <1>1, <1>2, <1>5, <2>1, <2>2 DEF RInv, NamesFile, RTyped
  <2>9. Control'
    <3>1. /\ pc'[a] = "register" /\ call'[a] = call[a]
          /\ \A b \in Actor \ {a} : Waits(b)
      BY <1>1, <1>6, Zenon DEF RInv, TypeOK, RTyped, Waits
    <3>2. ControlOf(a)'
      BY <1>1, <1>5, <1>6, <2>1, <2>4, <3>1, Zenon DEF ControlOf, InRpc, ConnPc
    <3> QED
      BY <1>1, <3>1, <3>2, FrameControl, Zenon
  <2> QED
    BY <2>3, <2>7, <2>8, <2>9, Zenon
<1>7. CASE call[a] = "ensure_live"
  <2>1. f = afh[a] /\ f \in issued /\ pc[a] # "register"
    BY <1>1, <1>7, <1>f, Zenon DEF OpensFor, RInv, Control, ControlOf
  <2>2. file' = file /\ moved' = moved
    BY <1>7, Zenon DEF RemoteOpened
  <2>3. RTyped'
    BY <1>1, <1>2, <1>4, <2>2, Zenon DEF RInv, RTyped
  <2>4. HeldN(hid'[a], f) /\ hfh'[a] = f
    <3>1. f \notin moved => Resolved(a) = file[f]
      BY <1>2, <2>1, Zenon DEF RInv, NamesFile
    <3> QED
      BY <1>1, <1>3, <2>2, <3>1, Zenon DEF Held, HeldN, RInv, RTyped
  <2>5. \A g, id : Held(id, g) => HeldN(id, g)
    BY <2>2, Zenon DEF Held, HeldN
  <2>6. \A b \in Actor \ {a} : hfh'[b] = hfh[b] /\ hid'[b] = hid[b] /\ pc'[b] = pc[b]
    BY <1>1, Zenon DEF RInv, RTyped, TypeOK
  <2>7. IdsHeld'
    <3>1. \A g \in Fh : Registered(g)' => g \in issued' /\ HeldN(eid'[g], g)
      BY <1>1, <1>5, <2>5, Zenon DEF RInv, IdsHeld
    <3>2. ASSUME NEW b \in Actor, hfh'[b] # NoFh
          PROVE  /\ HeldN(hid'[b], hfh'[b])
                 /\ hfh'[b] \in issued' \/ (b = Fuse /\ pc'[b] = "register" /\ hfh'[b] = Opening')
      <4>1. CASE b = a
        <5>1. issued' = issued
          BY <1>1, Zenon
        <5> QED
          BY <2>1, <2>4, <4>1, <5>1, Zenon
      <4>2. CASE b # a
        <5>1. HeldN(hid'[b], hfh'[b])
          BY <2>5, <2>6, <3>2, <4>2, Zenon DEF RInv, IdsHeld
        <5>2. issued' = issued
          BY <1>1, Zenon
        <5> QED
          BY <1>5, <2>6, <3>2, <4>2, <5>1, <5>2, Zenon DEF RInv, IdsHeld
      <4> QED
        BY <4>1, <4>2
    <3>3. rel' => hfh'[Fuse] # NoFh
      BY <1>1, <1>2, RemoteParameters, ActorRoles, ZenonT(60) DEF RInv, RTyped, IdsHeld
    <3> QED
      BY <3>1, <3>2, <3>3 DEF IdsHeld, Held, HeldN
  <2>8. NamesFile'
    BY <1>1, <1>5, <1>7, <2>2 DEF RInv, NamesFile, TypeOK
  <2>9. Control'
    <3>1. /\ pc'[a] = "stamp" /\ call'[a] = call[a] /\ afh'[a] = afh[a]
          /\ \A b \in Actor \ {a} : Waits(b)
      BY <1>1, <1>7, <2>6, Zenon DEF TypeOK, Waits
    <3>2. ControlOf(a)'
      BY <1>1, <1>7, <2>1, <2>4, <3>1, Zenon DEF ControlOf, InRpc, ConnPc
    <3> QED
      BY <1>1, <3>1, <3>2, FrameControl, Zenon
  <2> QED
    BY <2>3, <2>7, <2>8, <2>9
<1> QED
  BY <1>1, <1>6, <1>7, Zenon DEF TypeOK

(* The steps that hand no id around preserve the invariant. *)
LEMMA QuietInv ==
    ASSUME TypeOK, TypeOK', RInv, given \subseteq given',
           \/ RemoteOpen
           \/ \E a \in Actor : RemoteOpenLost(a) \/ RemoteOther(a) \/ RemoteConnect(a)
           \/ \E s \in Session : RemoteConnLost(s) \/ RemoteSessionEnds(s)
    PROVE  RTyped' /\ IdsHeld' /\ NamesFile' /\ Control'
<1> USE ActorRoles DEF RInv
<1>1. CASE RemoteOpen
  <2>1. /\ pc[Fuse] = "idle" /\ issued # Fh
        /\ pc' = [pc EXCEPT ![Fuse] = "ensure_conn"] /\ call' = [call EXCEPT ![Fuse] = "open"]
        /\ UNCHANGED <<conn, sess, openFiles, issued, afh>>
        /\ UNCHANGED <<epochOf, names, eid, hid, hfh, rel, file, moved>>
    BY <1>1, Zenon DEF RemoteOpen, Open, Goto, connVars, holdVars, nameVars
  <2>2. IdsHeld' /\ NamesFile'
    BY <2>1, Frame, Zenon DEF TypeOK
  <2>3. RTyped'
    BY <2>1, Zenon DEF RTyped
  <2>4. pc'[Fuse] = "ensure_conn" /\ call'[Fuse] = "open" /\ \A b \in Actor \ {Fuse} : Waits(b)
    BY <2>1, Zenon DEF Waits, TypeOK
  <2>5. ControlOf(Fuse)'
    BY <2>1, <2>4, Zenon DEF Control, ControlOf, InRpc, ConnPc, Opening
  <2> QED
    BY <2>1, <2>2, <2>3, <2>4, <2>5, FrameControl, Zenon
<1>2. ASSUME NEW a \in Actor, RemoteOpenLost(a)
      PROVE  RTyped' /\ IdsHeld' /\ NamesFile' /\ Control'
  <2>1. /\ pc[a] = "rpc" /\ pc' = [pc EXCEPT ![a] = "none"]
        /\ UNCHANGED <<conn, sess, openFiles, issued, afh, call>>
        /\ UNCHANGED <<epochOf, names, eid, hid, hfh, rel, file, moved>>
    BY <1>2, Zenon DEF RemoteOpenLost, RpcEnd, Goto, connVars, remapVars, holdVars, nameVars
  <2>2. IdsHeld' /\ NamesFile'
    BY <2>1, Frame, Zenon DEF TypeOK
  <2>3. RTyped'
    BY <2>1, Zenon DEF RTyped
  <2>4. pc'[a] = "none" /\ call'[a] = call[a] /\ \A b \in Actor \ {a} : Waits(b)
    BY <2>1, Zenon DEF Waits, TypeOK
  <2>5. ControlOf(a)'
    BY <2>1, <2>4, Zenon DEF Control, ControlOf, InRpc, ConnPc, Opening
  <2> QED
    BY <2>1, <2>2, <2>3, <2>4, <2>5, FrameControl, Zenon
<1>3. ASSUME NEW a \in Actor, RemoteOther(a)
      PROVE  RTyped' /\ IdsHeld' /\ NamesFile' /\ Control'
  <2>0. UNCHANGED <<epochOf, names, eid, hid, hfh, rel, file, moved>>
    BY <1>3, Zenon DEF RemoteOther, holdVars, nameVars
  <2>1. ASSUME NEW f \in Fh, EnsureLive(a, f)
        PROVE  RTyped' /\ IdsHeld' /\ NamesFile' /\ Control'
    <3>1. /\ pc[a] = "idle" /\ pc' = [pc EXCEPT ![a] = "entry"]
          /\ afh' = [afh EXCEPT ![a] = f] /\ call' = [call EXCEPT ![a] = "ensure_live"]
          /\ UNCHANGED <<conn, sess, openFiles, issued>>
      BY <2>1, Zenon DEF EnsureLive, Goto, connVars
    <3>2. IdsHeld' /\ NamesFile'
      BY <2>0, <3>1, Frame, Zenon DEF TypeOK
    <3>3. RTyped'
      BY <2>0, <3>1, Zenon DEF RTyped
    <3>4. pc'[a] = "entry" /\ call'[a] = "ensure_live" /\ \A b \in Actor \ {a} : Waits(b)
      BY <2>0, <3>1, Zenon DEF Waits, TypeOK
    <3>5. ControlOf(a)'
      BY <2>0, <3>1, <3>4, Zenon DEF Control, ControlOf, InRpc, ConnPc, Opening
    <3> QED
      BY <2>0, <3>1, <3>2, <3>3, <3>4, <3>5, FrameControl, Zenon
  <2>2. CASE OtherRpc(a)
    <3>1. /\ pc[a] \in {"idle", "live"} /\ pc' = [pc EXCEPT ![a] = "ensure_conn"]
          /\ call' = [call EXCEPT ![a] = "other"]
          /\ UNCHANGED <<conn, sess, openFiles, issued, afh>>
      BY <2>2, Zenon DEF OtherRpc, Goto, connVars
    <3>2. IdsHeld' /\ NamesFile'
      BY <2>0, <3>1, Frame, Zenon DEF TypeOK
    <3>3. RTyped'
      BY <2>0, <3>1, Zenon DEF RTyped
    <3>4. pc'[a] = "ensure_conn" /\ call'[a] = "other" /\ \A b \in Actor \ {a} : Waits(b)
      BY <2>0, <3>1, Zenon DEF Waits, TypeOK
    <3>5. ControlOf(a)'
      BY <2>0, <3>1, <3>4, Zenon DEF Control, ControlOf, InRpc, ConnPc, Opening
    <3> QED
      BY <2>0, <3>1, <3>2, <3>3, <3>4, <3>5, FrameControl, Zenon
  <2>3. CASE ReopenTail(a)
    <3>1. /\ pc[a] = "reopened" /\ pc' = [pc EXCEPT ![a] = "live"]
          /\ UNCHANGED <<conn, sess, openFiles, issued, afh, call>>
      BY <2>3, Zenon DEF ReopenTail, Goto, connVars, remapVars
    <3>2. IdsHeld' /\ NamesFile'
      BY <2>0, <3>1, Frame, Zenon DEF TypeOK
    <3>3. RTyped'
      BY <2>0, <3>1, Zenon DEF RTyped
    <3>4. pc'[a] = "live" /\ call'[a] = call[a] /\ \A b \in Actor \ {a} : Waits(b)
      BY <2>0, <3>1, Zenon DEF Waits, TypeOK
    <3>5. ControlOf(a)'
      BY <2>0, <3>1, <3>4, Zenon DEF Control, ControlOf, InRpc, ConnPc, Opening
    <3> QED
      BY <2>0, <3>1, <3>2, <3>3, <3>4, <3>5, FrameControl, Zenon
  <2>4. CASE /\ \/ UseLiveConn(a, "rpc") \/ FindConnClosed(a) \/ BumpGen(a, "rpc")
                \/ ReconnectDeadline(a, "none")
             /\ UNCHANGED remapVars
    <3>1. /\ pc[a] \in ConnPc /\ \E l \in {"rpc", "reconnect", "none"} : pc' = [pc EXCEPT ![a] = l]
          /\ sess' = sess \/ sess' = [sess EXCEPT ![a] = conn]
          /\ UNCHANGED <<conn, openFiles, issued, afh, call>>
      BY <2>4, Zenon DEF UseLiveConn, FindConnClosed, BumpGen, ReconnectDeadline, Goto, ConnPc,
                  connVars, remapVars
    <3>2. IdsHeld' /\ NamesFile'
      BY <2>0, <3>1, Frame, Zenon DEF TypeOK, ConnPc
    <3>3. RTyped'
      BY <2>0, <3>1, Zenon DEF RTyped
    <3>4. pc'[a] \in {"rpc", "reconnect", "none"} /\ call'[a] = call[a] /\ \A b \in Actor \ {a} : Waits(b)
      BY <2>0, <3>1, Zenon DEF Waits, TypeOK
    <3>5. ControlOf(a)'
      BY <2>0, <3>1, <3>4, Zenon DEF Control, ControlOf, InRpc, ConnPc, Opening
    <3> QED
      BY <2>0, <3>1, <3>2, <3>3, <3>4, <3>5, FrameControl, Zenon
  <2> QED
    BY <1>3, <2>1, <2>2, <2>3, <2>4, Zenon DEF RemoteOther
<1>4. ASSUME NEW a \in Actor, RemoteConnect(a)
      PROVE  RTyped' /\ IdsHeld' /\ NamesFile' /\ Control'
  <2>1. /\ pc[a] = "reconnect" /\ pc' = [pc EXCEPT ![a] = "bump_gen"]
        /\ conn < MaxSession /\ conn' = conn + 1 /\ sess' = [sess EXCEPT ![a] = conn + 1]
        /\ UNCHANGED <<openFiles, issued, afh, call>>
        /\ UNCHANGED <<names, eid, hid, hfh, rel, file, moved>>
        /\ \E e \in Epoch : epochOf' = [epochOf EXCEPT ![conn'] = e]
    BY <1>4, Zenon DEF RemoteConnect, DoConnect, Goto, remapVars, holdVars, nameVars
  <2>2. IdsHeld' /\ NamesFile'
    BY <2>1, Frame, Zenon DEF TypeOK
  <2>3. conn + 1 \in Session
    BY <2>1, SessionBound DEF RTyped, Session
  <2>4. RTyped'
    BY <2>1, <2>3 DEF RTyped
  <2>5. pc'[a] = "bump_gen" /\ call'[a] = call[a] /\ \A b \in Actor \ {a} : Waits(b)
    BY <2>1, Zenon DEF Waits, TypeOK
  <2>6. ControlOf(a)'
    BY <2>1, <2>5, Zenon DEF Control, ControlOf, InRpc, ConnPc
  <2> QED
    BY <2>1, <2>2, <2>4, <2>5, <2>6, FrameControl, Zenon
<1>5. ASSUME NEW s \in Session, RemoteConnLost(s) \/ RemoteSessionEnds(s)
      PROVE  RTyped' /\ IdsHeld' /\ NamesFile' /\ Control'
  <2>1. /\ UNCHANGED <<pc, conn, sess, openFiles, issued, afh, call>>
        /\ UNCHANGED <<epochOf, names, eid, hid, hfh, rel, file, moved>>
    BY <1>5, Zenon DEF RemoteConnLost, RemoteSessionEnds, ConnLost, connVars, remapVars, vars,
                holdVars, nameVars
  <2>2. IdsHeld' /\ NamesFile'
    BY <2>1, Frame, Zenon
  <2>3. RTyped' /\ Control'
    BY <2>1, Zenon DEF RTyped, Control, ControlOf, InRpc, Opening
  <2> QED
    BY <2>2, <2>3, Zenon
<1> QED
  BY <1>1, <1>2, <1>3, <1>4, <1>5, Zenon

(* The steps that pass an id on: from the actor to open_files, or back, or that
   drop it. *)
LEMMA PassInv ==
    ASSUME TypeOK, TypeOK', RInv, given \subseteq given',
           \/ \E a \in Actor : RemoteStamp(a) \/ RemoteReadEntry(a) \/ RemoteRpcEnd(a)
                               \/ RemoteReturn(a)
           \/ \E f \in Fh : RemoteRegister(f) \/ RemoteRelease(f)
    PROVE  RTyped' /\ IdsHeld' /\ NamesFile' /\ Control'
<1> USE ActorRoles, RemoteParameters DEF RInv
<1> DEFINE HeldN(id, g) ==
               \E k \in given' : Id(k.epoch, k.num) = id /\ (g \notin moved' => k.file = file'[g])
<1> HIDE DEF HeldN
<1>0. /\ UNCHANGED <<epochOf, names, file, moved>>
      /\ \A id, g : Held(id, g) => HeldN(id, g)
  <2>1. UNCHANGED <<epochOf, names, file, moved>>
    BY Zenon DEF RemoteStamp, RemoteReadEntry, RemoteRpcEnd, RemoteReturn, RemoteRegister,
       RemoteRelease, nameVars
  <2> QED
    BY <2>1, Zenon DEF Held, HeldN
<1>z. 0 \in Ids
  BY IdsHasZero, SameIds, Zenon
<1>1. ASSUME NEW a \in Actor, RemoteStamp(a)
      PROVE  RTyped' /\ IdsHeld' /\ NamesFile' /\ Control'
  <2>1. /\ pc[a] = "stamp" /\ pc' = [pc EXCEPT ![a] = "reopened"]
        /\ \A f \in Fh : (openFiles'[f] # NoEntry) <=> (openFiles[f] # NoEntry)
        /\ eid' = IF Registered(afh[a]) THEN [eid EXCEPT ![afh[a]] = hid[a]] ELSE eid
        /\ UNCHANGED <<conn, sess, issued, afh, call, hid, hfh, rel>>
    <3>1. NoEntry \notin [sh : Nat, gen : Nat]
      BY DEF NoEntry
    <3>2. [sh |-> sh[a], gen |-> cur[a]] # NoEntry
      BY <3>1 DEF TypeOK
    <3> QED
      BY <1>1, <3>2, Zenon DEF RemoteStamp, Stamp, Goto, connVars, Registered, TypeOK
  <2>2. afh[a] \in Fh /\ hfh[a] = afh[a] /\ afh[a] \in issued
    BY <2>1, Zenon DEF Control, ControlOf, TypeOK
  <2>3. HeldN(hid[a], afh[a])
    BY <1>0, <2>2, Zenon DEF IdsHeld
  <2>4. RTyped'
    BY <1>0, <2>1, <2>2, Zenon DEF RTyped
  <2>5. \A f \in Fh : openFiles'[f] # NoEntry => f \in issued' /\ HeldN(eid'[f], f)
    BY <1>0, <2>1, <2>2, <2>3, ZenonT(60) DEF IdsHeld, Registered, RTyped
  <2>6. \A b \in Actor : hfh'[b] # NoFh =>
            /\ HeldN(hid'[b], hfh'[b])
            /\ hfh'[b] \in issued' \/ (b = Fuse /\ pc'[b] = "register" /\ hfh'[b] = Opening')
    BY <1>0, <2>1, <2>2, ZenonT(60) DEF IdsHeld, TypeOK, Opening
  <2>7. IdsHeld'
    BY <2>1, <2>5, <2>6, Zenon DEF IdsHeld, Held, HeldN, Registered
  <2>8. pc'[a] = "reopened" /\ call'[a] = call[a] /\ \A b \in Actor \ {a} : Waits(b)
    BY <2>1, Zenon DEF Waits, TypeOK
  <2>9. NamesFile'
    BY <1>0, <2>1, <2>8, FrameNames, Zenon
  <2>10. ControlOf(a)'
    BY <2>1, <2>8, Zenon DEF Control, ControlOf, InRpc, ConnPc
  <2> QED
    BY <2>1, <2>4, <2>7, <2>8, <2>9, <2>10, FrameControl, Zenon
<1>2. ASSUME NEW a \in Actor, RemoteReadEntry(a)
      PROVE  RTyped' /\ IdsHeld' /\ NamesFile' /\ Control'
  <2>1. /\ pc[a] = "entry"
        /\ UNCHANGED <<conn, sess, issued, afh, call, openFiles, eid, rel>>
    BY <1>2, Zenon DEF RemoteReadEntry, ReadEntry, connVars
  <2>2. afh[a] \in Fh
    BY Zenon DEF TypeOK
  <2>3. CASE pc'[a] = "live"
    <3>1. /\ Registered(afh[a]) /\ pc' = [pc EXCEPT ![a] = "live"]
          /\ hid' = [hid EXCEPT ![a] = eid[afh[a]]] /\ hfh' = [hfh EXCEPT ![a] = afh[a]]
      BY <1>2, <2>3, Zenon DEF RemoteReadEntry, ReadEntry, Goto, TypeOK
    <3>2. HeldN(eid[afh[a]], afh[a]) /\ afh[a] \in issued
      BY <1>0, <2>2, <3>1, Zenon DEF IdsHeld
    <3>3. RTyped'
      BY <1>0, <2>1, <2>2, <3>1, ZenonT(60) DEF RTyped
    <3>4. \A b \in Actor : hfh'[b] # NoFh =>
            /\ HeldN(hid'[b], hfh'[b])
            /\ hfh'[b] \in issued' \/ (b = Fuse /\ pc'[b] = "register" /\ hfh'[b] = Opening')
      BY <1>0, <2>1, <3>1, <3>2, ZenonT(60) DEF IdsHeld, TypeOK, RTyped, Opening
    <3>5. rel' => hfh'[Fuse] # NoFh
      BY <2>1, <2>2, <3>1, Zenon DEF IdsHeld, RTyped
    <3>6. \A f \in Fh : openFiles'[f] # NoEntry => f \in issued' /\ HeldN(eid'[f], f)
      BY <1>0, <2>1, Zenon DEF IdsHeld, Registered
    <3>7. IdsHeld'
      BY <3>4, <3>5, <3>6, Zenon DEF IdsHeld, Held, HeldN, Registered
    <3>8. pc'[a] = "live" /\ call'[a] = call[a] /\ \A b \in Actor \ {a} : Waits(b)
      BY <2>1, <3>1, Zenon DEF Waits, TypeOK, RTyped
    <3>9. NamesFile'
      BY <1>0, <2>1, <3>8, FrameNames, Zenon
    <3>10. ControlOf(a)'
      BY <2>1, <3>8, Zenon DEF Control, ControlOf, InRpc, ConnPc
    <3> QED
      BY <2>1, <3>3, <3>7, <3>8, <3>9, <3>10, FrameControl, Zenon
  <2>4. CASE pc'[a] # "live"
    <3>1. /\ \/ pc' = [pc EXCEPT ![a] = "none"]
             \/ Registered(afh[a]) /\ pc' = [pc EXCEPT ![a] = "ensure_conn"]
          /\ UNCHANGED <<hid, hfh>>
      BY <1>2, <2>4, Zenon DEF RemoteReadEntry, ReadEntry, Goto, TypeOK
    <3>2. RTyped'
      BY <1>0, <2>1, <3>1, Zenon DEF RTyped
    <3>3. IdsHeld' /\ NamesFile'
      BY <1>0, <2>1, <3>1, Frame, Zenon DEF TypeOK
    <3>4. call[a] = "ensure_live" /\ (Registered(afh[a]) => afh[a] \in issued)
      BY <2>1, <2>2, Zenon DEF Control, ControlOf, IdsHeld
    <3>5. /\ pc'[a] \in {"none", "ensure_conn"} /\ call'[a] = call[a]
          /\ pc'[a] = "ensure_conn" => Registered(afh[a])
          /\ \A b \in Actor \ {a} : Waits(b)
      BY <2>1, <3>1, Zenon DEF Waits, TypeOK
    <3>6. ControlOf(a)'
      BY <2>1, <3>4, <3>5, Zenon DEF Control, ControlOf, InRpc, ConnPc
    <3> QED
      BY <2>1, <3>2, <3>3, <3>5, <3>6, FrameControl, Zenon
  <2> QED
    BY <2>3, <2>4, Zenon
<1>3. ASSUME NEW a \in Actor, RemoteRpcEnd(a) \/ RemoteReturn(a)
      PROVE  RTyped' /\ IdsHeld' /\ NamesFile' /\ Control'
  <2>1. /\ pc[a] \in {"rpc", "live", "none"}
        /\ \E l \in {"idle", "none"} : pc' = [pc EXCEPT ![a] = l]
        /\ sess' = sess \/ sess' = [sess EXCEPT ![a] = 0]
        /\ afh' = afh \/ afh' = [afh EXCEPT ![a] = SomeFh]
        /\ call' = call \/ call' = [call EXCEPT ![a] = "ensure_live"]
        /\ UNCHANGED <<conn, issued, openFiles, eid>>
    BY <1>3, Zenon DEF RemoteRpcEnd, RpcEnd, RemoteReturn, Return, Finish, Goto, connVars, remapVars
  <2>2. /\ hid' = [hid EXCEPT ![a] = 0] /\ hfh' = [hfh EXCEPT ![a] = NoFh]
        /\ rel' = (rel /\ a # Fuse)
    BY <1>3, Zenon DEF RemoteRpcEnd, RemoteReturn, Dropped
  <2>3. RTyped'
    <3>1. 0 \in Session
      BY SessionBound DEF Session
    <3>2. sess' \in [Actor -> Session] /\ hid' \in [Actor -> Ids]
          /\ hfh' \in [Actor -> Fh \cup {NoFh}]
      BY <1>z, <2>1, <2>2, <3>1, ZenonT(60) DEF RTyped
    <3> QED
      BY <1>0, <2>1, <3>2, Zenon DEF RTyped
  <2>4. \A b \in Actor : hfh'[b] # NoFh => b # a /\ hfh'[b] = hfh[b] /\ hid'[b] = hid[b]
                                           /\ pc'[b] = pc[b]
    BY <2>1, <2>2, Zenon DEF RTyped, TypeOK
  <2>5. \A b \in Actor : hfh'[b] # NoFh =>
            /\ HeldN(hid'[b], hfh'[b])
            /\ hfh'[b] \in issued' \/ (b = Fuse /\ pc'[b] = "register" /\ hfh'[b] = Opening')
    BY <1>0, <2>1, <2>4, Zenon DEF IdsHeld, Opening
  <2>6. rel' => hfh'[Fuse] # NoFh
    BY <2>2, Zenon DEF IdsHeld, RTyped
  <2>7. IdsHeld'
    <3>1. \A f \in Fh : openFiles'[f] # NoEntry => f \in issued' /\ HeldN(eid'[f], f)
      BY <1>0, <2>1, Zenon DEF IdsHeld, Registered
    <3> QED
      BY <2>5, <2>6, <3>1, Zenon DEF IdsHeld, Held, HeldN, Registered
  <2>8. /\ pc'[a] \in {"idle", "none"}
        /\ call'[a] = call[a] \/ call'[a] = "ensure_live"
        /\ \A b \in Actor \ {a} : Waits(b)
    BY <2>1, <2>2, ZenonT(60) DEF TypeOK, RTyped, Waits
  <2>9. NamesFile'
    BY <1>0, <2>1, <2>8, FrameNames, Zenon
  <2>10. Control'
    <3>1. ControlOf(a)'
      BY <2>1, <2>8, Zenon DEF Control, ControlOf, InRpc, ConnPc
    <3> QED
      BY <2>1, <2>8, <3>1, FrameControl, Zenon
  <2> QED
    BY <2>3, <2>7, <2>9, <2>10, Zenon
<1>4. ASSUME NEW f \in Fh, RemoteRegister(f)
      PROVE  RTyped' /\ IdsHeld' /\ NamesFile' /\ Control'
  <2>1. /\ pc[Fuse] = "register" /\ f \notin issued /\ f = Opening
        /\ pc' = [pc EXCEPT ![Fuse] = "live"]
        /\ issued' = issued \cup {f}
        /\ \A g \in Fh \ {f} : openFiles'[g] = openFiles[g]
        /\ eid' = [eid EXCEPT ![f] = hid[Fuse]]
        /\ UNCHANGED <<conn, sess, afh, call, hid, hfh, rel>>
    BY <1>4, Zenon DEF RemoteRegister, RegisterOpen, Goto, connVars, TypeOK
  <2>2. hfh[Fuse] = f /\ HeldN(hid[Fuse], f)
    <3>1. ControlOf(Fuse)
      BY Zenon DEF Control
    <3>2. hfh[Fuse] = f /\ f # NoFh
      BY <2>1, <3>1, Zenon DEF ControlOf
    <3> QED
      BY <1>0, <3>2, Zenon DEF IdsHeld
  <2>3. RTyped'
    BY <1>0, <2>1, Zenon DEF RTyped
  <2>4. \A g \in Fh : openFiles'[g] # NoEntry => g \in issued' /\ HeldN(eid'[g], g)
    BY <1>0, <2>1, <2>2, Zenon DEF IdsHeld, Registered, RTyped
  <2>5. \A b \in Actor : hfh'[b] # NoFh => HeldN(hid'[b], hfh'[b]) /\ hfh'[b] \in issued'
    BY <1>0, <2>1, <2>2, Zenon DEF IdsHeld
  <2>6. IdsHeld'
    BY <2>1, <2>4, <2>5, Zenon DEF IdsHeld, Held, HeldN, Registered
  <2>7. NamesFile'
    BY <1>0, <2>1, Zenon DEF NamesFile, TypeOK
  <2>8. \A b \in Actor \ {Fuse} : pc'[b] = pc[b] /\ pc[b] # "register" /\ call[b] # "open"
    BY <2>1, Zenon DEF Control, ControlOf, TypeOK
  <2>9. Control'
    BY <2>1, <2>8, ZenonT(60) DEF Control, ControlOf, InRpc, ConnPc, TypeOK
  <2> QED
    BY <2>3, <2>6, <2>7, <2>9, Zenon
<1>5. ASSUME NEW f \in Fh, RemoteRelease(f)
      PROVE  RTyped' /\ IdsHeld' /\ NamesFile' /\ Control'
  <2>1. /\ pc[Fuse] = "idle" /\ Registered(f)
        /\ openFiles' = [openFiles EXCEPT ![f] = NoEntry]
        /\ hid' = [hid EXCEPT ![Fuse] = eid[f]] /\ hfh' = [hfh EXCEPT ![Fuse] = f]
        /\ UNCHANGED <<pc, conn, sess, issued, afh, call, eid>>
    BY <1>5, Zenon DEF RemoteRelease, Release, connVars
  <2>2. f \in issued /\ HeldN(eid[f], f)
    BY <1>0, <2>1, Zenon DEF IdsHeld
  <2>3. RTyped'
    BY <1>0, <2>1, Zenon DEF RTyped
  <2>4. \A g \in Fh : openFiles'[g] # NoEntry => openFiles[g] # NoEntry
    BY <2>1, Zenon DEF TypeOK
  <2>5. \A b \in Actor : hfh'[b] # NoFh =>
            /\ HeldN(hid'[b], hfh'[b])
            /\ hfh'[b] \in issued' \/ (b = Fuse /\ pc'[b] = "register" /\ hfh'[b] = Opening')
    BY <1>0, <2>1, <2>2, Zenon DEF IdsHeld, RTyped, Opening
  <2>6. rel' => hfh'[Fuse] # NoFh
    BY <2>1, Zenon DEF RTyped
  <2>7. IdsHeld'
    <3>1. \A g \in Fh : openFiles'[g] # NoEntry => g \in issued' /\ HeldN(eid'[g], g)
      BY <1>0, <2>1, <2>4, Zenon DEF IdsHeld, Registered
    <3> QED
      BY <2>5, <2>6, <3>1, Zenon DEF IdsHeld, Held, HeldN, Registered
  <2>8. NamesFile'
    BY <1>0, <2>1, Zenon DEF NamesFile, Opening
  <2>9. Control'
    <3>1. ControlOf(Fuse)' /\ \A b \in Actor \ {Fuse} : Waits(b)
      BY <2>1, Zenon DEF Control, ControlOf, InRpc, ConnPc, RTyped, Waits
    <3> QED
      BY <2>1, <3>1, FrameControl, Zenon
  <2> QED
    BY <2>3, <2>7, <2>8, <2>9, Zenon
<1> QED
  BY <1>1, <1>2, <1>3, <1>4, <1>5, Zenon

(* A path given another file puts its handles among the moved ones. *)
LEMMA RenameInv ==
    ASSUME TypeOK, RInv, given \subseteq given', NEW p \in Path, NEW g \in File, Rename(p, g)
    PROVE  RTyped' /\ IdsHeld' /\ NamesFile' /\ Control'
<1> USE RemoteParameters DEF RInv
<1>1. /\ names' = [names EXCEPT ![p] = g] /\ moved' = moved \cup {f \in Fh : PathOf[f] = p}
      /\ UNCHANGED <<pc, conn, sess, openFiles, issued, afh, call>>
      /\ UNCHANGED <<epochOf, eid, hid, hfh, rel, file>>
  BY Zenon DEF Rename, vars, connVars, remapVars, holdVars
<1>2. RTyped' /\ Control'
  BY <1>1, ZenonT(60) DEF RTyped, Control, ControlOf, InRpc, Opening
<1>3. \A id, f : Held(id, f) => \E k \in given' : Id(k.epoch, k.num) = id
                                              /\ (f \notin moved' => k.file = file'[f])
  BY <1>1, Zenon DEF Held
<1>4. IdsHeld'
  BY <1>1, <1>3 DEF IdsHeld, Held, Registered, Opening
<1>5. \A f \in Fh \ moved' : f \notin moved /\ names'[PathOf[f]] = names[PathOf[f]]
  BY <1>1, Zenon DEF RTyped
<1>6. issued \subseteq Fh /\ Opening' = Opening /\ (pc[Fuse] = "register" => Opening \in Fh)
  BY <1>1, OpeningFresh, ActorRoles, Zenon DEF TypeOK, Opening, Control, ControlOf
<1>7. NamesFile'
  BY <1>1, <1>5, <1>6, Zenon DEF NamesFile
<1> QED
  BY <1>2, <1>4, <1>7, Zenon

(* The invariant is inductive, relative to HandleRemap's types. *)
LEMMA RInvStep ==
    ASSUME MaxOpens < Radix, TypeOK, TypeOK', RInv, [RemoteNext]_remoteVars
    PROVE  RInv'
<1>1. CASE UNCHANGED remoteVars
  <2>1. /\ UNCHANGED <<pc, conn, sess, openFiles, issued, afh, call, epochOf, names>>
        /\ UNCHANGED <<eid, hid, hfh, rel, file, moved, given>> /\ UNCHANGED T!vars
    BY <1>1, Zenon DEF remoteVars, vars, connVars, remapVars, tableVars, nameVars, holdVars, T!vars
  <2>2. TInv'
    BY <2>1, InvStep, Zenon DEF RInv
  <2>3. IdsHeld' /\ NamesFile'
    BY <2>1, Frame, Zenon
  <2>4. RTyped' /\ Control'
    BY <2>1, Zenon DEF RInv, RTyped, Control, ControlOf, InRpc, Opening
  <2> QED
    BY <2>2, <2>3, <2>4, Zenon DEF RInv
<1>2. CASE RemoteNext
  <2>1. TInv' /\ given \subseteq given'
    BY <1>2, TableInv, Zenon
  <2>2. RTyped' /\ IdsHeld' /\ NamesFile' /\ Control'
    <3>1. CASE \E a \in Actor : RemoteOpened(a)
      BY <2>1, <3>1, OpenedInv, Zenon
    <3>2. CASE \/ RemoteOpen
               \/ \E a \in Actor : RemoteOpenLost(a) \/ RemoteOther(a) \/ RemoteConnect(a)
               \/ \E s \in Session : RemoteConnLost(s) \/ RemoteSessionEnds(s)
      BY <2>1, <3>2, QuietInv, Zenon
    <3>3. CASE \/ \E a \in Actor : RemoteStamp(a) \/ RemoteReadEntry(a) \/ RemoteRpcEnd(a)
                                   \/ RemoteReturn(a)
               \/ \E f \in Fh : RemoteRegister(f) \/ RemoteRelease(f)
      BY <2>1, <3>3, PassInv, Zenon
    <3>4. CASE \E p \in Path : \E g \in File : Rename(p, g)
      BY <2>1, <3>4, RenameInv, Zenon
    <3> QED
      BY <1>2, <3>1, <3>2, <3>3, <3>4, Zenon DEF RemoteNext
  <2> QED
    BY <2>1, <2>2, Zenon DEF RInv
<1> QED
  BY <1>1, <1>2, Zenon

(* The remap inside the composed system is HandleRemap's, with its types. *)
LEMMA RemapTyped == RemoteSpec => []TypeOK
<1>1. RemoteInit => Init
  BY Zenon DEF RemoteInit
<1>2. [RemoteNext]_remoteVars => [Next]_vars
  BY RemapStep, Zenon DEF remoteVars
<1>3. Spec => []TypeOK
  BY TypeCorrect, Zenon
<1> QED
  BY <1>1, <1>2, <1>3, PTL DEF RemoteSpec, Spec

(* The invariant of the composed system holds for ever. *)
LEMMA RemoteInvariance == ASSUME MaxOpens < Radix PROVE RemoteSpec => []RInv
<1>1. RemoteInit => RInv
  BY RInvInit
<1>2. TypeOK /\ TypeOK' /\ RInv /\ [RemoteNext]_remoteVars => RInv'
  BY RInvStep, Zenon
<1> QED
  BY <1>1, <1>2, RemapTyped, PTL DEF RemoteSpec

(* Whatever the client and the connections do, the server's handle tables make
   only the steps of HandleTable: each open inserts, each release removes, a
   reconnect starts a session with a fresh epoch.  The per-session promise of
   handles.rs therefore reaches the client. *)
THEOREM ImplementsTables == ASSUME MaxOpens < Radix PROVE RemoteSpec => TableSpec
<1>1. RemoteInit => T!Init
  BY Zenon DEF RemoteInit
<1>2. TypeOK /\ RInv /\ [RemoteNext]_remoteVars => [T!Next]_(T!vars)
  <2>1. UNCHANGED tableVars => UNCHANGED T!vars
    BY Zenon DEF tableVars, T!vars
  <2>2. UNCHANGED remoteVars => UNCHANGED tableVars
    BY Zenon DEF remoteVars
  <2> QED
    BY <2>1, <2>2, TableStep, Zenon
<1> QED
  BY <1>1, <1>2, RemapTyped, RemoteInvariance, PTL DEF RemoteSpec, TableSpec, T!Spec

(* The promise of the handle tables, for the composed system: an id resolves to the
   file it was issued for, in whatever session, or to none. *)
THEOREM TablesRightFile == ASSUME MaxOpens < Radix PROVE RemoteSpec => []RightFile
BY ImplementsTables, StaleNeverWrong, PTL DEF RightFile, TableSpec

(* End to end, over reconnects, reopens, lost responses and renames: the id an
   RPC presents resolves to the file its client handle was opened on or to
   nothing, unless the path itself was given another file. *)
THEOREM RightFileEndToEnd == ASSUME MaxOpens < Radix PROVE RemoteSpec => []RightFileOrStale
<1>1. TypeOK /\ RInv => RightFileOrStale
  <2> SUFFICES ASSUME TypeOK, RInv, NEW a \in Actor, hfh[a] \in issued \ moved, hfh[a] # NoFh
               PROVE  Found(a) \in {NoFile, file[hfh[a]]}
    BY RemoteParameters, Zenon DEF RightFileOrStale, TypeOK
  <2>1. PICK k \in given : Id(k.epoch, k.num) = hid[a] /\ k.file = file[hfh[a]]
    BY Zenon DEF RInv, IdsHeld, Held
  <2>2. T!RightFile
    BY InvRightFile, Zenon DEF RInv
  <2>3. epochOf[sess[a]] \in Epoch
    BY Zenon DEF RInv, RTyped
  <2> QED
    BY <2>1, <2>2, <2>3, SameIds, Zenon DEF T!RightFile, Found
<1> QED
  BY <1>1, RemapTyped, RemoteInvariance, PTL
=============================================================================
