--------------------------- MODULE AdmissionProofs ---------------------------
(***************************************************************************)
(* For any number of attempts, addresses, slots and streams: the slots are *)
(* accounted for exactly, and no address gets more than its share.         *)
(***************************************************************************)
EXTENDS Admission, FiniteSetTheorems, TLAPS

(* The attempts that hold a permit of the semaphore, and those that are charged to
   address a. *)
Holding == {c \in Peer : phase[c] \in Counted \cup {"dropping"}}
From(a) == {c \in Peer : phase[c] \in Counted /\ AddrOf[c] = a}
InLoop == IF accepting = None THEN 0 ELSE 1

(* Exactness is inductive with the types and with where the attempt is that the
   accept loop works on. *)
IInv == TypeOK /\ SlotsExact /\ PerIpCap /\ (accepting # None => phase[accepting] = "incoming")

(* The account and the cap in terms of these sets, before and after a step. *)
Exact == /\ MaxClients - permits = Cardinality(Holding) + InLoop
         /\ \A a \in Addr : counts[a] = Cardinality(From(a))
Capped == MaxPerIp # 0 => \A a \in Addr : Cardinality(From(a)) <= MaxPerIp
LEMMA Account == (SlotsExact <=> Exact) /\ (SlotsExact <=> Exact)'
                 /\ (PerIpCap <=> Capped) /\ (PerIpCap <=> Capped)'
BY Zenon DEF SlotsExact, PerIpCap, Exact, Capped, Holding, From, InLoop

(* All these sets are finite. *)
LEMMA Finite ==
    /\ IsFiniteSet(Holding) /\ Cardinality(Holding) \in Nat
    /\ \A a : IsFiniteSet(From(a)) /\ Cardinality(From(a)) \in Nat
<1>1. Holding \subseteq Peer /\ \A a : From(a) \subseteq Peer
  BY Zenon DEF Holding, From
<1> QED
  BY <1>1, AdmissionParameters, FS_Subset, FS_CardinalityType, Zenon

(* The invariant holds at the start, and after a restart. *)
LEMMA Fresh ==
    ASSUME phase' = [c \in Peer |-> "away"], tasks' = [c \in Peer |-> 0], accepting' = None,
           permits' = MaxClients, counts' = [a \in Addr |-> 0]
    PROVE  IInv'
<1> USE AdmissionParameters
<1>1. TypeOK'
  BY DEF TypeOK, Phases
<1>2. Holding' = {} /\ \A a : From(a)' = {}
  BY Zenon DEF Holding, From, Counted
<1>3. Cardinality({}) = 0
  BY FS_EmptySet, Zenon
<1>4. Exact' /\ Capped'
  BY <1>2, <1>3 DEF Exact, Capped, InLoop
<1> QED
  BY <1>1, <1>4, Account, Zenon DEF IInv

(* A step that moves no attempt into or out of these sets. *)
LEMMA SameSlots ==
    ASSUME IInv, TypeOK', UNCHANGED <<permits, counts>>, InLoop' = InLoop,
           \A c \in Peer : /\ phase'[c] \in Counted <=> phase[c] \in Counted
                           /\ phase'[c] = "dropping" <=> phase[c] = "dropping",
           accepting' # None => phase'[accepting'] = "incoming"
    PROVE  IInv'
<1>1. Holding' = Holding /\ \A a : From(a)' = From(a)
  BY Zenon DEF Holding, From
<1>2. Exact' /\ Capped'
  BY <1>1, Account, Zenon DEF IInv, Exact, Capped
<1> QED
  BY <1>2, Account, Zenon DEF IInv

(* The accept loop takes a permit, for an attempt that is charged to nobody yet. *)
LEMMA PermitTaken ==
    ASSUME IInv, NEW c \in Peer, TakePermit(c)
    PROVE  IInv'
<1> USE AdmissionParameters
<1>1. CASE permits > 0
  <2>1. /\ accepting = None /\ accepting' = c /\ permits' = permits - 1 /\ phase[c] = "incoming"
        /\ UNCHANGED <<phase, counts, tasks>>
    BY <1>1, Zenon DEF TakePermit
  <2>2. TypeOK'
    BY <1>1, <2>1 DEF IInv, TypeOK
  <2>3. Holding' = Holding /\ \A a : From(a)' = From(a)
    BY <2>1, Zenon DEF Holding, From
  <2>4. Exact' /\ Capped'
    BY <2>1, <2>3, Account, Finite DEF IInv, TypeOK, Exact, Capped, InLoop
  <2> QED
    BY <2>1, <2>2, <2>4, Account, Zenon DEF IInv
<1>2. CASE ~(permits > 0)
  <2>1. /\ accepting = None /\ accepting' = None /\ phase[c] = "incoming"
        /\ phase' = [phase EXCEPT ![c] = "away"] /\ UNCHANGED <<permits, counts, tasks>>
    BY <1>2, Zenon DEF TakePermit, To
  <2>2. TypeOK'
    BY <2>1, Zenon DEF IInv, TypeOK, Phases
  <2> QED
    BY <2>1, <2>2, SameSlots, Zenon DEF InLoop, IInv, TypeOK, Counted
<1> QED
  BY <1>1, <1>2, Zenon

(* The per-address slot is granted, or the permit given back. *)
LEMMA IpSlotTaken ==
    ASSUME IInv, NEW c \in Peer, TakeIpSlot(c)
    PROVE  IInv'
<1> USE AdmissionParameters
<1>a. PICK a \in Addr : a = AddrOf[c]
  BY Zenon
<1>0. /\ accepting = c /\ accepting' = None /\ c # None /\ phase[c] = "incoming" /\ tasks' = tasks
      /\ a \in Addr /\ counts[a] \in Nat /\ permits \in Nat /\ phase \in [Peer -> Phases]
  BY <1>a DEF TakeIpSlot, IInv, TypeOK
<1>1. c \notin Holding /\ \A b : c \notin From(b)
  BY <1>0, Zenon DEF Holding, From, Counted
<1>2. CASE MaxPerIp # 0 /\ counts[a] >= MaxPerIp
  <2>1. phase' = [phase EXCEPT ![c] = "away"] /\ permits' = permits + 1 /\ counts' = counts
    BY <1>a, <1>2, Zenon DEF TakeIpSlot, To
  <2>2. Holding' = Holding /\ \A b : From(b)' = From(b)
    BY <1>0, <2>1, Zenon DEF Holding, From, Counted
  <2>3. Exact' /\ Capped'
    BY <1>0, <2>1, <2>2, Account, Finite DEF IInv, Exact, Capped, InLoop
  <2>4. permits + 1 <= MaxClients
    BY <1>0, Account, Finite DEF IInv, Exact, InLoop
  <2>5. TypeOK'
    BY <1>0, <2>1, <2>4 DEF IInv, TypeOK, Phases
  <2> QED
    BY <1>0, <2>3, <2>5, Account, Zenon DEF IInv
<1>3. CASE ~(MaxPerIp # 0 /\ counts[a] >= MaxPerIp)
  <2>1. /\ phase' = [phase EXCEPT ![c] = "tls"] /\ permits' = permits
        /\ counts' = [counts EXCEPT ![a] = @ + 1]
    BY <1>a, <1>3, Zenon DEF TakeIpSlot, To
  <2>2. /\ Holding' = Holding \cup {c} /\ From(a)' = From(a) \cup {c}
        /\ \A b : b # a => From(b)' = From(b)
    BY <1>0, <1>a, <2>1, Zenon DEF Holding, From, Counted
  <2>3. /\ Cardinality(Holding') = Cardinality(Holding) + 1
        /\ Cardinality(From(a)') = Cardinality(From(a)) + 1
    BY <1>1, <2>2, Finite, FS_AddElement, ZenonT(60)
  <2>4. Exact'
    <3>1. MaxClients - permits' = Cardinality(Holding)' + InLoop'
      BY <1>0, <2>1, <2>3, Account, Finite DEF IInv, TypeOK, Exact, InLoop
    <3>2. counts'[a] = Cardinality(From(a)') /\ \A b \in Addr \ {a} : counts'[b] = counts[b]
      BY <1>0, <2>1, <2>3, Account, Zenon DEF IInv, TypeOK, Exact
    <3> QED
      BY <2>2, <3>1, <3>2, Account, Zenon DEF IInv, Exact
  <2>5. Capped'
    <3>1. MaxPerIp # 0 => Cardinality(From(a)) + 1 <= MaxPerIp
      BY <1>0, <1>3, Account DEF IInv, Exact
    <3> QED
      BY <2>2, <2>3, <3>1, Account, Zenon DEF IInv, Capped
  <2>6. TypeOK'
    BY <1>0, <2>1 DEF IInv, TypeOK, Phases
  <2> QED
    BY <1>0, <2>4, <2>5, <2>6, Account, Zenon DEF IInv
<1> QED
  BY <1>2, <1>3, Zenon

(* The slots of an ended connection are given back. *)
LEMMA SlotsDropped ==
    ASSUME IInv, NEW c \in Peer, DropIpSlot(c) \/ DropPermit(c)
    PROVE  IInv'
<1> USE AdmissionParameters
<1>a. PICK a \in Addr : a = AddrOf[c]
  BY Zenon
<1>0. /\ a \in Addr /\ counts[a] \in Nat /\ permits \in Nat /\ phase \in [Peer -> Phases]
      /\ accepting' = accepting /\ tasks' = tasks /\ tasks \in [Peer -> 0..MaxStreams]
      /\ accepting # None => accepting # c
  BY DEF IInv, TypeOK, DropIpSlot, DropPermit
<1>1. CASE DropIpSlot(c)
  <2>1. /\ phase[c] = "ended" /\ phase' = [phase EXCEPT ![c] = "dropping"] /\ permits' = permits
        /\ counts' = [counts EXCEPT ![a] = IF @ > 0 THEN @ - 1 ELSE 0]
    BY <1>a, <1>1, Zenon DEF DropIpSlot, To
  <2>2. /\ Holding' = Holding /\ From(a)' = From(a) \ {c} /\ c \in From(a)
        /\ \A b : b # a => From(b)' = From(b)
    BY <1>0, <1>a, <2>1, Zenon DEF Holding, From, Counted
  <2>3. Cardinality(From(a)') = Cardinality(From(a)) - 1 /\ Cardinality(From(a)) > 0
    <3>1. IsFiniteSet(From(a)) /\ Cardinality(From(a)) \in Nat /\ From(a) # {}
      BY <2>2, Finite, Zenon
    <3>2. Cardinality(From(a) \ {c}) = Cardinality(From(a)) - 1
      BY <2>2, <3>1, FS_RemoveElement, Zenon
    <3>3. Cardinality(From(a)) # 0
      BY <3>1, FS_EmptySet, Zenon
    <3> QED
      BY <2>2, <3>1, <3>2, <3>3
  <2>4. Exact'
    BY <1>0, <2>1, <2>2, <2>3, Account, Finite, Zenon DEF IInv, TypeOK, Exact, InLoop
  <2>5. Capped'
    <3>1. MaxPerIp # 0 => Cardinality(From(a)') <= MaxPerIp
      BY <2>3, Account, Finite DEF IInv, Capped
    <3> QED
      BY <2>2, <3>1, Account, Zenon DEF IInv, Capped
  <2>6. TypeOK'
    BY <1>0, <2>1 DEF IInv, TypeOK, Phases
  <2>7. accepting' # None => phase'[accepting'] = "incoming"
    BY <1>0, <2>1, Zenon DEF IInv, TypeOK
  <2> QED
    BY <2>4, <2>5, <2>6, <2>7, Account, Zenon DEF IInv
<1>2. CASE DropPermit(c)
  <2>1. /\ phase[c] = "dropping" /\ permits' = permits + 1 /\ counts' = counts
        /\ phase' = [phase EXCEPT ![c] = IF tasks[c] = 0 THEN "away" ELSE "retained"]
    BY <1>2, Zenon DEF DropPermit, To
  <2>2. Holding' = Holding \ {c} /\ c \in Holding /\ \A b : From(b)' = From(b)
    BY <1>0, <2>1, Zenon DEF Holding, From, Counted
  <2>c. IsFiniteSet(Holding) /\ Cardinality(Holding) \in Nat /\ Cardinality(Holding) # 0
        /\ Cardinality(Holding \ {c}) = Cardinality(Holding) - 1
    BY <2>2, Finite, FS_RemoveElement, FS_CardinalityType, FS_EmptySet, Zenon
  <2>3. Cardinality(Holding') = Cardinality(Holding) - 1 /\ Cardinality(Holding) > 0
    BY <2>2, <2>c
  <2>4. Exact' /\ Capped'
    BY <1>0, <2>1, <2>2, <2>3, Account, Finite DEF IInv, TypeOK, Exact, Capped, InLoop
  <2>5. permits + 1 <= MaxClients
    BY <1>0, <2>3, Account, Finite DEF IInv, Exact, InLoop
  <2>6. TypeOK'
    BY <1>0, <2>1, <2>5 DEF IInv, TypeOK, Phases
  <2>7. accepting' # None => phase'[accepting'] = "incoming"
    BY <1>0, <2>1, Zenon DEF IInv, TypeOK
  <2> QED
    BY <2>4, <2>6, <2>7, Account, Zenon DEF IInv
<1> QED
  BY <1>1, <1>2, Zenon

(* The steps that move an attempt between phases with the same slots, and those
   that do not concern attempts. *)
LEMMA QuietStep ==
    ASSUME IInv,
           \/ \E c \in Peer : \/ Connect(c) \/ TlsEnds(c) \/ HandshakeEnds(c) \/ TlsDone(c)
                              \/ Handshake(c) \/ OpenStream(c) \/ StreamEnds(c) \/ Close(c)
           \/ UNCHANGED slotVars
    PROVE  IInv'
<1> USE AdmissionParameters
<1>1. CASE UNCHANGED slotVars
  <2>1. UNCHANGED <<phase, accepting, permits, counts, tasks>>
    BY <1>1, Zenon DEF slotVars
  <2> QED
    BY <2>1 DEF IInv, TypeOK, SlotsExact, PerIpCap
<1>2. ASSUME NEW c \in Peer, OpenStream(c) \/ StreamEnds(c) PROVE IInv'
  <2>1. /\ UNCHANGED <<accepting, permits, counts>>
        /\ \/ UNCHANGED phase
           \/ phase[c] = "retained" /\ phase' = [phase EXCEPT ![c] = "away"]
    BY <1>2, Zenon DEF OpenStream, StreamEnds, To, connVars
  <2>2. TypeOK'
    <3>1. tasks' \in [Peer -> 0..MaxStreams]
      BY <1>2 DEF OpenStream, StreamEnds, IInv, TypeOK
    <3>2. \A d \in Peer : phase'[d] = "retained" => tasks'[d] > 0
      BY <1>2 DEF OpenStream, StreamEnds, To, IInv, TypeOK
    <3> QED
      BY <2>1, <3>1, <3>2, Zenon DEF IInv, TypeOK, Phases
  <2> QED
    BY <2>1, <2>2, SameSlots, Zenon DEF InLoop, IInv, TypeOK, Counted
<1>3. ASSUME NEW c \in Peer,
             Connect(c) \/ TlsEnds(c) \/ HandshakeEnds(c) \/ TlsDone(c) \/ Handshake(c) \/ Close(c)
      PROVE  IInv'
  <2>1. /\ UNCHANGED <<accepting, permits, counts, tasks>>
        /\ \/ phase[c] = "away" /\ phase' = [phase EXCEPT ![c] = "incoming"]
           \/ /\ phase[c] \in Counted
              /\ \E p \in Counted : phase' = [phase EXCEPT ![c] = p]
    BY <1>3, Zenon DEF Connect, TlsEnds, HandshakeEnds, TlsDone, Handshake, Close, To, connVars,
       Counted
  <2>2. TypeOK'
    BY <2>1, Zenon DEF IInv, TypeOK, Phases, Counted
  <2> QED
    BY <2>1, <2>2, SameSlots, Zenon DEF InLoop, IInv, TypeOK, Counted
<1> QED
  BY <1>1, <1>2, <1>3, Zenon

(* The invariant is inductive. *)
LEMMA InvStep == IInv /\ [Next]_vars => IInv'
<1> SUFFICES ASSUME IInv, [Next]_vars PROVE IInv'
  BY Zenon
<1>1. CASE UNCHANGED vars
  BY <1>1, QuietStep, Zenon DEF vars
<1>2. ASSUME NEW c \in Peer, TakePermit(c) PROVE IInv'
  BY <1>2, PermitTaken, Zenon
<1>3. ASSUME NEW c \in Peer, TakeIpSlot(c) PROVE IInv'
  BY <1>3, IpSlotTaken
<1>4. ASSUME NEW c \in Peer, DropIpSlot(c) \/ DropPermit(c) PROVE IInv'
  BY <1>4, SlotsDropped, Zenon
<1>5. ASSUME NEW p \in Author, AuthorizeLoad(p) \/ AuthorizeSave(p) \/ AuthorizeDies(p) PROVE IInv'
  <2>1. UNCHANGED slotVars
    BY <1>5, Zenon DEF AuthorizeLoad, AuthorizeSave, AuthorizeDies
  <2> QED
    BY <2>1, QuietStep, Zenon
<1>6. CASE Restart
  BY <1>6, Fresh, Zenon DEF Restart
<1> QED
  BY <1>1, <1>2, <1>3, <1>4, <1>5, <1>6, QuietStep, Zenon DEF Next, TaskStep

(* The invariant holds throughout. *)
LEMMA Invariance == Spec => []IInv
<1>1. Init => IInv
  <2> SUFFICES ASSUME Init PROVE IInv
    BY Zenon
  <2> USE AdmissionParameters
  <2>1. TypeOK
    BY DEF Init, TypeOK, Phases
  <2>2. Holding = {} /\ \A a : From(a) = {}
    BY Zenon DEF Init, Holding, From, Counted
  <2>3. Cardinality({}) = 0
    BY FS_EmptySet, Zenon
  <2>4. Exact /\ Capped
    BY <2>2, <2>3 DEF Init, Exact, Capped, InLoop
  <2> QED
    BY <2>1, <2>4, Account, Zenon DEF IInv, Init
<1> QED
  BY <1>1, InvStep, PTL DEF Spec

(* No slot leaks and none is given back twice, for any limits and any number of
   peers, across restarts of the server (main.rs, IpSlot and the permit). *)
THEOREM SlotsAreExact == Spec => []SlotsExact
<1>1. IInv => SlotsExact
  BY Zenon DEF IInv
<1> QED
  BY <1>1, Invariance, PTL

(* "A burst from one IP cannot race past the limit" (main.rs, IpSlot::try_acquire). *)
THEOREM CapHolds == Spec => []PerIpCap
<1>1. IInv => PerIpCap
  BY Zenon DEF IInv
<1> QED
  BY <1>1, Invariance, PTL
-----------------------------------------------------------------------------
(* authorized_keys.  The command that may go on to save, and nobody else, has the
   whole file in its view; the server has what had been saved when it started. *)
FileInv == ~spoiled =>
    /\ disk = IF cutting = {} THEN kept ELSE A!Blank
    /\ \A p, q \in cutting : p = q
    /\ \A p \in cutting : \A k \in ClientKey : view[p][k] = None => kept[k] = None
    /\ \A p \in Author : cmd[p] = "loaded" /\ p \notin stale \cup cutting
                         => cutting = {} /\ view[p] = kept
    /\ view[Server] = due

(* Only an authorize command writes the file, and whoever is past the TLS handshake
   was let in by the keys the server has. *)
Admitted == \A c \in Peer : phase[c] \in {"hello", "serving"} =>
                KeyOf[c] \in Authorized \/ (Authorized = {} /\ AllowAny)
KeyTypeOK == /\ A!FileTypeOK /\ due \in A!Entries /\ cmd \in [Author -> {"new", "loaded", "done"}]
             /\ \A p \in cutting : p \in Author /\ cmd[p] = "loaded"
KInv == KeyTypeOK /\ FileInv /\ Admitted

(* The types, and that only authorize commands write. *)
LEMMA KeyTyped ==
    ASSUME KeyTypeOK, Next
    PROVE  KeyTypeOK'
<1> USE AdmissionParameters
<1>t. /\ disk \in A!Entries /\ kept \in A!Entries /\ due \in A!Entries
      /\ view \in [Author \cup {Server} -> A!Entries] /\ cmd \in [Author -> {"new", "loaded", "done"}]
      /\ cutting \subseteq Author \cup {Server} /\ stale \subseteq Author \cup {Server}
      /\ spoiled \in BOOLEAN /\ \A p \in cutting : p \in Author /\ cmd[p] = "loaded"
  BY Zenon DEF KeyTypeOK, A!FileTypeOK
<1>1. CASE UNCHANGED Unslotted
  BY <1>1, Zenon DEF KeyTypeOK, A!FileTypeOK, Unslotted, keyVars
<1>2. ASSUME NEW p \in Author, AuthorizeLoad(p) PROVE KeyTypeOK'
  BY <1>2, <1>t, Zenon DEF AuthorizeLoad, A!Load, KeyTypeOK, A!FileTypeOK
<1>3. ASSUME NEW p \in Author, AuthorizeSave(p) PROVE KeyTypeOK'
  <2>1. CASE cmd' = cmd /\ \E k \in ClientKey : A!Cut(p, k, "yes")
    <3>1. PICK k \in ClientKey : A!Cut(p, k, "yes")
      BY <2>1, Zenon
    <3>2. view' \in [Author \cup {Server} -> A!Entries] /\ disk' \in A!Entries
      BY <3>1, <1>t, Zenon DEF A!Cut, A!Entries, A!Blank
    <3> QED
      BY <1>3, <2>1, <3>1, <3>2, <1>t, ZenonT(60) DEF AuthorizeSave, A!Cut, KeyTypeOK, A!FileTypeOK
  <2>2. CASE A!Put(p) /\ cmd' = [cmd EXCEPT ![p] = "done"]
    <3>1. view[p] \in A!Entries
      BY <1>t, Zenon
    <3>2. kept' \in A!Entries /\ disk' \in A!Entries
      BY <2>2, <3>1, <1>t, Zenon DEF A!Put, A!Over, A!Entries
    <3> QED
      BY <1>3, <2>2, <3>2, <1>t, Zenon DEF AuthorizeSave, A!Put, KeyTypeOK, A!FileTypeOK
  <2> QED
    BY <1>3, <2>1, <2>2, Zenon DEF AuthorizeSave
<1>4. ASSUME NEW p \in Author, AuthorizeDies(p) PROVE KeyTypeOK'
  <2>1. A!Blank \in A!Entries
    BY Zenon DEF A!Blank, A!Entries
  <2> QED
    BY <1>4, <1>t, <2>1, Zenon DEF AuthorizeDies, A!Die, KeyTypeOK, A!FileTypeOK
<1>5. CASE Restart
  BY <1>5, <1>t, Zenon DEF Restart, A!Load, KeyTypeOK, A!FileTypeOK
<1> QED
  BY <1>1, <1>2, <1>3, <1>4, <1>5, Zenon DEF Next, TaskStep, Connect, TakePermit, TakeIpSlot,
     TlsEnds, HandshakeEnds, DropIpSlot, DropPermit, TlsDone, Handshake, OpenStream, StreamEnds,
     Close

(* A load: of an authorize command, or of the server. *)
LEMMA LoadKeeps ==
    ASSUME KeyTypeOK, FileInv, NEW s \in Author \cup {Server}, A!Load(s),
           \A p \in Author : p # s => cmd'[p] = cmd[p],
           due' = IF s = Server THEN kept ELSE due
    PROVE  FileInv'
<1> SUFFICES ASSUME ~spoiled' PROVE FileInv'
  BY Zenon DEF FileInv
<1>1. /\ ~spoiled /\ cutting = {} /\ cutting' = {} /\ disk = kept
      /\ disk' = disk /\ kept' = kept /\ stale' = stale \ {s}
  BY Zenon DEF A!Load, FileInv
<1>2. view'[s] = kept /\ \A p \in Author \cup {Server} : p # s => view'[p] = view[p]
  BY <1>1, Zenon DEF KeyTypeOK, A!FileTypeOK, A!Load
<1>3. view'[Server] = due'
  BY <1>1, <1>2, Zenon DEF FileInv
<1>4. ASSUME NEW p \in Author, cmd'[p] = "loaded", p \notin stale' \cup cutting'
      PROVE  view'[p] = kept'
  BY <1>1, <1>2, <1>4, AdmissionParameters, Zenon DEF FileInv
<1> QED
  BY <1>1, <1>3, <1>4, Zenon DEF FileInv

(* A save up to the truncation. *)
LEMMA CutKeeps ==
    ASSUME KeyTypeOK, FileInv, NEW s \in Author, NEW k \in ClientKey, A!Cut(s, k, "yes"),
           cmd[s] = "loaded", s \notin cutting, cmd' = cmd, due' = due
    PROVE  FileInv'
<1> SUFFICES ASSUME ~spoiled' PROVE FileInv'
  BY Zenon DEF FileInv
<1>1. /\ ~spoiled /\ s \notin stale /\ cutting = {} /\ cutting' = {s} /\ kept' = kept /\ disk' = A!Blank
      /\ stale' = (Author \cup {Server}) \ {s}
  BY Zenon DEF A!Cut
<1>2. view[s] = kept
  BY <1>1, Zenon DEF FileInv
<1>3. /\ \A j \in ClientKey : j # k => view'[s][j] = view[s][j]
      /\ view'[s][k] = "yes"
      /\ \A p \in Author \cup {Server} : p # s => view'[p] = view[p]
  BY Zenon DEF KeyTypeOK, A!FileTypeOK, A!Entries, A!Cut
<1>4. view'[Server] = due'
  BY <1>1, <1>3, AdmissionParameters, Zenon DEF FileInv
<1>5. \A j \in ClientKey : view'[s][j] = None => kept'[j] = None
  <2>1. kept[k] \in {"yes", None}
    BY Zenon DEF KeyTypeOK, A!FileTypeOK, A!Entries
  <2> QED
    BY <1>1, <1>2, <1>3, <2>1, Zenon
<1> QED
  BY <1>1, <1>4, <1>5, Zenon DEF FileInv

(* The rest of the save. *)
LEMMA PutKeeps ==
    ASSUME KeyTypeOK, FileInv, NEW s \in Author, A!Put(s),
           cmd' = [cmd EXCEPT ![s] = "done"], due' = due
    PROVE  FileInv'
<1> SUFFICES ASSUME ~spoiled' PROVE FileInv'
  BY Zenon DEF FileInv
<1>1. /\ ~spoiled /\ s \in cutting /\ disk = A!Blank /\ view' = view /\ stale' = stale /\ cutting' = cutting \ {s}
      /\ \A p \in cutting : p = s
  BY Zenon DEF A!Put, FileInv
<1>2. \A k \in ClientKey : view[s][k] = None => kept[k] = None
  BY <1>1, Zenon DEF FileInv
<1>3. kept' = view[s]
  <2>1. view[s] \in A!Entries
    BY Zenon DEF KeyTypeOK, A!FileTypeOK
  <2>2. \A k \in ClientKey : kept'[k] = view[s][k]
    BY <1>2, Zenon DEF A!Put, A!Over
  <2> QED
    BY <2>1, <2>2, Zenon DEF A!Put, A!Over, A!Entries
<1>4. disk' = view[s]
  <2>1. view[s] \in A!Entries /\ \A k \in ClientKey : A!Blank[k] = None
    BY Zenon DEF KeyTypeOK, A!FileTypeOK, A!Blank
  <2>2. A!Over(view[s], disk) = view[s]
    BY <1>1, <2>1, Zenon DEF A!Over, A!Entries
  <2> QED
    BY <2>2, Zenon DEF A!Put
<1>5. cutting' = {} /\ view'[Server] = due'
  BY <1>1, Zenon DEF FileInv
<1>6. ASSUME NEW p \in Author, cmd'[p] = "loaded", p \notin stale' \cup cutting'
      PROVE  view'[p] = kept'
  <2>1. p # s /\ cmd[p] = "loaded" /\ p \notin stale \cup cutting
    BY <1>1, <1>6, Zenon DEF KeyTypeOK
  <2> QED
    BY <1>1, <2>1, Zenon DEF FileInv
<1> QED
  BY <1>3, <1>4, <1>5, <1>6, Zenon DEF FileInv

(* An authorize command dies. *)
LEMMA DieKeeps ==
    ASSUME KeyTypeOK, FileInv, NEW s \in Author, A!Die(s),
           cmd' = [cmd EXCEPT ![s] = "done"], due' = due
    PROVE  FileInv'
<1> SUFFICES ASSUME ~spoiled' PROVE FileInv'
  BY DEF FileInv
<1>1. /\ ~spoiled /\ s \notin cutting /\ cutting' = cutting
      /\ disk' = disk /\ kept' = kept /\ stale' = stale
  BY Zenon DEF A!Die
<1>2. /\ \A p \in Author \cup {Server} : p # s => view'[p] = view[p]
      /\ cmd'[s] = "done" /\ \A p \in Author : p # s => cmd'[p] = cmd[p]
      /\ \A p \in cutting : p \in Author \cup {Server} /\ p # s
  BY <1>1, Zenon DEF KeyTypeOK, A!FileTypeOK, A!Die
<1> QED
  BY <1>1, <1>2, AdmissionParameters DEF FileInv

(* What the server has changes at a restart only, so a client past TLS stays one
   that its keys let in. *)
LEMMA AdmittedStep ==
    ASSUME KInv, Next, phase \in [Peer -> Phases]
    PROVE  Admitted'
<1>1. CASE Restart
  BY <1>1, Zenon DEF Restart, Admitted
<1>2. ASSUME NEW p \in Author, AuthorizeLoad(p) \/ AuthorizeSave(p) \/ AuthorizeDies(p)
      PROVE  Admitted'
  <2>1. view'[Server] = view[Server]
    BY <1>2, AdmissionParameters, Zenon DEF AuthorizeLoad, AuthorizeSave, AuthorizeDies, A!Load,
       A!Cut, A!Put, A!Die, KInv, KeyTypeOK, A!FileTypeOK
  <2>2. phase' = phase
    BY <1>2, Zenon DEF AuthorizeLoad, AuthorizeSave, AuthorizeDies, slotVars
  <2> QED
    BY <2>1, <2>2, Zenon DEF KInv, Admitted, Authorized
<1>3. ASSUME NEW c \in Peer,
             \/ Connect(c) \/ TakePermit(c) \/ TaskStep(c) \/ TlsDone(c) \/ Handshake(c)
             \/ OpenStream(c) \/ StreamEnds(c) \/ Close(c)
      PROVE  Admitted'
  <2>1. /\ view' = view
        /\ \/ phase' = phase
           \/ \E p \in {"away", "incoming", "tls", "ended", "dropping", "retained"} :
                  phase' = [phase EXCEPT ![c] = p]
           \/ phase' = [phase EXCEPT ![c] = "serving"] /\ phase[c] = "hello"
           \/ /\ phase' = [phase EXCEPT ![c] = "hello"]
              /\ KeyOf[c] \in Authorized \/ (Authorized = {} /\ AllowAny)
    BY <1>3, Zenon DEF Connect, TakePermit, TaskStep, TakeIpSlot, TlsEnds, HandshakeEnds,
       DropIpSlot, DropPermit, TlsDone, Handshake, OpenStream, StreamEnds, Close, To, Unslotted,
       keyVars
  <2>2. Authorized' = Authorized
    BY <2>1, Zenon DEF Authorized
  <2> QED
    BY <2>1, <2>2, Zenon DEF KInv, Admitted
<1> QED
  BY <1>1, <1>2, <1>3, Zenon DEF Next

(* The invariant is inductive. *)
LEMMA KInvStep ==
    ASSUME KInv, [Next]_vars, phase \in [Peer -> Phases]
    PROVE  KInv'
<1>1. CASE UNCHANGED vars
  BY <1>1, Zenon DEF vars, slotVars, keyVars, KInv, KeyTypeOK, A!FileTypeOK, FileInv, Admitted,
     Authorized
<1>2. CASE Next
  <2>1. ASSUME UNCHANGED Unslotted PROVE FileInv'
    BY <2>1, Zenon DEF KInv, FileInv, Unslotted, keyVars
  <2>2. ASSUME NEW p \in Author, AuthorizeLoad(p) PROVE FileInv'
    BY <2>2, LoadKeeps, AdmissionParameters, Zenon DEF KInv, KeyTypeOK, AuthorizeLoad
  <2>3. ASSUME NEW p \in Author, AuthorizeSave(p) PROVE FileInv'
    BY <2>3, CutKeeps, PutKeeps, Zenon DEF KInv, AuthorizeSave
  <2>4. ASSUME NEW p \in Author, AuthorizeDies(p) PROVE FileInv'
    BY <2>4, DieKeeps, Zenon DEF KInv, AuthorizeDies
  <2>5. ASSUME Restart PROVE FileInv'
    BY <2>5, LoadKeeps, Zenon DEF KInv, Restart
  <2>6. FileInv'
    BY <1>2, <2>1, <2>2, <2>3, <2>4, <2>5, ZenonT(60)
       DEF Next, TaskStep, Connect, TakePermit, TakeIpSlot, TlsEnds, HandshakeEnds, DropIpSlot,
           DropPermit, TlsDone, Handshake, OpenStream, StreamEnds, Close
  <2> QED
    BY <1>2, <2>6, KeyTyped, AdmittedStep, Zenon DEF KInv
<1> QED
  BY <1>1, <1>2, Zenon

(* The invariant holds throughout. *)
LEMMA KeysInvariance == Spec => []KInv
<1>1. Init => KInv
  <2> SUFFICES ASSUME Init PROVE KInv
    OBVIOUS
  <2>1. KeyTypeOK
    BY Zenon DEF Init, A!FileInit, KeyTypeOK, A!FileTypeOK, A!Entries, A!Blank
  <2>2. FileInv
    BY Zenon DEF Init, A!FileInit, FileInv
  <2>3. Admitted
    BY Zenon DEF Init, Admitted
  <2> QED
    BY <2>1, <2>2, <2>3, Zenon DEF KInv
<1>2. IInv /\ KInv /\ [Next]_vars => KInv'
  BY KInvStep, Zenon DEF IInv, TypeOK
<1> QED
  BY <1>1, <1>2, Invariance, PTL DEF Spec

(* authorized_keys keeps every key, whatever commands load, save and die in
   between, unless they overlapped or one was cut short (trust.rs, AuthorizedKeys::save). *)
THEOREM KeysAreKept == Spec => []KeysKept
<1>1. KInv => KeysKept
  BY Zenon DEF KInv, FileInv, KeysKept, A!EntriesKept
<1> QED
  BY <1>1, KeysInvariance, PTL

(* Under the same proviso a client is served only if its key was authorized when the
   server started, or none was and allow_any_client is set (lib.rs,
   verify_client_cert). *)
THEOREM OnlyTheAuthorized == Spec => []OnlyAuthorizedServed
<1>1. KInv => OnlyAuthorizedServed
  <2> SUFFICES ASSUME KInv, ~spoiled, NEW c \in Peer, phase[c] \in {"hello", "serving"}
               PROVE  due[KeyOf[c]] # None \/ (AllowAny /\ due = A!Blank)
    BY Zenon DEF OnlyAuthorizedServed
  <2>1. view[Server] = due /\ due \in A!Entries
    BY Zenon DEF KInv, KeyTypeOK, FileInv
  <2>2. CASE KeyOf[c] \in Authorized
    BY <2>1, <2>2, Zenon DEF Authorized
  <2>3. CASE Authorized = {} /\ AllowAny
    <3>1. \A k \in ClientKey : due[k] = None
      BY <2>1, <2>3, Zenon DEF Authorized
    <3> QED
      BY <2>1, <2>3, <3>1, Zenon DEF A!Entries, A!Blank
  <2> QED
    BY <2>2, <2>3, Zenon DEF KInv, Admitted
<1> QED
  BY <1>1, KeysInvariance, PTL
=============================================================================
