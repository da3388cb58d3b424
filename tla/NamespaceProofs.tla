-------------------------- MODULE NamespaceProofs --------------------------
(***************************************************************************)
(* For any names, and any number of operations, reconnects and lost        *)
(* replies: a path's inode number resolves to the path, and the metadata   *)
(* cache answers what the server would, with the exceptions CacheCoherent  *)
(* names.                                                                  *)
(*                                                                         *)
(* For any directory, page size and reply size: a listing misses nothing   *)
(* while entries are only added, and repeats nothing while entries are     *)
(* only removed.                                                           *)
(***************************************************************************)
EXTENDS Namespace, ReadDir, WellFoundedInduction, TLAPS

\* Types.  An object that has not been made yet has version 0.
ServerTyped ==
    /\ nops \in Nat /\ nops <= MaxOps
    /\ used \in Nat /\ 1 <= used /\ used <= nops + 1
    /\ obj \in [AllPath -> 0..used]
    /\ isDir \subseteq 1..used /\ isLink \subseteq 1..used /\ linked \subseteq 1..used
    /\ ver \in [Objects -> Nat] /\ \A o \in Objects : o > used => ver[o] = 0

\* Every entry is in a directory, and directories are in the root.
Tree ==
    /\ DirAt(Root)
    /\ \A p \in Path : Exists(p) => DirAt(Parent(p))
    /\ \A p \in AllPath : DirAt(p) => Len(p) # 2

\* Only a file that has been hard-linked has two names.
OneName ==
    /\ \A p, q \in AllPath : Exists(p) /\ p # q /\ obj[p] = obj[q] => obj[p] \in linked
    /\ \A o \in linked : o \notin isDir

ServerInv == ServerTyped /\ Tree /\ OneName

InoInv ==
    /\ next \in Nat /\ 1 <= next /\ next <= MaxOps + 1
    /\ inoOf \in [AllPath -> Nat] /\ \A p \in AllPath : inoOf[p] < next
    /\ DOMAIN pathOf = Ino
    /\ InoResolves

NamespaceInv ==
    /\ ServerInv /\ InoInv
    /\ newGen \in BOOLEAN /\ DOMAIN cache = AllPath
    /\ CacheCoherent
-----------------------------------------------------------------------------
(* Paths: the root, its entries, and entries of those. *)
LEMMA PathFacts ==
  /\ Root \in AllPath /\ Root \notin Path /\ Len(Root) # 2
  /\ \A p \in Path : p \in AllPath /\ Parent(p) \in AllPath /\ Parent(p) # p
  /\ \A p \in Path : (Len(p) = 1 <=> Len(p) # 2) /\ (Len(p) = 2 <=> Parent(p) \in Path)
  /\ \A p \in AllPath : p = Root \/ p \in Path
  /\ \A p \in Path : Len(Parent(p)) # 2
<1>1. \A n, m : /\ Len(<<n>>) = 1 /\ Len(<<n, m>>) = 2 /\ <<n, m>>[1] = n
                /\ <<n>> # <<>> /\ <<n, m>> # <<>> /\ <<n>> # <<n, m>>
  OBVIOUS
<1>2. Len(<<>>) = 0 /\ 0 # 2 /\ 1 # 2
  OBVIOUS
<1>3. Root \in AllPath /\ Root \notin Path /\ \A p \in AllPath : p = Root \/ p \in Path
  BY DEF AllPath, Path, Root
<1>4. ASSUME NEW n \in Name
      PROVE  Parent(<<n>>) = Root /\ <<n>> \in Path
  BY DEF Parent, Path
<1>5. ASSUME NEW n \in Name, NEW m \in Leaf
      PROVE  Parent(<<n, m>>) = <<n>>
  BY <1>1, <1>2, Zenon DEF Parent
<1>6. ASSUME NEW p \in Path
      PROVE  /\ Parent(p) \in AllPath /\ Parent(p) # p /\ Len(Parent(p)) # 2
             /\ (Len(p) = 1 <=> Len(p) # 2) /\ (Len(p) = 2 <=> Parent(p) \in Path)
  <2>1. CASE \E n \in Name : p = <<n>>
    BY <1>1, <1>2, <1>3, <1>4, <2>1, Zenon DEF Root
  <2>2. CASE \E n \in Name, m \in Leaf : p = <<n, m>>
    <3>1. PICK n \in Name, m \in Leaf : p = <<n, m>>
      BY <2>2, Zenon
    <3>2. Parent(p) = <<n>> /\ Parent(p) \in Path /\ Len(p) = 2 /\ Len(<<n>>) = 1 /\ <<n>> # p
      BY <1>1, <1>4, <1>5, <3>1, Zenon
    <3> QED
      BY <1>2, <3>2, Zenon DEF AllPath
  <2> QED
    BY <2>1, <2>2 DEF Path
<1> QED
  BY <1>2, <1>3, <1>6, Zenon DEF AllPath, Root

(* The entry a renamed directory p takes along to r. *)
LEMMA EntryFacts ==
  ASSUME NEW p \in Path, Len(p) # 2, NEW r \in Path, Len(r) = 2
  PROVE  /\ <<p[1], r[2]>> \in Below(p)
         /\ \A s \in Path : Len(s) = 2 /\ Parent(s) = Parent(r) /\ <<p[1], s[2]>> = <<p[1], r[2]>>
                              => s = r
<1>1. PICK n \in Name : p = <<n>>
  BY DEF Path
<1>2. ASSUME NEW s \in Path, Len(s) = 2
      PROVE  \E a \in Name, b \in Leaf : s = <<a, b>> /\ Parent(s) = <<a>> /\ s[2] = b
  BY <1>2 DEF Path, Parent
<1>3. p[1] = n
  BY <1>1
<1>4. PICK a \in Name, b \in Leaf : r = <<a, b>> /\ Parent(r) = <<a>> /\ r[2] = b
  BY <1>2, Zenon
<1>5. <<n, b>> \in Path /\ Len(<<n, b>>) = 2 /\ Parent(<<n, b>>) = <<n>>
  BY DEF Path, Parent
<1>6. ASSUME NEW s \in Path, Len(s) = 2, Parent(s) = Parent(r), <<p[1], s[2]>> = <<p[1], r[2]>>
      PROVE  s = r
  <2>1. PICK c \in Name, d \in Leaf : s = <<c, d>> /\ Parent(s) = <<c>> /\ s[2] = d
    BY <1>2, <1>6, Zenon
  <2>2. <<c>> = <<a>> /\ <<n, d>> = <<n, b>>
    BY <1>3, <1>4, <1>6, <2>1, Zenon
  <2>3. c = a /\ d = b
    BY <2>2
  <2> QED
    BY <1>4, <2>1, <2>3, Zenon
<1> QED
  BY <1>1, <1>3, <1>4, <1>5, <1>6, Zenon DEF Below

-----------------------------------------------------------------------------
(* The inode table. *)

(* Numbers are handed out once, each to one path. *)
LEMMA AllocKeeps ==
  ASSUME InoInv, NEW ps, GetOrAlloc(ps) PROVE InoInv'
<1> DEFINE fresh == {p \in ps : inoOf[p] = 0}
<1>1. PICK n \in next..(MaxOps + 1) : \E alloc \in Bijection(next..(n - 1), fresh) :
        /\ pathOf' = [i \in Ino |-> IF i \in next..(n - 1) THEN alloc[i] ELSE pathOf[i]]
        /\ inoOf' = [p \in AllPath |-> IF p \in fresh
                                       THEN CHOOSE i \in next..(n - 1) : alloc[i] = p
                                       ELSE inoOf[p]]
        /\ next' = n
  BY Zenon DEF GetOrAlloc
<1>2. PICK alloc \in Bijection(next..(n - 1), fresh) :
        /\ pathOf' = [i \in Ino |-> IF i \in next..(n - 1) THEN alloc[i] ELSE pathOf[i]]
        /\ inoOf' = [p \in AllPath |-> IF p \in fresh
                                       THEN CHOOSE i \in next..(n - 1) : alloc[i] = p
                                       ELSE inoOf[p]]
        /\ next' = n
  BY <1>1, Zenon
<1>3. next \in Nat /\ n \in Nat /\ n <= MaxOps + 1 /\ 1 <= next /\ next <= n /\ MaxOps \in Nat
  BY NamespaceParameters DEF InoInv
<1> HIDE DEF fresh
<1>4. ASSUME NEW p \in AllPath, p \in fresh
      PROVE  inoOf'[p] \in next..(n - 1) /\ pathOf'[inoOf'[p]] = p
  <2>1. \E i \in next..(n - 1) : alloc[i] = p
    BY <1>4, Zenon DEF Bijection, Surjection
  <2>2. inoOf'[p] \in next..(n - 1) /\ alloc[inoOf'[p]] = p
    BY <1>2, <1>4, <2>1, Zenon
  <2>3. inoOf'[p] \in Ino
    BY <1>3, <2>2 DEF Ino
  <2> QED
    BY <1>2, <2>2, <2>3, Zenon
<1>5. ASSUME NEW p \in AllPath, p \notin fresh
      PROVE  inoOf'[p] = inoOf[p] /\ (inoOf[p] # 0 => pathOf'[inoOf[p]] = p)
  <2>1. inoOf'[p] = inoOf[p]
    BY <1>2, <1>5, Zenon
  <2>2. inoOf[p] # 0 => inoOf[p] \in Ino /\ inoOf[p] \notin next..(n - 1)
    BY <1>3 DEF InoInv, Ino
  <2> QED
    BY <1>2, <2>1, <2>2, Zenon DEF InoInv, InoResolves
<1>6. ASSUME NEW p \in AllPath PROVE inoOf'[p] \in Nat /\ inoOf'[p] < n
  <2>1. CASE p \in fresh
    BY <1>3, <1>4, <2>1
  <2>2. CASE p \notin fresh
    BY <1>3, <1>5, <2>2 DEF InoInv
  <2> QED
    BY <2>1, <2>2, Zenon
<1>7. inoOf' \in [AllPath -> Nat] /\ DOMAIN pathOf' = Ino
  BY <1>2, <1>6, Zenon
<1>8. next' = n /\ 1 <= n
  BY <1>2, <1>3
<1>9. InoResolves'
  BY <1>4, <1>5, Zenon DEF InoResolves
<1> QED
  BY <1>3, <1>6, <1>7, <1>8, <1>9, Zenon DEF InoInv

(* Unlinking takes a path and its number out together; nothing else has the number. *)
LEMMA RemoveKeeps ==
  ASSUME InoInv, NEW p \in AllPath, RemovePath(p) PROVE InoInv'
<1>1. \A r \in AllPath : inoOf[r] # 0 => inoOf[r] \in Ino
  BY NamespaceParameters DEF InoInv, Ino
<1>2. inoOf' = [inoOf EXCEPT ![p] = 0] /\ next' = next
      /\ pathOf' = IF inoOf[p] # 0 THEN [pathOf EXCEPT ![inoOf[p]] = NoPath] ELSE pathOf
  BY Zenon DEF RemovePath
<1>3. inoOf'[p] = 0 /\ \A r \in AllPath \ {p} : inoOf'[r] = inoOf[r]
  BY <1>2, Zenon DEF InoInv
<1>4. \A r \in AllPath : r # p /\ inoOf[r] # 0 => inoOf[r] # inoOf[p]
  BY Zenon DEF InoInv, InoResolves
<1>5. \A i \in Ino : i # inoOf[p] => pathOf'[i] = pathOf[i]
  BY <1>2, Zenon DEF InoInv
<1>6. InoResolves'
  BY <1>1, <1>3, <1>4, <1>5, ZenonT(60) DEF InoInv, InoResolves
<1>7. 0 \in Nat /\ 0 < next
  BY DEF InoInv
<1>8. inoOf' \in [AllPath -> Nat] /\ (\A r \in AllPath : inoOf'[r] < next) /\ DOMAIN pathOf' = Ino
  BY <1>2, <1>3, <1>7, Zenon DEF InoInv
<1> QED
  BY <1>2, <1>6, <1>8, Zenon DEF InoInv

(* A rename gives the source's number to the destination, in both tables. *)
LEMMA RenameKeeps ==
  ASSUME InoInv, NEW p \in AllPath, NEW q \in AllPath, p # q, RenameIno(p, q) PROVE InoInv'
<1>1. \A r \in AllPath : inoOf[r] # 0 => inoOf[r] \in Ino
  BY NamespaceParameters DEF InoInv, Ino
<1>2. CASE inoOf[p] = 0
  <2>1. UNCHANGED inoVars
    BY <1>2, Zenon DEF RenameIno, inoVars
  <2> QED
    BY <2>1, Zenon DEF inoVars, InoInv, InoResolves
<1>3. CASE inoOf[p] # 0
  <2>1. inoOf' = [inoOf EXCEPT ![p] = 0, ![q] = inoOf[p]] /\ next' = next
        /\ pathOf' = [pathOf EXCEPT ![inoOf[p]] = q]
    BY <1>3, Zenon DEF RenameIno
  <2>2. inoOf'[p] = 0 /\ inoOf'[q] = inoOf[p] /\ \A r \in AllPath \ {p, q} : inoOf'[r] = inoOf[r]
    BY <2>1, Zenon DEF InoInv
  <2>3. \A r \in AllPath : r # p /\ inoOf[r] # 0 => inoOf[r] # inoOf[p]
    BY Zenon DEF InoInv, InoResolves
  <2>4. pathOf'[inoOf[p]] = q /\ \A i \in Ino : i # inoOf[p] => pathOf'[i] = pathOf[i]
    BY <1>1, <1>3, <2>1, Zenon DEF InoInv
  <2>5. InoResolves'
    <3> SUFFICES ASSUME NEW r \in AllPath, inoOf'[r] # 0 PROVE pathOf'[inoOf'[r]] = r
      BY Zenon DEF InoResolves
    <3>1. CASE r = q
      BY <2>2, <2>4, <3>1, Zenon
    <3>2. CASE r # q
      <4>1. r # p /\ inoOf'[r] = inoOf[r] /\ inoOf[r] # inoOf[p] /\ inoOf[r] \in Ino
        BY <1>1, <2>2, <2>3, <3>2, Zenon
      <4> QED
        BY <2>4, <4>1, Zenon DEF InoInv, InoResolves
    <3> QED
      BY <3>1, <3>2, Zenon
  <2>6. 0 \in Nat /\ 0 < next
    BY DEF InoInv
  <2>7. \A r \in AllPath : inoOf'[r] \in Nat /\ inoOf'[r] < next
    BY <2>2, <2>6, Zenon DEF InoInv
  <2>8. inoOf' \in [AllPath -> Nat] /\ DOMAIN pathOf' = Ino
    BY <2>1, <2>7, Zenon DEF InoInv
  <2> QED
    BY <2>1, <2>5, <2>7, <2>8, Zenon DEF InoInv
<1> QED
  BY <1>2, <1>3, Zenon
-----------------------------------------------------------------------------
(* The server's tree. *)

\* A file or a link that has changed in its directory shows there.
EntryShows ==
    \A c \in Path : Exists(c) /\ obj'[c] # obj[c] => StatOf(Parent(c))' # StatOf(Parent(c))
Grows == linked \subseteq linked' /\ isLink \subseteq isLink' /\ moved \subseteq moved'

\* What CacheCoherent tolerates of an entry that was right before the step.
Excused(r) ==
    \/ OldAttributes(r)' /\ obj'[r] = obj[r]
    \/ Len(r) = 2 /\ Parent(r) \in moved'
Changes(D) == \A r \in AllPath \ D : StatOf(r)' = StatOf(r) \/ Excused(r)

(* What Touch does to the versions, and so to the Stats of the paths that keep their
   object. *)
LEMMA TouchFacts ==
  ASSUME ServerTyped, NEW os, Touch(os)
  PROVE  /\ ver' \in [Objects -> Nat]
         /\ \A o \in Objects : o \notin os => ver'[o] = ver[o]
         /\ \A r \in AllPath : obj'[r] = obj[r] =>
              /\ ~Exists(r) \/ obj[r] \notin os => StatOf(r)' = StatOf(r)
              /\ Exists(r) /\ obj[r] \in os => StatOf(r)' # StatOf(r)
         /\ \A r \in AllPath : obj'[r] # obj[r] => StatOf(r)' # StatOf(r)
<1>1. ver' = [o \in Objects |-> ver[o] + (IF o \in os THEN 1 ELSE 0)]
  BY Zenon DEF Touch
<1>2. \A o \in Objects : ver[o] \in Nat
  BY Zenon DEF ServerTyped
<1>3. \A v \in Nat : v + 0 = v /\ v + 1 \in Nat /\ v + 1 # v
  OBVIOUS
<1>4. \A o \in Objects : /\ ver'[o] \in Nat /\ (o \notin os => ver'[o] = ver[o])
                         /\ (o \in os => ver'[o] # ver[o])
  BY <1>1, <1>2, <1>3, Zenon
<1>5. ver' \in [Objects -> Nat]
  BY <1>1, <1>4, Zenon
<1>6. \A r \in AllPath : Exists(r) => obj[r] \in Objects
  BY NamespaceParameters DEF ServerTyped, Exists, Objects
<1>7. \A a, b, c, d : <<a, b>> = <<c, d>> <=> a = c /\ b = d
  OBVIOUS
<1>8. ASSUME NEW r \in AllPath, obj'[r] = obj[r]
      PROVE  /\ ~Exists(r) \/ obj[r] \notin os => StatOf(r)' = StatOf(r)
             /\ Exists(r) /\ obj[r] \in os => StatOf(r)' # StatOf(r)
  BY <1>4, <1>6, <1>7, <1>8, Zenon DEF StatOf, Exists
<1>9. ASSUME NEW r \in AllPath, obj'[r] # obj[r] PROVE StatOf(r)' # StatOf(r)
  BY <1>7, <1>9, Zenon DEF StatOf, Neg
<1> QED
  BY <1>4, <1>5, <1>8, <1>9, Zenon

(* Two paths of one directory are one path. *)
LEMMA OneDir ==
  ASSUME ServerInv, NEW p \in AllPath, NEW q \in AllPath, DirAt(p), obj[p] = obj[q]
  PROVE  p = q
BY Zenon DEF ServerInv, OneName, DirAt

(* What a creating call does, whatever it makes. *)
LEMMA MakeKeeps ==
  ASSUME ServerInv, NEW p \in Path, SrvMake(p),
         \/ isDir' = isDir \cup {used + 1} /\ Len(p) = 1 /\ isLink' = isLink
         \/ isDir' = isDir /\ isLink' \in {isLink, isLink \cup {used + 1}}
  PROVE  /\ ServerInv' /\ EntryShows /\ Grows
         /\ Changes({p, Parent(p)})
         /\ obj'[p] = used + 1 /\ StatOf(p)' = <<used + 1, 0>>
         /\ obj'[Parent(p)] = obj[Parent(p)]
<1>1. /\ DirAt(Parent(p)) /\ ~Exists(p) /\ used' = used + 1 /\ nops' = nops + 1 /\ nops < MaxOps
      /\ obj' = [obj EXCEPT ![p] = used + 1] /\ Touch({obj[Parent(p)]}) /\ linked' = linked /\ moved' = moved
  BY Zenon DEF SrvMake, Counted
<1>t. ServerTyped /\ Tree /\ OneName
  BY Zenon DEF ServerInv
<1>p. p \in AllPath /\ Parent(p) \in AllPath /\ Parent(p) # p
  BY PathFacts, Zenon
<1>2. obj'[p] = used + 1 /\ \A r \in AllPath \ {p} : obj'[r] = obj[r]
  BY <1>1, <1>t, <1>p, Zenon DEF ServerTyped
<1>3. /\ used + 1 \in Objects /\ used + 1 \in 1..(used + 1) /\ used + 1 # 0 /\ used \in Nat
      /\ used + 1 > used /\ 1..used \subseteq 1..(used + 1) /\ used + 1 \notin 1..used
      /\ \A r \in AllPath : obj[r] \in 0..(used + 1) /\ obj[r] # used + 1
      /\ \A o \in Objects : o > used + 1 => o > used
  BY <1>1, NamespaceParameters DEF ServerInv, ServerTyped, Objects
<1>4. /\ ver' \in [Objects -> Nat]
      /\ \A o \in Objects : o # obj[Parent(p)] => ver'[o] = ver[o]
      /\ \A r \in AllPath \ {p} : obj[r] # obj[Parent(p)] => StatOf(r)' = StatOf(r)
      /\ \A r \in AllPath : obj'[r] # obj[r] => StatOf(r)' # StatOf(r)
  BY <1>1, <1>2, <1>t, TouchFacts, ZenonT(60)
<1>5. ServerTyped'
  <2>1. \A o \in Objects : o > used + 1 => ver'[o] = 0
    <3> SUFFICES ASSUME NEW o \in Objects, o > used + 1 PROVE ver'[o] = 0
      BY Zenon
    <3>1. o # obj[Parent(p)] /\ o > used
      BY <1>3, <1>p DEF ServerInv, ServerTyped, Objects
    <3> QED
      BY <1>4, <1>t, <3>1, Zenon DEF ServerTyped
  <2>2. nops' \in Nat /\ nops' <= MaxOps /\ used' \in Nat /\ 1 <= used' /\ used' <= nops' + 1
    BY <1>1, <1>t, NamespaceParameters DEF ServerTyped
  <2>3. obj' \in [AllPath -> 0..used']
    <3>1. used + 1 \in 0..(used + 1)
      BY <1>3
    <3> QED
      BY <1>1, <1>3, <1>t, <3>1, Zenon DEF ServerTyped
  <2>4. isDir' \subseteq 1..used' /\ isLink' \subseteq 1..used' /\ linked' \subseteq 1..used'
    BY <1>1, <1>3, <1>t, Zenon DEF ServerTyped
  <2> QED
    BY <1>1, <1>4, <2>1, <2>2, <2>3, <2>4, Zenon DEF ServerTyped
<1>6. isDir \subseteq isDir' /\ (used + 1 \in isDir' => Len(p) # 2)
      /\ \A o \in 1..used : o \in isDir' => o \in isDir
  BY <1>3, <1>t, PathFacts, Zenon DEF ServerTyped
<1>7. \A r \in AllPath \ {p} : (Exists(r)' <=> Exists(r)) /\ (DirAt(r)' <=> DirAt(r))
  <2>1. \A r \in AllPath : Exists(r) => obj[r] \in 1..used
    BY <1>t DEF ServerTyped, Exists
  <2> QED
    BY <1>2, <1>6, <2>1, Zenon DEF Exists, DirAt
<1>8. Tree'
  <2>1. DirAt(Root)'
    BY <1>7, <1>t, PathFacts, Zenon DEF Tree
  <2>2. \A r \in AllPath : DirAt(r)' => Len(r) # 2
    BY <1>2, <1>6, <1>7, <1>t, Zenon DEF Tree, DirAt
  <2>3. ASSUME NEW r \in Path, Exists(r)' PROVE DirAt(Parent(r))'
    <3>1. DirAt(Parent(r)) /\ Parent(r) \in AllPath /\ r \in AllPath
      BY <1>1, <1>7, <1>t, <2>3, PathFacts, Zenon DEF Tree
    <3> QED
      BY <1>1, <1>7, <3>1, Zenon DEF DirAt
  <2> QED
    BY <2>1, <2>2, <2>3, Zenon DEF Tree
<1>9. OneName'
  <2>1. ASSUME NEW r \in AllPath, NEW s \in AllPath, Exists(r)', r # s, obj'[r] = obj'[s]
        PROVE  obj'[r] \in linked'
    <3>1. r # p /\ s # p
      BY <1>2, <1>3, <2>1, Zenon
    <3>2. Exists(r) /\ obj'[r] = obj[r] /\ obj'[s] = obj[s]
      BY <1>2, <1>7, <2>1, <3>1, Zenon
    <3>3. obj[r] \in linked /\ linked' = linked
      BY <1>1, <1>t, <2>1, <3>2, Zenon DEF OneName
    <3> QED
      BY <3>2, <3>3, Zenon
  <2>2. \A o \in linked' : o \notin isDir'
    BY <1>1, <1>6, <1>t, Zenon DEF OneName, ServerTyped
  <2> QED
    BY <2>1, <2>2, Zenon DEF OneName
<1>10. EntryShows
  BY <1>1, <1>2, PathFacts, Zenon DEF EntryShows
<1>11. Changes({p, Parent(p)})
  BY <1>1, <1>4, <1>p, OneDir, Zenon DEF Changes
<1>12. StatOf(p)' = <<used + 1, 0>>
  <2>1. ver'[used + 1] = 0
    BY <1>3, <1>4, <1>p, <1>t, Zenon DEF ServerTyped
  <2> QED
    BY <1>2, <1>3, <2>1, Zenon DEF StatOf
<1> QED
  BY <1>1, <1>2, <1>5, <1>8, <1>9, <1>10, <1>11, <1>12, <1>p, Zenon DEF ServerInv, Grows
(* What link does to the tree. *)
LEMMA LinkKeeps ==
  ASSUME ServerInv, NEW p \in AllPath, NEW q \in Path, SrvLink(p, q)
  PROVE  /\ ServerInv' /\ EntryShows /\ Grows
         /\ Changes({p, q, Parent(q)})
         /\ StatOf(p)' = <<obj[p], ver[obj[p]] + 1>> /\ StatOf(q)' = StatOf(p)'
         /\ p # q /\ p # Parent(q)
<1>1. /\ Exists(p) /\ ~DirAt(p) /\ DirAt(Parent(q)) /\ ~Exists(q) /\ nops' = nops + 1 /\ nops < MaxOps
      /\ obj' = [obj EXCEPT ![q] = obj[p]] /\ linked' = linked \cup {obj[p]}
      /\ Touch({obj[p], obj[Parent(q)]}) /\ UNCHANGED <<isDir, isLink, moved, used>>
  BY Zenon DEF SrvLink, Counted
<1>t. ServerTyped /\ Tree /\ OneName
  BY Zenon DEF ServerInv
<1>p. q \in AllPath /\ Parent(q) \in AllPath /\ Parent(q) # q /\ p # q /\ p # Parent(q)
  BY <1>1, PathFacts, Zenon
<1>2. obj'[q] = obj[p] /\ obj'[p] = obj[p] /\ \A r \in AllPath \ {q} : obj'[r] = obj[r]
  BY <1>1, <1>t, <1>p, Zenon DEF ServerTyped
<1>l. obj[p] \in linked' /\ linked \subseteq linked'
  BY <1>1, Zenon
<1>3. obj[p] \in 1..used /\ obj[p] \in Objects /\ obj[Parent(q)] \in 1..used /\ obj[p] # 0
      /\ \A o \in Objects : o > used => o \notin {obj[p], obj[Parent(q)]}
  BY <1>1, <1>t, <1>p, NamespaceParameters DEF ServerTyped, Objects, Exists, DirAt
<1>4. /\ ver' \in [Objects -> Nat]
      /\ \A o \in Objects : o \notin {obj[p], obj[Parent(q)]} => ver'[o] = ver[o]
      /\ \A r \in AllPath : obj'[r] = obj[r] =>
              /\ obj[r] \notin {obj[p], obj[Parent(q)]} => StatOf(r)' = StatOf(r)
              /\ Exists(r) /\ obj[r] \in {obj[p], obj[Parent(q)]} => StatOf(r)' # StatOf(r)
  BY <1>1, <1>t, TouchFacts, Zenon
<1>5. ServerTyped'
  <2>1. nops' \in Nat /\ nops' <= MaxOps /\ used <= nops' + 1
    BY <1>1, <1>t, NamespaceParameters DEF ServerTyped
  <2>2. obj' \in [AllPath -> 0..used]
    BY <1>1, <1>t, Zenon DEF ServerTyped
  <2> QED
    BY <1>1, <1>3, <1>4, <1>t, <2>1, <2>2, Zenon DEF ServerTyped
<1>6. ASSUME NEW r \in AllPath \ {q} PROVE (Exists(r)' <=> Exists(r)) /\ (DirAt(r)' <=> DirAt(r))
  <2>1. obj'[r] = obj[r] /\ isDir' = isDir
    BY <1>1, <1>2, Zenon
  <2> QED
    BY <2>1, Zenon DEF Exists, DirAt
<1>7. Tree'
  <2>1. DirAt(Root)' /\ ~DirAt(q)'
    BY <1>1, <1>2, <1>6, <1>t, PathFacts, Zenon DEF Tree, DirAt, Exists
  <2>2. \A r \in AllPath : DirAt(r)' => Len(r) # 2
    BY <1>6, <1>t, <2>1, Zenon DEF Tree
  <2>3. ASSUME NEW r \in Path, Exists(r)' PROVE DirAt(Parent(r))'
    <3>1. DirAt(Parent(r)) /\ Parent(r) \in AllPath
      BY <1>1, <1>6, <1>t, <2>3, PathFacts, Zenon DEF Tree
    <3> QED
      BY <1>1, <1>6, <3>1, Zenon DEF DirAt
  <2> QED
    BY <2>1, <2>2, <2>3, Zenon DEF Tree
<1>8. OneName'
  <2>1. ASSUME NEW r \in AllPath, NEW s \in AllPath, Exists(r)', r # s, obj'[r] = obj'[s]
        PROVE  obj'[r] \in linked'
    <3>1. CASE r = q \/ s = q
      BY <1>l, <1>2, <2>1, <3>1, Zenon
    <3>2. CASE r # q /\ s # q
      <4>1. Exists(r) /\ obj'[r] = obj[r] /\ obj'[s] = obj[s]
        BY <1>2, <1>6, <2>1, <3>2, Zenon
      <4> QED
        BY <1>l, <1>t, <2>1, <4>1, Zenon DEF OneName
    <3> QED
      BY <3>1, <3>2, Zenon
  <2>2. \A o \in linked' : o \notin isDir'
    BY <1>1, <1>t, Zenon DEF OneName, DirAt
  <2> QED
    BY <2>1, <2>2, Zenon DEF OneName
<1>9. EntryShows
  BY <1>1, <1>2, PathFacts, Zenon DEF EntryShows
<1>10. Changes({p, q, Parent(q)})
  <2> SUFFICES ASSUME NEW r \in AllPath \ {p, q, Parent(q)} PROVE StatOf(r)' = StatOf(r) \/ Excused(r)
    BY Zenon DEF Changes
  <2>1. obj'[r] = obj[r] /\ obj[r] # obj[Parent(q)]
    BY <1>1, <1>2, <1>p, OneDir, Zenon
  <2>2. CASE obj[r] = obj[p]
    <3>1. obj'[r] \in linked'
      BY <1>l, <2>1, <2>2, Zenon
    <3> QED
      BY <2>1, <3>1, Zenon DEF Excused, OldAttributes
  <2>3. CASE obj[r] # obj[p]
    BY <1>4, <2>1, <2>3, Zenon
  <2> QED
    BY <2>2, <2>3, Zenon
<1>11. StatOf(p)' = <<obj[p], ver[obj[p]] + 1>> /\ StatOf(q)' = StatOf(p)'
  <2>1. ver'[obj[p]] = ver[obj[p]] + 1
    BY <1>1, <1>3, Zenon DEF Touch
  <2> QED
    BY <1>2, <1>3, <2>1, Zenon DEF StatOf
<1> QED
  BY <1>1, <1>p, <1>5, <1>7, <1>8, <1>9, <1>10, <1>11, Zenon DEF ServerInv, Grows

(* What unlink and rmdir do to it. *)
LEMMA RemoveEntryKeeps ==
  ASSUME ServerInv, NEW p \in Path, NEW dir, SrvRemove(p, dir)
  PROVE  ServerInv' /\ EntryShows /\ Grows /\ Changes({p, Parent(p)})
<1>1. /\ Exists(p) /\ (\A r \in Below(p) : ~Exists(r)) /\ nops' = nops + 1 /\ nops < MaxOps
      /\ obj' = [obj EXCEPT ![p] = 0]
      /\ Touch({obj[p], obj[Parent(p)]}) /\ UNCHANGED <<isDir, isLink, linked, moved, used>>
  BY Zenon DEF SrvRemove, Counted
<1>t. ServerTyped /\ Tree /\ OneName
  BY Zenon DEF ServerInv
<1>p. p \in AllPath /\ Parent(p) \in AllPath /\ Parent(p) # p /\ DirAt(Parent(p))
  BY <1>1, <1>t, PathFacts, Zenon DEF Tree
<1>2. obj'[p] = 0 /\ \A r \in AllPath \ {p} : obj'[r] = obj[r]
  BY <1>1, <1>t, <1>p, Zenon DEF ServerTyped
<1>3. 0 \in 0..used /\ \A o \in Objects : o > used => o \notin {obj[p], obj[Parent(p)]}
  BY <1>t, <1>p DEF ServerTyped, Objects
<1>4. /\ ver' \in [Objects -> Nat]
      /\ \A o \in Objects : o \notin {obj[p], obj[Parent(p)]} => ver'[o] = ver[o]
      /\ \A r \in AllPath : obj'[r] = obj[r] =>
              /\ obj[r] \notin {obj[p], obj[Parent(p)]} => StatOf(r)' = StatOf(r)
              /\ Exists(r) /\ obj[r] \in {obj[p], obj[Parent(p)]} => StatOf(r)' # StatOf(r)
  BY <1>1, <1>t, TouchFacts, Zenon
<1>5. ServerTyped'
  <2>1. nops' \in Nat /\ nops' <= MaxOps /\ used <= nops' + 1
    BY <1>1, <1>t, NamespaceParameters DEF ServerTyped
  <2>2. obj' \in [AllPath -> 0..used]
    BY <1>1, <1>3, <1>t, Zenon DEF ServerTyped
  <2> QED
    BY <1>1, <1>3, <1>4, <1>t, <2>1, <2>2, Zenon DEF ServerTyped
<1>6. /\ ~Exists(p)' /\ ~DirAt(p)'
      /\ \A r \in AllPath \ {p} : (Exists(r)' <=> Exists(r)) /\ (DirAt(r)' <=> DirAt(r))
  <2>1. ASSUME NEW r \in AllPath \ {p} PROVE (Exists(r)' <=> Exists(r)) /\ (DirAt(r)' <=> DirAt(r))
    <3>1. obj'[r] = obj[r] /\ isDir' = isDir
      BY <1>1, <1>2, Zenon
    <3> QED
      BY <3>1, Zenon DEF Exists, DirAt
  <2> QED
    BY <1>2, <2>1, Zenon DEF Exists, DirAt
<1>7. Tree'
  <2>1. DirAt(Root)'
    BY <1>6, <1>t, PathFacts, Zenon DEF Tree
  <2>2. \A r \in AllPath : DirAt(r)' => Len(r) # 2
    BY <1>6, <1>t, Zenon DEF Tree
  <2>3. ASSUME NEW r \in Path, Exists(r)' PROVE DirAt(Parent(r))'
    <3>1. r # p /\ r \in AllPath /\ Exists(r) /\ DirAt(Parent(r)) /\ Parent(r) \in AllPath
      BY <1>6, <1>t, <2>3, PathFacts, Zenon DEF Tree
    <3>2. Parent(r) # p
      BY <1>1, <3>1, PathFacts, Zenon DEF Below
    <3> QED
      BY <1>6, <3>1, <3>2, Zenon
  <2> QED
    BY <2>1, <2>2, <2>3, Zenon DEF Tree
<1>8. OneName'
  <2>1. ASSUME NEW r \in AllPath, NEW s \in AllPath, Exists(r)', r # s, obj'[r] = obj'[s]
        PROVE  obj'[r] \in linked'
    <3>1. r # p /\ s # p
      BY <1>2, <2>1, Zenon DEF Exists
    <3>2. Exists(r) /\ obj'[r] = obj[r] /\ obj'[s] = obj[s]
      BY <1>2, <1>6, <2>1, <3>1, Zenon
    <3>3. obj[r] \in linked /\ linked' = linked
      BY <1>1, <1>t, <2>1, <3>2, Zenon DEF OneName
    <3> QED
      BY <3>2, <3>3, Zenon
  <2> QED
    BY <1>1, <1>t, <2>1, Zenon DEF OneName
<1>9. EntryShows
  <2> SUFFICES ASSUME NEW c \in Path, Exists(c), obj'[c] # obj[c]
               PROVE  StatOf(Parent(c))' # StatOf(Parent(c))
    BY Zenon DEF EntryShows
  <2>1. c = p
    BY <1>2, PathFacts, Zenon
  <2> QED
    BY <1>2, <1>4, <1>p, <2>1, Zenon DEF DirAt
<1>10. Changes({p, Parent(p)})
  <2> SUFFICES ASSUME NEW r \in AllPath \ {p, Parent(p)} PROVE StatOf(r)' = StatOf(r) \/ Excused(r)
    BY Zenon DEF Changes
  <2>1. obj'[r] = obj[r] /\ obj[r] # obj[Parent(p)]
    BY <1>2, <1>p, OneDir, Zenon
  <2>2. CASE obj[r] = obj[p]
    <3>1. obj[p] \in linked /\ linked' = linked
      BY <1>1, <1>p, <1>t, <2>2, Zenon DEF OneName
    <3>2. obj'[r] \in linked'
      BY <2>1, <2>2, <3>1, Zenon
    <3> QED
      BY <2>1, <3>2, Zenon DEF Excused, OldAttributes
  <2>3. CASE obj[r] # obj[p]
    BY <1>4, <2>1, <2>3, Zenon
  <2> QED
    BY <2>2, <2>3, Zenon
<1> QED
  BY <1>1, <1>5, <1>7, <1>8, <1>9, <1>10, Zenon DEF ServerInv, Grows

(* What setattr and write do to it. *)
LEMMA SetAttrKeeps ==
  ASSUME ServerInv, NEW p \in AllPath, SrvSetAttr(p)
  PROVE  ServerInv' /\ EntryShows /\ Grows /\ Changes({p})
<1>1. /\ Exists(p) /\ nops' = nops + 1 /\ nops < MaxOps
      /\ Touch({obj[p]}) /\ UNCHANGED <<obj, isDir, isLink, linked, moved, used>>
  BY Zenon DEF SrvSetAttr, Counted
<1>t. ServerTyped /\ Tree /\ OneName
  BY Zenon DEF ServerInv
<1>2. \A o \in Objects : o > used => o # obj[p]
  BY <1>t DEF ServerTyped, Objects
<1>3. /\ ver' \in [Objects -> Nat]
      /\ \A o \in Objects : o # obj[p] => ver'[o] = ver[o]
      /\ \A r \in AllPath : obj[r] # obj[p] => StatOf(r)' = StatOf(r)
  <2>1. /\ ver' \in [Objects -> Nat]
        /\ \A o \in Objects : o \notin {obj[p]} => ver'[o] = ver[o]
        /\ \A r \in AllPath : obj'[r] = obj[r] =>
              /\ obj[r] \notin {obj[p]} => StatOf(r)' = StatOf(r)
    BY <1>1, <1>t, TouchFacts, Zenon
  <2> QED
    BY <1>1, <2>1, Zenon
<1>4. nops' \in Nat /\ nops' <= MaxOps /\ used <= nops' + 1
  BY <1>1, <1>t, NamespaceParameters DEF ServerTyped
<1>5. ServerInv'
  BY <1>1, <1>2, <1>3, <1>4, <1>t, Zenon DEF ServerInv, ServerTyped, Tree, OneName, DirAt, Exists
<1>6. Changes({p})
  BY <1>1, <1>3, <1>t, Zenon DEF Changes, Excused, OldAttributes, OneName, Exists
<1> QED
  BY <1>1, <1>5, <1>6, Zenon DEF EntryShows, Grows

(* What rename does to it: two names of one file stay as they are; otherwise the
   destination gets the source's object and, if that is a directory, its entries. *)
LEMMA RenameKeepsTree ==
  ASSUME ServerInv, NEW p \in Path, NEW q \in Path, SrvRename(p, q)
  PROVE  ServerInv' /\ EntryShows /\ Grows /\ Changes({p, q, Parent(p), Parent(q)})
<1> DEFINE os == {obj[p], obj[q], obj[Parent(p)], obj[Parent(q)]}
<1>1. /\ Exists(p) /\ DirAt(Parent(q)) /\ p # q /\ nops' = nops + 1 /\ nops < MaxOps
      /\ DirAt(p) => Len(q) = 1 /\ (Exists(q) => DirAt(q) /\ \A r \in Below(q) : ~Exists(r))
      /\ ~DirAt(p) => ~DirAt(q) /\ q \notin Below(p)
      /\ moved' = IF DirAt(p) THEN moved \cup {p, q} ELSE moved
      /\ UNCHANGED <<isDir, isLink, linked, used>>
  BY Zenon DEF SrvRename, Counted
<1>t. ServerTyped /\ Tree /\ OneName
  BY Zenon DEF ServerInv
<1>p. /\ p \in AllPath /\ Parent(p) \in AllPath /\ Parent(p) # p /\ DirAt(Parent(p))
      /\ q \in AllPath /\ Parent(q) \in AllPath /\ Parent(q) # q
      /\ Len(Parent(p)) # 2 /\ Len(Parent(q)) # 2
  BY <1>1, <1>t, PathFacts, Zenon DEF Tree
<1>g. Grows
  BY <1>1, Zenon DEF Grows
<1>n. nops' \in Nat /\ nops' <= MaxOps /\ used <= nops' + 1
  BY <1>1, <1>t, NamespaceParameters DEF ServerTyped
<1>2. CASE obj[p] = obj[q]
  <2>1. obj' = [r \in AllPath |-> obj[r]] /\ Touch({})
    BY <1>2, Zenon DEF SrvRename
  <2>2. obj' = obj
    BY <1>t, <2>1, Zenon DEF ServerTyped
  <2>3. /\ ver' \in [Objects -> Nat] /\ \A o \in Objects : ver'[o] = ver[o]
        /\ \A r \in AllPath : StatOf(r)' = StatOf(r)
    <3> DEFINE none == {}
    <3>1. Touch(none) /\ \A x : x \notin none
      BY <2>1, Zenon
    <3>2. \A r \in AllPath : obj'[r] = obj[r]
      BY <2>2, Zenon
    <3> HIDE DEF none
    <3> QED
      BY <1>t, <3>1, <3>2, TouchFacts, Zenon
  <2>4. ServerTyped'
    BY <1>1, <1>n, <1>t, <2>2, <2>3, Zenon DEF ServerTyped
  <2>5. Tree' /\ OneName'
    BY <1>1, <1>t, <2>2, Zenon DEF Tree, OneName, DirAt, Exists
  <2> QED
    BY <1>g, <2>2, <2>3, <2>4, <2>5, Zenon DEF ServerInv, EntryShows, Changes
<1>3. CASE obj[p] # obj[q]
  <2>1. /\ obj' = [r \in AllPath |->
                     IF r = q THEN obj[p]
                     ELSE IF r = p \/ r \in Below(p) THEN 0
                     ELSE IF r \in Below(q) THEN (IF DirAt(p) THEN obj[<<p[1], r[2]>>] ELSE 0)
                     ELSE obj[r]]
        /\ Touch(os)
    BY <1>3, Zenon DEF SrvRename
  <2>2. q \notin Below(p) /\ p \notin Below(q)
    <3>1. q \notin Below(p)
      BY <1>1, PathFacts, Zenon DEF Below
    <3>2. p \notin Below(q)
      BY <1>1, <1>p, <1>t, Zenon DEF Below, Tree
    <3> QED
      BY <3>1, <3>2, Zenon
  <2>3. Parent(p) # q /\ Parent(q) # p
    BY <2>2, PathFacts, Zenon DEF Below
  <2>4. /\ obj'[q] = obj[p] /\ obj'[p] = 0
        /\ \A r \in Below(p) : r \in AllPath /\ r # q /\ obj'[r] = 0
    BY <1>1, <1>p, <2>1, <2>2, PathFacts, Zenon DEF Below
  <2>5. ASSUME NEW r \in AllPath, r \notin {p, q}, r \notin Below(p), r \notin Below(q)
        PROVE  obj'[r] = obj[r]
    BY <2>1, <2>5, Zenon
  <2>6. ASSUME NEW r \in Below(q)
        PROVE  /\ r \in Path /\ r \in AllPath /\ Len(r) = 2 /\ Parent(r) = q /\ r \notin {p, q} /\ r \notin Below(p)
               /\ obj'[r] = IF DirAt(p) THEN obj[<<p[1], r[2]>>] ELSE 0
    <3>1. r \in Path /\ r \in AllPath /\ Len(r) = 2 /\ Parent(r) = q /\ r # q /\ r # p
      BY <1>p, <2>2, PathFacts, Zenon DEF Below
    <3>2. r \notin Below(p)
      BY <1>1, <3>1, Zenon DEF Below
    <3> QED
      BY <2>1, <3>1, <3>2, Zenon
  <2>7. ASSUME NEW r \in AllPath, Len(r) # 2, r \notin {p, q} PROVE obj'[r] = obj[r]
    BY <2>5, <2>7, Zenon DEF Below
  <2>8. ASSUME ~DirAt(p), NEW r \in Below(p) \cup Below(q) PROVE obj'[r] = obj[r] /\ obj[r] = 0
    <3>1. ~Exists(r)
      BY <1>1, <1>t, <2>8, Zenon DEF Below, Tree
    <3> QED
      BY <2>4, <2>6, <2>8, <3>1, Zenon DEF Exists
  <2>9. ASSUME DirAt(p) PROVE Len(p) # 2 /\ Len(q) # 2 /\ \A r \in Below(q) : ~Exists(r)
    <3>1. Len(p) # 2 /\ Len(q) # 2
      BY <1>1, <1>p, <1>t, <2>9, PathFacts, Zenon DEF Tree
    <3>2. CASE Exists(q)
      BY <1>1, <2>9, <3>1, <3>2, Zenon
    <3>3. CASE ~Exists(q)
      BY <1>t, <3>1, <3>3, Zenon DEF Below, Tree, DirAt
    <3> QED
      BY <3>2, <3>3, Zenon
  <2>10. ASSUME DirAt(p), NEW r \in Below(q)
         PROVE  <<p[1], r[2]>> \in Below(p) /\ <<p[1], r[2]>> \in AllPath
    BY <2>6, <2>9, <2>10, EntryFacts, PathFacts, Zenon DEF Below
  <2> DEFINE Src(r) == IF r = q THEN p ELSE IF r \in Below(q) THEN <<p[1], r[2]>> ELSE r
  <2>11. ASSUME NEW r \in AllPath, obj'[r] # 0
         PROVE  /\ r # p /\ r \notin Below(p) /\ (r \in Below(q) => DirAt(p))
                /\ Src(r) \in AllPath /\ obj'[r] = obj[Src(r)]
    <3>1. r # p /\ r \notin Below(p) /\ (r \in Below(q) => DirAt(p))
      BY <2>4, <2>6, <2>11, Zenon
    <3>2. CASE r = q
      BY <1>p, <2>4, <3>1, <3>2, Zenon
    <3>3. CASE r \in Below(q)
      BY <2>6, <2>10, <3>1, <3>3, Zenon
    <3>4. CASE r # q /\ r \notin Below(q)
      BY <2>5, <3>1, <3>4, Zenon
    <3> QED
      BY <3>2, <3>3, <3>4, Zenon
  <2>12. ASSUME NEW r \in AllPath, NEW s \in AllPath, obj'[r] # 0, obj'[s] # 0, Src(r) = Src(s)
         PROVE  r = s
    <3>1. ASSUME NEW x \in AllPath, obj'[x] # 0
          PROVE  /\ Src(x) = p <=> x = q
                 /\ Src(x) \in Below(p) <=> x \in Below(q)
                 /\ x # q /\ x \notin Below(q) => Src(x) = x
      <4>1. x # p /\ x \notin Below(p) /\ (x \in Below(q) => DirAt(p)) /\ p \notin Below(p) /\ q \notin Below(q)
        BY <1>p, <2>11, <3>1, Zenon DEF Below
      <4>2. CASE x = q
        BY <4>1, <4>2, Zenon
      <4>3. CASE x \in Below(q)
        BY <2>10, <4>1, <4>3, Zenon
      <4>4. CASE x # q /\ x \notin Below(q)
        BY <4>1, <4>4, Zenon
      <4> QED
        BY <4>2, <4>3, <4>4, Zenon
    <3>2. CASE r \in Below(q)
      <4>1. s \in Below(q) /\ r # q /\ s # q /\ DirAt(p)
        BY <2>6, <2>11, <2>12, <3>1, <3>2, Zenon
      <4>2. <<p[1], s[2]>> = <<p[1], r[2]>>
        BY <2>12, <3>2, <4>1, Zenon
      <4> QED
        BY <2>6, <2>9, <3>2, <4>1, <4>2, EntryFacts, Zenon
    <3>3. CASE r \notin Below(q)
      <4>1. s \notin Below(q) /\ (r = q <=> s = q)
        BY <2>12, <3>1, <3>3, Zenon
      <4> QED
        BY <2>12, <3>1, <3>3, <4>1, Zenon
    <3> QED
      BY <3>2, <3>3, Zenon
  <2>13. /\ ver' \in [Objects -> Nat]
         /\ \A o \in Objects : o \notin os => ver'[o] = ver[o]
         /\ \A r \in AllPath : obj'[r] = obj[r] =>
              /\ ~Exists(r) \/ obj[r] \notin os => StatOf(r)' = StatOf(r)
              /\ Exists(r) /\ obj[r] \in os => StatOf(r)' # StatOf(r)
         /\ \A r \in AllPath : obj'[r] # obj[r] => StatOf(r)' # StatOf(r)
    BY <1>t, <2>1, TouchFacts, Zenon
  <2>14. ServerTyped'
    <3>1. \A o \in Objects : o > used => o \notin os
      BY <1>t, <1>p DEF ServerTyped, Objects
    <3>2. 0 \in 0..used
      BY <1>t DEF ServerTyped
    <3>3. \A r \in AllPath : obj'[r] \in 0..used
      BY <1>t, <2>11, <3>2, Zenon DEF ServerTyped
    <3>4. obj' \in [AllPath -> 0..used]
      BY <2>1, <3>3, Zenon
    <3> QED
      BY <1>1, <1>n, <1>t, <2>13, <3>1, <3>4, Zenon DEF ServerTyped
  <2> HIDE DEF Src, os
  <2>15. OneName'
    <3>1. ASSUME NEW r \in AllPath, NEW s \in AllPath, obj'[r] # 0, r # s, obj'[r] = obj'[s]
          PROVE  obj'[r] \in linked'
      <4>1. Src(r) # Src(s) /\ Src(r) \in AllPath /\ Src(s) \in AllPath
            /\ obj'[r] = obj[Src(r)] /\ obj'[s] = obj[Src(s)]
        BY <2>11, <2>12, <3>1, Zenon
      <4>2. obj[Src(r)] \in linked /\ linked' = linked
        BY <1>1, <1>t, <3>1, <4>1, Zenon DEF OneName, Exists
      <4> QED
        BY <4>1, <4>2, Zenon
    <3> QED
      BY <1>1, <1>t, <3>1, Zenon DEF OneName, Exists
  <2>16. Tree'
    <3>1. DirAt(Root)'
      <4>1. obj'[Root] = obj[Root] /\ isDir' = isDir
        BY <1>1, <2>7, PathFacts, Zenon
      <4> QED
        BY <1>t, <4>1, Zenon DEF Tree, DirAt, Exists
    <3>2. ASSUME NEW r \in AllPath, DirAt(r)' PROVE Len(r) # 2
      <4>1. obj'[r] # 0 /\ obj'[r] \in isDir
        BY <1>1, <3>2, Zenon DEF DirAt, Exists
      <4>2. Src(r) \in AllPath /\ DirAt(Src(r)) /\ Len(Src(r)) # 2
        BY <1>t, <2>11, <4>1, Zenon DEF Tree, DirAt, Exists
      <4>3. CASE r = q
        BY <2>9, <4>2, <4>3, Zenon DEF Src
      <4>4. CASE r \in Below(q)
        BY <2>6, <2>10, <2>11, <4>1, <4>2, <4>4, Zenon DEF Src, Below
      <4>5. CASE r # q /\ r \notin Below(q)
        BY <4>2, <4>5, Zenon DEF Src
      <4> QED
        BY <4>3, <4>4, <4>5, Zenon
    <3>3. ASSUME NEW r \in Path, Exists(r)' PROVE DirAt(Parent(r))'
      <4>0. r \in AllPath /\ obj'[r] # 0 /\ isDir' = isDir
        BY <1>1, <3>3, PathFacts, Zenon DEF Exists
      <4>1. CASE r = q
        <5>1. obj'[Parent(q)] = obj[Parent(q)]
          BY <1>p, <2>3, <2>7, Zenon
        <5> QED
          BY <1>1, <4>0, <4>1, <5>1, Zenon DEF DirAt, Exists
      <4>2. CASE r \in Below(q)
        <5>1. DirAt(p) /\ Parent(r) = q
          BY <2>6, <2>11, <4>0, <4>2, Zenon
        <5> QED
          BY <2>4, <4>0, <5>1, Zenon DEF DirAt, Exists
      <4>3. CASE r # q /\ r \notin Below(q)
        <5>1. r # p /\ r \notin Below(p) /\ obj'[r] = obj[r]
          BY <2>5, <2>11, <4>0, <4>3, Zenon
        <5>2. DirAt(Parent(r)) /\ Parent(r) \in AllPath /\ Len(Parent(r)) # 2
          BY <1>t, <4>0, <5>1, PathFacts, Zenon DEF Tree, Exists
        <5>3. Parent(r) # p /\ Parent(r) # q
          BY <4>3, <5>1, PathFacts, Zenon DEF Below
        <5>4. obj'[Parent(r)] = obj[Parent(r)]
          BY <2>7, <5>2, <5>3, Zenon
        <5> QED
          BY <4>0, <5>2, <5>4, Zenon DEF DirAt, Exists
      <4> QED
        BY <4>1, <4>2, <4>3, Zenon
    <3> QED
      BY <3>1, <3>2, <3>3, Zenon DEF Tree
  <2>17. /\ obj[Parent(p)] \in os /\ obj[Parent(q)] \in os
         /\ obj'[Parent(p)] = obj[Parent(p)] /\ obj'[Parent(q)] = obj[Parent(q)]
    BY <1>p, <2>3, <2>7, Zenon DEF os
  <2>18. EntryShows
    <3> SUFFICES ASSUME NEW c \in Path, Exists(c), obj'[c] # obj[c]
                 PROVE  StatOf(Parent(c))' # StatOf(Parent(c))
      BY Zenon DEF EntryShows
    <3>1. CASE c = p \/ c = q
      BY <1>1, <1>p, <2>13, <2>17, <3>1, Zenon DEF DirAt
    <3>2. CASE c \in Below(p)
      BY <1>1, <1>p, <2>4, <2>13, <3>2, Zenon DEF Below, Exists
    <3>3. CASE c \in Below(q)
      BY <1>3, <1>p, <2>4, <2>13, <3>3, Zenon DEF Below
    <3> QED
      BY <2>5, <3>1, <3>2, <3>3, PathFacts, Zenon
  <2>19. Changes({p, q, Parent(p), Parent(q)})
    <3> SUFFICES ASSUME NEW r \in AllPath, r \notin {p, q, Parent(p), Parent(q)}
                 PROVE  StatOf(r)' = StatOf(r) \/ Excused(r)
      BY Zenon DEF Changes
    <3>1. CASE r \in Below(p) \cup Below(q)
      <4>1. CASE DirAt(p)
        <5>1. p \in moved' /\ q \in moved'
          BY <1>1, <4>1, Zenon
        <5> QED
          BY <3>1, <5>1, Zenon DEF Excused, Below
      <4>2. CASE ~DirAt(p)
        BY <2>8, <2>13, <3>1, <4>2, Zenon DEF Exists
      <4> QED
        BY <4>1, <4>2, Zenon
    <3>2. CASE r \notin Below(p) \cup Below(q)
      <4>1. obj'[r] = obj[r]
        BY <2>5, <3>2, Zenon
      <4>2. CASE Exists(r) /\ obj[r] \in os
        <5>1. obj[r] # obj[Parent(p)] /\ obj[r] # obj[Parent(q)]
          BY <1>1, <1>p, OneDir, Zenon
        <5>2. obj[r] = obj[p] \/ obj[r] = obj[q]
          BY <4>2, <5>1, Zenon DEF os
        <5>3. obj[r] \in linked /\ linked' = linked
          BY <1>1, <1>p, <1>t, <4>2, <5>2, Zenon DEF OneName
        <5>4. obj'[r] \in linked'
          BY <4>1, <5>3, Zenon
        <5> QED
          BY <4>1, <5>4, Zenon DEF Excused, OldAttributes
      <4>3. CASE ~(Exists(r) /\ obj[r] \in os)
        BY <2>13, <4>1, <4>3, Zenon
      <4> QED
        BY <4>2, <4>3, Zenon
    <3> QED
      BY <3>1, <3>2, Zenon
  <2> QED
    BY <1>g, <2>14, <2>15, <2>16, <2>18, <2>19, Zenon DEF ServerInv
<1> QED
  BY <1>2, <1>3, Zenon
(* A step that leaves the server alone. *)
LEMMA ServerStill ==
  ASSUME ServerInv, UNCHANGED srvVars
  PROVE  /\ ServerInv' /\ EntryShows /\ Grows
         /\ \A r \in AllPath : StatOf(r)' = StatOf(r)
<1>1. UNCHANGED <<obj, isDir, isLink, linked, moved, ver, used, nops>>
  BY Zenon DEF srvVars
<1>2. ServerTyped'
  BY <1>1, Zenon DEF ServerInv, ServerTyped
<1>3. Tree' /\ OneName'
  BY <1>1, Zenon DEF ServerInv, Tree, OneName, DirAt, Exists
<1> QED
  BY <1>1, <1>2, <1>3, Zenon DEF ServerInv, EntryShows, Grows, StatOf

-----------------------------------------------------------------------------
(* The cache. *)
Coherent(p) ==
    \/ cache[p] \in {Miss, StatOf(p)}
    \/ p \in missed
    \/ OldAttributes(p) /\ cache[p][1] = obj[p]
    \/ Len(p) = 2 /\ Parent(p) \in moved

(* An entry that is kept stays as good as it was when the server's answer has not
   changed, or the change is one CacheCoherent tolerates. *)
LEMMA KeptCoherent ==
  ASSUME ServerInv, Grows, EntryShows, NEW r \in AllPath, Coherent(r), cache'[r] = cache[r],
         r \in missed => r \in missed',
         StatOf(r)' = StatOf(r) \/ Excused(r) \/ r \in missed'
  PROVE  Coherent(r)'
<1>s. StatOf(r)[1] = obj[r] /\ StatOf(r)'[1] = obj'[r]
  BY DEF StatOf, Neg
<1>1. CASE r \in missed' \/ r \in missed \/ cache[r] = Miss
  BY <1>1, Zenon DEF Coherent
<1>2. CASE Len(r) = 2 /\ (Parent(r) \in moved \/ Parent(r) \in moved')
  BY <1>2, Zenon DEF Coherent, Grows
<1>3. CASE OldAttributes(r)' /\ obj'[r] = obj[r]
  BY <1>1, <1>2, <1>3, <1>s, Zenon DEF Coherent
<1>4. CASE StatOf(r)' = StatOf(r)
  <2>1. obj'[r] = obj[r]
    BY <1>4, <1>s, Zenon
  <2>2. OldAttributes(r) => OldAttributes(r)'
    <3>1. CASE obj[r] \in linked
      BY <2>1, <3>1, Zenon DEF OldAttributes, Grows
    <3>2. ASSUME NEW c \in Path, Parent(c) = r, obj[c] \in isLink PROVE OldAttributes(r)'
      <4>1. Exists(c)
        BY <3>2 DEF ServerInv, ServerTyped, Exists
      <4>2. obj'[c] = obj[c]
        BY <1>4, <3>2, <4>1, Zenon DEF EntryShows
      <4>3. obj'[c] \in isLink'
        BY <3>2, <4>2, Zenon DEF Grows
      <4> QED
        BY <3>2, <4>3, Zenon DEF OldAttributes
    <3> QED
      BY <3>1, <3>2, Zenon DEF OldAttributes
  <2> QED
    BY <1>1, <1>2, <1>4, <2>1, <2>2, Zenon DEF Coherent
<1> QED
  BY <1>1, <1>2, <1>3, <1>4, Zenon DEF Excused

(* A call that was answered: the entries it replaced are right, those it left alone
   are among the ones it may leave alone. *)
LEMMA Answered ==
  ASSUME ServerInv, Grows, EntryShows, NEW D, Changes(D), CacheCoherent,
         newGen' = newGen, missed' = StillMissed,
         \A r \in AllPath : \/ cache'[r] \in {Miss, StatOf(r)'}
                            \/ r \notin D /\ cache'[r] = cache[r]
  PROVE  CacheCoherent'
<1> SUFFICES ASSUME ~newGen', NEW r \in AllPath PROVE Coherent(r)'
  BY Zenon DEF CacheCoherent, Coherent
<1>1. Coherent(r)
  BY Zenon DEF CacheCoherent, Coherent
<1>2. CASE cache'[r] \in {Miss, StatOf(r)'}
  BY <1>2, Zenon DEF Coherent
<1>3. CASE r \notin D /\ cache'[r] = cache[r]
  <2>1. r \in missed => r \in missed'
    BY <1>3, Zenon DEF StillMissed
  <2>2. StatOf(r)' = StatOf(r) \/ Excused(r)
    BY <1>3, Zenon DEF Changes
  <2> QED
    BY <1>1, <1>3, <2>1, <2>2, KeptCoherent, Zenon
<1> QED
  BY <1>2, <1>3, Zenon

(* What invalidate leaves of a cache. *)
LEMMA WithoutFacts ==
  ASSUME NEW c, NEW p
  PROVE  /\ DOMAIN Without(c, p) = AllPath
         /\ \A r \in AllPath : Without(c, p)[r] \in {Miss, c[r]}
         /\ p \in AllPath => Without(c, p)[p] = Miss
         /\ p \in Path => Without(c, p)[Parent(p)] = Miss
<1>1. p \in Path => p # Root /\ Parent(p) \in AllPath
  BY PathFacts, Zenon
<1> QED
  BY <1>1, Zenon DEF Without

(* Lookups, readdirs, failing calls and evictions, which do not change the server. *)
LEMMA QuietCalls ==
  ASSUME NamespaceInv, NEW p \in AllPath, missed' = StillMissed,
         Lookup(p) \/ Readdir(p) \/ Fails(p) \/ Expire(p)
  PROVE  NamespaceInv'
<1>0. ServerInv /\ InoInv /\ newGen \in BOOLEAN /\ DOMAIN cache = AllPath /\ CacheCoherent
  BY Zenon DEF NamespaceInv
<1>1. UNCHANGED srvVars
  BY Zenon DEF Lookup, Readdir, Fails, Expire
<1>2. /\ ServerInv' /\ EntryShows /\ Grows
      /\ \A r \in AllPath : StatOf(r)' = StatOf(r)
  BY <1>0, <1>1, ServerStill, Zenon
<1>c. Changes({})
  BY <1>2, Zenon DEF Changes
<1>3. InoInv'
  <2>1. UNCHANGED inoVars => InoInv'
    BY <1>0, Zenon DEF inoVars, InoInv, InoResolves
  <2> QED
    BY <1>0, <2>1, AllocKeeps, Zenon DEF Lookup, Readdir, Fails, Expire
<1>4. newGen' \in BOOLEAN
  BY <1>0, Zenon DEF Lookup, Readdir, Fails, Expire
<1>5. ASSUME newGen' = newGen, \A r \in AllPath : cache'[r] \in {Miss, StatOf(r), cache[r]}
      PROVE  CacheCoherent'
  <2>1. \A r \in AllPath : \/ cache'[r] \in {Miss, StatOf(r)'}
                           \/ r \notin {} /\ cache'[r] = cache[r]
    BY <1>2, <1>5, Zenon
  <2> QED
    BY <1>0, <1>2, <1>c, <1>5, <2>1, Answered, Zenon
<1>6. CASE Readdir(p) \/ Fails(p) \/ Expire(p)
  <2>1. newGen' = newGen /\ DOMAIN cache' = AllPath /\ \A r \in AllPath : cache'[r] \in {Miss, cache[r]}
    BY <1>0, <1>6, WithoutFacts, ZenonT(60) DEF Readdir, Fails, Expire
  <2>2. CacheCoherent'
    BY <1>5, <2>1, Zenon
  <2> QED
    BY <1>2, <1>3, <1>4, <2>1, <2>2, Zenon DEF NamespaceInv
<1>7. CASE Lookup(p)
  <2>1. CASE newGen
    <3>1. cache' = [[r \in AllPath |-> Miss] EXCEPT ![p] = StatOf(p)]
      BY <1>7, <2>1, Zenon DEF Lookup
    <3>2. DOMAIN cache' = AllPath /\ \A r \in AllPath : cache'[r] \in {Miss, StatOf(r)}
      BY <3>1, Zenon
    <3>3. CacheCoherent'
      BY <1>2, <3>2, Zenon DEF CacheCoherent
    <3> QED
      BY <1>2, <1>3, <1>4, <3>2, <3>3, Zenon DEF NamespaceInv
  <2>2. CASE ~newGen
    <3>1. \E answer \in {cache[p], StatOf(p)} : cache' = [cache EXCEPT ![p] = answer]
      BY <1>7, <2>2, Zenon DEF Lookup
    <3>2. DOMAIN cache' = AllPath /\ \A r \in AllPath : cache'[r] \in {StatOf(r), cache[r]}
      BY <1>0, <3>1, Zenon
    <3>3. newGen' = newGen
      BY <1>0, <1>7, <2>2, Zenon DEF Lookup
    <3>4. CacheCoherent'
      BY <1>5, <3>2, <3>3, Zenon
    <3> QED
      BY <1>2, <1>3, <1>4, <3>2, <3>4, Zenon DEF NamespaceInv
  <2> QED
    BY <1>0, <2>1, <2>2, Zenon
<1> QED
  BY <1>6, <1>7, Zenon
(* The same, for the whole invariant. *)
LEMMA Mutated ==
  ASSUME NamespaceInv, ServerInv', InoInv', Grows, EntryShows, NEW D, Changes(D),
         newGen' = newGen, missed' = StillMissed, DOMAIN cache' = AllPath,
         \A r \in AllPath : \/ cache'[r] \in {Miss, StatOf(r)'}
                            \/ r \notin D /\ cache'[r] = cache[r]
  PROVE  NamespaceInv'
<1>1. ServerInv /\ newGen \in BOOLEAN /\ CacheCoherent
  BY Zenon DEF NamespaceInv
<1>2. CacheCoherent'
  BY <1>1, Answered, Zenon
<1> QED
  BY <1>1, <1>2, Zenon DEF NamespaceInv

(* setattr and write. *)
LEMMA SetAttrCalls ==
  ASSUME NamespaceInv, NEW p \in AllPath, missed' = StillMissed, SetAttr(p) \/ WriteData(p)
  PROVE  NamespaceInv'
<1>0. ServerInv /\ InoInv
  BY Zenon DEF NamespaceInv
<1>1. SrvSetAttr(p) /\ cache' = Without(cache, p) /\ newGen' = newGen
  BY Zenon DEF SetAttr, WriteData
<1>2. ServerInv' /\ EntryShows /\ Grows /\ Changes({p})
  BY <1>0, <1>1, SetAttrKeeps, Zenon
<1>3. InoInv'
  <2>1. UNCHANGED inoVars => InoInv'
    BY <1>0, Zenon DEF inoVars, InoInv, InoResolves
  <2> QED
    BY <1>0, <2>1, AllocKeeps, Zenon DEF SetAttr, WriteData
<1>4. DOMAIN cache' = AllPath /\ cache'[p] = Miss /\ \A r \in AllPath : cache'[r] \in {Miss, cache[r]}
  BY <1>1, WithoutFacts, Zenon
<1>5. \A r \in AllPath : cache'[r] \in {Miss, StatOf(r)'} \/ (r \notin {p} /\ cache'[r] = cache[r])
  BY <1>4, Zenon
<1> QED
  BY <1>1, <1>2, <1>3, <1>4, <1>5, Mutated, Zenon

(* mkdir and create, with or without room for the handle. *)
LEMMA MakeCalls ==
  ASSUME NamespaceInv, NEW p \in Path, missed' = StillMissed,
         Mkdir(p) \/ Create(p) \/ CreateNoSpace(p)
  PROVE  NamespaceInv'
<1>0. ServerInv /\ InoInv /\ p \in AllPath /\ Parent(p) \in AllPath /\ Parent(p) # p
  BY PathFacts, Zenon DEF NamespaceInv
<1>1. /\ SrvMake(p) /\ newGen' = newGen
      /\ \/ isDir' = isDir \cup {used + 1} /\ Len(p) = 1 /\ isLink' = isLink
         \/ isDir' = isDir /\ isLink' \in {isLink, isLink \cup {used + 1}}
  BY Zenon DEF Mkdir, SrvMkdir, Create, CreateNoSpace, SrvCreate
<1>2. /\ ServerInv' /\ EntryShows /\ Grows /\ Changes({p, Parent(p)})
      /\ StatOf(p)' = <<used + 1, 0>>
  BY <1>0, <1>1, MakeKeeps, Zenon
<1>3. InoInv'
  <2>1. UNCHANGED inoVars => InoInv'
    BY <1>0, Zenon DEF inoVars, InoInv, InoResolves
  <2> QED
    BY <1>0, <2>1, AllocKeeps, Zenon DEF Mkdir, Create, CreateNoSpace
<1> DEFINE c == Without(cache, Parent(p))
           d == Without(c, p)
<1>4. DOMAIN c = AllPath /\ c[Parent(p)] = Miss /\ \A r \in AllPath : c[r] \in {Miss, cache[r]}
  BY <1>0, WithoutFacts, Zenon
<1>5. /\ DOMAIN d = AllPath /\ d[p] = Miss /\ d[Parent(p)] = Miss
      /\ \A r \in AllPath : d[r] \in {Miss, c[r]}
  BY <1>0, WithoutFacts, Zenon
<1>6. \/ cache' = [c EXCEPT ![p] = <<used + 1, 0>>]
      \/ cache' = [d EXCEPT ![p] = <<used + 1, 0>>]
      \/ cache' = d
  BY Zenon DEF Mkdir, Create, CreateNoSpace
<1> HIDE DEF c, d
<1>7. DOMAIN cache' = AllPath /\ cache'[p] \in {Miss, StatOf(p)'} /\ cache'[Parent(p)] = Miss
  BY <1>0, <1>2, <1>4, <1>5, <1>6, Zenon
<1>8. \A r \in AllPath : r # p => cache'[r] \in {Miss, cache[r]}
  BY <1>4, <1>5, <1>6, Zenon
<1>9. \A r \in AllPath : \/ cache'[r] \in {Miss, StatOf(r)'}
                         \/ r \notin {p, Parent(p)} /\ cache'[r] = cache[r]
  BY <1>7, <1>8, Zenon
<1> QED
  BY <1>1, <1>2, <1>3, <1>7, <1>9, Mutated, Zenon

(* symlink: the directory keeps its old attributes. *)
LEMMA SymlinkCall ==
  ASSUME NamespaceInv, NEW p \in Path, missed' = StillMissed, Symlink(p)
  PROVE  NamespaceInv'
<1>0. ServerInv /\ InoInv /\ p \in AllPath /\ DOMAIN cache = AllPath
  BY PathFacts, Zenon DEF NamespaceInv
<1>1. /\ SrvMake(p) /\ newGen' = newGen /\ GetOrAlloc({p})
      /\ isDir' = isDir /\ isLink' = isLink \cup {used + 1}
      /\ cache' = [cache EXCEPT ![p] = <<used + 1, 0>>]
  BY Zenon DEF Symlink, SrvSymlink
<1>2. /\ ServerInv' /\ EntryShows /\ Grows /\ Changes({p, Parent(p)})
      /\ obj'[p] = used + 1 /\ StatOf(p)' = <<used + 1, 0>>
      /\ obj'[Parent(p)] = obj[Parent(p)]
  BY <1>0, <1>1, MakeKeeps, Zenon
<1>3. InoInv'
  BY <1>0, <1>1, AllocKeeps, Zenon
<1>4. OldAttributes(Parent(p))'
  <2>1. obj'[p] \in isLink'
    BY <1>1, <1>2, Zenon
  <2> QED
    BY <2>1, Zenon DEF OldAttributes
<1>5. Changes({p})
  BY <1>2, <1>4, Zenon DEF Changes, Excused
<1>6. DOMAIN cache' = AllPath /\ cache'[p] = StatOf(p)' /\ \A r \in AllPath : r # p => cache'[r] = cache[r]
  BY <1>0, <1>1, <1>2, Zenon
<1>7. \A r \in AllPath : cache'[r] \in {Miss, StatOf(r)'} \/ (r \notin {p} /\ cache'[r] = cache[r])
  BY <1>6, Zenon
<1> QED
  BY <1>1, <1>2, <1>3, <1>5, <1>6, <1>7, Mutated, Zenon
(* link: both names get the answered Stat, the directory's entry is dropped. *)
LEMMA LinkCall ==
  ASSUME NamespaceInv, NEW p \in AllPath, NEW q \in Path, missed' = StillMissed, Link(p, q)
  PROVE  NamespaceInv'
<1> DEFINE stat == <<obj[p], ver[obj[p]] + 1>>
           a == Without(cache, p)
           c == [a EXCEPT ![p] = stat]
           d == Without(c, q)
<1>0. ServerInv /\ InoInv /\ q \in AllPath /\ Parent(q) \in AllPath /\ Parent(q) # q
  BY PathFacts, Zenon DEF NamespaceInv
<1>1. SrvLink(p, q) /\ newGen' = newGen /\ GetOrAlloc({q}) /\ cache' = [d EXCEPT ![q] = stat]
  BY Zenon DEF Link
<1>2. /\ ServerInv' /\ EntryShows /\ Grows /\ Changes({p, q, Parent(q)})
      /\ StatOf(p)' = stat /\ StatOf(q)' = StatOf(p)'
  BY <1>0, <1>1, LinkKeeps, Zenon
<1>3. InoInv'
  BY <1>0, <1>1, AllocKeeps, Zenon
<1>4. DOMAIN a = AllPath /\ \A r \in AllPath : a[r] \in {Miss, cache[r]}
  BY WithoutFacts, Zenon
<1> HIDE DEF stat, a, c
<1>5. DOMAIN d = AllPath /\ d[Parent(q)] = Miss /\ \A r \in AllPath : d[r] \in {Miss, c[r]}
  BY WithoutFacts, Zenon
<1> HIDE DEF d
<1>6. c[p] = stat /\ \A r \in AllPath : r # p => c[r] = a[r]
  BY <1>4, Zenon DEF c
<1>7. /\ DOMAIN cache' = AllPath /\ cache'[q] = stat
      /\ \A r \in AllPath : r # q => cache'[r] = d[r]
  BY <1>0, <1>1, <1>5, Zenon
<1>8. \A r \in AllPath : \/ cache'[r] \in {Miss, StatOf(r)'}
                         \/ r \notin {p, q, Parent(q)} /\ cache'[r] = cache[r]
  <2> SUFFICES ASSUME NEW r \in AllPath
               PROVE  \/ cache'[r] \in {Miss, StatOf(r)'}
                      \/ r \notin {p, q, Parent(q)} /\ cache'[r] = cache[r]
    BY Zenon
  <2>1. CASE r = q
    BY <1>2, <1>7, <2>1, Zenon
  <2>2. CASE r # q /\ r = Parent(q)
    BY <1>5, <1>7, <2>2, Zenon
  <2>3. CASE r # q /\ r = p
    BY <1>2, <1>5, <1>6, <1>7, <2>3, Zenon
  <2>4. CASE r # q /\ r # p /\ r # Parent(q)
    BY <1>4, <1>5, <1>6, <1>7, <2>4, Zenon
  <2> QED
    BY <2>1, <2>2, <2>3, <2>4, Zenon
<1> QED
  BY <1>1, <1>2, <1>3, <1>7, <1>8, Mutated, Zenon

(* unlink and rmdir. *)
LEMMA RemoveCall ==
  ASSUME NamespaceInv, NEW p \in Path, NEW dir, missed' = StillMissed, RemoveEntry(p, dir)
  PROVE  NamespaceInv'
<1>0. ServerInv /\ InoInv /\ p \in AllPath
  BY PathFacts, Zenon DEF NamespaceInv
<1>1. SrvRemove(p, dir) /\ cache' = Without(cache, p) /\ newGen' = newGen /\ RemovePath(p)
  BY Zenon DEF RemoveEntry
<1>2. ServerInv' /\ EntryShows /\ Grows /\ Changes({p, Parent(p)})
  BY <1>0, <1>1, RemoveEntryKeeps, Zenon
<1>3. InoInv'
  BY <1>0, <1>1, RemoveKeeps, Zenon
<1>4. /\ DOMAIN cache' = AllPath /\ cache'[p] = Miss /\ cache'[Parent(p)] = Miss
      /\ \A r \in AllPath : cache'[r] \in {Miss, cache[r]}
  BY <1>0, <1>1, WithoutFacts, Zenon
<1>5. \A r \in AllPath : \/ cache'[r] \in {Miss, StatOf(r)'}
                         \/ r \notin {p, Parent(p)} /\ cache'[r] = cache[r]
  BY <1>4, Zenon
<1> QED
  BY <1>1, <1>2, <1>3, <1>4, <1>5, Mutated, Zenon

(* rename. *)
LEMMA RenameCall ==
  ASSUME NamespaceInv, NEW p \in Path, NEW q \in Path, missed' = StillMissed, Rename(p, q)
  PROVE  NamespaceInv'
<1> DEFINE a == Without(cache, p)
           c == Without(a, q)
<1>0. /\ ServerInv /\ InoInv /\ p \in AllPath /\ q \in AllPath
      /\ Parent(p) \in AllPath /\ Parent(q) \in AllPath
  BY PathFacts, Zenon DEF NamespaceInv
<1>1. /\ SrvRename(p, q) /\ p # q /\ cache' = Without(c, Parent(q)) /\ newGen' = newGen
      /\ RenameIno(p, q)
  BY Zenon DEF Rename, RenameCache, SrvRename
<1>2. ServerInv' /\ EntryShows /\ Grows /\ Changes({p, q, Parent(p), Parent(q)})
  BY <1>0, <1>1, RenameKeepsTree, Zenon
<1>3. InoInv'
  BY <1>0, <1>1, RenameKeeps, Zenon
<1>4. a[p] = Miss /\ a[Parent(p)] = Miss /\ \A r \in AllPath : a[r] \in {Miss, cache[r]}
  BY <1>0, WithoutFacts, Zenon
<1>5. c[q] = Miss /\ c[Parent(q)] = Miss /\ \A r \in AllPath : c[r] \in {Miss, a[r]}
  BY <1>0, WithoutFacts, Zenon
<1> HIDE DEF a, c
<1>6. DOMAIN cache' = AllPath /\ \A r \in AllPath : cache'[r] \in {Miss, c[r]}
  BY <1>1, WithoutFacts, Zenon
<1>7. \A r \in AllPath : cache'[r] = Miss \/ cache'[r] = cache[r]
  BY <1>4, <1>5, <1>6, Zenon
<1>8. \A r \in {p, q, Parent(p), Parent(q)} : cache'[r] = Miss
  BY <1>0, <1>4, <1>5, <1>6, Zenon
<1>9. \A r \in AllPath : \/ cache'[r] \in {Miss, StatOf(r)'}
                         \/ r \notin {p, q, Parent(p), Parent(q)} /\ cache'[r] = cache[r]
  BY <1>7, <1>8, Zenon
<1> QED
  BY <1>1, <1>2, <1>3, <1>6, <1>9, Mutated, Zenon
-----------------------------------------------------------------------------
(* A call that takes effect and is not answered Ok. *)
LEMMA UnansweredKeeps ==
  ASSUME ServerInv, Unanswered PROVE ServerInv' /\ EntryShows /\ Grows
<1>1. PICK p \in Path : \/ SrvSetAttr(p) \/ SrvRemove(p, DirAt(p))
                        \/ SrvMkdir(p) \/ SrvSymlink(p) \/ SrvCreate(p)
                        \/ \E q \in Path : SrvRename(p, q) \/ SrvLink(p, q)
  BY Zenon DEF Unanswered
<1>2. p \in AllPath
  BY PathFacts, Zenon
<1>3. CASE SrvSetAttr(p)
  BY <1>2, <1>3, SetAttrKeeps, Zenon
<1>4. CASE SrvRemove(p, DirAt(p))
  BY <1>4, RemoveEntryKeeps, Zenon
<1>5. CASE SrvMkdir(p) \/ SrvSymlink(p) \/ SrvCreate(p)
  <2>1. /\ SrvMake(p)
        /\ \/ isDir' = isDir \cup {used + 1} /\ Len(p) = 1 /\ isLink' = isLink
           \/ isDir' = isDir /\ isLink' \in {isLink, isLink \cup {used + 1}}
    BY <1>5, Zenon DEF SrvMkdir, SrvSymlink, SrvCreate
  <2> QED
    BY <2>1, MakeKeeps, Zenon
<1>6. ASSUME NEW q \in Path, SrvRename(p, q) PROVE ServerInv' /\ EntryShows /\ Grows
  BY <1>6, RenameKeepsTree, Zenon
<1>7. ASSUME NEW q \in Path, SrvLink(p, q) PROVE ServerInv' /\ EntryShows /\ Grows
  BY <1>2, <1>7, LinkKeeps, Zenon
<1> QED
  BY <1>1, <1>3, <1>4, <1>5, <1>6, <1>7, Zenon

(* The invariant survives such a call, whether the connection does or not. *)
LEMMA UnansweredCalls ==
  ASSUME NamespaceInv,
         \/ ReplyLost
         \/ /\ Unreported
            /\ missed' = StillMissed \cup {p \in AllPath : cache[p] # Miss /\ StatOf(p)' # StatOf(p)}
  PROVE  NamespaceInv'
<1>0. ServerInv /\ InoInv /\ newGen \in BOOLEAN /\ DOMAIN cache = AllPath /\ CacheCoherent
  BY Zenon DEF NamespaceInv
<1>1. Unanswered /\ cache' = cache /\ UNCHANGED inoVars
  BY Zenon DEF ReplyLost, Unreported
<1>2. ServerInv' /\ EntryShows /\ Grows
  BY <1>0, <1>1, UnansweredKeeps, Zenon
<1>3. InoInv'
  BY <1>0, <1>1, Zenon DEF inoVars, InoInv, InoResolves
<1>4. CASE ReplyLost
  BY <1>0, <1>1, <1>2, <1>3, <1>4, Zenon DEF NamespaceInv, CacheCoherent, ReplyLost
<1>5. ASSUME Unreported,
             missed' = StillMissed \cup {p \in AllPath : cache[p] # Miss /\ StatOf(p)' # StatOf(p)}
      PROVE  NamespaceInv'
  <2>1. newGen' = newGen
    BY <1>5, Zenon DEF Unreported
  <2>2. ASSUME ~newGen, NEW r \in AllPath PROVE Coherent(r)'
    <3>1. Coherent(r) /\ cache'[r] = cache[r]
      BY <1>0, <1>1, <2>2, Zenon DEF CacheCoherent, Coherent
    <3>2. r \in missed => r \in missed'
      BY <1>5, <3>1, Zenon DEF StillMissed
    <3>3. CASE cache[r] = Miss
      BY <3>1, <3>3, Zenon DEF Coherent
    <3>4. CASE cache[r] # Miss
      <4>1. StatOf(r)' = StatOf(r) \/ r \in missed'
        BY <1>5, <3>4, Zenon
      <4> QED
        BY <1>0, <1>2, <3>1, <3>2, <4>1, KeptCoherent, Zenon
    <3> QED
      BY <3>3, <3>4, Zenon
  <2>3. CacheCoherent'
    BY <2>1, <2>2, Zenon DEF CacheCoherent, Coherent
  <2> QED
    BY <1>0, <1>1, <1>2, <1>3, <2>1, <2>3, Zenon DEF NamespaceInv
<1> QED
  BY <1>4, <1>5, Zenon

(* The invariant holds of the empty tree and the empty cache. *)
LEMMA InitNamespace ==
  Init => NamespaceInv
<1> SUFFICES ASSUME Init PROVE NamespaceInv
  BY Zenon
<1>0. /\ obj = [p \in AllPath |-> IF p = Root THEN 1 ELSE 0]
      /\ inoOf = [p \in AllPath |-> IF p = Root THEN 1 ELSE 0]
      /\ pathOf = [i \in Ino |-> IF i = 1 THEN Root ELSE NoPath]
      /\ isDir = {1} /\ isLink = {} /\ linked = {} /\ moved = {}
      /\ used = 1 /\ nops = 0 /\ next = 2 /\ ver = [o \in Objects |-> 0]
      /\ cache = [p \in AllPath |-> Miss] /\ newGen = FALSE
  BY Zenon DEF Init
<1>n. /\ 0 # 1 /\ 0 \in Nat /\ 1 \in Nat /\ 2 \in Nat /\ 1 <= 2 /\ 2 <= MaxOps + 1
      /\ 0 < 2 /\ 1 < 2 /\ 0 <= MaxOps /\ 1 <= 1 /\ 1 <= 0 + 1 /\ 0 \in 0..1 /\ 1 \in 0..1
      /\ 1 \in 1..1 /\ 1 \in Ino
  BY NamespaceParameters DEF Ino
<1>1. obj[Root] = 1 /\ \A p \in AllPath : p # Root => obj[p] = 0
  BY <1>0, PathFacts, Zenon
<1>2. ServerTyped
  <2>1. obj \in [AllPath -> 0..used] /\ ver \in [Objects -> Nat] /\ \A o \in Objects : ver[o] = 0
    BY <1>0, <1>n, Zenon
  <2>2. isDir \subseteq 1..used /\ isLink \subseteq 1..used /\ linked \subseteq 1..used
    BY <1>0, <1>n
  <2> QED
    BY <1>0, <1>n, <2>1, <2>2, Zenon DEF ServerTyped
<1>3. Tree /\ OneName
  <2>1. DirAt(Root)
    BY <1>0, <1>1 DEF DirAt, Exists
  <2>2. \A p \in AllPath : Exists(p) => p = Root
    BY <1>1, Zenon DEF Exists
  <2>3. \A o : o \notin linked
    BY <1>0, Zenon
  <2> QED
    BY <2>1, <2>2, <2>3, PathFacts, Zenon DEF Tree, OneName, DirAt, Exists
<1>4. InoInv
  <2>1. \A p \in AllPath : IF p = Root THEN inoOf[p] = 1 ELSE inoOf[p] = 0
    BY <1>0, Zenon
  <2>2. pathOf[1] = Root /\ DOMAIN pathOf = Ino
    BY <1>0, <1>n, Zenon
  <2>3. InoResolves
    BY <2>1, <2>2, Zenon DEF InoResolves
  <2>4. \A p \in AllPath : inoOf[p] \in Nat /\ inoOf[p] < next
    BY <1>0, <1>n, <2>1, Zenon
  <2>5. inoOf \in [AllPath -> Nat]
    BY <1>0, <2>4, Zenon
  <2>6. next \in Nat /\ 1 <= next /\ next <= MaxOps + 1
    BY <1>0, <1>n, Zenon
  <2> QED
    BY <2>2, <2>3, <2>4, <2>5, <2>6, Zenon DEF InoInv
<1>5. CacheCoherent
  BY <1>0, Zenon DEF CacheCoherent
<1> QED
  BY <1>0, <1>2, <1>3, <1>4, <1>5, Zenon DEF NamespaceInv, ServerInv

(* Every step preserves the invariant. *)
LEMMA NamespaceStep ==
  NamespaceInv /\ [Next]_vars => NamespaceInv'
<1> SUFFICES ASSUME NamespaceInv, [Next]_vars PROVE NamespaceInv'
  BY Zenon
<1>0. ServerInv /\ InoInv /\ newGen \in BOOLEAN /\ DOMAIN cache = AllPath /\ CacheCoherent
  BY Zenon DEF NamespaceInv
<1>c. \A p \in Child : p \in Path
  BY Zenon DEF Child
<1>1. CASE UNCHANGED vars
  <2>1. UNCHANGED srvVars /\ UNCHANGED inoVars /\ cache' = cache /\ newGen' = newGen /\ missed' = missed
    BY <1>1, Zenon DEF vars
  <2>2. /\ ServerInv' /\ EntryShows /\ Grows
        /\ \A r \in AllPath : StatOf(r)' = StatOf(r)
    BY <1>0, <2>1, ServerStill, Zenon
  <2>3. InoInv'
    BY <1>0, <2>1, Zenon DEF inoVars, InoInv, InoResolves
  <2>4. ASSUME ~newGen', NEW r \in AllPath PROVE Coherent(r)'
    <3>1. Coherent(r)
      BY <1>0, <2>1, <2>4, Zenon DEF CacheCoherent, Coherent
    <3> QED
      BY <1>0, <2>1, <2>2, <3>1, KeptCoherent, Zenon
  <2>5. CacheCoherent'
    BY <2>4, Zenon DEF CacheCoherent, Coherent
  <2> QED
    BY <1>0, <2>1, <2>2, <2>3, <2>5, Zenon DEF NamespaceInv
<1>2. ASSUME NEW p \in AllPath, Call(p) \/ Expire(p), missed' = StillMissed
      PROVE  NamespaceInv'
  <2>1. CASE Lookup(p) \/ Readdir(p) \/ Fails(p) \/ Expire(p)
    BY <1>2, <2>1, QuietCalls, Zenon
  <2>2. CASE SetAttr(p) \/ WriteData(p)
    BY <1>2, <2>2, SetAttrCalls, Zenon
  <2>3. ASSUME NEW q \in Child, Link(p, q) PROVE NamespaceInv'
    BY <1>2, <1>c, <2>3, LinkCall, Zenon
  <2>4. CASE p \in Child /\ InDir(p)
    <3>1. p \in Path
      BY <1>c, <2>4, Zenon
    <3>2. CASE Mkdir(p) \/ Create(p) \/ CreateNoSpace(p)
      BY <1>2, <3>1, <3>2, MakeCalls, Zenon
    <3>3. CASE Symlink(p)
      BY <1>2, <3>1, <3>3, SymlinkCall, Zenon
    <3>4. ASSUME NEW dir \in BOOLEAN, RemoveEntry(p, dir) PROVE NamespaceInv'
      BY <1>2, <3>1, <3>4, RemoveCall, Zenon
    <3>5. ASSUME NEW q \in Child, Rename(p, q) PROVE NamespaceInv'
      BY <1>2, <1>c, <3>1, <3>5, RenameCall, Zenon
    <3> QED
      BY <2>4, <3>2, <3>3, <3>4, <3>5, Zenon DEF InDir
  <2> QED
    BY <1>2, <2>1, <2>2, <2>3, <2>4, Zenon DEF Call, OnIno
<1>3. CASE Reconnect
  <2>1. UNCHANGED srvVars /\ UNCHANGED inoVars /\ cache' = cache /\ newGen' = TRUE
    BY <1>3, Zenon DEF Reconnect
  <2>2. ServerInv'
    BY <1>0, <2>1, ServerStill, Zenon
  <2>3. InoInv'
    BY <1>0, <2>1, Zenon DEF inoVars, InoInv, InoResolves
  <2> QED
    BY <1>0, <2>1, <2>2, <2>3, Zenon DEF NamespaceInv, CacheCoherent
<1>4. CASE Next
  BY <1>2, <1>3, <1>4, UnansweredCalls, Zenon DEF Next
<1> QED
  BY <1>1, <1>4, Zenon

(* The inductive invariant of the namespace. *)
THEOREM NamespaceInvariance == Spec => []NamespaceInv
BY InitNamespace, NamespaceStep, PTL DEF Spec

(* The number a lookup answers is one that later calls resolve to the same path,
   after any sequence of operations (fuse_ops.rs, path_to_ino and ino_to_path). *)
THEOREM NumbersResolve == Spec => []InoResolves
<1>1. NamespaceInv => InoResolves
  BY Zenon DEF NamespaceInv, InoInv
<1> QED
  BY <1>1, NamespaceInvariance, PTL

(* The metadata cache answers what the server would, after any sequence of
   operations, failures, lost answers and reconnects, with the exceptions
   CacheCoherent names (cache.rs, fuse_ops.rs). *)
THEOREM CacheIsCoherent == Spec => []CacheCoherent
<1>1. NamespaceInv => CacheCoherent
  BY Zenon DEF NamespaceInv
<1> QED
  BY <1>1, NamespaceInvariance, PTL
-----------------------------------------------------------------------------
(* Induction over numbers, as the least counterexample. *)
LEMMA Least ==
  ASSUME NEW T \in SUBSET Nat, T # {}
  PROVE  \E n \in T : \A m \in T : n <= m
<1> DEFINE Lt == OpToRel(<, Nat)
<1>1. IsWellFoundedOn(Lt, Nat)
  BY NatLessThanWellFounded, Zenon
<1>2. \A x, y \in Nat : <<x, y>> \in Lt <=> x < y
  BY DEF OpToRel
<1> HIDE DEF Lt
<1>3. PICK n \in T : \A m \in T : ~(<<m, n>> \in Lt)
  BY <1>1, WFMin, Zenon
<1>4. \A m \in T : ~(m < n)
  BY <1>2, <1>3, Zenon
<1> QED
  BY <1>4

(* The same, from one name to the next: T holds of every name if it holds before the first
   and after each name if it holds after the one before it. *)
LEMMA NameByName ==
  ASSUME NEW T, 0 \in T, \A n \in Entry : n - 1 \in T => n \in T
  PROVE  0..NNames \subseteq T
<1> DEFINE bad == {n \in 0..NNames : n \notin T}
<1> SUFFICES ASSUME bad # {} PROVE FALSE
  BY Zenon
<1>1. bad \in SUBSET Nat
  BY ReadDirParameters
<1>2. PICK n \in bad : \A m \in bad : n <= m
  BY <1>1, Least, Zenon
<1>3. n \in 0..NNames /\ n \notin T /\ n # 0
  BY <1>2, Zenon
<1>4. n \in Entry /\ n - 1 \in 0..NNames /\ ~(n <= n - 1)
  BY <1>3, ReadDirParameters DEF Entry
<1>5. n - 1 \in T
  BY <1>2, <1>4, Zenon
<1> QED
  BY <1>3, <1>4, <1>5, Zenon

\* g[n] is the walk over the first n names, for n up to k.
Walks(D, k, g) ==
    g[0] = <<>> /\ \A n \in 1..k : g[n] = IF n \in D THEN Append(g[n - 1], n) ELSE g[n - 1]

(* The walks over a directory exist, ... *)
LEMMA WalksExist ==
  ASSUME NEW D
  PROVE  \E g \in [0..NNames -> Seq(Entry)] : Walks(D, NNames, g)
<1> DEFINE T == {n \in 0..NNames : \E g \in [0..n -> Seq(Entry)] : Walks(D, n, g)}
<1>1. 0 \in T
  <2>1. 0 \in 0..NNames /\ [i \in 0..0 |-> <<>>] \in [0..0 -> Seq(Entry)] /\ Walks(D, 0, [i \in 0..0 |-> <<>>])
    BY ReadDirParameters DEF Walks
  <2> QED
    BY <2>1, Zenon
<1>2. ASSUME NEW n \in Entry, n - 1 \in T PROVE n \in T
  <2>1. n \in Nat /\ n # 0 /\ n \in 0..NNames
    BY ReadDirParameters DEF Entry
  <2>3. PICK g \in [0..(n - 1) -> Seq(Entry)] : Walks(D, n - 1, g)
    BY <1>2, Zenon
  <2> DEFINE x == IF n \in D THEN Append(g[n - 1], n) ELSE g[n - 1]
             h == [i \in 0..n |-> IF i = n THEN x ELSE g[i]]
  <2>4. x \in Seq(Entry)
    <3>1. g[n - 1] \in Seq(Entry)
      BY <2>1
    <3> QED
      BY <3>1
  <2>5. h \in [0..n -> Seq(Entry)]
    BY <2>1, <2>4
  <2>6. h[0] = <<>> /\ h[n] = x /\ h[n - 1] = g[n - 1]
    BY <2>1, <2>3 DEF Walks
  <2>7. ASSUME NEW i \in 1..n PROVE h[i] = IF i \in D THEN Append(h[i - 1], i) ELSE h[i - 1]
    <3>1. CASE i = n
      BY <2>6, <3>1, Zenon
    <3>2. CASE i # n
      <4>1. i \in 1..(n - 1) /\ i \in 0..n /\ i - 1 \in 0..n /\ i - 1 # n
        BY <2>1, <3>2
      <4>2. h[i] = g[i] /\ h[i - 1] = g[i - 1]
        BY <3>2, <4>1, Zenon
      <4> QED
        BY <2>3, <4>1, <4>2, Zenon DEF Walks
    <3> QED
      BY <3>1, <3>2, Zenon
  <2>8. Walks(D, n, h)
    BY <2>6, <2>7, Zenon DEF Walks
  <2> QED
    BY <2>1, <2>5, <2>8, Zenon
<1>3. NNames \in 0..NNames
  BY ReadDirParameters
<1>4. 0..NNames \subseteq T
  <2> HIDE DEF T
  <2> QED
    BY <1>1, <1>2, NameByName, Zenon
<1> QED
  BY <1>3, <1>4, Zenon

(* ... so Walk is what its definition says. *)
LEMMA WalkSteps ==
  ASSUME NEW D
  PROVE  /\ Walk(D, 0) = <<>>
         /\ \A n \in Entry : Walk(D, n) = IF n \in D THEN Append(Walk(D, n - 1), n) ELSE Walk(D, n - 1)
<1> DEFINE F(g) == [m \in 0..NNames |->
                      IF m = 0 THEN <<>> ELSE IF m \in D THEN Append(g[m - 1], m) ELSE g[m - 1]]
<1>1. PICK g \in [0..NNames -> Seq(Entry)] : Walks(D, NNames, g)
  BY WalksExist, Zenon
<1>2. g = F(g)
  <2>1. \A m \in 0..NNames : g[m] = F(g)[m]
    <3>1. \A m \in 0..NNames : m = 0 \/ m \in 1..NNames
      BY ReadDirParameters
    <3> QED
      BY <1>1, <3>1, Zenon DEF Walks
  <2> QED
    BY <2>1, Zenon
<1> DEFINE u == CHOOSE v : v = F(v)
<1>3. u = F(u)
  BY <1>2, Zenon
<1>4. \A n : Walk(D, n) = u[n]
  BY Zenon DEF Walk
<1> HIDE DEF u
<1>5. \A n \in 0..NNames : u[n] = IF n = 0 THEN <<>> ELSE IF n \in D THEN Append(u[n - 1], n) ELSE u[n - 1]
  BY <1>3, Zenon
<1>6. 0 \in 0..NNames /\ \A n \in Entry : n \in 0..NNames /\ n # 0
  BY ReadDirParameters DEF Entry
<1> QED
  BY <1>4, <1>5, <1>6, Zenon

(* A walk is a sequence of entries, and longer by one for each of them. *)
LEMMA WalkLength ==
  ASSUME NEW D
  PROVE  /\ Walk(D, 0) = <<>>
         /\ \A n \in 0..NNames : Walk(D, n) \in Seq(Entry) /\ Len(Walk(D, n)) \in Nat
         /\ \A n \in Entry : IF n \in D THEN /\ Walk(D, n) = Append(Walk(D, n - 1), n)
                                             /\ Len(Walk(D, n)) = Len(Walk(D, n - 1)) + 1
                                        ELSE Walk(D, n) = Walk(D, n - 1)
<1> DEFINE T == {n \in 0..NNames : Walk(D, n) \in Seq(Entry)}
<1>1. 0 \in T
  <2>1. 0 \in 0..NNames /\ <<>> \in Seq(Entry)
    BY ReadDirParameters
  <2> QED
    BY <2>1, WalkSteps, Zenon
<1>2. ASSUME NEW n \in Entry, n - 1 \in T PROVE n \in T
  <2>1. Walk(D, n - 1) \in Seq(Entry) /\ n \in 0..NNames
    BY <1>2, ReadDirParameters DEF Entry
  <2>2. Append(Walk(D, n - 1), n) \in Seq(Entry)
    BY <1>2, <2>1
  <2> QED
    BY <2>1, <2>2, WalkSteps, Zenon
<1>3. \A n \in 0..NNames : Walk(D, n) \in Seq(Entry)
  <2>1. 0..NNames \subseteq T
    <3> HIDE DEF T
    <3> QED
      BY <1>1, <1>2, NameByName, Zenon
  <2> QED
    BY <2>1, Zenon
<1>4. \A n \in 0..NNames : Len(Walk(D, n)) \in Nat
  BY <1>3
<1>5. ASSUME NEW n \in Entry, n \in D PROVE Len(Walk(D, n)) = Len(Walk(D, n - 1)) + 1
  <2> DEFINE s == Walk(D, n - 1)
  <2>1. n - 1 \in 0..NNames
    BY ReadDirParameters DEF Entry
  <2>2. s \in Seq(Entry) /\ Walk(D, n) = Append(s, n)
    BY <1>3, <1>5, <2>1, WalkSteps, Zenon
  <2> HIDE DEF s
  <2>3. Len(Append(s, n)) = Len(s) + 1
    BY <2>2
  <2> QED
    BY <2>2, <2>3, Zenon DEF s
<1> QED
  BY <1>3, <1>4, <1>5, WalkSteps, Zenon

(* The walk over more names is longer: by at least one if the last of them is an entry. *)
LEMMA WalkGrows ==
  ASSUME NEW D, NEW m \in 0..NNames, NEW n \in 0..NNames, m <= n
  PROVE  /\ Len(Walk(D, m)) <= Len(Walk(D, n))
         /\ m # n /\ n \in D => Len(Walk(D, m)) < Len(Walk(D, n))
<1> DEFINE R(k) == Len(Walk(D, k))
           T == {k \in 0..NNames : m <= k => R(m) <= R(k) /\ (m # k /\ k \in D => R(m) < R(k))}
<1>1. 0 \in T
  <2>1. 0 \in 0..NNames /\ (m <= 0 => m = 0) /\ R(0) \in Nat
    BY ReadDirParameters, WalkLength
  <2>2. R(0) <= R(0)
    BY <2>1
  <2> QED
    BY <2>1, <2>2, Zenon
<1>2. ASSUME NEW k \in Entry, k - 1 \in T PROVE k \in T
  <2>1. k \in 0..NNames /\ k - 1 \in 0..NNames /\ (m <= k => m = k \/ m <= k - 1)
    BY ReadDirParameters DEF Entry
  <2>2. R(k) \in Nat /\ R(k - 1) \in Nat /\ R(m) \in Nat /\ R(k) = IF k \in D THEN R(k - 1) + 1 ELSE R(k - 1)
    BY <2>1, WalkLength, Zenon
  <2>3. m <= k - 1 => R(m) <= R(k - 1)
    BY <1>2, Zenon
  <2> HIDE DEF R
  <2>4. m <= k => R(m) <= R(k) /\ (m # k /\ k \in D => R(m) < R(k))
    BY <2>1, <2>2, <2>3
  <2> QED
    BY <2>1, <2>4, Zenon
<1>3. 0..NNames \subseteq T
  <2> HIDE DEF T
  <2> QED
    BY <1>1, <1>2, NameByName, Zenon
<1> QED
  BY <1>3, Zenon

(* The walk over a directory with more entries is as long or longer. *)
LEMMA WalkOfMore ==
  ASSUME NEW D, NEW E, D \subseteq E, NEW n \in 0..NNames
  PROVE  Len(Walk(D, n)) <= Len(Walk(E, n))
<1> DEFINE R(k) == Len(Walk(D, k))
           Q(k) == Len(Walk(E, k))
           T == {k \in 0..NNames : R(k) <= Q(k)}
<1>1. 0 \in T
  <2>1. 0 \in 0..NNames /\ R(0) = Q(0) /\ R(0) \in Nat
    BY ReadDirParameters, WalkLength
  <2>2. R(0) <= R(0)
    BY <2>1
  <2> QED
    BY <2>1, <2>2, Zenon
<1>2. ASSUME NEW k \in Entry, k - 1 \in T PROVE k \in T
  <2>1. k \in 0..NNames /\ k - 1 \in 0..NNames
    BY ReadDirParameters DEF Entry
  <2>2. R(k) \in Nat /\ R(k - 1) \in Nat /\ R(k) = IF k \in D THEN R(k - 1) + 1 ELSE R(k - 1)
    BY <2>1, WalkLength, Zenon
  <2>3. Q(k) \in Nat /\ Q(k - 1) \in Nat /\ Q(k) = IF k \in E THEN Q(k - 1) + 1 ELSE Q(k - 1)
    BY <2>1, WalkLength, Zenon
  <2>4. R(k - 1) <= Q(k - 1) /\ (k \in D => k \in E)
    BY <1>2, Zenon
  <2> HIDE DEF R, Q
  <2>5. R(k) <= Q(k)
    BY <2>2, <2>3, <2>4
  <2> QED
    BY <2>1, <2>5, Zenon
<1>3. 0..NNames \subseteq T
  <2> HIDE DEF T
  <2> QED
    BY <1>1, <1>2, NameByName, Zenon
<1> QED
  BY <1>3, Zenon

(* Where an entry stands in the walk: at position k the entry whose own walk has length k. *)
LEMMA WalkPositions ==
  ASSUME NEW D, NEW n \in 0..NNames
  PROVE  /\ \A k \in 1..Len(Walk(D, n)) :
              LET e == Walk(D, n)[k] IN e \in D /\ e \in Entry /\ e <= n /\ Len(Walk(D, e)) = k
         /\ \A e \in Entry : e \in D /\ e <= n =>
              Len(Walk(D, e)) \in 1..Len(Walk(D, n)) /\ Walk(D, n)[Len(Walk(D, e))] = e
<1> DEFINE W(m) == Walk(D, m)
           R(m) == Len(Walk(D, m))
           P(m) == \A k \in 1..R(m) : W(m)[k] \in D /\ W(m)[k] \in Entry /\ W(m)[k] <= m /\ R(W(m)[k]) = k
           Q(m) == \A e \in Entry : e \in D /\ e <= m => R(e) \in 1..R(m) /\ W(m)[R(e)] = e
           T == {m \in 0..NNames : P(m) /\ Q(m)}
<1>1. 0 \in T
  <2>1. 0 \in 0..NNames /\ W(0) = <<>> /\ R(0) = 0
    BY ReadDirParameters, WalkLength
  <2>2. 1..0 = {} /\ \A e \in Entry : ~(e <= 0)
    BY ReadDirParameters DEF Entry
  <2> HIDE DEF W, R
  <2> QED
    BY <2>1, <2>2, Zenon
<1>2. ASSUME NEW m \in Entry, m - 1 \in T PROVE m \in T
  <2>1. m \in 0..NNames /\ m - 1 \in 0..NNames /\ m <= m /\ m \in Nat /\ m - 1 <= m
    BY ReadDirParameters DEF Entry
  <2>2. W(m) \in Seq(Entry) /\ W(m - 1) \in Seq(Entry) /\ R(m) \in Nat /\ R(m - 1) \in Nat
    BY <2>1, WalkLength, Zenon
  <2>e. \A e \in Entry : e \in Nat /\ (e <= m - 1 => e <= m) /\ (e <= m => e = m \/ e <= m - 1)
    BY ReadDirParameters DEF Entry
  <2>3. P(m - 1) /\ Q(m - 1)
    BY <1>2, Zenon
  <2>4. CASE m \notin D
    <3>1. W(m) = W(m - 1) /\ R(m) = R(m - 1)
      BY <2>4, WalkLength, Zenon
    <3> HIDE DEF W, R
    <3>2. P(m)
      BY <2>3, <2>e, <3>1, Zenon
    <3>3. Q(m)
      BY <2>3, <2>4, <2>e, <3>1, Zenon
    <3> QED
      BY <2>1, <3>2, <3>3, Zenon
  <2>5. CASE m \in D
    <3>1. W(m) = Append(W(m - 1), m) /\ R(m) = R(m - 1) + 1 /\ R(m - 1) = Len(W(m - 1))
      BY <2>5, WalkLength, Zenon
    <3> HIDE DEF W, R
    <3>2. W(m)[R(m)] = m /\ \A k \in 1..R(m - 1) : W(m)[k] = W(m - 1)[k]
      BY <2>2, <3>1
    <3>3. R(m) \in 1..R(m) /\ 1..R(m - 1) \subseteq 1..R(m) /\ \A k \in 1..R(m) : k = R(m) \/ k \in 1..R(m - 1)
      BY <2>2, <3>1
    <3>4. ASSUME NEW k \in 1..R(m)
          PROVE  W(m)[k] \in D /\ W(m)[k] \in Entry /\ W(m)[k] <= m /\ R(W(m)[k]) = k
      <4>1. CASE k = R(m)
        BY <2>1, <2>5, <3>2, <4>1, Zenon
      <4>2. CASE k \in 1..R(m - 1)
        BY <2>3, <2>e, <3>2, <4>2, Zenon
      <4> QED
        BY <3>3, <4>1, <4>2, Zenon
    <3>5. ASSUME NEW e \in Entry, e \in D, e <= m PROVE R(e) \in 1..R(m) /\ W(m)[R(e)] = e
      <4>1. CASE e = m
        BY <3>2, <3>3, <4>1, Zenon
      <4>2. CASE e <= m - 1
        BY <2>3, <3>2, <3>3, <3>5, <4>2, Zenon
      <4> QED
        BY <2>e, <3>5, <4>1, <4>2, Zenon
    <3> QED
      BY <2>1, <3>4, <3>5, Zenon
  <2> QED
    BY <2>4, <2>5, Zenon
<1>3. 0..NNames \subseteq T
  <2> HIDE DEF T
  <2> QED
    BY <1>1, <1>2, NameByName, Zenon
<1> QED
  BY <1>3, Zenon

\* The position of a name in the directory, or of the last entry before it.
Rank(n) == Len(Walk(entries, n))

Increasing(s) == \A i, j \in DOMAIN s : i < j => s[i] < s[j]

ListTyped ==
    /\ entries \in SUBSET Entry /\ start \in SUBSET Entry
    /\ offset \in Nat /\ cursor \in Nat /\ Len(all) = cursor
    /\ all \in Seq(Entry) /\ got \in Seq(Entry)

\* The kernel has n, or will get it with this call's reply or a later one.
Coming(n) ==
    n \in Range(got) \/ \E p \in DOMAIN all : offset < p /\ p <= Rank(n) /\ all[p] = n

\* While entries are only added they move towards the end, so those up to the cursor and
\* the offset have been read.
MissesNone ==
    /\ start \subseteq entries
    /\ \A n \in start : Rank(n) <= offset => n \in Range(got)
    /\ \A n \in start : pc = "reply" \/ (pc = "page" /\ Rank(n) <= cursor) => Coming(n)
    /\ pc = "end" => start \subseteq Range(got)

\* While entries are only removed they move towards the beginning, so those after the
\* cursor and the offset have not been read.
MovesOn ==
    /\ Increasing(all) /\ Increasing(got)
    /\ \A p \in DOMAIN all : Rank(all[p]) <= p
    /\ \A i \in DOMAIN got : Rank(got[i]) <= offset
    /\ \A p \in DOMAIN all, i \in DOMAIN got : offset < p => got[i] < all[p]

ListInv == ListTyped /\ (shrank \/ MissesNone) /\ (grew \/ MovesOn)

(* Positions are numbers, they order the names, and an entry's is not 0. *)
LEMMA Ranks ==
  /\ \A n \in Entry : Rank(n) \in Nat
  /\ \A n \in Entry : n \in entries => 0 < Rank(n)
  /\ \A m, n \in Entry : Rank(m) < Rank(n) => m < n
<1>1. \A n \in Entry : n \in 0..NNames /\ n \in Nat /\ n <= n
  BY ReadDirParameters DEF Entry
<1>2. \A n \in Entry : Rank(n) \in Nat
  BY <1>1, WalkLength, Zenon DEF Rank
<1>3. ASSUME NEW n \in Entry, n \in entries PROVE 0 < Rank(n)
  <2>1. Rank(n) \in 1..Rank(n)
    BY <1>1, <1>3, WalkPositions, Zenon DEF Rank
  <2> QED
    BY <1>2, <2>1
<1>4. ASSUME NEW m \in Entry, NEW n \in Entry, Rank(m) < Rank(n) PROVE m < n
  <2>1. n <= m => Rank(n) <= Rank(m)
    BY <1>1, WalkGrows, Zenon DEF Rank
  <2> QED
    BY <1>1, <1>2, <1>4, <2>1
<1> QED
  BY <1>2, <1>3, <1>4, Zenon

(* A page holds the entries of the positions after the cursor, and all of them up to the
   end of the directory if it is the last one. *)
LEMMA PageFacts ==
  ASSUME NEW c \in Nat
  PROVE  /\ Page(c) \in Seq(Entry) /\ Len(Page(c)) \in Nat
         /\ \A k \in DOMAIN Page(c) :
              k \in Nat /\ k <= Len(Page(c)) /\ 0 < k /\ Page(c)[k] \in Entry /\ Rank(Page(c)[k]) = c + k
         /\ \A n \in Entry : n \in entries /\ c < Rank(n) /\ Rank(n) <= c + Len(Page(c)) =>
              \E k \in DOMAIN Page(c) : Page(c)[k] = n /\ c + k = Rank(n)
         /\ Eof(Page(c)) => \A n \in Entry : n \in entries => Rank(n) <= c + Len(Page(c))
<1> DEFINE w == Walk(entries, NNames)
           l == Len(w)
           e == IF c + PageSize < l THEN c + PageSize ELSE l
           pg == SubSeq(w, c + 1, e)
<1>0. NNames \in 0..NNames /\ \A n \in Entry : n <= NNames
  BY ReadDirParameters DEF Entry
<1>1. w \in Seq(Entry) /\ l \in Nat
  BY <1>0, WalkLength, Zenon
<1>2. \A k \in 1..l : w[k] \in Entry /\ Rank(w[k]) = k
  BY <1>0, WalkPositions, Zenon DEF Rank
<1>3. \A n \in Entry : n \in entries => Rank(n) \in 1..l /\ w[Rank(n)] = n
  BY <1>0, WalkPositions, Zenon DEF Rank
<1>4. Page(c) = pg
  BY Zenon DEF Page
<1>s. DOMAIN w = 1..l
  BY <1>1
<1> HIDE DEF w
<1>5. e \in Nat /\ e <= l
  BY <1>1, ReadDirParameters
<1>6. pg \in Seq(Entry) /\ Len(pg) = IF c + 1 <= e THEN e - c ELSE 0
  BY <1>1, <1>5
<1>7. \A k \in 1..Len(pg) : pg[k] = w[c + k] /\ c + k \in 1..l /\ k \in Nat
  BY <1>1, <1>5, <1>6
<1>8. DOMAIN pg = 1..Len(pg) /\ Len(pg) \in Nat
  BY <1>6
<1>9. Len(pg) < PageSize => l <= c + Len(pg)
  BY <1>1, <1>5, <1>6, ReadDirParameters
<1> HIDE DEF pg, l, e
<1>10. ASSUME NEW k \in DOMAIN pg
       PROVE  k \in Nat /\ k <= Len(pg) /\ 0 < k /\ pg[k] \in Entry /\ Rank(pg[k]) = c + k
  <2>1. k \in 1..Len(pg) /\ k \in Nat /\ k <= Len(pg) /\ 0 < k
    BY <1>8, <1>10
  <2> QED
    BY <1>2, <1>7, <2>1, Zenon
<1>11. ASSUME NEW n \in Entry, n \in entries, c < Rank(n), Rank(n) <= c + Len(pg)
       PROVE  \E k \in DOMAIN pg : pg[k] = n /\ c + k = Rank(n)
  <2> DEFINE k == Rank(n) - c
  <2>1. Rank(n) \in Nat
    BY Ranks, Zenon
  <2>2. k \in 1..Len(pg) /\ c + k = Rank(n)
    BY <1>8, <1>11, <2>1
  <2> HIDE DEF k
  <2>3. pg[k] = n
    BY <1>3, <1>7, <1>11, <2>2, Zenon
  <2> QED
    BY <1>8, <2>2, <2>3, Zenon
<1>12. ASSUME Len(pg) < PageSize, NEW n \in Entry, n \in entries PROVE Rank(n) <= c + Len(pg)
  <2>1. Rank(n) \in 1..l
    BY <1>3, <1>12, Zenon
  <2> QED
    BY <1>1, <1>8, <1>9, <1>12, <2>1 DEF l
<1> QED
  BY <1>4, <1>6, <1>8, <1>10, <1>11, <1>12, Zenon DEF Eof

(* The concatenation of two sequences of entries, position by position. *)
LEMMA Joined ==
  ASSUME NEW s \in Seq(Entry), NEW t \in Seq(Entry)
  PROVE  /\ s \o t \in Seq(Entry) /\ Len(s \o t) = Len(s) + Len(t)
         /\ \A i \in DOMAIN s : i \in DOMAIN (s \o t) /\ (s \o t)[i] = s[i] /\ i \in Nat /\ i <= Len(s)
         /\ \A k \in DOMAIN t : Len(s) + k \in DOMAIN (s \o t) /\ (s \o t)[Len(s) + k] = t[k] /\ k \in Nat /\ 0 < k
         /\ \A i \in DOMAIN (s \o t) : i \in DOMAIN s \/ \E k \in DOMAIN t : i = Len(s) + k
<1>1. s \o t \in Seq(Entry) /\ Len(s \o t) = Len(s) + Len(t) /\ Len(s) \in Nat /\ Len(t) \in Nat
  OBVIOUS
<1>2. DOMAIN s = 1..Len(s) /\ DOMAIN t = 1..Len(t) /\ DOMAIN (s \o t) = 1..(Len(s) + Len(t))
  BY <1>1
<1>3. \A i \in DOMAIN s : i \in DOMAIN (s \o t) /\ (s \o t)[i] = s[i] /\ i \in Nat /\ i <= Len(s)
  OBVIOUS
<1>4. \A k \in DOMAIN t : Len(s) + k \in DOMAIN (s \o t) /\ (s \o t)[Len(s) + k] = t[k] /\ k \in Nat /\ 0 < k
  OBVIOUS
<1>5. ASSUME NEW i \in DOMAIN (s \o t), i \notin DOMAIN s PROVE \E k \in DOMAIN t : i = Len(s) + k
  <2>1. i - Len(s) \in DOMAIN t /\ i = Len(s) + (i - Len(s))
    BY <1>1, <1>2, <1>5
  <2> QED
    BY <2>1, Zenon
<1> QED
  BY <1>1, <1>3, <1>4, <1>5, Zenon

(* A reply holds the entries after the offset; it is empty only if there are none. *)
LEMMA ReplyFacts ==
  ASSUME ListTyped, Reply
  PROVE  \E sent \in Seq(Entry) :
           /\ got' = got \o sent /\ offset' = offset + Len(sent) /\ Len(sent) \in Nat
           /\ pc' \in {"end", "call"} /\ (pc' = "end" => sent = <<>>)
           /\ \A k \in DOMAIN sent : k \in Nat /\ k <= Len(sent) /\ 0 < k /\ offset + k \in DOMAIN all /\ sent[k] = all[offset + k]
           /\ \A p \in DOMAIN all : offset < p =>
                sent # <<>> /\ (p <= offset + Len(sent) => \E k \in DOMAIN sent : sent[k] = all[p])
<1> DEFINE l == Len(all)
           e == IF offset + ReplySize < l THEN offset + ReplySize ELSE l
           sent == SubSeq(all, offset + 1, e)
<1>0. all \in Seq(Entry) /\ offset \in Nat
  BY Zenon DEF ListTyped
<1>1. l \in Nat /\ DOMAIN all = 1..l
  BY <1>0
<1>2. e \in Nat /\ e <= l /\ (offset < l => offset < e)
  BY <1>0, <1>1, ReadDirParameters
<1> HIDE DEF e
<1>3. sent \in Seq(Entry) /\ Len(sent) = IF offset + 1 <= e THEN e - offset ELSE 0
  BY <1>0, <1>2
<1>4. \A k \in 1..Len(sent) : sent[k] = all[offset + k] /\ offset + k \in 1..l
  <2>1. \A k \in 1..Len(sent) : k \in 1..(e - offset) /\ offset + k \in 1..l /\ offset + 1 + k - 1 = offset + k
    BY <1>0, <1>1, <1>2, <1>3
  <2>2. \A k \in 1..(e - offset) : sent[k] = all[offset + k]
    BY <1>0, <1>2
  <2> QED
    BY <2>1, <2>2, Zenon
<1>5. DOMAIN sent = 1..Len(sent) /\ Len(sent) \in Nat /\ (sent = <<>> => Len(sent) = 0)
  <2> HIDE DEF sent
  <2> QED
    BY <1>3
<1>6. /\ got' = got \o sent /\ offset' = offset + Len(sent)
      /\ pc' \in {"end", "call"} /\ (pc' = "end" => sent = <<>>)
  BY Zenon DEF Reply, NextOffset, e
<1> HIDE DEF sent
<1>7. ASSUME NEW p \in DOMAIN all, offset < p
      PROVE  sent # <<>> /\ (p <= offset + Len(sent) => \E k \in DOMAIN sent : sent[k] = all[p])
  <2>1. p \in Nat /\ p <= l
    BY <1>1, <1>7
  <2>2. offset < l
    BY <1>0, <1>1, <1>7, <2>1
  <2>3. Len(sent) # 0
    BY <1>0, <1>2, <1>3, <2>2
  <2>4. ASSUME p <= offset + Len(sent) PROVE \E k \in DOMAIN sent : sent[k] = all[p]
    <3> DEFINE k == p - offset
    <3>1. k \in 1..Len(sent) /\ offset + k = p
      BY <1>0, <1>5, <1>7, <2>1, <2>4
    <3> HIDE DEF k
    <3> QED
      BY <1>4, <1>5, <3>1, Zenon
  <2> QED
    BY <1>5, <2>3, <2>4, Zenon
<1>8. \A k \in DOMAIN sent : k \in Nat /\ k <= Len(sent) /\ 0 < k
  BY <1>5
<1> QED
  BY <1>1, <1>3, <1>4, <1>5, <1>6, <1>7, <1>8, Zenon

(* Positions do not change unless the directory does; they grow with additions and shrink
   with removals. *)
LEMMA RankChanges ==
  /\ entries' = entries => \A n \in Entry : Rank(n)' = Rank(n)
  /\ entries \subseteq entries' => \A n \in Entry : Rank(n) <= Rank(n)' /\ Rank(n)' \in Nat
  /\ entries' \subseteq entries => \A n \in Entry : Rank(n)' <= Rank(n) /\ Rank(n)' \in Nat
  /\ \A n : Rank(n)' = Len(Walk(entries', n))
<1>1. \A n : Rank(n)' = Len(Walk(entries', n))
  BY Zenon DEF Rank, Walk
<1>2. \A n \in Entry : n \in 0..NNames
  BY ReadDirParameters DEF Entry
<1>3. \A n \in Entry : Len(Walk(entries', n)) \in Nat
  BY <1>2, WalkLength, Zenon
<1> QED
  BY <1>1, <1>2, <1>3, WalkOfMore, Zenon DEF Rank

(* Every step keeps the variables in their types. *)
LEMMA ListTypes ==
  ASSUME ListTyped, [ListNext]_listVars
  PROVE  ListTyped'
<1>0. <<>> \in Seq(Entry) /\ Len(<<>>) = 0 /\ 0 \in Nat
  OBVIOUS
<1>1. ASSUME NEW n \in Entry, Change(n) PROVE ListTyped'
  <2>1. entries' \in SUBSET Entry
    <3>1. entries' = entries \ {n} \/ entries' = entries \cup {n}
      BY <1>1, Zenon DEF Change
    <3> QED
      BY <3>1 DEF ListTyped
  <2> QED
    BY <1>1, <2>1, Zenon DEF Change, ListTyped
<1>2. CASE BeginCall \/ PageFails
  BY <1>0, <1>2, Zenon DEF BeginCall, PageFails, ListTyped
<1>3. CASE ReadPage
  <2> DEFINE pg == Page(cursor)
  <2>1. pg \in Seq(Entry) /\ Len(pg) \in Nat /\ cursor \in Nat /\ all \in Seq(Entry) /\ Len(all) = cursor
    BY PageFacts, Zenon DEF ListTyped
  <2>2. all' = all \o pg /\ cursor' = cursor + Len(pg)
    BY <1>3, Zenon DEF ReadPage
  <2> HIDE DEF pg
  <2>3. all' \in Seq(Entry) /\ Len(all') = cursor'
    BY <2>1, <2>2, Joined, Zenon
  <2>4. cursor' \in Nat
    BY <2>1, <2>2
  <2> QED
    BY <1>3, <2>3, <2>4, Zenon DEF ReadPage, ListTyped
<1>4. CASE Reply
  <2>1. PICK sent \in Seq(Entry) : got' = got \o sent /\ offset' = offset + Len(sent) /\ Len(sent) \in Nat
    BY <1>4, ReplyFacts, Zenon
  <2>2. got' \in Seq(Entry)
    BY <2>1, Joined, Zenon DEF ListTyped
  <2>3. offset' \in Nat
    BY <2>1 DEF ListTyped
  <2> QED
    BY <1>0, <1>4, <2>2, <2>3, Zenon DEF Reply, ListTyped
<1>5. CASE UNCHANGED listVars
  BY <1>5, Zenon DEF listVars, ListTyped
<1> QED
  BY <1>1, <1>2, <1>3, <1>4, <1>5, Zenon DEF ListNext

(* The end of what was read stays before what is still to be read while entries are only
   added. *)
LEMMA MissesNoneStep ==
  ASSUME ListTyped, [ListNext]_listVars, MissesNone, ~shrank'
  PROVE  MissesNone'
<1>0. start \subseteq Entry /\ offset \in Nat /\ cursor \in Nat
  BY Zenon DEF ListTyped
<1>r. \A n \in start : n \in Entry /\ n \in entries /\ Rank(n) \in Nat /\ 0 < Rank(n)
  BY <1>0, Ranks, Zenon DEF MissesNone
<1>1. ASSUME NEW n \in Entry, Change(n) PROVE MissesNone'
  <2>1. entries \subseteq entries' /\ UNCHANGED <<start, pc, offset, cursor, all, got>>
    BY <1>1, Zenon DEF Change
  <2>2. \A m \in start : Rank(m) <= Rank(m)' /\ Rank(m)' \in Nat
    BY <1>0, <2>1, RankChanges, Zenon
  <2>3. ASSUME NEW m \in start, NEW x \in Nat PROVE Rank(m)' <= x => Rank(m) <= x
    BY <1>r, <2>2
  <2>4. ASSUME NEW m \in start, Coming(m) PROVE Coming(m)'
    <3>1. \A p \in DOMAIN all : p \in Nat
      BY DEF ListTyped
    <3>2. \A p \in Nat : p <= Rank(m) => p <= Rank(m)'
      BY <1>r, <2>2
    <3> QED
      BY <2>1, <2>4, <3>1, <3>2, Zenon DEF Coming
  <2> QED
    BY <1>0, <2>1, <2>3, <2>4, Zenon DEF MissesNone
<1>2. CASE BeginCall \/ PageFails
  <2>1. UNCHANGED <<entries, start, offset, got>> /\ pc' \in {"page", "failed"} /\ cursor' = 0
    BY <1>2, Zenon DEF BeginCall, PageFails
  <2>2. \A n \in start : Rank(n)' = Rank(n)
    BY <1>0, <2>1, RankChanges, Zenon
  <2>3. \A n \in start : ~(Rank(n) <= 0)
    BY <1>r
  <2> QED
    BY <2>1, <2>2, <2>3, Zenon DEF MissesNone
<1>3. CASE ReadPage
  <2> DEFINE pg == Page(cursor)
  <2>1. /\ pg \in Seq(Entry) /\ Len(pg) \in Nat /\ all \in Seq(Entry) /\ Len(all) = cursor
        /\ \A n \in Entry : n \in entries /\ cursor < Rank(n) /\ Rank(n) <= cursor + Len(pg) =>
              \E k \in DOMAIN pg : pg[k] = n /\ cursor + k = Rank(n)
        /\ Eof(pg) => \A n \in Entry : n \in entries => Rank(n) <= cursor + Len(pg)
    BY <1>0, PageFacts, Zenon DEF ListTyped
  <2>2. /\ all' = all \o pg /\ cursor' = cursor + Len(pg) /\ pc = "page"
        /\ pc' = IF Eof(pg) THEN "reply" ELSE "page"
        /\ UNCHANGED <<entries, start, offset, got>>
    BY <1>3, Zenon DEF ReadPage
  <2> HIDE DEF pg
  <2>3. \A n \in start : Rank(n)' = Rank(n)
    BY <1>0, <2>2, RankChanges, Zenon
  <2>4. ASSUME NEW n \in start, Coming(n) PROVE Coming(n)'
    <3>1. \A p \in DOMAIN all : p \in DOMAIN all' /\ all'[p] = all[p]
      BY <2>1, <2>2, Joined, Zenon
    <3> QED
      BY <2>2, <2>3, <2>4, <3>1, Zenon DEF Coming
  <2>5. ASSUME NEW n \in start, Rank(n) <= cursor' PROVE Coming(n)'
    <3>1. CASE Rank(n) <= cursor
      BY <2>2, <2>4, <3>1, Zenon DEF MissesNone
    <3>2. CASE Rank(n) <= offset
      BY <2>2, <2>4, <3>2, Zenon DEF MissesNone, Coming
    <3>3. CASE cursor < Rank(n) /\ offset < Rank(n)
      <4>1. PICK k \in DOMAIN pg : pg[k] = n /\ cursor + k = Rank(n)
        BY <1>r, <2>1, <2>2, <2>5, <3>3, Zenon
      <4>2. Rank(n) \in DOMAIN all' /\ all'[Rank(n)] = n
        <5>1. Len(all) + k \in DOMAIN (all \o pg) /\ (all \o pg)[Len(all) + k] = pg[k]
          BY <2>1, Joined, Zenon
        <5> QED
          BY <2>1, <2>2, <4>1, <5>1, Zenon
      <4>3. Rank(n) <= Rank(n)
        BY <1>r
      <4> QED
        BY <2>2, <2>3, <3>3, <4>2, <4>3, Zenon DEF Coming
    <3> QED
      BY <1>0, <1>r, <3>1, <3>2, <3>3
  <2>6. pc' = "reply" => \A n \in start : Rank(n) <= cursor'
    BY <1>r, <2>1, <2>2, Zenon
  <2> QED
    BY <2>2, <2>3, <2>5, <2>6, Zenon DEF MissesNone
<1>4. CASE Reply
  <2>1. PICK sent \in Seq(Entry) :
           /\ got' = got \o sent /\ offset' = offset + Len(sent) /\ Len(sent) \in Nat
           /\ pc' \in {"end", "call"} /\ (pc' = "end" => sent = <<>>)
           /\ \A p \in DOMAIN all : offset < p =>
                sent # <<>> /\ (p <= offset + Len(sent) => \E k \in DOMAIN sent : sent[k] = all[p])
    BY <1>4, ReplyFacts, Zenon
  <2>2. UNCHANGED <<entries, start>> /\ pc = "reply"
    BY <1>4, Zenon DEF Reply
  <2>3. \A n \in start : Rank(n)' = Rank(n) /\ Coming(n)
    BY <1>0, <2>2, RankChanges, Zenon DEF MissesNone
  <2>4. Range(got) \subseteq Range(got') /\ Range(sent) \subseteq Range(got')
    <3>1. got \in Seq(Entry)
      BY Zenon DEF ListTyped
    <3>2. /\ \A i \in DOMAIN got : i \in DOMAIN got' /\ got'[i] = got[i]
          /\ \A k \in DOMAIN sent : Len(got) + k \in DOMAIN got' /\ got'[Len(got) + k] = sent[k]
      BY <2>1, <3>1, Joined, Zenon
    <3> QED
      BY <3>2, Zenon DEF Range
  <2>5. ASSUME NEW n \in start, n \notin Range(got') PROVE offset' < Rank(n)' /\ pc' # "end"
    <3>1. PICK p \in DOMAIN all : offset < p /\ p <= Rank(n) /\ all[p] = n
      BY <2>3, <2>4, <2>5, Zenon DEF Coming
    <3>2. sent # <<>> /\ ~(p <= offset + Len(sent))
      BY <2>1, <2>4, <2>5, <3>1, Zenon DEF Range
    <3>3. p \in Nat
      BY <3>1 DEF ListTyped
    <3> QED
      BY <1>0, <1>r, <2>1, <2>3, <3>1, <3>2, <3>3
  <2>6. \A n \in start : Rank(n)' <= offset' => n \in Range(got')
    BY <1>0, <1>r, <2>1, <2>3, <2>5
  <2> QED
    BY <2>1, <2>2, <2>5, <2>6, Zenon DEF MissesNone
<1>5. CASE UNCHANGED listVars
  <2>1. UNCHANGED <<entries, start, offset, cursor, pc, all, got>>
    BY <1>5, Zenon DEF listVars
  <2>2. \A n \in start : Rank(n)' = Rank(n)
    BY <1>0, <2>1, RankChanges, Zenon
  <2> QED
    BY <2>1, <2>2, Zenon DEF MissesNone, Coming
<1> QED
  BY <1>1, <1>2, <1>3, <1>4, <1>5, Zenon DEF ListNext

(* What was read stays behind what is still to be read while entries are only removed. *)
LEMMA MovesOnStep ==
  ASSUME ListTyped, [ListNext]_listVars, MovesOn, ~grew'
  PROVE  MovesOn'
<1>0. all \in Seq(Entry) /\ got \in Seq(Entry) /\ offset \in Nat /\ cursor \in Nat /\ Len(all) = cursor
  BY Zenon DEF ListTyped
<1>r. /\ \A p \in DOMAIN all : p \in Nat /\ p <= cursor /\ all[p] \in Entry
      /\ \A i \in DOMAIN got : i \in Nat /\ got[i] \in Entry
      /\ \A n \in Entry : n \in Nat /\ Rank(n) \in Nat
  <2>1. \A n \in Entry : n \in Nat
    BY DEF Entry
  <2> QED
    BY <1>0, <2>1, Ranks
<1> DEFINE R(n) == Len(Walk(entries', n))
<1>q. \A n : R(n) = Rank(n)'
  BY RankChanges, Zenon
<1>p. ASSUME Increasing(all'), Increasing(got'), \A p \in DOMAIN all' : R(all'[p]) <= p,
             \A i \in DOMAIN got' : R(got'[i]) <= offset',
             \A p \in DOMAIN all', i \in DOMAIN got' : offset' < p => got'[i] < all'[p]
      PROVE  MovesOn'
  BY <1>p, Zenon DEF MovesOn, Increasing, Rank, Walk
<1> HIDE DEF R
<1>e. ASSUME all' = <<>>, Increasing(got'), \A i \in DOMAIN got' : R(got'[i]) <= offset'
      PROVE  MovesOn'
  <2>1. DOMAIN all' = {}
    BY <1>e
  <2> QED
    BY <1>e, <1>p, <2>1, Zenon DEF Increasing
<1>1. ASSUME NEW n \in Entry, Change(n) PROVE MovesOn'
  <2>1. entries' \subseteq entries /\ UNCHANGED <<offset, all, got>>
    BY <1>1, Zenon DEF Change
  <2>2. \A m \in Entry : R(m) <= Rank(m) /\ R(m) \in Nat
    BY <1>q, <2>1, RankChanges, Zenon
  <2>3. \A m \in Entry, x \in Nat : Rank(m) <= x => R(m) <= x
    BY <1>r, <2>2
  <2> QED
    BY <1>0, <1>p, <1>r, <2>1, <2>3, Zenon DEF MovesOn, Increasing
<1>2. CASE BeginCall \/ PageFails
  <2>1. UNCHANGED <<entries, offset, got>> /\ all' = <<>>
    BY <1>2, Zenon DEF BeginCall, PageFails
  <2>2. \A n \in Entry : R(n) = Rank(n)
    BY <1>q, <2>1, RankChanges, Zenon
  <2> QED
    BY <1>e, <1>r, <2>1, <2>2, Zenon DEF MovesOn, Increasing
<1>3. CASE ReadPage
  <2> DEFINE pg == Page(cursor)
  <2>1. /\ pg \in Seq(Entry)
        /\ \A k \in DOMAIN pg : k \in Nat /\ 0 < k /\ pg[k] \in Entry /\ Rank(pg[k]) = cursor + k
    BY <1>0, PageFacts, Zenon
  <2>2. all' = all \o pg /\ UNCHANGED <<entries, offset, got>>
    BY <1>3, Zenon DEF ReadPage
  <2> HIDE DEF pg
  <2>3. \A n \in Entry : R(n) = Rank(n)
    BY <1>q, <2>2, RankChanges, Zenon
  <2>4. /\ \A p \in DOMAIN all : p \in DOMAIN all' /\ all'[p] = all[p]
        /\ \A p \in DOMAIN all' : p \in DOMAIN all \/ \E k \in DOMAIN pg : p = cursor + k
        /\ \A k \in DOMAIN pg : all'[cursor + k] = pg[k]
    <3>1. /\ \A p \in DOMAIN all : p \in DOMAIN (all \o pg) /\ (all \o pg)[p] = all[p]
          /\ \A p \in DOMAIN (all \o pg) : p \in DOMAIN all \/ \E k \in DOMAIN pg : p = Len(all) + k
          /\ \A k \in DOMAIN pg : (all \o pg)[Len(all) + k] = pg[k]
      BY <1>0, <2>1, Joined, Zenon
    <3> QED
      BY <1>0, <2>2, <3>1, Zenon
  <2>5. ASSUME NEW p \in DOMAIN all', p \notin DOMAIN all
        PROVE  p \in Nat /\ cursor < p /\ all'[p] \in Entry /\ Rank(all'[p]) = p
    <3>1. PICK k \in DOMAIN pg : p = cursor + k
      BY <2>4, <2>5, Zenon
    <3>2. k \in Nat /\ 0 < k /\ all'[p] = pg[k] /\ pg[k] \in Entry /\ Rank(pg[k]) = p
      BY <2>1, <2>4, <3>1, Zenon
    <3> QED
      BY <1>0, <3>1, <3>2
  <2>6. \A p \in DOMAIN all' : p \in Nat /\ all'[p] \in Entry /\ Rank(all'[p]) <= p
    <3>1. ASSUME NEW p \in DOMAIN all' PROVE p \in Nat /\ all'[p] \in Entry /\ Rank(all'[p]) <= p
      <4>1. CASE p \in DOMAIN all
        BY <1>r, <2>4, <4>1, Zenon DEF MovesOn
      <4>2. CASE p \notin DOMAIN all
        <5>1. p \in Nat /\ all'[p] \in Entry /\ Rank(all'[p]) = p
          BY <2>5, <4>2, Zenon
        <5> QED
          BY <5>1
      <4> QED
        BY <4>1, <4>2, Zenon
    <3> QED
      BY <3>1, Zenon
  <2>7. ASSUME NEW i \in DOMAIN all', NEW j \in DOMAIN all', i < j PROVE all'[i] < all'[j]
    <3>1. CASE j \in DOMAIN all
      <4>1. i \in DOMAIN all
        <5>1. i \notin DOMAIN all => cursor < i /\ i \in Nat
          BY <2>5, Zenon
        <5> QED
          BY <1>0, <1>r, <2>7, <3>1, <5>1
      <4> QED
        BY <2>4, <2>7, <3>1, <4>1, Zenon DEF MovesOn, Increasing
    <3>2. CASE j \notin DOMAIN all
      <4>1. Rank(all'[i]) <= i /\ Rank(all'[j]) = j /\ i \in Nat /\ j \in Nat /\ all'[i] \in Entry /\ all'[j] \in Entry
        BY <2>5, <2>6, <3>2, Zenon
      <4>2. Rank(all'[i]) \in Nat
        BY <1>r, <4>1, Zenon
      <4>3. Rank(all'[i]) < Rank(all'[j])
        BY <2>7, <4>1, <4>2
      <4> QED
        BY <4>1, <4>3, Ranks, Zenon
    <3> QED
      BY <3>1, <3>2, Zenon
  <2>8. ASSUME NEW p \in DOMAIN all', NEW i \in DOMAIN got, offset < p PROVE got[i] < all'[p]
    <3>1. CASE p \in DOMAIN all
      BY <2>4, <2>8, <3>1, Zenon DEF MovesOn
    <3>2. CASE p \notin DOMAIN all
      <4>1. Rank(all'[p]) = p /\ p \in Nat /\ all'[p] \in Entry /\ got[i] \in Entry /\ Rank(got[i]) \in Nat
        BY <1>r, <2>5, <3>2, Zenon
      <4>2. Rank(got[i]) <= offset
        BY Zenon DEF MovesOn
      <4>3. Rank(got[i]) < Rank(all'[p])
        BY <1>0, <2>8, <4>1, <4>2
      <4> QED
        BY <4>1, <4>3, Ranks, Zenon
    <3> QED
      BY <3>1, <3>2, Zenon
  <2> QED
    BY <1>p, <1>r, <2>2, <2>3, <2>6, <2>7, <2>8, Zenon DEF MovesOn, Increasing
<1>4. CASE Reply
  <2>1. PICK sent \in Seq(Entry) :
           /\ got' = got \o sent /\ offset' = offset + Len(sent) /\ Len(sent) \in Nat
           /\ \A k \in DOMAIN sent : k \in Nat /\ k <= Len(sent) /\ 0 < k /\ offset + k \in DOMAIN all /\ sent[k] = all[offset + k]
    BY <1>4, ReplyFacts, Zenon
  <2>2. entries' = entries /\ all' = <<>>
    BY <1>4, Zenon DEF Reply
  <2>3. \A n \in Entry : R(n) = Rank(n)
    BY <1>q, <2>2, RankChanges, Zenon
  <2>4. /\ \A i \in DOMAIN got : i \in DOMAIN got' /\ got'[i] = got[i] /\ i <= Len(got)
        /\ \A i \in DOMAIN got' : i \in DOMAIN got \/ \E k \in DOMAIN sent : i = Len(got) + k
        /\ \A k \in DOMAIN sent : got'[Len(got) + k] = sent[k]
    BY <1>0, <2>1, Joined, ZenonT(60)
  <2>l. Len(got) \in Nat
    BY <1>0
  <2>5. ASSUME NEW i \in DOMAIN got', i \notin DOMAIN got
        PROVE  \E p \in DOMAIN all : /\ p \in Nat /\ offset < p /\ p <= offset' /\ got'[i] = all[p]
                                     /\ i \in Nat /\ Len(got) < i /\ p = offset + (i - Len(got))
    <3>1. PICK k \in DOMAIN sent : i = Len(got) + k
      BY <2>4, <2>5, Zenon
    <3>2. k \in Nat /\ k <= Len(sent) /\ 0 < k /\ offset + k \in DOMAIN all /\ got'[i] = all[offset + k]
      BY <2>1, <2>4, <3>1, Zenon
    <3>3. /\ offset + k \in Nat /\ offset < offset + k /\ offset + k <= offset'
          /\ i \in Nat /\ Len(got) < i /\ offset + k = offset + (i - Len(got))
      <4> DEFINE g == Len(got)  l == Len(sent)
      <4>1. /\ g \in Nat /\ l \in Nat /\ k \in Nat /\ offset \in Nat
            /\ k <= l /\ 0 < k /\ offset' = offset + l /\ i = g + k
        BY <1>0, <2>1, <2>l, <3>1, <3>2, Zenon
      <4> HIDE DEF g, l
      <4>2. /\ offset + k \in Nat /\ offset < offset + k /\ offset + k <= offset'
            /\ i \in Nat /\ g < i /\ offset + k = offset + (i - g)
        BY <4>1
      <4> QED
        BY <4>2, Zenon DEF g
    <3> QED
      BY <3>2, <3>3, Zenon
  <2>6. ASSUME NEW i \in DOMAIN got' PROVE got'[i] \in Entry /\ Rank(got'[i]) <= offset'
    <3>1. CASE i \in DOMAIN got
      <4>1. got'[i] \in Entry /\ Rank(got'[i]) <= offset /\ Rank(got'[i]) \in Nat
        BY <1>r, <2>4, <3>1, Zenon DEF MovesOn
      <4> QED
        BY <1>0, <2>1, <4>1
    <3>2. CASE i \notin DOMAIN got
      <4>1. PICK p \in DOMAIN all : p \in Nat /\ p <= offset' /\ got'[i] = all[p]
        BY <2>5, <3>2, Zenon
      <4>2. got'[i] \in Entry /\ Rank(got'[i]) <= p /\ Rank(got'[i]) \in Nat
        BY <1>r, <4>1, Zenon DEF MovesOn
      <4> QED
        BY <1>0, <2>1, <4>1, <4>2
    <3> QED
      BY <3>1, <3>2, Zenon
  <2>7. ASSUME NEW i \in DOMAIN got', NEW j \in DOMAIN got', i < j PROVE got'[i] < got'[j]
    <3>1. CASE j \in DOMAIN got
      <4>1. i \in DOMAIN got
        <5>1. i \notin DOMAIN got => Len(got) < i /\ i \in Nat
          BY <2>5, Zenon
        <5>2. j \in Nat /\ j <= Len(got)
          BY <1>r, <2>4, <3>1, Zenon
        <5> QED
          BY <2>7, <2>l, <5>1, <5>2
      <4> QED
        BY <2>4, <2>7, <3>1, <4>1, Zenon DEF MovesOn, Increasing
    <3>2. CASE j \notin DOMAIN got
      <4>1. PICK q \in DOMAIN all : /\ q \in Nat /\ offset < q /\ got'[j] = all[q]
                                    /\ j \in Nat /\ q = offset + (j - Len(got))
        BY <2>5, <3>2, Zenon
      <4>2. CASE i \in DOMAIN got
        BY <2>4, <4>1, <4>2, Zenon DEF MovesOn
      <4>3. CASE i \notin DOMAIN got
        <5>1. PICK p \in DOMAIN all : p \in Nat /\ got'[i] = all[p] /\ i \in Nat /\ p = offset + (i - Len(got))
          BY <2>5, <4>3, Zenon
        <5>2. p < q
          BY <1>0, <2>7, <2>l, <4>1, <5>1
        <5> QED
          BY <4>1, <5>1, <5>2, Zenon DEF MovesOn, Increasing
      <4> QED
        BY <4>2, <4>3, Zenon
    <3> QED
      BY <3>1, <3>2, Zenon
  <2> QED
    BY <1>e, <2>2, <2>3, <2>6, <2>7, Zenon DEF Increasing
<1>5. CASE UNCHANGED listVars
  <2>1. UNCHANGED <<entries, offset, all, got>>
    BY <1>5, Zenon DEF listVars
  <2>2. \A n \in Entry : R(n) = Rank(n)
    BY <1>q, <2>1, RankChanges, Zenon
  <2> QED
    BY <1>p, <1>r, <2>1, <2>2, Zenon DEF MovesOn, Increasing
<1> QED
  BY <1>1, <1>2, <1>3, <1>4, <1>5, Zenon DEF ListNext

(* The invariant of a listing: while entries are only added nothing is passed over, while
   they are only removed nothing is met again, whatever the sizes of pages and replies. *)
THEOREM ListingInvariance == ListSpec => []ListInv
<1>1. ListInit => ListInv
  <2> SUFFICES ASSUME ListInit PROVE ListInv
    BY Zenon
  <2>1. /\ entries \in SUBSET Entry /\ start = entries /\ offset = 0 /\ cursor = 0 /\ pc = "call"
        /\ all = <<>> /\ got = <<>>
    BY Zenon DEF ListInit
  <2>2. DOMAIN all = {} /\ DOMAIN got = {} /\ all \in Seq(Entry) /\ got \in Seq(Entry) /\ Len(all) = 0 /\ 0 \in Nat
    BY <2>1
  <2>3. \A n \in start : ~(Rank(n) <= offset)
    <3>1. \A n \in start : Rank(n) \in Nat /\ 0 < Rank(n)
      BY <2>1, Ranks, Zenon
    <3> QED
      BY <2>1, <3>1
  <2>4. MissesNone
    BY <2>1, <2>3, Zenon DEF MissesNone
  <2>5. MovesOn
    BY <2>2, Zenon DEF MovesOn, Increasing
  <2> QED
    BY <2>1, <2>2, <2>4, <2>5, Zenon DEF ListInv, ListTyped
<1>2. ListInv /\ [ListNext]_listVars => ListInv'
  <2> SUFFICES ASSUME ListInv, [ListNext]_listVars PROVE ListInv'
    BY Zenon
  <2>1. ListTyped /\ ListTyped'
    BY ListTypes, Zenon DEF ListInv
  <2>2. (shrank => shrank') /\ (grew => grew')
    <3>1. ASSUME NEW n \in Entry, Change(n) PROVE (shrank => shrank') /\ (grew => grew')
      BY <3>1, Zenon DEF Change
    <3>2. BeginCall \/ ReadPage \/ PageFails \/ Reply \/ UNCHANGED listVars => UNCHANGED <<shrank, grew>>
      BY Zenon DEF BeginCall, ReadPage, PageFails, Reply, listVars
    <3>3. UNCHANGED <<shrank, grew>> => (shrank => shrank') /\ (grew => grew')
      OBVIOUS
    <3> QED
      BY <3>1, <3>2, <3>3, Zenon DEF ListNext
  <2>3. shrank' \/ MissesNone'
    BY <2>1, <2>2, MissesNoneStep, Zenon DEF ListInv
  <2>4. grew' \/ MovesOn'
    BY <2>1, <2>2, MovesOnStep, Zenon DEF ListInv
  <2> QED
    BY <2>1, <2>3, <2>4, Zenon DEF ListInv
<1> QED
  BY <1>1, <1>2, PTL DEF ListSpec

(* A listing that runs to its end while entries are only added misses none of those that
   were there when it began: for every directory, page size and reply size, and additions
   at any point of it. *)
THEOREM ListingComplete == ListSpec => []NothingMissed
<1>1. ListInv => NothingMissed
  BY Zenon DEF ListInv, MissesNone, NothingMissed
<1> QED
  BY <1>1, ListingInvariance, PTL

(* While entries are only removed no entry is listed twice. *)
THEOREM ListingOnce == ListSpec => []NothingTwice
<1>1. ListInv => NothingTwice
  <2> SUFFICES ASSUME ListInv, ~grew, NEW i \in DOMAIN got, NEW j \in DOMAIN got, got[i] = got[j] PROVE i = j
    BY Zenon DEF NothingTwice, IsInjective
  <2>1. i \in Nat /\ j \in Nat /\ got[i] \in Nat
    <3>1. got \in Seq(Entry)
      BY Zenon DEF ListInv, ListTyped
    <3>2. i \in Nat /\ j \in Nat /\ got[i] \in Entry
      BY <3>1
    <3> QED
      BY <3>2 DEF Entry
  <2>2. ~(i < j) /\ ~(j < i)
    <3>1. (i < j => got[i] < got[j]) /\ (j < i => got[j] < got[i])
      BY Zenon DEF ListInv, MovesOn, Increasing
    <3> QED
      BY <2>1, <3>1
  <2> QED
    BY <2>1, <2>2
<1> QED
  BY <1>1, ListingInvariance, PTL
=============================================================================
