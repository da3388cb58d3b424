----------------------------- MODULE Namespace -----------------------------
(***************************************************************************)
(* The client's view of the namespace (client/src/fuse_ops.rs, cache.rs):  *)
(* the inode table and the metadata cache, against the server's directory  *)
(* tree (server/src/ops/meta.rs).                                          *)
(* FUSE operations run one at a time on one thread and the background task *)
(* touches none of this state, so an operation is one step.  This client   *)
(* is the only one.                                                        *)
(*                                                                         *)
(* The tree has two levels: paths <<n>> below the root <<>>, and paths     *)
(* <<n, m>> below those that are directories.  A Stat is the object and    *)
(* its version; whatever a Stat shows (size, mode, nlink, mtime) changes   *)
(* the version.                                                            *)
(***************************************************************************)
EXTENDS Integers, Sequences, Functions

CONSTANTS Name,   \* names in the root
          Leaf,   \* names in a directory
          MaxOps, \* bound on successful mutations, and on inode numbers
          MaxUnanswered \* bound on the calls that take effect and are not answered Ok

Root == <<>>
Path == {<<n>> : n \in Name} \cup {<<n, m>> : n \in Name, m \in Leaf}
AllPath == Path \cup {Root}
Parent(p) == IF Len(p) = 2 THEN <<p[1]>> ELSE Root
Below(d) == {p \in Path : Len(p) = 2 /\ Parent(p) = d}
NoPath == <<"none">>
Ino == 1..MaxOps

ASSUME NamespaceParameters == MaxOps \in Nat \ {0} /\ MaxUnanswered \in Nat

VARIABLES obj,     \* obj[p]: the object the server has at p; 0 if none
          isDir,   \* objects that are directories
          isLink,  \* objects that are symbolic links
          linked,  \* files that have been given a second name
          moved,   \* paths a directory has been renamed from or to
          ver,     \* ver[o]: the version of object o
          used,    \* number of objects made so far
          nops,    \* mutations made so far
          cache,   \* MetaCache: p -> Miss, Neg or a Stat
          inoOf,   \* path_to_ino; 0 if absent
          pathOf,  \* ino_to_path; NoPath if absent
          next,    \* the next inode number
          newGen,  \* reconnect_gen differs from last_reconnect_gen
          missed,  \* cached entries changed by a call the client was told had failed
          lost     \* calls so far that took effect and were not answered Ok

srvVars == <<obj, isDir, isLink, linked, moved, ver, used, nops>>
inoVars == <<inoOf, pathOf, next>>
vars == <<srvVars, cache, inoVars, newGen, missed, lost>>

Miss == <<-1, 0>>
Neg == <<0, 0>>
StatOf(p) == IF obj[p] = 0 THEN Neg ELSE <<obj[p], ver[obj[p]]>>
Exists(p) == obj[p] # 0
DirAt(p) == Exists(p) /\ obj[p] \in isDir
Objects == 1..(MaxOps + 1)

Init ==
    /\ obj = [p \in AllPath |-> IF p = Root THEN 1 ELSE 0]
    /\ isDir = {1} /\ isLink = {} /\ linked = {} /\ moved = {}
    /\ used = 1 /\ nops = 0
    /\ ver = [o \in Objects |-> 0]
    /\ cache = [p \in AllPath |-> Miss]
    /\ inoOf = [p \in AllPath |-> IF p = Root THEN 1 ELSE 0]
    /\ pathOf = [i \in Ino |-> IF i = 1 THEN Root ELSE NoPath]
    /\ next = 2
    /\ newGen = FALSE /\ missed = {} /\ lost = 0

-----------------------------------------------------------------------------
(* The server's handlers.  Each is a precondition, under which the call takes
   effect, and the effect on the tree. *)

Touch(os) == ver' = [o \in Objects |-> ver[o] + (IF o \in os THEN 1 ELSE 0)]
Counted == nops < MaxOps /\ nops' = nops + 1

\* A new object and an entry for it.
SrvMake(p) ==
    /\ Counted /\ DirAt(Parent(p)) /\ ~Exists(p)
    /\ used' = used + 1
    /\ obj' = [obj EXCEPT ![p] = used + 1]
    /\ Touch({obj[Parent(p)]})
    /\ UNCHANGED <<linked, moved>>

SrvMkdir(p) ==
    /\ Len(p) = 1 /\ SrvMake(p)
    /\ isDir' = isDir \cup {used + 1}
    /\ UNCHANGED isLink

SrvSymlink(p) ==
    /\ SrvMake(p)
    /\ isLink' = isLink \cup {used + 1}
    /\ UNCHANGED isDir

\* The creating open, of a file that does not exist.
SrvCreate(p) == SrvMake(p) /\ UNCHANGED <<isDir, isLink>>

SrvLink(p, q) ==
    /\ Counted /\ Exists(p) /\ ~DirAt(p) /\ DirAt(Parent(q)) /\ ~Exists(q)
    /\ obj' = [obj EXCEPT ![q] = obj[p]]
    /\ linked' = linked \cup {obj[p]}
    /\ Touch({obj[p], obj[Parent(q)]})
    /\ UNCHANGED <<isDir, isLink, moved, used>>

SrvRemove(p, dir) ==
    /\ Counted /\ Exists(p) /\ (DirAt(p) <=> dir)
    /\ \A q \in Below(p) : ~Exists(q)
    /\ obj' = [obj EXCEPT ![p] = 0]
    /\ Touch({obj[p], obj[Parent(p)]})
    /\ UNCHANGED <<isDir, isLink, linked, moved, used>>

\* rename(2): the destination is replaced, a directory takes its entries along;
\* two names of one file are left as they are.
SrvRename(p, q) ==
    /\ Counted /\ p # q /\ Exists(p) /\ DirAt(Parent(q))
    /\ DirAt(p) => /\ Len(q) = 1
                   /\ Exists(q) => DirAt(q) /\ \A r \in Below(q) : ~Exists(r)
    /\ ~DirAt(p) => ~DirAt(q) /\ q \notin Below(p)
    /\ obj' = [r \in AllPath |->
                 IF obj[p] = obj[q] THEN obj[r]
                 ELSE IF r = q THEN obj[p]
                 ELSE IF r = p \/ r \in Below(p) THEN 0
                 ELSE IF r \in Below(q) THEN (IF DirAt(p) THEN obj[<<p[1], r[2]>>] ELSE 0)
                 ELSE obj[r]]
    /\ Touch(IF obj[p] = obj[q] THEN {} ELSE {obj[p], obj[q], obj[Parent(p)], obj[Parent(q)]})
    /\ moved' = IF DirAt(p) THEN moved \cup {p, q} ELSE moved
    /\ UNCHANGED <<isDir, isLink, linked, used>>

SrvSetAttr(p) ==
    /\ Counted /\ Exists(p)
    /\ Touch({obj[p]})
    /\ UNCHANGED <<obj, isDir, isLink, linked, moved, used>>

-----------------------------------------------------------------------------
(* The client's tables. *)

\* MetaCache::invalidate: the path and its parent directory.
Without(c, p) == [r \in AllPath |-> IF r = p \/ (p # Root /\ r = Parent(p)) THEN Miss ELSE c[r]]

\* get_or_alloc, as make_file_attr and readdir use it, for a set of paths: the new
\* ones are numbered in the order the directory lists them.
GetOrAlloc(ps) ==
    LET fresh == {p \in ps : inoOf[p] = 0} IN
    \E n \in next..(MaxOps + 1) : \E alloc \in Bijection(next..(n - 1), fresh) :
        /\ pathOf' = [i \in Ino |-> IF i \in next..(n - 1) THEN alloc[i] ELSE pathOf[i]]
        /\ inoOf' = [p \in AllPath |-> IF p \in fresh
                                       THEN CHOOSE i \in next..(n - 1) : alloc[i] = p
                                       ELSE inoOf[p]]
        /\ next' = n

RemovePath(p) ==
    /\ inoOf' = [inoOf EXCEPT ![p] = 0]
    /\ pathOf' = IF inoOf[p] # 0 THEN [pathOf EXCEPT ![inoOf[p]] = NoPath] ELSE pathOf
    /\ UNCHANGED next

\* Mutant of RenameIno: the inode's own path is not updated.
RenameInoForward(p, q) ==
    /\ inoOf' = IF inoOf[p] # 0 THEN [inoOf EXCEPT ![p] = 0, ![q] = inoOf[p]] ELSE inoOf
    /\ UNCHANGED <<pathOf, next>>

\* rename_ino: the moved inode gets the new path; an inode the new path already
\* had keeps its entry in ino_to_path.
RenameIno(p, q) ==
    /\ inoOf' = IF inoOf[p] # 0 THEN [inoOf EXCEPT ![p] = 0, ![q] = inoOf[p]] ELSE inoOf
    /\ pathOf' = IF inoOf[p] # 0 THEN [pathOf EXCEPT ![inoOf[p]] = q] ELSE pathOf
    /\ UNCHANGED next

Known(p) == \E i \in Ino : pathOf[i] = p
KnownDir(p) == Known(p) /\ p # NoPath /\ Len(p) <= 1

\* Children of the directories the kernel has an inode for (child_path).
Child == {p \in Path : KnownDir(Parent(p))}

-----------------------------------------------------------------------------
(* FUSE operations.  A reply sent with make_file_attr allocates the inode. *)

\* lookup and getattr, through get_stat: the cache is cleared if the generation
\* moved, then consulted, then filled from the server.
Lookup(p) ==
    LET c == IF newGen THEN [r \in AllPath |-> Miss] ELSE cache
        answer == IF c[p] # Miss THEN c[p] ELSE StatOf(p)
    IN  /\ cache' = [c EXCEPT ![p] = answer]
        /\ newGen' = FALSE
        /\ IF answer # Neg THEN GetOrAlloc({p}) ELSE UNCHANGED inoVars
        /\ UNCHANGED srvVars

SetAttr(p) ==
    /\ SrvSetAttr(p)
    /\ cache' = Without(cache, p)
    /\ GetOrAlloc({p})
    /\ UNCHANGED newGen

\* write(), the write having reached the server: the size changes.
WriteData(p) ==
    /\ SrvSetAttr(p) /\ ~DirAt(p)
    /\ cache' = Without(cache, p)
    /\ UNCHANGED <<inoVars, newGen>>

\* mkdir caches the new entry; the parent's was dropped before the call.
Mkdir(p) ==
    /\ SrvMkdir(p)
    /\ cache' = [Without(cache, Parent(p)) EXCEPT ![p] = <<used + 1, 0>>]
    /\ GetOrAlloc({p})
    /\ UNCHANGED newGen

\* symlink drops no entry before it caches its own.
Symlink(p) ==
    /\ SrvSymlink(p)
    /\ cache' = [cache EXCEPT ![p] = <<used + 1, 0>>]
    /\ GetOrAlloc({p})
    /\ UNCHANGED newGen

\* create, of a file that does not exist.  It also registers the open file (module
\* HandleRemap).
Create(p) ==
    /\ SrvCreate(p)
    /\ cache' = [Without(Without(cache, Parent(p)), p) EXCEPT ![p] = <<used + 1, 0>>]
    /\ GetOrAlloc({p})
    /\ UNCHANGED newGen

\* create, when the session's handle table is full: the file has been created by
\* the time the server answers NoSpace.
CreateNoSpace(p) ==
    /\ SrvCreate(p)
    /\ cache' = Without(Without(cache, Parent(p)), p)
    /\ UNCHANGED <<inoVars, newGen>>

Link(p, q) ==
    /\ SrvLink(p, q)
    /\ cache' = LET stat == <<obj[p], ver[obj[p]] + 1>>
                    c == [Without(cache, p) EXCEPT ![p] = stat]
                IN  [Without(c, q) EXCEPT ![q] = stat]
    /\ GetOrAlloc({q})
    /\ UNCHANGED newGen

\* unlink and rmdir.
RemoveEntry(p, dir) ==
    /\ SrvRemove(p, dir)
    /\ cache' = Without(cache, p)
    /\ RemovePath(p)
    /\ UNCHANGED newGen

\* Mutant of RenameCache: the destination is not invalidated.
RenameCacheSourceOnly(p, q) ==
    [Without(cache, p) EXCEPT ![Parent(q)] = Miss]

\* The entries rename drops: both names, their parents, and the parent of the
\* destination's parent.
RenameCache(p, q) == Without(Without(Without(cache, p), q), Parent(q))

Rename(p, q) ==
    /\ SrvRename(p, q)
    /\ cache' = RenameCache(p, q)
    /\ RenameIno(p, q)
    /\ UNCHANGED newGen

Readdir(d) ==
    /\ DirAt(d)
    /\ GetOrAlloc({p \in Path : Parent(p) = d /\ Exists(p)})
    /\ UNCHANGED <<srvVars, cache, newGen>>

\* A call that fails and changes nothing: what write, unlink, rmdir, mkdir and create
\* drop beforehand stays dropped.  The other calls drop nothing before they succeed.
Fails(p) ==
    /\ cache' = Without(cache, p)
    /\ UNCHANGED <<srvVars, inoVars, newGen>>

\* The server's side of a call that the client does not see succeed.
Unanswered ==
    \E p \in Path : \/ SrvSetAttr(p) \/ SrvRemove(p, DirAt(p))
                    \/ SrvMkdir(p) \/ SrvSymlink(p) \/ SrvCreate(p)
                    \/ \E q \in Path : SrvRename(p, q) \/ SrvLink(p, q)

\* The answer is lost with the connection; the next call reconnects, which advances
\* the generation.
ReplyLost ==
    /\ Unanswered
    /\ newGen' = TRUE
    /\ UNCHANGED <<cache, inoVars>>

\* The connection stays, but the call takes effect after the client's deadline, or is
\* a setattr that fails when part of it has taken effect.
Unreported ==
    /\ Unanswered
    /\ UNCHANGED <<cache, inoVars, newGen>>

Reconnect ==
    /\ newGen' = TRUE
    /\ UNCHANGED <<srvVars, cache, inoVars>>

\* A TTL runs out or the LRU evicts the entry.
Expire(p) ==
    /\ cache[p] # Miss
    /\ cache' = [cache EXCEPT ![p] = Miss]
    /\ UNCHANGED <<srvVars, inoVars, newGen>>

\* The calls on the inode of p, in the directory p is in, and those of either kind.
OnIno(p) == SetAttr(p) \/ WriteData(p) \/ Readdir(p) \/ \E q \in Child : Link(p, q)
InDir(p) == \/ Mkdir(p) \/ Symlink(p) \/ Create(p) \/ CreateNoSpace(p)
            \/ \E dir \in BOOLEAN : RemoveEntry(p, dir)
            \/ \E q \in Child : Rename(p, q)
Call(p) == \/ Known(p) /\ OnIno(p)
           \/ p \in Child /\ InDir(p)
           \/ (Known(p) \/ p \in Child) /\ (Lookup(p) \/ Fails(p))

\* Of the entries missed so far, those not replaced or dropped since.
StillMissed == {p \in missed : cache'[p] = cache[p]}

Next ==
    \/ /\ (\E p \in AllPath : Call(p) \/ Expire(p)) \/ Reconnect
       /\ missed' = StillMissed /\ UNCHANGED lost
    \/ /\ lost < MaxUnanswered /\ lost' = lost + 1
       /\ \/ ReplyLost /\ missed' = StillMissed
          \/ /\ Unreported
             /\ missed' = StillMissed \cup {p \in AllPath : cache[p] # Miss /\ StatOf(p)' # StatOf(p)}

Spec == Init /\ [][Next]_vars

-----------------------------------------------------------------------------
(* path_to_ino never leads to an inode number that stands for another path, or
   for none: the number a lookup answers is the one later calls resolve to the
   same path. *)
InoResolves == \A p \in AllPath : inoOf[p] # 0 => pathOf[inoOf[p]] = p

\* Entries whose attributes the client leaves out of date: the other names of a
\* hard-linked file, and the directory a symbolic link was made in.
OldAttributes(p) == \/ obj[p] \in linked
                    \/ \E q \in Path : Parent(q) = p /\ obj[q] \in isLink

(* What the cache would answer is what the server would: after every operation
   of this client, successful, failed or lost with its connection, no entry that
   is still in use is out of date ("Mutating operations invalidate the affected
   entries, and the cache is cleared when reconnect_gen advances", WHITEPAPER
   7.4).  The exceptions are the entries a call changed that the client was told
   had failed, until they are replaced; what is below a renamed directory; and
   entries that name the right object with old attributes. *)
CacheCoherent ==
    ~newGen => \A p \in AllPath :
        \/ cache[p] \in {Miss, StatOf(p)}
        \/ p \in missed
        \/ OldAttributes(p) /\ cache[p][1] = obj[p]
        \/ Len(p) = 2 /\ Parent(p) \in moved
=============================================================================
