------------------------------ MODULE ReadDir ------------------------------
(***************************************************************************)
(* Listing a directory while it changes.  The kernel reads the listing in  *)
(* calls that each continue at an offset; for every call the client lists  *)
(* the whole directory anew and skips up to the offset                     *)
(* (client/src/fuse_ops.rs); a whole listing is put together from pages,   *)
(* for each of which the server reads the directory anew and skips up to   *)
(* the cursor (client/src/conn.rs, server/src/ops/meta.rs).  Offset and    *)
(* cursor are counts of entries.                                           *)
(*                                                                         *)
(* Other clients, and between two calls also other operations of this one, *)
(* add and remove entries.  The host returns the entries of a directory in *)
(* an order that depends on their names only, as a hashed directory does;  *)
(* names are numbered in that order.  Reading one page is one step.        *)
(***************************************************************************)
EXTENDS Integers, Sequences, Functions

CONSTANTS NNames,     \* names are 1..NNames
          PageSize,   \* entries of a page (256 in the code)
          ReplySize,  \* entries that fit in one reply to the kernel
          MaxChanges  \* bound: additions and removals during the listing

ASSUME ReadDirParameters ==
    /\ NNames \in Nat /\ MaxChanges \in Nat
    /\ PageSize \in Nat \ {0} /\ ReplySize \in Nat \ {0}

Entry == 1..NNames

VARIABLES entries, \* the entries on the server
          changes, \* changes since opendir
          grew, shrank,  \* whether an entry was added, removed since opendir
          start,   \* the entries at opendir
          pc,      \* "call" (the kernel may call), "page" (the client is listing), "reply",
                   \* "end" (all listed), "failed"
          offset,  \* the offset of the kernel's call
          cursor,  \* the cursor of the next ReadDir request
          all,     \* entries of the pages so far
          got      \* what the kernel has received

listVars == <<entries, changes, grew, shrank, start, pc, offset, cursor, all, got>>

ListInit ==
    /\ entries \in SUBSET Entry /\ start = entries
    /\ changes = 0 /\ grew = FALSE /\ shrank = FALSE
    /\ pc = "call" /\ offset = 0 /\ cursor = 0
    /\ all = <<>> /\ got = <<>>

Change(n) ==
    /\ changes < MaxChanges /\ changes' = changes + 1
    /\ IF n \in entries
       THEN entries' = entries \ {n} /\ shrank' = TRUE /\ UNCHANGED grew
       ELSE entries' = entries \cup {n} /\ grew' = TRUE /\ UNCHANGED shrank
    /\ UNCHANGED <<start, pc, offset, cursor, all, got>>

-----------------------------------------------------------------------------
\* The entries of the directory D among the first n names, in the order of the host.
Walk(D, n) ==
    LET walk[m \in 0..NNames] ==
            IF m = 0 THEN <<>> ELSE IF m \in D THEN Append(walk[m - 1], m) ELSE walk[m - 1]
    IN  walk[n]

\* handle_readdir: the entries from position c on, at most a page of them.
Page(c) ==
    LET order == Walk(entries, NNames)
        end == IF c + PageSize < Len(order) THEN c + PageSize ELSE Len(order)
    IN  SubSeq(order, c + 1, end)

\* Mutant of Eof: a full page is taken for the last one.
EofOfFullPage(page) == Len(page) <= PageSize

\* The server's eof: a page that is not full is the last one.
Eof(page) == Len(page) < PageSize

\* readdir() of the FUSE session, with the kernel's offset.
BeginCall ==
    /\ pc = "call" /\ pc' = "page"
    /\ cursor' = 0 /\ all' = <<>>
    /\ UNCHANGED <<entries, changes, grew, shrank, start, offset, got>>

\* Mutant of ReadPage: the cursor is not taken from the response.
ReadPageAgain ==
    LET page == Page(cursor) IN
    /\ pc = "page"
    /\ all' = IF Len(all) < NNames THEN all \o page ELSE all
    /\ pc' = IF Eof(page) THEN "reply" ELSE "page"
    /\ UNCHANGED <<entries, changes, grew, shrank, start, offset, cursor, got>>

\* One round of ConnManager::readdir.
ReadPage ==
    LET page == Page(cursor) IN
    /\ pc = "page"
    /\ all' = all \o page
    /\ cursor' = cursor + Len(page)
    /\ pc' = IF Eof(page) THEN "reply" ELSE "page"
    /\ UNCHANGED <<entries, changes, grew, shrank, start, offset, got>>

\* A page fails (an error status, no connection, the deadline): so does the call.
PageFails ==
    /\ pc = "page" /\ pc' = "failed"
    /\ all' = <<>> /\ cursor' = 0
    /\ UNCHANGED <<entries, changes, grew, shrank, start, offset, got>>

\* Mutant of NextOffset: the offset of an entry is its own position, not the next.
NextOffsetOwn(sent) == IF sent = <<>> THEN offset ELSE offset + Len(sent) - 1

\* The offset handed out with an entry is the position after it.
NextOffset(sent) == offset + Len(sent)

\* The entries from the offset on go into the reply until it is full; an empty
\* reply tells the kernel that the listing is over.
Reply ==
    LET end == IF offset + ReplySize < Len(all) THEN offset + ReplySize ELSE Len(all)
        sent == SubSeq(all, offset + 1, end)
    IN  /\ pc = "reply"
        /\ got' = got \o sent
        /\ offset' = NextOffset(sent)
        /\ pc' = IF sent = <<>> THEN "end" ELSE "call"
        /\ all' = <<>> /\ cursor' = 0
        /\ UNCHANGED <<entries, changes, grew, shrank, start>>

ListNext == (\E n \in Entry : Change(n)) \/ BeginCall \/ ReadPage \/ PageFails \/ Reply

ListSpec == ListInit /\ [][ListNext]_listVars

\* The FUSE thread goes on with a call it has begun: a page that is asked for is
\* answered, unless the request fails, which ends the call.
ListFairSpec == ListSpec /\ WF_listVars(ReadPage \/ Reply)

-----------------------------------------------------------------------------
(* A listing that runs to its end while entries are only added misses none of
   those that were there when it began, wherever the additions push the others
   across the pages and replies. *)
NothingMissed == pc = "end" /\ ~shrank => start \subseteq Range(got)

(* While entries are only removed, no entry is listed twice. *)
NothingTwice == ~grew => IsInjective(got)

(* The client's page loop ends once the directory stops changing, also when the
   number of entries is a multiple of the page size. *)
CallEnds == pc = "page" ~> pc # "page"
=============================================================================
