------------------------------ MODULE TrustFile ------------------------------
(***************************************************************************)
(* The two trust files, known_hosts and authorized_keys (common/src/       *)
(* trust.rs).  A process loads the whole file into a map, adds one entry   *)
(* and writes the whole map back.  There is no lock, and writing truncates *)
(* the file first.                                                         *)
(***************************************************************************)
EXTENDS TLC

CONSTANTS Proc,   \* processes that load the file
          Name,   \* what an entry is filed under
          Value,  \* what it says
          None

VARIABLES disk,     \* the file; a missing file and an empty one load alike
          view,     \* view[p]: the map p holds
          cutting,  \* processes that truncated the file and have not written it

\* History: what was ever saved, whose view the file has left behind, and
\* whether two saves overlapped or one was cut short.
          kept, stale, spoiled

fileVars == <<disk, view, cutting, kept, stale, spoiled>>

Entries == [Name -> Value \cup {None}]
Blank == [n \in Name |-> None]

FileInit ==
    /\ disk = Blank /\ view = [p \in Proc |-> Blank]
    /\ cutting = {} /\ kept = Blank /\ stale = {} /\ spoiled = FALSE

\* a where it says something, b elsewhere.
Over(a, b) == [n \in Name |-> IF a[n] = None THEN b[n] ELSE a[n]]

\* load(): while another process saves, the file is found empty.
Load(p) ==
    /\ view' = [view EXCEPT ![p] = disk]
    /\ stale' = stale \ {p}
    /\ spoiled' = (spoiled \/ cutting # {})
    /\ UNCHANGED <<disk, cutting, kept>>

\* Mutant of Cut: only the new entry is written.
CutNewOnly(p, n, v) ==
    /\ view' = [view EXCEPT ![p] = n :> v @@ Blank]
    /\ disk' = Blank /\ cutting' = cutting \cup {p}
    /\ stale' = Proc \ {p}
    /\ spoiled' = (spoiled \/ p \in stale \/ cutting # {})
    /\ UNCHANGED kept

\* insert(), then save() up to the truncation of the file.
Cut(p, n, v) ==
    /\ view' = [view EXCEPT ![p][n] = v]
    /\ disk' = Blank /\ cutting' = cutting \cup {p}
    /\ stale' = Proc \ {p}
    /\ spoiled' = (spoiled \/ p \in stale \/ cutting # {})
    /\ UNCHANGED kept

\* The text is written from the start of the file; of a longer text that another
\* process wrote in the meantime, the end may stay.
Put(p) ==
    /\ p \in cutting /\ cutting' = cutting \ {p}
    /\ disk' \in {view[p], Over(view[p], disk)}
    /\ kept' = Over(view[p], kept)
    /\ UNCHANGED <<view, stale, spoiled>>

\* The process ends, by itself or not.
Die(p) ==
    /\ view' = [view EXCEPT ![p] = Blank]
    /\ cutting' = cutting \ {p}
    /\ spoiled' = (spoiled \/ p \in cutting)
    /\ UNCHANGED <<disk, kept, stale>>

-----------------------------------------------------------------------------
FileTypeOK ==
    /\ disk \in Entries /\ view \in [Proc -> Entries] /\ kept \in Entries
    /\ cutting \subseteq Proc /\ stale \subseteq Proc /\ spoiled \in BOOLEAN

(* Whoever saved it, an entry stays in the file, with its value, as long as no
   two load-to-save stretches overlapped and none was cut short between the
   truncation and the write. *)
EntriesKept == ~spoiled /\ cutting = {} => disk = kept
=============================================================================
