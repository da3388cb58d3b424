----------------------------- MODULE Durability -----------------------------
(***************************************************************************)
(* What survives a crash of the server's host: the Create, Write, Fsync,   *)
(* Rename and Release handlers with the sync_metadata and sync_on_close    *)
(* options, under an application that replaces a file by the idiom the     *)
(* server's configuration names: write a temporary file, fsync, rename.    *)
(*                                                                         *)
(* The host keeps directory and file contents in its page cache and writes *)
(* them back when it likes, directory updates in order; a crash leaves     *)
(* what had been written back.  A process restart or a lost connection     *)
(* only takes the session, with its handles.  A file's content is the      *)
(* number of the application's writes it holds; it is complete at NWrites. *)
(* File 1 is the complete file first found at the target.                  *)
(***************************************************************************)
EXTENDS Integers

CONSTANTS SyncOnClose, SyncMetadata,  \* the [durability] options
          NWrites,                    \* writes of a complete file
          MaxFiles,                   \* bound: files made
          MaxBreaks,                  \* bound: lost connections and crashes
          CrashAnywhere               \* whether the host may crash between a write and its fsync

ASSUME DurabilityOptions ==
    SyncOnClose \in BOOLEAN /\ SyncMetadata \in BOOLEAN /\ CrashAnywhere \in BOOLEAN
ASSUME DurabilityParameters ==
    /\ NWrites \in Nat \ {0} /\ MaxFiles \in Nat \ {0} /\ MaxBreaks \in Nat

File == 1..MaxFiles

VARIABLES tmp, target,  \* the file of each name in the cached directory; 0 is none
          dtmp, dtarget,\* the same, in the directory on disk
          data, ddata,  \* contents of the files, in the cache and on disk
          used,         \* files made so far
          breaks,       \* lost connections and crashes so far
          app,          \* "idle", "writing", or "synced": fsync has answered Ok
          wrote,        \* writes acknowledged to the application since the create
          fh,           \* the file the client's handle was opened on; 0 if none is open
          live,         \* the session that issued the server handle is still up
          promised,     \* the file of the last rename that synced its directory
          closed        \* the file of the last close, if that synced it; 0 if not

dirVars == <<tmp, target, dtmp, dtarget>>
vars == <<dirVars, data, ddata, used, breaks, app, wrote, fh, live, promised, closed>>

Init ==
    /\ tmp = 0 /\ dtmp = 0 /\ target = 1 /\ dtarget = 1
    /\ data = [f \in File |-> IF f = 1 THEN NWrites ELSE 0] /\ ddata = data
    /\ used = 1 /\ breaks = 0
    /\ app = "idle" /\ wrote = 0 /\ fh = 0 /\ live = FALSE
    /\ promised = 0 /\ closed = 0

-----------------------------------------------------------------------------
(* The host. *)

WriteBackDir ==
    /\ dtmp' = tmp /\ dtarget' = target
    /\ UNCHANGED <<tmp, target, data, ddata, used, breaks, app, wrote, fh, live, promised, closed>>

WriteBackData(f) ==
    /\ ddata[f] # data[f] /\ ddata' = [ddata EXCEPT ![f] = data[f]]
    /\ UNCHANGED <<dirVars, data, used, breaks, app, wrote, fh, live, promised, closed>>

ConnLost ==
    /\ breaks < MaxBreaks /\ live
    /\ breaks' = breaks + 1 /\ live' = FALSE
    /\ UNCHANGED <<dirVars, data, ddata, used, app, wrote, fh, promised, closed>>

HostCrash ==
    /\ breaks < MaxBreaks /\ (CrashAnywhere \/ app # "writing")
    /\ breaks' = breaks + 1 /\ live' = FALSE
    /\ tmp' = dtmp /\ target' = dtarget /\ data' = ddata
    /\ UNCHANGED <<dtmp, dtarget, ddata, used, app, wrote, fh, promised, closed>>

-----------------------------------------------------------------------------
(* The handlers, as the application's calls reach them. *)

\* sync_parent_dir, best effort, of the directory whose entries are now n and t.
SyncParentDir(n, t) ==
    (dtmp' = n /\ dtarget' = t) \/ UNCHANGED <<dtmp, dtarget>>

\* Create with O_TRUNC of the temporary file: a new file, or an old one emptied.
Create ==
    LET new == tmp = 0
        f == IF new THEN used + 1 ELSE tmp
    IN  /\ app = "idle" /\ fh = 0 /\ f <= MaxFiles
        /\ used' = IF new THEN used + 1 ELSE used
        /\ tmp' = f /\ UNCHANGED target
        /\ data' = [data EXCEPT ![f] = 0]
        /\ IF SyncMetadata THEN SyncParentDir(f, target) ELSE UNCHANGED <<dtmp, dtarget>>
        /\ app' = "writing" /\ wrote' = 0 /\ fh' = f /\ live' = TRUE
        /\ closed' = 0
        /\ UNCHANGED <<ddata, breaks, promised>>

\* ensure_live: the handle is reopened by path on the new session; if there is
\* nothing to reopen, the call fails and the application gives up.
Reopen ==
    /\ fh # 0 /\ ~live
    /\ IF tmp # 0 THEN fh' = tmp /\ live' = TRUE /\ UNCHANGED app
       ELSE fh' = 0 /\ app' = "idle" /\ UNCHANGED live
    /\ UNCHANGED <<dirVars, data, ddata, used, breaks, wrote, promised, closed>>

\* A Write RPC is acknowledged: the bytes are in the page cache.  Writes are
\* positioned: what the file holds is its longest prefix of them.
Write ==
    /\ app = "writing" /\ fh # 0 /\ live /\ wrote < NWrites
    /\ data' = IF data[fh] = wrote THEN [data EXCEPT ![fh] = wrote + 1] ELSE data
    /\ wrote' = wrote + 1
    /\ UNCHANGED <<dirVars, ddata, used, breaks, app, fh, live, promised, closed>>

\* Mutant of Fsync: a handle the table does not have is answered Ok.
FsyncStaleOk ==
    /\ app = "writing" /\ fh # 0 /\ wrote = NWrites
    /\ ddata' = IF live THEN [ddata EXCEPT ![fh] = data[fh]] ELSE ddata
    /\ app' = "synced"
    /\ UNCHANGED <<dirVars, data, used, breaks, wrote, fh, live, promised, closed>>

\* fsync() after the last write: the retained file is synced, or the handle is
\* stale or the sync fails, and the application gives up.
Fsync ==
    /\ app = "writing" /\ fh # 0 /\ wrote = NWrites
    /\ \/ /\ live
          /\ ddata' = [ddata EXCEPT ![fh] = data[fh]]
          /\ app' = "synced"
       \/ app' = "idle" /\ UNCHANGED ddata
    /\ UNCHANGED <<dirVars, data, used, breaks, wrote, fh, live, promised, closed>>

\* Mutant of Rename: the directory is synced before the rename, not after it.
RenameSyncsFirst ==
    /\ app = "synced" /\ app' = "idle"
    /\ tmp # 0 /\ tmp' = 0 /\ target' = tmp
    /\ dtmp' = tmp /\ dtarget' = target
    /\ promised' = IF SyncMetadata THEN tmp ELSE promised
    /\ UNCHANGED <<data, ddata, used, breaks, wrote, fh, live, closed>>

\* handle_rename of the temporary file to the target.
Rename ==
    /\ app = "synced" /\ app' = "idle"
    /\ tmp # 0 /\ tmp' = 0 /\ target' = tmp
    /\ IF SyncMetadata THEN SyncParentDir(0, tmp) ELSE UNCHANGED <<dtmp, dtarget>>
    /\ promised' = IF SyncMetadata /\ dtarget' = tmp THEN tmp ELSE promised
    /\ UNCHANGED <<data, ddata, used, breaks, wrote, fh, live, closed>>

\* The rename fails, or there is nothing to rename after a crash.
RenameFails ==
    /\ app = "synced" /\ app' = "idle"
    /\ UNCHANGED <<dirVars, data, ddata, used, breaks, wrote, fh, live, promised, closed>>

\* Mutant of Release: the handle is gone before it is looked at.
ReleaseUnsynced ==
    /\ fh # 0 /\ fh' = 0 /\ live' = FALSE
    /\ closed' = IF SyncOnClose /\ live /\ app # "idle" THEN fh ELSE 0
    /\ app' = IF app = "synced" THEN app ELSE "idle"
    /\ UNCHANGED <<dirVars, data, ddata, used, breaks, wrote, promised>>

\* handle_release, at close: Ok for a handle the table does not have; otherwise
\* the file is synced if sync_on_close says so, which may fail.
Release ==
    /\ fh # 0 /\ fh' = 0 /\ live' = FALSE
    /\ \/ /\ ddata' = IF SyncOnClose /\ live THEN [ddata EXCEPT ![fh] = data[fh]] ELSE ddata
          /\ closed' = IF SyncOnClose /\ live /\ app # "idle" THEN fh ELSE 0
       \/ SyncOnClose /\ live /\ closed' = 0 /\ UNCHANGED ddata
    /\ app' = IF app = "synced" THEN app ELSE "idle"
    /\ UNCHANGED <<dirVars, data, used, breaks, wrote, promised>>

Next ==
    \/ WriteBackDir \/ ConnLost \/ HostCrash
    \/ \E f \in File : WriteBackData(f)
    \/ Create \/ Reopen \/ Write \/ Fsync \/ Rename \/ RenameFails \/ Release

Spec == Init /\ [][Next]_vars

-----------------------------------------------------------------------------
(* "acknowledged data is not silently lost: it either persists or
   close()/fsync() returns an error" (README): when fsync has answered Ok, all
   the application wrote is on disk. *)
FsyncMeansDurable == app = "synced" /\ fh # 0 => ddata[fh] = wrote

(* sync_on_close: when close() answers Ok on a handle the server still has, and no
   earlier call had failed, all the application wrote since the create is on
   disk and stays there, also if the connection was lost and the handle reopened
   in between. *)
CloseMeansDurable == closed # 0 => ddata[closed] = wrote

(* The replace idiom is atomic: whenever the host crashes, the target it finds
   on restart is a complete file, the old one or the new one. *)
ReplaceAtomic == ddata[dtarget] = NWrites

(* With sync_metadata, a rename whose directory sync went through is not undone
   by a crash, whatever the client and the application do afterwards. *)
ReplaceDurable == promised # 0 => dtarget >= promised
=============================================================================
