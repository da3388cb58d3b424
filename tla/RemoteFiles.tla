---------------------------- MODULE RemoteFiles ----------------------------
(***************************************************************************)
(* Client handles, sessions and files end to end: the fh-remap of the      *)
(* client (module HandleRemap) over the handle tables of the server        *)
(* (module HandleTable), while the names on the server change.             *)
(*                                                                         *)
(* HandleRemap represents a server handle by the session that issued it;   *)
(* here the client holds the id, and what the id means is decided by the   *)
(* table of the session it is presented to.                                *)
(***************************************************************************)
EXTENDS HandleRemap, HandleIds

CONSTANTS Path,
          PathOf,     \* PathOf[f]: the path client handle f was opened by
          FileAt,     \* FileAt[p]: the file path p names at first
          NoFh,
          MaxRenames  \* bound: changes of names on the server

ASSUME RemoteParameters ==
    /\ NoFh \notin Fh /\ PathOf \in [Fh -> Path]
    /\ FileAt \in [Path -> File]
    /\ MaxSession < NEpoch
    /\ MaxRenames \in Nat

VARIABLES past, live, opens, counter, table, given   \* the server's tables
T == INSTANCE HandleTable WITH issued <- given
tableVars == <<past, live, opens, counter, table, given>>

VARIABLES
    epochOf,   \* epochOf[s]: the epoch of session s
    names,     \* names[p]: the file the path names
    renames,   \* how often the names have changed
    eid,       \* eid[f]: server_handle of f's entry in open_files
    hid, hfh,  \* the id each actor holds, and the client handle it is for
    rel,       \* release() has removed the entry and not yet ended its RPC
    file,      \* file[f]: the file open() reached for f
    moved      \* handles whose path has been given another file since their open

nameVars == <<names, renames>>
holdVars == <<eid, hid, hfh, rel, file>>
remoteVars == <<vars, tableVars, epochOf, nameVars, holdVars, moved>>

\* The client handle FUSE's open() is about to get from next_client_fh.
Opening == CHOOSE f \in Fh \ issued : TRUE

\* a holds no id.
Dropped(a) ==
    /\ hid' = [hid EXCEPT ![a] = 0]
    /\ hfh' = [hfh EXCEPT ![a] = NoFh]

\* Only whether two epochs differ matters: let the first be 0.
RemoteInit ==
    /\ Init
    /\ T!Init
    /\ past = {0} /\ epochOf = [s \in Session |-> 0]
    /\ names = FileAt /\ renames = 0
    /\ rel = FALSE /\ moved = {}
    /\ eid = [f \in Fh |-> 0] /\ file = [f \in Fh |-> NoFile]
    /\ hid = [a \in Actor |-> 0] /\ hfh = [a \in Actor |-> NoFh]

-----------------------------------------------------------------------------
(* The client's steps that hand ids around.                                *)

\* What a's RPC finds under the id it presents.
Found(a) == table[epochOf[sess[a]]][hid[a]]

\* The FUSE thread is not in the middle of a release().
Free(a) == a = Fuse => ~rel

RemoteOpen ==
    /\ ~rel
    /\ Open
    /\ UNCHANGED <<tableVars, epochOf, nameVars, holdVars, moved>>

\* The handle the open or the reopen in a's RPC is for, and what it resolves to.
OpensFor(a) == IF call[a] = "open" THEN Opening ELSE afh[a]
Resolved(a) == names[PathOf[OpensFor(a)]]

\* The server's handle_open: the file is opened by path and entered in the
\* session's table.
ServerOpens(a) ==
    T!Insert(epochOf[sess[a]], Resolved(a))

\* The response arrives: the client holds the id.
RemoteOpened(a) ==
    /\ OpenRpcOk(a)
    /\ ServerOpens(a)
    /\ hid' = [hid EXCEPT ![a] = counter[epochOf[sess[a]]]]
    /\ hfh' = [hfh EXCEPT ![a] = OpensFor(a)]
    /\ IF call[a] = "open"
       THEN file' = [file EXCEPT ![Opening] = Resolved(a)] /\ moved' = moved \ {Opening}
       ELSE UNCHANGED <<file, moved>>
    /\ UNCHANGED <<epochOf, nameVars, eid, rel>>

\* The response is lost, or comes after the deadline.
RemoteOpenLost(a) ==
    /\ call[a] # "other" /\ RpcEnd(a)
    /\ ServerOpens(a)
    /\ UNCHANGED <<epochOf, nameVars, holdVars, moved>>

RemoteRegister(f) ==
    /\ RegisterOpen(f) /\ f = Opening
    /\ eid' = [eid EXCEPT ![f] = hid[Fuse]]
    /\ UNCHANGED <<tableVars, epochOf, nameVars, hid, hfh, rel, file, moved>>

RemoteStamp(a) ==
    /\ Stamp(a)
    /\ eid' = IF Registered(afh[a]) THEN [eid EXCEPT ![afh[a]] = hid[a]] ELSE eid
    /\ UNCHANGED <<tableVars, epochOf, nameVars, hid, hfh, rel, file, moved>>

RemoteReadEntry(a) ==
    /\ ReadEntry(a)
    /\ IF pc'[a] = "live"
       THEN hid' = [hid EXCEPT ![a] = eid[afh[a]]] /\ hfh' = [hfh EXCEPT ![a] = afh[a]]
       ELSE UNCHANGED <<hid, hfh>>
    /\ UNCHANGED <<tableVars, epochOf, nameVars, eid, rel, file, moved>>

\* release(): the entry goes, then its server handle is released.
RemoteRelease(f) ==
    /\ ~rel
    /\ Release(f)
    /\ rel' = TRUE
    /\ hid' = [hid EXCEPT ![Fuse] = eid[f]]
    /\ hfh' = [hfh EXCEPT ![Fuse] = f]
    /\ UNCHANGED <<tableVars, epochOf, nameVars, eid, file, moved>>

\* An RPC that is no open ends, applied by the server or not.  Of those only
\* handle_release changes the table.
RemoteRpcEnd(a) ==
    /\ RpcEnd(a)
    /\ \/ /\ call[a] = "other" /\ a = Fuse /\ rel
          /\ T!Remove(epochOf[sess[a]], hid[a])
       \/ UNCHANGED tableVars
    /\ rel' = (rel /\ a # Fuse)
    /\ Dropped(a)
    /\ UNCHANGED <<epochOf, nameVars, eid, file, moved>>

RemoteReturn(a) ==
    /\ Return(a)
    /\ rel' = (rel /\ a # Fuse)
    /\ Dropped(a)
    /\ UNCHANGED <<tableVars, epochOf, nameVars, eid, file, moved>>

\* The steps that neither hold nor pass an id.
RemoteOther(a) ==
    /\ \/ Free(a) /\ \E f \in Fh : EnsureLive(a, f)
       \/ (pc[a] = "live" \/ a = Fuse) /\ OtherRpc(a)
       \/ ReopenTail(a)
       \/ /\ UseLiveConn(a, "rpc") \/ FindConnClosed(a) \/ BumpGen(a, "rpc")
             \/ ReconnectDeadline(a, "none")
          /\ UNCHANGED remapVars
    /\ UNCHANGED <<tableVars, epochOf, nameVars, holdVars, moved>>

-----------------------------------------------------------------------------
(* Sessions and names.                                                     *)

\* Mutant of RemoteConnect: the new session counts on in the old one's epoch.
RemoteConnectSameEpoch(a) ==
    /\ DoConnect(a) /\ UNCHANGED remapVars
    /\ counter' = [counter EXCEPT ![epochOf[conn]] = Id(epochOf[conn], 1)]
    /\ table' = [table EXCEPT ![epochOf[conn]] = T!Empty]
    /\ epochOf' = [epochOf EXCEPT ![conn'] = epochOf[conn]]
    /\ UNCHANGED <<past, live, opens, given, nameVars, holdVars, moved>>

\* do_connect succeeds: the server starts a session with a fresh epoch.
RemoteConnect(a) ==
    /\ DoConnect(a) /\ UNCHANGED remapVars
    /\ \E e \in Epoch : T!NewSession(e) /\ epochOf' = [epochOf EXCEPT ![conn'] = e]
    /\ UNCHANGED <<nameVars, holdVars, moved>>

RemoteConnLost(s) ==
    /\ ConnLost(s) /\ UNCHANGED <<pc, remapVars>>
    /\ UNCHANGED <<tableVars, epochOf, nameVars, holdVars, moved>>

\* The server gives up the session of a lost connection.
RemoteSessionEnds(s) ==
    /\ s \in dead
    /\ T!EndSession(epochOf[s])
    /\ UNCHANGED <<vars, epochOf, nameVars, holdVars, moved>>

\* A rename over path p, by this client or another, gives it another file.  The
\* path stored in open_files does not follow.  Paths no open handle was opened
\* by do not matter.
Rename(p, g) ==
    /\ renames < MaxRenames
    /\ names[p] # g /\ \E f \in Fh : Registered(f) /\ PathOf[f] = p
    /\ names' = [names EXCEPT ![p] = g]
    /\ renames' = renames + 1
    /\ moved' = moved \cup {f \in Fh : PathOf[f] = p}
    /\ UNCHANGED <<vars, tableVars, epochOf, holdVars>>

RemoteNext ==
    \/ \E a \in Actor : \/ RemoteOpened(a) \/ RemoteOpenLost(a) \/ RemoteStamp(a)
                        \/ RemoteReadEntry(a) \/ RemoteRpcEnd(a) \/ RemoteReturn(a)
                        \/ RemoteOther(a) \/ RemoteConnect(a)
    \/ RemoteOpen
    \/ \E f \in Fh : RemoteRegister(f) \/ RemoteRelease(f)
    \/ \E s \in Session : RemoteConnLost(s) \/ RemoteSessionEnds(s)
    \/ \E p \in Path : \E g \in File : Rename(p, g)

RemoteSpec == RemoteInit /\ [][RemoteNext]_remoteVars

-----------------------------------------------------------------------------
(* The server's side of every step is a step of the handle tables. *)
TableSpec == T!Spec

(* An id never resolves to another file than the one it was issued for, in any
   session (HandleTable's promise, for the ids this client uses). *)
RightFile == T!RightFile

(* Whatever session an RPC runs on and however stale the id it presents, it
   finds the file the client handle was opened on, or no file at all, which the
   server answers with Stale.  Only a handle whose path was given another file
   can reach that one, because a reopen goes by path (ensure_live). *)
RightFileOrStale ==
    \A a \in Actor :
        pc[a] = "rpc" /\ call[a] = "other" /\ hfh[a] \in issued \ moved
            => Found(a) \in {NoFile, file[hfh[a]]}
=============================================================================
