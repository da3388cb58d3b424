---------------------------- MODULE HandleRemap ----------------------------
(***************************************************************************)
(* The fh-remap of the FUSE client (client/src/fuse_ops.rs): the kernel    *)
(* keeps one stable client handle per open file, and behind it the client  *)
(* swaps in a fresh server handle when the connection was re-established.  *)
(* Whether the stored server handle is still good is decided by comparing  *)
(* the generation it is stamped with to the current reconnect generation.  *)
(*                                                                         *)
(* A server handle is good only on the session that issued it (each        *)
(* session has its own handle table with its own epoch), so the server     *)
(* handle is represented by that session.                                  *)
(***************************************************************************)
EXTENDS ConnManager

CONSTANTS Fh,         \* client handles, each handed out once
          Fuse,       \* the FUSE thread
          Reopener    \* actors that call ensure_live with allow_reopen = true

ASSUME ActorRoles == /\ Reopener \subseteq Actor
                     /\ Fuse \in Reopener
ASSUME HasHandles == Fh # {}

VARIABLES openFiles,  \* open_files: client handle -> [sh, gen]; NoEntry if absent
          issued,     \* client handles taken from next_client_fh
          fromOpen,   \* handles whose server handle is the one open() returned
          cur,        \* ensure_live's `cur`, the generation read on entry
          afh,        \* the client handle each actor works on
          sh,         \* the server handle each actor holds
          call        \* the call each actor's RPC is part of

remapVars == <<openFiles, issued, fromOpen, cur, afh, sh, call>>
vars == <<pc, connVars, remapVars>>

NoEntry == [sh |-> -1, gen |-> -1]
Registered(f) == openFiles[f] # NoEntry
SomeFh == CHOOSE f \in Fh : TRUE

RemapInit ==
    /\ openFiles = [f \in Fh |-> NoEntry]
    /\ issued = {}
    /\ fromOpen = {}
    /\ cur = [a \in Actor |-> 0]
    /\ afh = [a \in Actor |-> SomeFh]
    /\ sh = [a \in Actor |-> 0]
    /\ call = [a \in Actor |-> "ensure_live"]

Init == ConnInit /\ RemapInit /\ pc = [a \in Actor |-> "idle"]

\* The call is over: its locals are dead, except the server handle it obtained.
Finish(a) ==
    /\ Goto(a, "idle")
    /\ sess' = [sess EXCEPT ![a] = 0]
    /\ cur' = [cur EXCEPT ![a] = 0]
    /\ afh' = [afh EXCEPT ![a] = SomeFh]
    /\ call' = [call EXCEPT ![a] = "ensure_live"]
    /\ UNCHANGED <<conn, dead, gen, openFiles, issued, fromOpen, sh>>

\* ensure_live, first line: the generation is read before anything else.  The
\* server handle the caller held before is dead.
EnsureLive(a, f) ==
    /\ pc[a] = "idle"
    /\ cur' = [cur EXCEPT ![a] = gen]
    /\ afh' = [afh EXCEPT ![a] = f]
    /\ sh' = [sh EXCEPT ![a] = 0]
    /\ call' = [call EXCEPT ![a] = "ensure_live"]
    /\ Goto(a, "entry")
    /\ UNCHANGED <<connVars, openFiles, issued, fromOpen>>

\* The entry, read under the open_files lock: no entry, a handle of this
\* generation, or a stale one, which only a Reopener goes on to reopen.
ReadEntry(a) ==
    LET e == openFiles[afh[a]] IN
    /\ pc[a] = "entry"
    /\ \/ /\ ~Registered(afh[a])
          /\ Goto(a, "none")
          /\ UNCHANGED sh
       \/ /\ Registered(afh[a])
          /\ e.gen = cur[a]
          /\ sh' = [sh EXCEPT ![a] = e.sh]
          /\ Goto(a, "live")
       \/ /\ Registered(afh[a])
          /\ e.gen # cur[a]
          /\ Goto(a, IF a \in Reopener THEN "ensure_conn" ELSE "none")
          /\ UNCHANGED sh
    /\ UNCHANGED <<connVars, openFiles, issued, fromOpen, cur, afh, call>>

\* FUSE open() and create(): the same RPC, before there is a client handle.
\* The bound on opens is the size of Fh.
Open ==
    /\ pc[Fuse] = "idle"
    /\ issued # Fh
    /\ sh' = [sh EXCEPT ![Fuse] = 0]
    /\ call' = [call EXCEPT ![Fuse] = "open"]
    /\ Goto(Fuse, "ensure_conn")
    /\ UNCHANGED <<connVars, openFiles, issued, fromOpen, cur, afh>>

\* Any other RPC: a read, write, fsync or release on the handle ensure_live
\* returned, or a metadata request.  It, too, reconnects when it has to.
OtherRpc(a) ==
    /\ pc[a] \in {"idle", "live"}
    /\ call' = [call EXCEPT ![a] = "other"]
    /\ cur' = [cur EXCEPT ![a] = 0]
    /\ Goto(a, "ensure_conn")
    /\ UNCHANGED <<connVars, openFiles, issued, fromOpen, afh, sh>>

\* ConnManager::open answers Ok: the server put the file in the handle table of
\* the session the RPC ran on.
OpenRpcOk(a) ==
    /\ pc[a] = "rpc"
    /\ call[a] # "other"
    /\ sess[a] \notin dead
    /\ sh' = [sh EXCEPT ![a] = sess[a]]
    /\ Goto(a, IF call[a] = "open" THEN "register" ELSE "stamp")
    /\ UNCHANGED <<connVars, openFiles, issued, fromOpen, cur, afh, call>>

\* The RPC fails (error status, closed connection, deadline), or is none that
\* yields a handle.
RpcEnd(a) ==
    /\ pc[a] = "rpc"
    /\ IF call[a] = "other"
       THEN Finish(a)
       ELSE Goto(a, "none") /\ UNCHANGED <<connVars, remapVars>>

\* Mutant of Stamp: the entry gets the new generation and keeps the old handle.
StampKeepsHandle(a) ==
    /\ pc[a] = "stamp"
    /\ IF Registered(afh[a])
       THEN /\ openFiles' = [openFiles EXCEPT ![afh[a]].gen = cur[a]]
            /\ fromOpen' = fromOpen \ {afh[a]}
       ELSE UNCHANGED <<openFiles, fromOpen>>
    /\ Goto(a, "reopened")
    /\ UNCHANGED <<connVars, issued, cur, afh, sh, call>>

\* The reopened handle is stored with the generation read BEFORE the reopen,
\* unless the entry has been removed in the meantime.
Stamp(a) ==
    /\ pc[a] = "stamp"
    /\ IF Registered(afh[a])
       THEN /\ openFiles' = [openFiles EXCEPT ![afh[a]] = [sh |-> sh[a], gen |-> cur[a]]]
            /\ fromOpen' = fromOpen \ {afh[a]}
       ELSE UNCHANGED <<openFiles, fromOpen>>
    /\ Goto(a, "reopened")
    /\ UNCHANGED <<connVars, issued, cur, afh, sh, call>>

\* The rest of ensure_live after a reopen: what becomes of an O_APPEND handle's
\* buffer is the concern of module WriteBack.
ReopenTail(a) ==
    /\ pc[a] = "reopened"
    /\ Goto(a, "live")
    /\ UNCHANGED <<connVars, remapVars>>

\* register_open(): a new client handle, whose entry is stamped with a
\* generation read AFTER the open.
RegisterOpen(f) ==
    /\ pc[Fuse] = "register"
    /\ f \notin issued
    /\ issued' = issued \cup {f}
    /\ openFiles' = [openFiles EXCEPT ![f] = [sh |-> sh[Fuse], gen |-> gen]]
    /\ fromOpen' = fromOpen \cup {f}
    /\ Goto(Fuse, "live")
    /\ UNCHANGED <<connVars, cur, afh, sh, call>>

\* The caller uses the result; what it does with it is another module's matter.
Return(a) ==
    /\ pc[a] \in {"live", "none"}
    /\ Finish(a)

\* release() takes the entry out of open_files.
Release(f) ==
    /\ pc[Fuse] = "idle"
    /\ Registered(f)
    /\ openFiles' = [openFiles EXCEPT ![f] = NoEntry]
    /\ fromOpen' = fromOpen \ {f}
    /\ UNCHANGED <<pc, connVars, issued, cur, afh, sh, call>>

ConnStep(a) ==
    /\ \/ UseLiveConn(a, "rpc")
       \/ FindConnClosed(a)
       \/ DoConnect(a)
       \/ BumpGen(a, "rpc")
       \/ ReconnectDeadline(a, "none")
    /\ UNCHANGED remapVars

ActorStep(a) ==
    \/ \E f \in Fh : EnsureLive(a, f)
    \/ ReadEntry(a)
    \/ OpenRpcOk(a)
    \/ OtherRpc(a)
    \/ RpcEnd(a)
    \/ Stamp(a)
    \/ ReopenTail(a)
    \/ Return(a)
    \/ ConnStep(a)

Next ==
    \/ \E a \in Actor : ActorStep(a)
    \/ Open
    \/ \E f \in Fh : RegisterOpen(f) \/ Release(f)
    \/ \E s \in Session : ConnLost(s) /\ UNCHANGED <<pc, remapVars>>

Spec == Init /\ [][Next]_vars

-----------------------------------------------------------------------------
PcStates == {"idle", "entry", "rpc", "stamp", "reopened", "register", "live", "none"} \cup ConnPc

(* Types: a live actor holds a real server handle, never that of an absent entry. *)
TypeOK ==
    /\ pc \in [Actor -> PcStates]
    /\ conn \in Nat /\ gen \in Nat /\ dead \subseteq Nat
    /\ sess \in [Actor -> Nat]
    /\ openFiles \in [Fh -> [sh : Nat, gen : Nat] \cup {NoEntry}]
    /\ issued \subseteq Fh /\ fromOpen \subseteq Fh
    /\ cur \in [Actor -> Nat] /\ sh \in [Actor -> Nat]
    /\ afh \in [Actor -> Fh]
    /\ call \in [Actor -> {"ensure_live", "open", "other"}]

(* Once every installed connection has been counted, a reopened handle that
   carries the current generation belongs to the current connection: stamping
   the generation read before the reopen can cost an extra reopen, but never
   passes a dead session's handle off as live (ensure_live, lines 251-256). *)
NoStaleAsLive ==
    \A f \in Fh \ fromOpen :
        Registered(f) /\ openFiles[f].gen = gen /\ Bumping = {}
            => openFiles[f].sh = conn
=============================================================================
