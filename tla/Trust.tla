-------------------------------- MODULE Trust --------------------------------
(***************************************************************************)
(* Trust on first use, end to end: mounts of one client machine pin the    *)
(* server's key in a shared known_hosts (module TrustFile) and enforce it  *)
(* at every reconnect; the server's key is its identity on disk (module    *)
(* Identity), which restarts of the server and `quicfs-server fingerprint` *)
(* load or generate.  Any process may die at any point.                    *)
(***************************************************************************)
EXTENDS Identity

CONSTANTS Mount,   \* mount processes of the client machine
          Host,    \* names, host:port, the server is reached by
          Server,  \* the process that serves; the others only print the fingerprint
          None,
          MaxStarts,    \* bound: starts of processes of the server's machine
          MaxRotations  \* bound: replacements of the server's key by its operator

ASSUME TrustParameters ==
    /\ Server \in IdProc /\ None \notin Key
    /\ MaxStarts \in Nat /\ MaxRotations \in Nat

VARIABLES disk, view, cutting, kept, stale, spoiled   \* known_hosts
K == INSTANCE TrustFile WITH Proc <- Mount, Name <- Host, Value <- Key
knownVars == <<disk, view, cutting, kept, stale, spoiled>>

VARIABLES
    at,        \* at[m]: where m is in ConnManager::connect or reconnect
    host,      \* host[m]: host_key
    expected,  \* expected[m]: expected_fp
    peer,      \* peer[m]: the key of the connection m established last
    mounted,   \* mounts whose connect() has returned
    starts, rotations

mountVars == <<at, host, expected, peer, mounted>>
vars == <<idVars, knownVars, mountVars, starts, rotations>>

MountAt == {"off", "establish", "decide", "save", "hello", "up"}

Init ==
    /\ IdInit /\ K!FileInit
    /\ at = [m \in Mount |-> "off"] /\ host = [m \in Mount |-> None]
    /\ expected = [m \in Mount |-> None] /\ peer = [m \in Mount |-> None]
    /\ mounted = {} /\ starts = 0 /\ rotations = 0

Goto(m, l) == at' = [at EXCEPT ![m] = l]

\* The key the server presents.  rustls refuses a certificate with another key,
\* or with none: such a server does not come up.
Serves(k) == stage[Server] = "done" /\ id[Server] = [crt |-> k, key |-> k]

-----------------------------------------------------------------------------
(* The server's machine. *)

ServerSide ==
    /\ \/ \E p \in IdProc : /\ IdStep(p)
                            /\ stage[p] = "start" => starts < MaxStarts
                            /\ starts' = IF stage[p] = "start" THEN starts + 1 ELSE starts
       \/ \E p \in IdProc : Stop(p) /\ UNCHANGED starts
    /\ UNCHANGED <<knownVars, mountVars, rotations>>

\* The operator removes the pair of the stopped server.
Rotate ==
    /\ rotations < MaxRotations /\ rotations' = rotations + 1
    /\ \A p \in IdProc : stage[p] = "start"
    /\ crt \in Key /\ key \in Key
    /\ crt' = Absent /\ key' = Absent
    /\ UNCHANGED <<stage, id, made, interfered, knownVars, mountVars, starts>>

-----------------------------------------------------------------------------
(* A mount. *)

\* Mutant of Start: the pin is not looked up.
StartUnpinned(m, h) ==
    /\ at[m] = "off" /\ Goto(m, "establish")
    /\ host' = [host EXCEPT ![m] = h]
    /\ K!Load(m)
    /\ UNCHANGED <<idVars, expected, peer, mounted, starts, rotations>>

\* connect(): known_hosts is loaded, the pin looked up.
Start(m, h) ==
    /\ at[m] = "off" /\ Goto(m, "establish")
    /\ host' = [host EXCEPT ![m] = h]
    /\ K!Load(m)
    /\ expected' = [expected EXCEPT ![m] = disk[h]]
    /\ UNCHANGED <<idVars, peer, mounted, starts, rotations>>

\* Mutant of Established: a reconnect does not look at the key.
EstablishedUnchecked(m, k) ==
    /\ at[m] = "establish" /\ Serves(k)
    /\ expected[m] \in {None, k} \/ m \in mounted
    /\ peer' = [peer EXCEPT ![m] = k]
    /\ Goto(m, IF m \notin mounted /\ expected[m] = None THEN "decide" ELSE "hello")
    /\ UNCHANGED <<idVars, knownVars, host, expected, mounted, starts, rotations>>

\* establish(): the verifier enforces expected_fp, or captures the key if there
\* is none.
Established(m, k) ==
    /\ at[m] = "establish" /\ Serves(k)
    /\ expected[m] \in {None, k}
    /\ peer' = [peer EXCEPT ![m] = k]
    /\ Goto(m, IF m \notin mounted /\ expected[m] = None THEN "decide" ELSE "hello")
    /\ UNCHANGED <<idVars, knownVars, host, expected, mounted, starts, rotations>>

\* decide_first_contact accepts the key: it is inserted, and saving begins.  (If
\* it is refused, connect() fails: Leave.)
Accept(m) ==
    /\ at[m] = "decide" /\ Goto(m, "save")
    /\ K!Cut(m, host[m], peer[m])
    /\ UNCHANGED <<idVars, host, expected, peer, mounted, starts, rotations>>

\* The file is written, and the key enforced from now on.
Saved(m) ==
    /\ at[m] = "save" /\ Goto(m, "hello")
    /\ K!Put(m)
    /\ expected' = [expected EXCEPT ![m] = peer[m]]
    /\ UNCHANGED <<idVars, host, peer, mounted, starts, rotations>>

\* app_handshake succeeds, and the connection is installed.
Handshake(m) ==
    /\ at[m] = "hello" /\ Goto(m, "up")
    /\ mounted' = mounted \cup {m}
    /\ UNCHANGED <<idVars, knownVars, host, expected, peer, starts, rotations>>

\* The connection is lost, or app_handshake fails in a reconnect: reconnect()
\* tries again.
Reconnect(m) ==
    /\ m \in mounted /\ at[m] \in {"up", "hello"} /\ Goto(m, "establish")
    /\ UNCHANGED <<idVars, knownVars, host, expected, peer, mounted, starts, rotations>>

\* connect() fails (no server, another key, the key not accepted, the handshake
\* refused), the file system is unmounted, or the process dies.
Leave(m) ==
    /\ at[m] # "off" /\ Goto(m, "off")
    /\ K!Die(m)
    /\ host' = [host EXCEPT ![m] = None] /\ peer' = [peer EXCEPT ![m] = None]
    /\ expected' = [expected EXCEPT ![m] = None]
    /\ mounted' = mounted \ {m}
    /\ UNCHANGED <<idVars, starts, rotations>>

MountSide ==
    \E m \in Mount :
        \/ \E h \in Host : Start(m, h)
        \/ \E k \in Key : Established(m, k)
        \/ Accept(m) \/ Saved(m) \/ Handshake(m) \/ Reconnect(m) \/ Leave(m)

Next == ServerSide \/ Rotate \/ MountSide
Spec == Init /\ [][Next]_vars

-----------------------------------------------------------------------------
(* Types, the trust file's and the identity's included. *)
TypeOK ==
    /\ IdTypeOK /\ K!FileTypeOK
    /\ at \in [Mount -> MountAt] /\ host \in [Mount -> Host \cup {None}]
    /\ expected \in [Mount -> Key \cup {None}] /\ peer \in [Mount -> Key \cup {None}]
    /\ mounted \subseteq Mount /\ starts \in 0..MaxStarts /\ rotations \in 0..MaxRotations

(* A mount never goes from one server key to another: the key pinned, or accepted
   at first contact, is the only one it reconnects to, whatever happens to
   known_hosts and to the server in the meantime. *)
KeyNeverChanges ==
    [][\A m \in mounted \cap mounted' : peer'[m] = peer[m] /\ peer[m] # None]_vars

(* known_hosts keeps every pin, unless saves overlapped or were cut short. *)
PinsKept == K!EntriesKept

(* Mounts of one host agree on its key, and it is the pinned one, under the same
   proviso: a host "refuses to connect if it ever changes". *)
OnePinPerHost == ~spoiled => \A m \in mounted : peer[m] = kept[host[m]]

(* "Keys are generated once and reused", on the server's machine. *)
IdentityReused == GeneratedOnce

(* A restarted server is accepted by every mount and every pin made before the
   restart, however the restart and the mounts interleave, as long as nobody
   replaced its key. *)
RestartKeepsPins ==
    ~interfered /\ rotations = 0 =>
        \A k \in Key : Serves(k) =>
            /\ \A m \in mounted : expected[m] = k
            /\ \A h \in Host : disk[h] \in {None, k}
=============================================================================
