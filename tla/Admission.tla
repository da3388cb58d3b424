------------------------------ MODULE Admission ------------------------------
(***************************************************************************)
(* Admission of connections by the server (server/src/main.rs, lib.rs): a  *)
(* global slot and a per-address slot are reserved in the accept loop,     *)
(* moved into the connection's task, and given back when the task ends,    *)
(* whichever way it ends.  A peer may stall in any phase and may come      *)
(* back as often as it likes.                                              *)
(***************************************************************************)
EXTENDS Integers, FiniteSets

CONSTANTS Peer, None,  \* connection attempts that may exist at a time; no attempt
          Addr,        \* source addresses
          AddrOf,      \* AddrOf[c]: the address attempt c comes from
          MaxClients,  \* max_clients
          MaxPerIp,    \* max_conns_per_ip; 0 disables the limit
          ClientKey,
          KeyOf,       \* KeyOf[c]: the key attempt c presents
          AllowAny,    \* allow_any_client
          Server, Author, \* the server process; runs of `quicfs-server authorize`
          MaxStreams,  \* bound: streams a connection has at a time
          MaxRestarts  \* bound: restarts of the server

ASSUME AdmissionParameters ==
    /\ IsFiniteSet(Peer) /\ None \notin Peer /\ AddrOf \in [Peer -> Addr]
    /\ MaxClients \in Nat \ {0} /\ MaxPerIp \in Nat
    /\ KeyOf \in [Peer -> ClientKey] /\ AllowAny \in BOOLEAN /\ Server \notin Author
    /\ MaxStreams \in Nat /\ MaxRestarts \in Nat

VARIABLES phase,    \* phase[c]: "away", "incoming", or a phase of handle_connection
          accepting,\* the attempt the accept loop is working on, holding a permit
          permits,  \* available permits of conn_slots
          counts,   \* ip_counts; 0 where the map has no entry
          tasks     \* tasks[c]: stream tasks, each holding the session

slotVars == <<phase, accepting, permits, counts, tasks>>

VARIABLES disk, view, cutting, kept, stale, spoiled   \* authorized_keys
A == INSTANCE TrustFile WITH Proc <- Author \cup {Server}, Name <- ClientKey, Value <- {"yes"}
keyVars == <<disk, view, cutting, kept, stale, spoiled>>

VARIABLES cmd,       \* cmd[p]: "new", "loaded" or "done"
          due,       \* history: what had been authorized when the server started
          restarts

vars == <<slotVars, keyVars, cmd, due, restarts>>

Init ==
    /\ phase = [c \in Peer |-> "away"]
    /\ accepting = None
    /\ permits = MaxClients
    /\ counts = [a \in Addr |-> 0]
    /\ tasks = [c \in Peer |-> 0]
    /\ A!FileInit /\ cmd = [p \in Author |-> "new"] /\ due = A!Blank /\ restarts = 0

To(c, p) == phase' = [phase EXCEPT ![c] = p]
Unslotted == <<keyVars, cmd, due, restarts>>

Connect(c) ==
    /\ phase[c] = "away" /\ To(c, "incoming")
    /\ UNCHANGED <<accepting, permits, counts, tasks, Unslotted>>

-----------------------------------------------------------------------------
(* The accept loop. *)

\* accept() and try_acquire_owned().
TakePermit(c) ==
    /\ accepting = None /\ phase[c] = "incoming"
    /\ IF permits > 0
       THEN permits' = permits - 1 /\ accepting' = c /\ UNCHANGED phase
       ELSE To(c, "away") /\ UNCHANGED <<permits, accepting>>
    /\ UNCHANGED <<counts, tasks, Unslotted>>

\* Mutant of TakeIpSlot: a refused attempt keeps its permit.
TakeIpSlotLeaks(c) ==
    LET a == AddrOf[c] IN
    /\ accepting = c /\ accepting' = None
    /\ IF MaxPerIp # 0 /\ counts[a] >= MaxPerIp
       THEN To(c, "away") /\ UNCHANGED <<counts, permits>>
       ELSE To(c, "tls") /\ counts' = [counts EXCEPT ![a] = @ + 1] /\ UNCHANGED permits
    /\ UNCHANGED <<tasks, Unslotted>>

\* Mutant of TakeIpSlot: off by one.
TakeIpSlotOneMore(c) ==
    LET a == AddrOf[c] IN
    /\ accepting = c /\ accepting' = None
    /\ IF MaxPerIp # 0 /\ counts[a] > MaxPerIp
       THEN To(c, "away") /\ permits' = permits + 1 /\ UNCHANGED counts
       ELSE To(c, "tls") /\ counts' = [counts EXCEPT ![a] = @ + 1] /\ UNCHANGED permits
    /\ UNCHANGED <<tasks, Unslotted>>

\* IpSlot::try_acquire: refused, which drops the permit, or spawned.
TakeIpSlot(c) ==
    LET a == AddrOf[c] IN
    /\ accepting = c /\ accepting' = None
    /\ IF MaxPerIp # 0 /\ counts[a] >= MaxPerIp
       THEN To(c, "away") /\ permits' = permits + 1 /\ UNCHANGED counts
       ELSE To(c, "tls") /\ counts' = [counts EXCEPT ![a] = @ + 1] /\ UNCHANGED permits
    /\ UNCHANGED <<tasks, Unslotted>>

-----------------------------------------------------------------------------
(* The connection's task: handle_connection. *)

\* The keys the server loaded when it started.
Authorized == {k \in ClientKey : view[Server][k] # None}
connVars == <<accepting, permits, counts>>

\* Mutant of TlsDone: allow_any_client admits anyone, keys or no keys.
TlsDoneAny(c) ==
    /\ phase[c] = "tls" /\ To(c, "hello")
    /\ KeyOf[c] \in Authorized \/ AllowAny
    /\ UNCHANGED <<connVars, tasks, Unslotted>>

\* incoming.await completes: verify_client_cert accepted the key.
TlsDone(c) ==
    /\ phase[c] = "tls" /\ To(c, "hello")
    /\ KeyOf[c] \in Authorized \/ (Authorized = {} /\ AllowAny)
    /\ UNCHANGED <<connVars, tasks, Unslotted>>

\* It fails, the QUIC handshake being bounded by the transport's idle timeout.
TlsEnds(c) == phase[c] = "tls" /\ To(c, "ended") /\ UNCHANGED <<connVars, tasks, Unslotted>>

\* The app handshake succeeds; or is refused, fails, or HANDSHAKE_TIMEOUT expires.
Handshake(c) == phase[c] = "hello" /\ To(c, "serving") /\ UNCHANGED <<connVars, tasks, Unslotted>>

\* Mutant of HandshakeEnds: no timeout bounds the handshake.
HandshakeEndsNot(c) == FALSE /\ UNCHANGED vars

HandshakeEnds(c) ==
    phase[c] = "hello" /\ To(c, "ended") /\ UNCHANGED <<connVars, tasks, Unslotted>>

\* accept_bi: a task is spawned for the stream, with a reference to the session.
OpenStream(c) ==
    /\ phase[c] = "serving" /\ tasks[c] < MaxStreams
    /\ tasks' = [tasks EXCEPT ![c] = @ + 1]
    /\ UNCHANGED <<phase, connVars, Unslotted>>

\* Mutant of StreamEnds: a stream of a lost connection is waited for.
StreamEndsServed(c) ==
    /\ tasks[c] > 0
    /\ tasks' = IF phase[c] = "serving" THEN [tasks EXCEPT ![c] = @ - 1] ELSE tasks
    /\ UNCHANGED <<phase, connVars, Unslotted>>

\* dispatch_stream is done, or rpc_timeout expires.  The session goes with its
\* last reference.
StreamEnds(c) ==
    /\ tasks[c] > 0
    /\ tasks' = [tasks EXCEPT ![c] = @ - 1]
    /\ IF phase[c] = "retained" /\ tasks[c] = 1 THEN To(c, "away") ELSE UNCHANGED phase
    /\ UNCHANGED <<connVars, Unslotted>>

\* The stream loop ends: the peer closes, or the connection is lost.
Close(c) == phase[c] = "serving" /\ To(c, "ended") /\ UNCHANGED <<connVars, tasks, Unslotted>>

\* The task's locals are dropped in reverse order: the IpSlot, then the permit.
\* Stream tasks that still run keep the session, but no slot.
DropIpSlot(c) ==
    /\ phase[c] = "ended" /\ To(c, "dropping")
    /\ counts' = [counts EXCEPT ![AddrOf[c]] = IF @ > 0 THEN @ - 1 ELSE 0]
    /\ UNCHANGED <<accepting, permits, tasks, Unslotted>>

DropPermit(c) ==
    /\ phase[c] = "dropping" /\ To(c, IF tasks[c] = 0 THEN "away" ELSE "retained")
    /\ permits' = permits + 1
    /\ UNCHANGED <<accepting, counts, tasks, Unslotted>>

-----------------------------------------------------------------------------
(* authorized_keys. *)

\* cmd_authorize loads the file, then writes it back with the key.
AuthorizeLoad(p) ==
    /\ cmd[p] = "new" /\ cmd' = [cmd EXCEPT ![p] = "loaded"]
    /\ A!Load(p)
    /\ UNCHANGED <<slotVars, due, restarts>>

AuthorizeSave(p) ==
    /\ cmd[p] = "loaded"
    /\ \/ p \notin cutting /\ (\E k \in ClientKey : A!Cut(p, k, "yes")) /\ UNCHANGED cmd
       \/ A!Put(p) /\ cmd' = [cmd EXCEPT ![p] = "done"]
    /\ UNCHANGED <<slotVars, due, restarts>>

AuthorizeDies(p) ==
    /\ cmd[p] = "loaded" /\ cmd' = [cmd EXCEPT ![p] = "done"]
    /\ A!Die(p)
    /\ UNCHANGED <<slotVars, due, restarts>>

\* The server is restarted: it reads the file once, and has no connection.
Restart ==
    /\ restarts < MaxRestarts /\ restarts' = restarts + 1
    /\ phase' = [c \in Peer |-> "away"] /\ tasks' = [c \in Peer |-> 0]
    /\ accepting' = None /\ permits' = MaxClients /\ counts' = [a \in Addr |-> 0]
    /\ A!Load(Server)
    /\ due' = kept
    /\ UNCHANGED cmd

-----------------------------------------------------------------------------
\* What the accept loop, the connection's task and its timers do of themselves, one
\* thing at a time for an attempt.
TaskStep(c) ==
    TakeIpSlot(c) \/ TlsEnds(c) \/ HandshakeEnds(c) \/ DropIpSlot(c) \/ DropPermit(c)

Next ==
    \/ \E c \in Peer : \/ Connect(c) \/ TakePermit(c) \/ TaskStep(c) \/ TlsDone(c) \/ Handshake(c)
                       \/ OpenStream(c) \/ StreamEnds(c) \/ Close(c)
    \/ \E p \in Author : AuthorizeLoad(p) \/ AuthorizeSave(p) \/ AuthorizeDies(p)
    \/ Restart

Spec == Init /\ [][Next]_vars

\* The tasks are polled and the timers fire; peers owe nothing.
FairSpec == Spec /\ \A c \in Peer : WF_vars(TaskStep(c)) /\ WF_vars(StreamEnds(c))

-----------------------------------------------------------------------------
Phases == {"away", "incoming", "tls", "hello", "serving", "ended", "dropping", "retained"}
Counted == {"tls", "hello", "serving", "ended"}

(* Types; the semaphore never holds more permits than max_clients, and a session
   without a connection is one that stream tasks hold. *)
TypeOK ==
    /\ phase \in [Peer -> Phases] /\ accepting \in Peer \cup {None}
    /\ permits \in 0..MaxClients /\ counts \in [Addr -> Nat]
    /\ tasks \in [Peer -> 0..MaxStreams]
    /\ \A c \in Peer : phase[c] = "retained" => tasks[c] > 0

(* No slot leaks and none is given back twice, on any exit path: what is missing
   from the semaphore is exactly what live connections and the accept loop
   hold, and every address is charged for its connections, no more and no
   less. *)
SlotsExact ==
    /\ MaxClients - permits = Cardinality({c \in Peer : phase[c] \in Counted \cup {"dropping"}})
                              + (IF accepting = None THEN 0 ELSE 1)
    /\ \A a \in Addr : counts[a] = Cardinality({c \in Peer : phase[c] \in Counted /\ AddrOf[c] = a})

(* One address never has more than max_conns_per_ip connections, however its
   attempts, failures and disconnects interleave ("a burst from one IP cannot
   race past the limit"). *)
PerIpCap ==
    MaxPerIp # 0 => \A a \in Addr :
        Cardinality({c \in Peer : phase[c] \in Counted /\ AddrOf[c] = a}) <= MaxPerIp

(* A peer that stalls before or in the handshake does not keep its slots, nor does
   a connection that has ended: whoever holds a slot without being served is
   serving, or gone with the slot given back, sooner or later. *)
StalledIsDropped ==
    \A c \in Peer : []<>(accepting # c /\ phase[c] \notin {"tls", "hello", "ended", "dropping"})

(* A session that outlives its connection, and so its slots, because of streams
   still in work is freed with its handle table: what a client leaves behind
   does not add up over reconnects.  It stops being retained only by being freed. *)
SessionFreed == \A c \in Peer : []<>(phase[c] # "retained")

(* authorized_keys keeps every key, unless authorize commands overlapped, were
   cut short, or a load fell between truncation and write. *)
KeysKept == A!EntriesKept

(* Under the same proviso a client is served only if its key was authorized when
   the server started, or none was and allow_any_client is set: the first
   authorized key closes the server to the others. *)
OnlyAuthorizedServed ==
    ~spoiled => \A c \in Peer : phase[c] \in {"hello", "serving"} =>
        due[KeyOf[c]] # None \/ (AllowAny /\ due = A!Blank)
=============================================================================
