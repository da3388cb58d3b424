---------------------------- MODULE ConnManager ----------------------------
(***************************************************************************)
(* The client's connection manager (client/src/conn.rs): one shared QUIC   *)
(* connection, re-established by whichever caller finds it closed, and a   *)
(* reconnect generation that is advanced after the new connection is       *)
(* installed.  Callers are the FUSE thread and tasks of the tokio runtime; *)
(* they share nothing but the mutex around `conn`, held for one access at  *)
(* a time, and the atomic counter, so every access is a step of its own.   *)
(*                                                                         *)
(* A connection is identified with the order in which it was installed:    *)
(* connect() installs connection 0, every do_connect() the next number.    *)
(* The server keeps one session per connection, so the number is also the  *)
(* identity of the server session.                                         *)
(***************************************************************************)
EXTENDS Integers, FiniteSets

CONSTANTS Actor,      \* threads and tasks that issue RPCs
          MaxSession  \* bound: the number of reconnects explored

ASSUME SessionBound == MaxSession \in Nat

VARIABLES pc,    \* where each actor is
          conn,  \* the connection in Inner.conn
          dead,  \* connections that have a close_reason
          gen,   \* Inner.reconnect_gen
          sess   \* the Connection each actor's current RPC runs on

connVars == <<conn, dead, gen, sess>>

Session == 0..MaxSession

\* The control states of ensure_conn and reconnect.
ConnPc == {"ensure_conn", "reconnect", "bump_gen"}

Goto(a, l) == pc' = [pc EXCEPT ![a] = l]

ConnInit ==
    /\ conn = 0
    /\ dead = {}
    /\ gen = 0
    /\ sess = [a \in Actor |-> 0]

\* ensure_conn with a live connection: live_conn() hands out a clone of it.
UseLiveConn(a, next) ==
    /\ pc[a] = "ensure_conn"
    /\ conn \notin dead
    /\ sess' = [sess EXCEPT ![a] = conn]
    /\ Goto(a, next)
    /\ UNCHANGED <<conn, dead, gen>>

\* ensure_conn with a closed connection: this caller enters reconnect().  The
\* mutex is released in between, so several callers may be in reconnect().
FindConnClosed(a) ==
    /\ pc[a] = "ensure_conn"
    /\ conn \in dead
    /\ Goto(a, "reconnect")
    /\ UNCHANGED connVars

\* A successful do_connect(): the new connection replaces whatever is there.
DoConnect(a) ==
    /\ pc[a] = "reconnect"
    /\ conn < MaxSession
    /\ conn' = conn + 1
    /\ sess' = [sess EXCEPT ![a] = conn + 1]
    /\ Goto(a, "bump_gen")
    /\ UNCHANGED <<dead, gen>>

\* The generation is advanced after the connection was installed.
BumpGen(a, next) ==
    /\ pc[a] = "bump_gen"
    /\ gen' = gen + 1
    /\ Goto(a, next)
    /\ UNCHANGED <<conn, dead, sess>>

\* Connect attempts fail until the caller's deadline() expires; the loop has no
\* other exit.  Between installing a connection and the fetch_add there is no
\* await, so the deadline cannot fall there.
ReconnectDeadline(a, next) ==
    /\ pc[a] = "reconnect"
    /\ Goto(a, next)
    /\ UNCHANGED connVars

\* The peer dies, the path is lost, the idle timeout fires, or the last clone
\* of a replaced connection is dropped: the connection gets a close_reason.
ConnLost(s) ==
    /\ s \in 0..conn
    /\ s \notin dead
    /\ dead' = dead \cup {s}
    /\ UNCHANGED <<conn, gen, sess>>

\* Actors that installed a connection whose generation is still to be counted.
Bumping == {a \in Actor : pc[a] = "bump_gen"}
=============================================================================
