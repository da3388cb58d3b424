# QuicFS in TLA+

A model of QuicFS, the QUIC remote filesystem in `src/`: what its client and
server do when threads, tasks, connections and crashes interleave, checked with
TLC on small instances and, for the central properties, proved with TLAPS for
every instance. `PROJECT.json` holds the same inventory in a form for tools: each
definition with the source lines it translates, each run, each mutant.

## The system

The **client** (`client/src`) is a FUSE filesystem. One thread serves the kernel,
one operation at a time. A background task flushes buffered writes, and the main
task flushes what is left at unmount. They share:

| State | Where | Guarded by |
|---|---|---|
| connection, `reconnect_gen` | `conn.rs` | a mutex for one access at a time; an atomic |
| `open_files`: client handle to server handle, generation, path | `fuse_ops.rs` | a mutex |
| `write_buf`: unacknowledged chunks, `sending`, `total_bytes` | `writebuf.rs` | a mutex |
| `write_errors`: sticky errors | `fuse_ops.rs` | a mutex |
| inode table, metadata cache | `fuse_ops.rs`, `cache.rs` | only the FUSE thread |

No two of these locks are held together and none across an await, so whatever
happens between two lock sections is open to the other actors.

The **server** (`server/src`) has a session with a handle table for each
connection and a task for each request. Tasks share the host's filesystem, the
table of their session and a fixed array of stripe locks for writes. Every task
is dropped when `rpc_timeout` expires; it keeps the session, with its open files,
past the end of the connection. Connections take a global and a per-address slot,
and are served if their key was in `authorized_keys` when the server started.

**On disk** (`common/src`) both machines keep an identity, a certificate and a key
in two files, and a trust file: `known_hosts` with the pinned key of each server,
`authorized_keys` with the keys a server admits. Several processes load and
rewrite these files without a lock.

**Interactions that are hard to get right.** A reconnect by any caller makes all
server handles stale, while others use them. A write is acknowledged to the
application when it is buffered; a failure shows only at a later flush, fsync or
close. Requests given up by the client may still be applied. A server host may
crash with data in its page cache, and a process between writing two files that
belong together. Cached metadata and remembered paths outlive what they describe.

## Modules

| Module | Models | Uses |
|---|---|---|
| `ConnManager` | `ensure_conn`, `reconnect`, the generation counter | |
| `HandleRemap` | `ensure_live`, `register_open`: which server handle is taken for live | extends `ConnManager` |
| `HandleIds`, `HandleTable` | handle ids; the tables of sessions side by side | |
| `RemoteFiles` | an RPC from the client's handle to the file the server finds, while names change | extends `HandleRemap`, refines `HandleTable` |
| `WriteBuffer` | the operations of `writebuf.rs`, as actions on its variables | |
| `WriteBack` | the FUSE thread and the background task over buffer, remap and sticky errors | extends `WriteBuffer`, refines `HandleRemap` |
| `Shutdown` | the main task's flush at unmount, as a third actor | extends `WriteBack` |
| `Coalesce` | the bytes: order and merging of chunks, frames, the file, reads | |
| `FileServer` | `handle_write` tasks, stripe lock, timeout, lost connections | |
| `Namespace` | inode table and metadata cache against the server's tree | |
| `ReadDir` | a listing in pages and replies while the directory changes | |
| `Durability` | Create, Write, Fsync, Rename, Release over a host that crashes | |
| `TrustFile` | load, change and rewrite of a trust file by several processes | |
| `Identity` | loading or generating the two identity files | |
| `Trust` | mounts that pin a server's key and enforce it; the server's restarts | extends `Identity`, instantiates `TrustFile` |
| `Admission` | connection slots, the client key check, streams and sessions, a restart | instantiates `TrustFile` |
| `MC*` | values for constants, symmetries | |
| `*Proofs` | theorems: `WriteBackProofs`, `RemoteFilesProofs`, `FileServerProofs`, `AdmissionProofs`, `TrustProofs` of the module they name; `ClosingProofs` of `WriteBack` and `Shutdown`; `NamespaceProofs` of `Namespace` and `ReadDir`; `DataProofs` of `Durability` and `Coalesce` | |

### State and actions

*`ConnManager`, `HandleRemap`.* A connection is the number of its installation,
and stands for the server session and for the handles of that session. `pc[a]`
is the place of an actor in `ensure_live` or an RPC; each lock section, each read
of the counter and each await is a step. `DoConnect` and `BumpGen` are two steps
because the counter is advanced after the connection was installed.

*`HandleTable`.* Ids wrap at the size of the id space as `u64` does. Sessions draw
their epochs without replacement and live side by side: the server has not noticed
that an old connection is dead when the next one is established.

*`RemoteFiles`.* The client's side is `HandleRemap`; next to the session number it
holds the id (`eid` in `open_files`, `hid` in an actor's hands), and the table of
the session it is presented to decides what the id means (`Found`). An open or
reopen goes by path, and `Rename` changes what paths name. `moved` are the
handles whose path has been given another file.

*`WriteBack`.* `at[a]` is the place in the caller, next to `pc[a]`. `chunks` are
numbers of writes. Ghost variables record what the server has (`committed`) and
what the application was told (`owner`, `reported`, `reply`). `owed[a]` is the
window between a drop and the insertion of its sticky error. Time is the
background task's: each tick ages buffered writes by one window or more.
O_APPEND handles are `AppendFh`.

*`Shutdown`.* `Signal` reads the handles with buffered data once; for each the main
task takes the steps of `flush_one` that `WriteBack` has for any actor. `sent` and
`resent` record which appends have been in a batch, and in a second one; `undercut`
the O_APPEND handles whose buffer was dropped while another actor was sending it.

*`Coalesce`.* A byte is the number of the write it came from, so a wrong byte is
visible. A read is cut into chunks and frames as the server cuts it, and any
`read` of the host may be short. `WriteBack` leaves offsets out, `Coalesce` leaves
actors out.

*`FileServer`.* The stripe lock is its fair queue, given by the tasks `ahead` of
each one; a task that ends, whichever way, leaves the queue. A block of a file is
the number of the request that wrote it.

*`Namespace`.* The FUSE thread is the only one to use this state and awaits each
RPC, so an operation is one step: the server's effect, the cache entries dropped
and inserted, the inode numbers allocated. `ReplyLost` is the effect without the
rest, the connection being lost; `Unreported` is the same on a connection that
stays. A stat is an object and its version. `linked`, `moved` and `missed` remember
hard links, renamed directories and the entries that unreported effects made
untrue, for which the cache is known to be behind.

*`ReadDir`.* The host lists entries in an order given by their names. Cursor and
offset are counts. Reading one page is one step.

*`Durability`.* Each of directory and contents exists cached and on disk; the host
writes back at any time, directories in order. The application replaces a file by
writing a temporary one, fsync or close, and rename, the idiom the server's
comments name.

*`TrustFile`, `Identity`.* Opening a file for writing truncates it, so a save is two
steps, and an identity is made in four: generate and truncate the certificate,
fill it, create the key file, fill it. A process may die between any two. History
variables say when the files' only protection, that nobody else is at work, was
missing: `spoiled` (saves overlapped, or one was cut short) and `interfered` (a
generation overlapped another call, or died with the key file created and empty).

*`Trust`.* A mount goes through `ConnManager::connect`: load `known_hosts`,
establish, decide on first contact, save, hello; later it reconnects with the key
it remembers. The server's machine starts processes, some of which only print the
fingerprint, and its operator may replace the key.

*`Admission`.* The accept loop takes the permit, then the address slot; the
connection's task gives them back in the reverse order, in two steps. The server
reads `authorized_keys` when it starts; `authorize` commands rewrite it.

## What the runs show

Passing runs:

| Run | Properties | Shows |
|---|---|---|
| `RemoteFiles` | `NoStaleAsLive`, `RightFile`, `RightFileOrStale`, `TableSpec` | over a reconnect, lost opens, releases and a rename, an RPC finds the file its handle was opened on, or none; a reopened handle stamped with the current generation is live; the server side implements `HandleTable` |
| `WriteBackClose` | `PositionedWriteAccounted`, `SingleSender`, `CloseIsHonest`, `BufferBounded` | writes that meet all three limits, fsync, close, release, age-drops, one reconnect: each write is in the file, buffered, reported, or marked; after an Ok fsync or close none is merely buffered; no write is buffered twice, and the byte count is exact and bounded |
| `WriteBackOps` | `RemapSpec`, `OperationEnds`, `RetentionBounded` | fsync, read, stat and truncation, and late server writes; `WriteBack` implements `HandleRemap`; operations end; no write is buffered for ever |
| `Shutdown` | `ShutdownDelivers`, `AppendSentOnce`, `ShutdownEnds` | the flush at unmount next to the two other senders leaves no write accepted before the signal merely buffered; no sender puts an append in a second batch, unless its handle's buffer was dropped under a send or the handle released; the loop ends |
| `Coalesce` | `RunsAreTheChunks`, `FileIsLastWrite`, `ReadsBack` | a flush loses, moves and invents no byte; writes that do not cross, failed and sent again, leave the last write of every byte; a read in frames returns the bytes asked for up to the end of the file |
| `FileServer` | `NotTorn`, `AppendContiguous`, `AbandonedIsOver`, `WriteEnds` | multi-frame writes and appends are not torn; an abandoned write is over when its successor is acknowledged; a silent client does not block a stripe |
| `Namespace` | `CacheCoherent`, `InoResolves` | no stale cache entry, with four named exceptions, after success, failure, a failed create that made a file, a lost or a late reply; a path's number resolves to the path |
| `ReadDir` | `NothingMissed`, `NothingTwice`, `CallEnds` | additions make a listing miss nothing, removals make it repeat nothing; the page loop ends, sizes that are multiples of a page included |
| `DurabilityReplace` | `FsyncMeansDurable`, `CloseMeansDurable`, `ReplaceAtomic`, `ReplaceDurable` | an Ok fsync, or close with `sync_on_close`, has everything on disk; replacing a file is atomic, and durable with `sync_metadata` |
| `Admission` | `SlotsExact`, `PerIpCap`, `OnlyAuthorizedServed`, `StalledIsDropped`, `SessionFreed` | no slot leaks; the per-address cap holds; a served peer's key was authorized when the server started; a stalled handshake loses its slots; a session is freed after its last stream |
| `Trust` | `PinsKept`, `OnePinPerHost`, `IdentityReused`, `RestartKeepsPins`, `KeyNeverChanges` | a mount never moves to another key; pins stay and agree; an identity is generated once and a restart keeps every pin valid |

Every property has a mutant, a changed definition under which TLC finds it
violated. Types are part of the inductive invariants, below.

In `ReadYourWrites` TLC refutes a comment of `read()`: `flush_handle` answers Ok
while the background task is still sending the handle, and the read reaches the
server before the write does. `get_stat` and the truncation in `setattr` rely on
the same Ok, for caching a stat and for ordering the truncation after the writes.

The other places where the code does less than its comments and documents say are
stated as the limits of what holds:

- `CloseIsHonest` allows for the window between a drop and its sticky error
  (`mount.rs:125-127`, `fuse_ops.rs:354-355`): a close inside it answers Ok over a
  lost write, and the error waits for the next one.
- `PositionedWriteAccounted` is about positioned handles. The same formula for an
  O_APPEND handle fails: after a drop and a refill, the `ack_flush` of the older
  flush removes chunks that are not of its batch (`writebuf.rs:142`).
- `RetentionBounded` says that a write leaves the buffer, not that it reaches the
  file: the background task does not reopen handles (`mount.rs:148`), so the write
  of a handle left idle after a reconnect ends in an age-drop.
- `NoStaleAsLive` is about reopened handles; `register_open` (`fuse_ops.rs:446`) reads
  the generation after the open, and may stamp a dead handle as live. What this
  can do is bounded by `RightFileOrStale`: the id is unknown to the new session.
- `RightFileOrStale` excepts the handles in `moved`: a handle is reopened by the path
  remembered at open (`fuse_ops.rs:249`), which a rename does not update, and reaches
  whatever file has that name by then.
- `ShutdownDelivers` excepts handles whose flush failed, and handles that another
  actor was sending when the loop came to them (`fuse_ops.rs:327`): the loop takes
  them for done, and the end of the process cuts that send short.
- `AppendSentOnce` and `ShutdownDelivers` except the O_APPEND handles in `undercut`. A
  reopen drops the buffer of such a handle while another actor is still sending it
  (`fuse_ops.rs:262`); when that send is acknowledged, `ack_flush`
  (`writebuf.rs:142`) removes as many chunks from the refilled buffer and clears the guard of the flush
  that is sending them. A chunk can then be discarded unsent, or sent by two actors.
- `AppendSentOnce` and `ShutdownDelivers` also except released handles. Release removes
  the entry of `open_files` before it drops the buffer; a send that fails in between
  finds no entry, takes the handle for a positioned one (`fuse_ops.rs:352`) and
  leaves its chunks for the next sender.
- `FileIsLastWrite` fails with `Offset = {0, 1}`, `Length = {2}` and `NBytes = 3`: a batch is
  sent in offset order, also where its writes cross (`writebuf.rs:123`).
- `CacheCoherent` excepts the parent of a new symlink, the other names of a hard
  link, and what is below a renamed directory (`fuse_ops.rs:908`, `955`). It also
  excepts `missed`: a call that outlives the client's deadline (`conn.rs:36`), or a
  setattr that truncates and then fails on mode or times (`meta.rs:119`), takes
  effect, but the client drops cache entries only for an Ok answer or a new
  generation. Such an entry stays untrue until its TTL runs out or a later
  operation replaces it, and no other entry is affected.
- `RightFile` fails for `HandleTable` with the constants of `RemoteFiles` and `MaxOpens =
  6`: `max_handles` bounds the open handles of a session and not its opens, so the
  counter can reach the next epoch, after 2^32 opens (`handles.rs:74`).
- `FsyncMeansDurable` and `CloseMeansDurable` fail with `CrashAnywhere = TRUE`: fsync
  on a handle reopened after a host crash does not know of the writes the host lost.
- `CloseMeansDurable` is about live handles: a Release of a handle the session does
  not know answers Ok without a sync (`meta.rs:695`).
- `PinsKept`, `OnePinPerHost`, `KeysKept` and `OnlyAuthorizedServed` hold unless
  `spoiled`: a save rewrites the whole file from what was loaded before, and
  truncates it first (`trust.rs:125`).
  `IdentityReused` and `RestartKeepsPins` hold unless `interfered` (`identity.rs:54`, `76`).
- `InoResolves` goes from a path to its number and back; the other direction does
  not hold: `rename_ino` (`fuse_ops.rs:124`) can leave an old number naming a path
  that has another.

The ones that name constants can be seen with those values. Where the exception is
a disjunct or a hypothesis of the property, or the converse can be stated in the
same variables (`InoResolves`), TLC refutes the stronger property, on the instance of
the run except for O_APPEND handles, which need a larger one: two writes and
`"fsync"` in `Ops` for `PositionedWriteAccounted` and `ShutdownDelivers`, three writes and
`"read"` for `AppendSentOnce` (one write, `"flush"` and `"release"` for
its second exception). The run of
`Shutdown` is too small to need the exceptions of O_APPEND handles; with them the
properties are proved for every instance. For `RetentionBounded` and the Release of an unknown handle no check remains:
TLC refuted the stronger properties in an earlier form of these modules, which had
the ghost variables to state them.

### Bounds

Each bound is a constant, named and explained where it is declared. One handle
and two accepted writes are enough for the races of `WriteBack`, which are between
two actors on one buffer; the third write of `WriteBackClose` is always too large.
Each of these runs allows one reconnect; what is proved below does not depend on
these numbers. `DrainLimit = 2` stands for 500 rounds: more rounds are more chances
for the same race. `Shutdown` has two handles, since its loop is over handles, and
one write; two handles with two writes are out of TLC's reach, and the theorems of
`ClosingProofs` are what covers them.

`RemoteFiles` has two handles on two files, one reconnect and one rename, so that
ids of two sessions are held by two actors; two reconnects are out of reach.
`FileServer` has two frames per write and one stripe, the worst case for sharing;
the first session is the one that is lost (`Lossy`) or whose handle is released
(`Closing`), since the second write of the client moves from it to the other.
`Namespace` has two directories of one entry, enough for a rename across
directories, and onto a file or a directory, and four mutations, of which one goes
unanswered (`MaxUnanswered`); with lost replies unbounded and one late call it has
2.2 million states up to symmetry and the same result. No operation tells one
name in the root from another, and new inode numbers are given in any order, so
permuting those names is a symmetry. `ReadDir` has pages of two and replies of
three, so the two boundaries do not coincide. `Trust` has two mounts by two names,
three starts of processes and one key replacement; mounts, names and keys are
interchangeable. `Admission` has three attempts for two slots, two of them from
one address that may have one, and one restart.

`CHECK_DEADLOCK FALSE` is given where a bounded workload really ends.

### Fairness

`WriteBackOps`: the FUSE thread continues an operation it has begun, and the
runtime keeps polling the background task; every RPC ends by its deadline
(`conn.rs`, `deadline`). Nothing is assumed of the kernel, the server or the
network. `Shutdown`: the same, and the main task is polled. `FileServer`: the
runtime polls tasks and its timer fires; clients may fall silent. `Admission`: the
timers of handshake and transport fire, a task that has ended is dropped, and a
stream's task ends, by `rpc_timeout` at the latest; peers owe nothing. `ReadDir`: a
page asked for is answered, or the call fails, and the directory stops changing.

Most of these properties say that something is left again whenever it is entered,
which is `[]<>` of being outside it: an operation in progress (`OperationEnds`), the
buffer (`RetentionBounded`), the phases that hold a slot unserved
(`StalledIsDropped`), a session kept by its streams (`SessionFreed`). TLC checks
properties of this form on one graph, without a tableau for each attempt or RPC.

## What is proved

Every theorem is about the specification a run checks, for every value of its
constants that the named `ASSUME`s allow.

`RemoteFilesProofs`, first part: `TypeCorrect` and `ReopenNeverStaleAsLive`, for any
actors, handles and reconnects. `NoStaleAsLive` is not inductive. The strengthening
says that the generations still missing are shared out one to one among the actors
about to advance the counter (`Counted`), that a generation read before a reopen is
at most the session the reopen runs on (`ReadBefore`), and that what is stored was
read that way (`StampedBefore`). A stamp equal to the current generation then leaves
only the current connection.

`WriteBackProofs`: for any number of handles, writes, reconnects
and any limits, `ImplementsRemap` (every step is a step of `HandleRemap` or leaves
its variables alone), `WritesAccounted` and `OneSender`. The inductive invariant `WriteBackInv`
says of an open positioned handle what its sender knows: the first `cnt` chunks
of the buffer are its snapshot, each in the file or still to be sent, so that
removing `cnt` chunks on an acknowledgement removes only what is in the file. The
background task may drop the buffer under the FUSE thread's flush; then the
buffer stays empty, since only the FUSE thread could refill it. For O_APPEND
handles, which either actor may drop, there is no such invariant.

`BytesExact` is about `total_bytes`. `Bytes` sums the sizes of a set of chunks by a
recursive function over their numbers; that the sum of two disjoint sets is the sum
of their sums (`BytesUnion`) is proved by induction. Every step of the buffer pushes a new
chunk or takes out the first so many of one buffer (`BufferOp`), and the invariant is
`BufferBounded` itself with the types and the numbering of the writes. Its part
`ChunksDistinct` is needed: were a chunk in two places, the count would go wrong.

`ClosingProofs`, first part, `CloseHonest`: once a flush or fsync of a positioned handle has
answered Ok, each accepted write is in the file or was reported, or the handle has
or is about to get its sticky error. Each write being accounted for, it is enough
that none is merely buffered. `CloseInv` says so: the place of the FUSE thread
determines its operation, a buffer the drain loop found empty stays empty until the
answer and until the next operation, since only the FUSE thread refills it, and the
handle stays registered.

`ClosingProofs`, second part, `CleanShutdown`, `NoAppendTwice` and `BytesAtShutdown`, with the
main task as a third sender. Every step leaves a buffer alone, appends to it, removes a
sender's batch from its front or drops it (`NextFacts`). `ShutdownInv` takes over what
`WriteBackInv` says of a handle and adds where a third sender breaks it (`HandleSafe`): it
may go on with a positioned handle whose buffer was dropped under it, but then the
drop has settled what was accepted before the signal. While writes of a handle are
due, the main task has yet to flush it or is sending all that is due of it, unless
none is buffered or the handle is settled or excepted (`Followed`). Of an O_APPEND
handle, what was in a batch is buffered only while it is being sent, in front of the
rest (`NotSentTwice`).

`RemoteFilesProofs`, the handle tables: `StaleNeverWrong` and `TablesRightFile`, if no
session opens as many files as an epoch has ids (`MaxOpens < Radix`; with `MaxOpens = 6`
TLC refutes the property). The invariant is `Provenance`; the arithmetic is that ids
are pairs. Under the same assumption `ImplementsTables` (the fh-remap and the server
together take only steps of `HandleTable`) and `RightFileEndToEnd`, for any actors,
handles, paths and reconnects. The invariant `RInv` says that every id held in the
registry or by an actor was handed out for the file of its handle (`IdsHeld`), that a
path still names the file its handle was opened on unless it is in `moved`
(`NamesFile`), and where an actor is in an open or a reopen (`Control`).

`NamespaceProofs`: `NumbersResolve` and `CacheIsCoherent`, for any names and any number
of operations, failures, lost or late answers and reconnects, in directories of two
levels. For the inode table, a number in use is below `next`, so a new one cannot
take another path's. The cache needs facts about the server's tree (`ServerInv`):
entries are in directories, directories in the root (`Tree`), only a hard-linked file
has two names (`OneName`), and an object not yet made has version 0. From these each
call's lemma says which paths it changes (`Changes`): those whose entries the client
drops or replaces, and those that `CacheCoherent` excepts. That an exception outlives
later steps is not obvious for the directory a symbolic link was made in: the link
may be renamed or removed, but then the directory's own Stat changes (`EntryShows`),
and that call drops its entry.

In the same module `ListingComplete` and `ListingOnce`, for directories, pages and replies of
any size. The position of an entry in the host's order is the number of entries up to
it (`Rank`, by induction over the names). While entries are only added, ranks only
rise: an entry that was there from the start has been returned, is among those
read, or is still beyond the cursor and the offset (`MissesNone`). While they are only
removed, ranks only fall: what was read or returned has a rank no greater than the
place it was read from, so it is not met again (`MovesOn`).

`DataProofs`, first part: `ReplaceIsAtomic`, `ReplaceIsDurable`, `FsyncIsDurable` and
`CloseIsDurable`, if the host does not crash between a write and its fsync (with
`CrashAnywhere = TRUE` TLC refutes the last two properties). The invariant: a temporary file is younger
than every target, targets are complete in cache and on disk, and a temporary
file only the disk still has was renamed after its fsync.

`DataProofs`, second part, is about `Coalesce`. `FlushIsExact` holds of all writes: inserting
chunks one by one keeps them in offset order and, among equal offsets, in the order
of the writes (`SortedFacts`), and merging them one by one keeps their bytes, lengths
and order (`MergedFacts`, `MergedInOrder`). `LastWriteWins` and `ReadsAreExact` are for writes that do
not cross (`WritesDoNotCross`: none begins inside another, as when all are of whole pages),
the hypothesis without which TLC refutes `FileIsLastWrite`; there is none on how many they
are, how they are framed or how often a flush fails half-way. The invariant `BytesInv`
follows one byte: what the application wants there is the newest chunk that has it,
or, if none has, what the file has; and the newest sent chunk that has it is in the
last run still to be written that has it, or in the file. `ReadSoFar` says what a read
has collected.

`FileServerProofs`: `WritesAreNotTorn`, `AppendsAreContiguous` and
`AbandonedWritesAreOver`, for any requests, files, stripes and number of frames, from
`ServerParameters`. The order of the queue gives a stripe one holder at a time. What
the holder has written so far is still its own (`OwnPrefix`), or at the end of the
file (`OwnTail`), whatever the handlers that take no stripe do; every block comes
from a request for that file (`Origin`); so the last positioned write to finish owns
all that positioned writes left (`OneOwner`). A retry waits behind the request it
replaces (`InOrder`).

`AdmissionProofs`: `SlotsAreExact` and `CapHolds`, for any finite set of attempts, any
addresses and limits. They are inductive together with the types and the fact that
the attempt the accept loop is working on is an incoming one. `KeysAreKept` and
`OnlyTheAuthorized`, for any clients, keys, `authorize` commands and restarts: unless
`spoiled`, the file holds what was saved, except between the truncation and the
write of the one command that is saving, and a command that has loaded it and is
not out of date has what was saved (`FileInv`); whoever passed the handshake did so
on the keys the server has (`Admitted`). `KeysKept` is proved, and not among the
properties of the run.

`TrustProofs`: `PinsAreKept`, `MountsAgree`, `IdentityIsReused`, `RestartIsAccepted` and
the action property `KeyIsForLife`, for any mounts, names, keys, starts and deaths.
`TInv` has four parts. `IdInv`: unless `interfered`, a call that generates is alone,
and a key file that exists is complete and fits the certificate, unless it is being
written. `KnownInv`: the same argument as `FileInv`, for `known_hosts`. `MountOk`: at
each place of `connect` and `reconnect`, what the mount expects, and that it is what
was saved. `Pinned`: while the key is left alone, every key met, expected, pinned or
about to be pinned is the one on the server's disk.

Only model-checked: liveness (`OperationEnds`, `RetentionBounded`, `ShutdownEnds`, `WriteEnds`,
`CallEnds`, `StalledIsDropped`, `SessionFreed`), since the prover has no fairness. Every
invariant and action property that a passing run checks is a theorem.

On induction: the library's induction theorems have an operator as a parameter, which
the provers cannot instantiate. What `Sorted`, `Merged`, `Sum`, `Bytes` and `Walk` compute, all of
them recursive functions, is proved from the least element of a set of
counterexamples instead (`Least`, `UpTo`): the set is a parameter the provers can
instantiate.

## What is not modelled

Path confinement (`sanitize.rs`): that an operation stays beneath the root at the
moment it is carried out is the guarantee of the host's `openat2(RESOLVE_BENEATH)`,
and a model would assume what it should show. Frames, status codes and the mapping
of errors to errno have no state; the models tell apart the cases the callers do.
Configuration and the command line run before anything is concurrent.
`clear_stale_mount` and `wait_for_shutdown` call out to the host and keep nothing;
`ConnManager::close` is the end of the process. readlink and statfs only read.

Limits of what there is: one client in `Namespace` (the documents allow stale
metadata after another client's change); a page of a listing is read in one step;
in `AbandonedIsOver` the abandoned request's task has started before the next
request is sent (`overtaken` are those for which it had not, and without that
hypothesis TLC refutes the property); `FsyncIsDurable` and `CloseIsDurable` are under
their assumption; `AppendSentOnce` counts what the client sends, and what a second
send does to the file is not followed into `FileServer`; which writes a truncation
discards, and a stat cached over writes still in flight, have no property.

## Plan

Done, in this order: `ConnManager`, `HandleRemap`, `WriteBuffer`, `WriteBack` and
their proofs; `Coalesce`, `FileServer`, `HandleTable`, `Namespace`, `Durability`,
`Admission`, `ReadDir`; `RemoteFiles` and its proofs; `Shutdown`; `TrustFile`,
`Identity`, `Trust`; proofs for `Admission`, `FileServer`, `Trust` and `Namespace`, and of
`CloseIsHonest`; proofs for `Shutdown`, `ReadDir`, `Coalesce` and of the byte count.

Next:
1. an abstract file (one atomic write per call) that `FileServer` implements, and
   an abstract write-back cache for `WriteBack`;
2. the status and errno mapping as operators checked against a reference
   definition;
3. a second client in `Namespace`, with the TTL bounding what may be stale.
