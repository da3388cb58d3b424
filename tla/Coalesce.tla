------------------------------ MODULE Coalesce ------------------------------
(***************************************************************************)
(* The bytes of one positioned handle, there and back.  begin_flush orders *)
(* the buffered chunks by offset and merges contiguous ones into runs      *)
(* (client/src/writebuf.rs), ConnManager::write cuts each run into frames  *)
(* (client/src/conn.rs), and the server writes frame after frame at the    *)
(* frame's offset (server/src/ops/data.rs).  handle_read answers a read    *)
(* with frames of its own, which ConnManager::read puts together.          *)
(*                                                                         *)
(* A byte is represented by the number of the write it belongs to, 0 for a *)
(* byte never written.                                                     *)
(***************************************************************************)
EXTENDS Integers, Sequences, Functions

CONSTANTS NBytes,     \* bytes the writes reach
          Offset,     \* offsets of the application's writes
          Length,     \* their lengths
          FrameSize,  \* chunk_size of ConnManager::write
          MaxWrites,  \* bound: the number of writes explored
          ReadChunk,  \* CHUNK: bytes handle_read reads at once
          MaxRead,    \* MAX_READ_REQUEST
          ReadOffset, \* offsets of the application's reads
          ReadLength  \* their lengths

ASSUME CoalesceParameters ==
    /\ NBytes \in Nat /\ Offset \subseteq Nat /\ Length \subseteq Nat \ {0}
    /\ \A o \in Offset, l \in Length : o + l <= NBytes
    /\ FrameSize \in Nat \ {0} /\ MaxWrites \in Nat
    /\ ReadChunk \in Nat \ {0} /\ MaxRead \in Nat
    /\ ReadOffset \subseteq Nat /\ ReadLength \subseteq Nat \ {0}

VARIABLES chunks,  \* the unacknowledged chunks, oldest first
          cnt,     \* sent_count of the flush in flight, 0 if there is none
          runs,    \* what the server has not written yet of that flush
          file,    \* the bytes of the file on the server
          want,    \* the bytes the application has written
          pushed,  \* number of writes so far
          rd       \* the FUSE thread's last read: where, how far, what came back

dataVars == <<chunks, cnt, runs, file, want, pushed, rd>>

Byte == 0..(NBytes - 1)
Data(c) == [i \in 1..c.len |-> c.id]
Put(bytes, off, data) ==
    [b \in Byte |-> IF b \in off..(off + Len(data) - 1) THEN data[b - off + 1] ELSE bytes[b]]

\* One past the last byte written: nothing here makes a file shorter.
FileSize(bytes) ==
    CHOOSE n \in 0..NBytes : (n = 0 \/ bytes[n - 1] # 0) /\ \A b \in Byte : n <= b => bytes[b] = 0

NoRead == [st |-> "none", from |-> 0, len |-> 0, quiet |-> FALSE, off |-> 0, got |-> <<>>]

-----------------------------------------------------------------------------
\* Mutant of Insert: chunks of equal offset change places.
InsertUnstable(t, c) ==
    LET k == CHOOSE n \in 0..Len(t) : /\ \A i \in 1..n : t[i].off < c.off
                                      /\ \A i \in (n + 1)..Len(t) : c.off <= t[i].off
    IN  SubSeq(t, 1, k) \o <<c>> \o SubSeq(t, k + 1, Len(t))

\* sort_by_key(offset) is stable: a chunk comes after those of equal offset before it.
Insert(t, c) ==
    LET k == CHOOSE n \in 0..Len(t) : /\ \A i \in 1..n : t[i].off <= c.off
                                      /\ \A i \in (n + 1)..Len(t) : c.off < t[i].off
    IN  SubSeq(t, 1, k) \o <<c>> \o SubSeq(t, k + 1, Len(t))

Sorted(s) ==
    LET t[i \in 0..Len(s)] == IF i = 0 THEN <<>> ELSE Insert(t[i - 1], s[i])
    IN  t[Len(s)]

\* Mutant of Merge: an overlapping chunk is appended to the run as well.
MergeOverlapping(rs, c) ==
    LET n == Len(rs) IN
    IF n # 0 /\ rs[n].off + Len(rs[n].data) >= c.off
    THEN [rs EXCEPT ![n] = [off |-> rs[n].off, data |-> rs[n].data \o Data(c)]]
    ELSE Append(rs, [off |-> c.off, data |-> Data(c)])

\* The last run grows if it ends where the chunk begins.
Merge(rs, c) ==
    LET n == Len(rs) IN
    IF n # 0 /\ rs[n].off + Len(rs[n].data) = c.off
    THEN [rs EXCEPT ![n] = [off |-> rs[n].off, data |-> rs[n].data \o Data(c)]]
    ELSE Append(rs, [off |-> c.off, data |-> Data(c)])

Merged(t) ==
    LET rs[i \in 0..Len(t)] == IF i = 0 THEN <<>> ELSE Merge(rs[i - 1], t[i])
    IN  rs[Len(t)]

Runs(s) == Merged(Sorted(s))

\* The next frame of a run, FrameSize bytes or what there is, and what it leaves.
FrameLen(r) == IF FrameSize < Len(r.data) THEN FrameSize ELSE Len(r.data)
Frame(r) == SubSeq(r.data, 1, FrameLen(r))
Rest(r) == [off |-> r.off + FrameLen(r), data |-> SubSeq(r.data, FrameLen(r) + 1, Len(r.data))]

-----------------------------------------------------------------------------
DataInit ==
    /\ chunks = <<>> /\ cnt = 0 /\ runs = <<>> /\ pushed = 0
    /\ file = [b \in Byte |-> 0] /\ want = file
    /\ rd = NoRead

\* push: also while a flush is in flight.  The FUSE thread does one thing at a time.
Push(off, len) ==
    LET c == [off |-> off, len |-> len, id |-> pushed + 1] IN
    /\ pushed < MaxWrites /\ rd.st # "busy"
    /\ pushed' = pushed + 1 /\ rd' = NoRead
    /\ chunks' = Append(chunks, c)
    /\ want' = Put(want, off, Data(c))
    /\ UNCHANGED <<cnt, runs, file>>

BeginFlush ==
    /\ cnt = 0 /\ chunks # <<>>
    /\ cnt' = Len(chunks)
    /\ runs' = Runs(chunks)
    /\ UNCHANGED <<chunks, file, want, pushed, rd>>

\* handle_write, one frame: seek and write_all.
WriteFrame ==
    LET r == Head(runs) IN
    /\ runs # <<>>
    /\ file' = Put(file, r.off, Frame(r))
    /\ runs' = IF Rest(r).data = <<>> THEN Tail(runs) ELSE <<Rest(r)>> \o Tail(runs)
    /\ UNCHANGED <<chunks, cnt, want, pushed, rd>>

Ack ==
    /\ cnt # 0 /\ runs = <<>>
    /\ chunks' = SubSeq(chunks, cnt + 1, Len(chunks))
    /\ cnt' = 0
    /\ UNCHANGED <<runs, file, want, pushed, rd>>

\* The flush fails after some of its frames, or after all of them when only the
\* response is lost; the chunks stay, to be sent again.
Fail ==
    /\ cnt # 0
    /\ cnt' = 0 /\ runs' = <<>>
    /\ UNCHANGED <<chunks, file, want, pushed, rd>>

\* read: flush_handle has succeeded, because nothing is buffered or because the
\* background task is sending it.
BeginRead(off, len) ==
    /\ rd.st # "busy" /\ (chunks = <<>> \/ cnt # 0)
    /\ rd' = [st |-> "busy", from |-> off, len |-> len, quiet |-> chunks = <<>>,
              off |-> off, got |-> <<>>]
    /\ UNCHANGED <<chunks, cnt, runs, file, want, pushed>>

Lesser(m, n) == IF m < n THEN m ELSE n
AtLeast0(n) == IF n < 0 THEN 0 ELSE n
ReadAt(off, n) == [i \in 1..n |-> file[off + i - 1]]

\* Mutant of ReadFrame: the offset advances by what was asked for.
ReadFrameByRequest ==
    LET left == rd.len - Len(rd.got)
        ask == Lesser(left, ReadChunk)
        avail == Lesser(ask, AtLeast0(FileSize(file) - rd.off))
    IN  /\ rd.st = "busy" /\ rd.len <= MaxRead
        /\ \E n \in (IF avail = 0 THEN {0} ELSE 1..avail) :
             rd' = [rd EXCEPT !.got = @ \o ReadAt(rd.off, n), !.off = @ + ask,
                              !.st = IF n = 0 \/ left = n THEN "done" ELSE "busy"]
        /\ UNCHANGED <<chunks, cnt, runs, file, want, pushed>>

\* One turn of handle_read's loop and of ConnManager::read's: the file may give
\* less than was asked for, and nothing only at its end; the last frame says so.
ReadFrame ==
    LET left == rd.len - Len(rd.got)
        ask == Lesser(left, ReadChunk)
        avail == Lesser(ask, AtLeast0(FileSize(file) - rd.off))
    IN  /\ rd.st = "busy" /\ rd.len <= MaxRead
        /\ \E n \in (IF avail = 0 THEN {0} ELSE 1..avail) :
             rd' = [rd EXCEPT !.got = @ \o ReadAt(rd.off, n), !.off = @ + n,
                              !.st = IF n = 0 \/ left = n THEN "done" ELSE "busy"]
        /\ UNCHANGED <<chunks, cnt, runs, file, want, pushed>>

\* The request is too long, the handle is stale, or the connection is lost.
ReadFails ==
    /\ rd.st = "busy" /\ rd' = NoRead
    /\ UNCHANGED <<chunks, cnt, runs, file, want, pushed>>

DataNext == (\E o \in Offset, l \in Length : Push(o, l)) \/ BeginFlush \/ WriteFrame \/ Ack \/ Fail
        \/ (\E o \in ReadOffset, l \in ReadLength : BeginRead(o, l)) \/ ReadFrame \/ ReadFails

DataSpec == DataInit /\ [][DataNext]_dataVars

-----------------------------------------------------------------------------
Sum(f) ==
    LET upTo[i \in 0..Len(f)] == IF i = 0 THEN 0 ELSE upTo[i - 1] + f[i]
    IN  upTo[Len(f)]

(* Whatever the chunks, and however they overlap, begin_flush neither loses,
   moves nor invents a byte: the runs are in offset order and as long as the
   chunks together, every chunk lies whole in a run at its own offset, and no
   run ends where the next one begins. *)
RunsAreTheChunks ==
    LET rs == Runs(chunks) IN
    /\ Sum([j \in 1..Len(rs) |-> Len(rs[j].data)]) = Sum([i \in 1..Len(chunks) |-> chunks[i].len])
    /\ \A i \in DOMAIN chunks : \E j \in DOMAIN rs :
         LET from == chunks[i].off - rs[j].off IN
         /\ from >= 0 /\ from + chunks[i].len <= Len(rs[j].data)
         /\ SubSeq(rs[j].data, from + 1, from + chunks[i].len) = Data(chunks[i])
    /\ \A j \in 1..(Len(rs) - 1) :
         /\ rs[j].off <= rs[j + 1].off
         /\ rs[j].off + Len(rs[j].data) # rs[j + 1].off

(* Once everything is acknowledged the file holds, at every byte, the last
   write of that byte, however often a flush failed half-way and was sent again
   ("a re-send after a partial commit overwrites the same bytes"). *)
FileIsLastWrite == chunks = <<>> => file = want

(* A read that began with nothing buffered returns, byte for byte, what the
   application last wrote there, and less than was asked for only at the end of
   the file, however the writes were merged, cut and sent again and however the
   answer was cut. *)
ReadsBack ==
    rd.st = "done" /\ rd.quiet =>
        LET n == Lesser(rd.len, AtLeast0(FileSize(want) - rd.from))
        IN  rd.got = [i \in 1..n |-> want[rd.from + i - 1]]
=============================================================================
