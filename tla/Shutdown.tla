------------------------------ MODULE Shutdown ------------------------------
(***************************************************************************)
(* The clean shutdown of a mount (client/src/mount.rs): on SIGTERM or      *)
(* SIGINT the main task flushes every handle with buffered data, one after *)
(* the other, before the session is dropped.  It is a third user of the    *)
(* write buffer and of the fh-remap, next to the FUSE thread, which goes   *)
(* on serving, and the background task.                                    *)
(*                                                                         *)
(* The process ends some time after the loop: the behaviours here contain  *)
(* the steps the others take until then, and more.                         *)
(***************************************************************************)
EXTENDS WriteBack

CONSTANT Main

ASSUME MainRole == Main \in Reopener \ {Fuse}

VARIABLES due,     \* writes accepted before the signal
          excused, \* handles whose flush failed, or was left to another actor
          sent,    \* history: O_APPEND writes that were in a batch to send
          resent,  \* those that were in a second one
          undercut \* O_APPEND handles dropped while another actor was sending them

mainVars == <<due, excused>>
allVars == <<vars, mainVars, sent, resent, undercut>>

ShutdownInit ==
    Init /\ due = {} /\ excused = {} /\ sent = {} /\ resent = {} /\ undercut = {}

\* The O_APPEND writes of the batches begin_flush gives out in this step.
AppendBatch ==
    {w \in DOMAIN owner :
        /\ owner[w] \in AppendFh
        /\ \E a \in Actor : at[a] = "fl_live" /\ at'[a] = "fl_send" /\ w \in left'[a]}
\* Their handles whose buffer is emptied in this step, and not by the ack of a
\* flush, under an actor that goes on sending it.
DroppedUnderSend ==
    {f \in AppendFh :
        /\ HasBuffered(f) /\ chunks'[f] = <<>>
        /\ ~\E a \in Actor : at[a] = "fl_send" /\ at'[a] = "fl_ok"
        /\ \E a \in Actor : tgt'[a] = f /\ at'[a] \in {"fl_send", "fl_rpc", "fl_fail"}}
History ==
    /\ sent' = sent \cup AppendBatch
    /\ resent' = resent \cup (sent \cap AppendBatch)
    /\ undercut' = undercut \cup DroppedUnderSend

\* Mutant of Signal: only handles whose window has expired are flushed.
SignalExpired ==
    /\ At(Main, "idle")
    /\ todo' = [todo EXCEPT ![Main] = Expired]
    /\ due' = DOMAIN owner
    /\ Move(Main, "next")
    /\ UNCHANGED <<rVars, bufVars, fuseVars, flushVars, tooOld, age, errVars, srvVars, owner,
                   excused>>

\* wait_for_shutdown returns Signal: the handles to flush are read once.
Signal ==
    /\ At(Main, "idle")
    /\ todo' = [todo EXCEPT ![Main] = {f \in Fh : HasBuffered(f)}]
    /\ due' = DOMAIN owner
    /\ Move(Main, "next")
    /\ UNCHANGED <<rVars, bufVars, fuseVars, flushVars, tooOld, age, errVars, srvVars, owner,
                   excused>>

\* flush_one: begin_flush gives nothing out while another actor sends the handle,
\* and flush_one then answers Ok.
MainFlush ==
    /\ SharedStep(Main)
    /\ excused' = IF /\ at[Main] = "fl_live" /\ at'[Main] = "fl_ok"
                     /\ HasBuffered(tgt[Main])
                  THEN excused \cup {tgt[Main]} ELSE excused
    /\ UNCHANGED due

\* An error is logged and the next handle tried.
MainFlushed ==
    /\ TaskFlushed(Main)
    /\ excused' = IF at[Main] = "fl_err" THEN excused \cup {tgt[Main]} ELSE excused
    /\ UNCHANGED due

MainStep ==
    \/ MainFlush \/ MainFlushed
    \/ TaskFlushNext(Main, "exit") /\ UNCHANGED mainVars

ShutdownNext == (Signal \/ MainStep \/ (Next /\ UNCHANGED mainVars)) /\ History

ShutdownSpec == ShutdownInit /\ [][ShutdownNext]_allVars

\* The main task is polled like the others.
ShutdownFairSpec == ShutdownSpec /\ Fairness /\ WF_allVars(MainStep /\ History)

-----------------------------------------------------------------------------
(* "data the app already wrote (and we acknowledged) is not lost on a clean
   shutdown": when the loop is over, every write accepted before the signal is in
   the file or known to be lost, unless its handle's flush failed, or found the
   handle being sent by another actor, whose send the end of the process cuts
   short, or the handle's O_APPEND buffer was once dropped under a send. *)
ShutdownDelivers ==
    at[Main] = "exit" =>
        \A w \in due :
            LET f == owner[w] IN
            \/ w \in committed \cup reported
            \/ f \in sticky \cup excused \cup undercut \/ Released(f)
            \/ \E a \in Actor : f \in owed[a]

(* "An O_APPEND handle must NEVER re-send" (flush_one): no append is in two batches,
   whichever of the three senders took it, failed, reopened the handle or retried,
   since the server may have applied the first in part.  There are two ways around
   it.  A buffer is dropped under a send: the late ack_flush of that send takes
   chunks of the refilled buffer for its own and clears the next sender's guard.
   Or release has removed the entry, not yet the buffer, when a send fails:
   is_append is then read as false and the chunks stay for the next sender. *)
AppendSentOnce == \A w \in resent : owner[w] \in undercut \/ Released(owner[w])

(* The shutdown comes to an end, whatever the network and the other actors do. *)
ShutdownEnds == at[Main] = "next" ~> at[Main] = "exit"
=============================================================================
