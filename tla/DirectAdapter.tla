---------------------------- MODULE DirectAdapter ---------------------------
(***************************************************************************)
(* DirectAdapter (adapters/direct.py): the asyncio task that connects to   *)
(* the relay's socket, reads lines and puts them on the emitter's queue.   *)
(*                                                                         *)
(* A step is what the task does between two suspension points.  How long a *)
(* retry waits is kept in backoff; time itself is not modelled.  A line    *)
(* cut off by the death of the relay is malformed JSON and is skipped, so  *)
(* it is left out of the wire.                                             *)
(***************************************************************************)
EXTENDS RelaySocket

CONSTANT BackoffMax  \* _BACKOFF_MAX in units of _BACKOFF_BASE

ASSUME AdapterAssumption == BackoffMax \in Nat \ {0}

VARIABLES task,      \* where the task is suspended
          stopSet,   \* _stop_event is set; stop() also cancels the task
          connected, \* _connected
          conn,      \* the connection the reader and the writer belong to
          backoff,   \* the delay of the next retry
          feed       \* the packets put on the emitter's queue

adapterVars == <<task, stopSet, connected, conn, backoff, feed>>

(***************************************************************************)
(* "none" no task yet, "connecting" in open_unix_connection(), "reading"   *)
(* in readline(), "closing" in wait_closed(), "waiting" for the next retry,*)
(* "ended".                                                                *)
(***************************************************************************)
Task == {"none", "connecting", "reading", "closing", "waiting", "ended"}

AdapterInit ==
  /\ task = "none"
  /\ stopSet = FALSE
  /\ connected = FALSE
  /\ conn = NoConn
  /\ backoff = 1
  /\ feed = <<>>

AdapterStart ==
  /\ task = "none"
  /\ task' = "connecting"
  /\ UNCHANGED <<socketVars, stopSet, connected, conn, backoff, feed>>

\* stop(): from now on the task finds only its cancellation.
AdapterStop ==
  /\ task # "none"
  /\ ~stopSet
  /\ stopSet' = TRUE
  /\ UNCHANGED <<socketVars, task, connected, conn, backoff, feed>>
-----------------------------------------------------------------------------
ConnectOk ==
  /\ task = "connecting"
  /\ ~stopSet
  /\ \E k \in Conn : OpenConnection(k) /\ conn' = k
  /\ task' = "reading"
  /\ connected' = TRUE
  /\ UNCHANGED <<stopSet, backoff, feed>>

\* Faulty variant of ConnectFails: without a file the task gives up.
ConnectGivesUp ==
  /\ task = "connecting"
  /\ ~stopSet
  /\ ~Connectable
  /\ task' = IF path = 0 THEN "ended" ELSE "waiting"
  /\ connected' = FALSE
  /\ UNCHANGED <<socketVars, stopSet, conn, backoff, feed>>

\* FileNotFoundError without a file, ConnectionRefusedError on a stale one.
ConnectFails ==
  /\ task = "connecting"
  /\ ~stopSet
  /\ ~Connectable
  /\ task' = "waiting"
  /\ connected' = FALSE
  /\ UNCHANGED <<socketVars, stopSet, conn, backoff, feed>>

\* Faulty variant of ReadBatch: of the lines of one read the last is handled.
ReadLastLine ==
  /\ task = "reading"
  /\ ~stopSet
  /\ \E n \in 1..Len(wire[conn]) :
       /\ ReadLines(conn, n)
       /\ feed' = Append(feed, wire[conn][n])
  /\ UNCHANGED <<task, stopSet, connected, conn, backoff>>

\* The lines that have arrived are handled one after another.
ReadBatch ==
  /\ task = "reading"
  /\ ~stopSet
  /\ \E n \in 1..Len(wire[conn]) :
       /\ ReadLines(conn, n)
       /\ feed' = feed \o SubSeq(wire[conn], 1, n)
  /\ UNCHANGED <<task, stopSet, connected, conn, backoff>>

\* Faulty variant of LeaveReading: no finally block closes the writer.
LeaveWithoutClose ==
  /\ task' = "closing"
  /\ connected' = FALSE
  /\ UNCHANGED <<socketVars, stopSet, conn, backoff, feed>>

\* The finally block of _connect_and_read.
LeaveReading ==
  /\ task' = "closing"
  /\ connected' = FALSE
  /\ ClosePeerEnd(conn)
  /\ UNCHANGED <<stopSet, conn, backoff, feed>>

\* readline() returns the empty string, or the connection was reset.
EndOfStream ==
  /\ task = "reading"
  /\ ~stopSet
  /\ AtEOF(conn)
  /\ LeaveReading

\* The writer is closed; _run goes on to wait for the retry.
WriterClosed ==
  /\ task = "closing"
  /\ ~stopSet
  /\ task' = "waiting"
  /\ connected' = FALSE
  /\ conn' = NoConn
  /\ UNCHANGED <<socketVars, stopSet, backoff, feed>>

\* The retry is due.  The delay is never reset, not even by a connection.
Retry ==
  /\ task = "waiting"
  /\ ~stopSet
  /\ task' = "connecting"
  /\ backoff' = IF 2 * backoff > BackoffMax THEN BackoffMax ELSE 2 * backoff
  /\ UNCHANGED <<socketVars, stopSet, connected, conn, feed>>

\* CancelledError while reading runs the finally block, which waits once
\* more for the writer to close.
CancelReading ==
  /\ stopSet
  /\ task = "reading"
  /\ LeaveReading

\* Faulty variant of CancelEnds: the cancellation counts as a lost
\* connection.
CancelRetries ==
  /\ stopSet
  /\ task \in {"connecting", "closing", "waiting"}
  /\ task' = "waiting"
  /\ connected' = FALSE
  /\ conn' = NoConn
  /\ UNCHANGED <<socketVars, stopSet, backoff, feed>>

\* CancelledError everywhere else ends the task: through the break in _run,
\* or, while it waits for the retry, by leaving _run with the exception.
CancelEnds ==
  /\ stopSet
  /\ task \in {"connecting", "closing", "waiting"}
  /\ task' = "ended"
  /\ connected' = FALSE
  /\ conn' = NoConn
  /\ UNCHANGED <<socketVars, stopSet, backoff, feed>>

Run ==
  \/ ConnectOk \/ ConnectFails \/ ReadBatch \/ EndOfStream \/ WriterClosed
  \/ Retry \/ CancelReading \/ CancelEnds

AdapterNext == AdapterStart \/ AdapterStop \/ Run
=============================================================================
