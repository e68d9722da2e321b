----------------------------- MODULE Connection -----------------------------
(***************************************************************************)
(* The one MySQL connection every query of the crawler goes through, as    *)
(* the driver's Protocol.js and Sequence.js implement it: a FIFO of        *)
(* sequences of which only the head is at the server.  A sequence leaves   *)
(* the queue when its callback runs, and whatever that callback enqueues   *)
(* goes behind everything already there.                                   *)
(*                                                                         *)
(* After a fatal error the driver ends every queued sequence with the      *)
(* error on the next tick, in order, and ends every later sequence the     *)
(* same way on the tick after it is refused.  Both are queue entries here: *)
(* once fatal holds, queue is the list of callbacks owed an error.         *)
(***************************************************************************)
EXTENDS Integers, Sequences

VARIABLES queue, fatal

conn == <<queue, fatal>>

\* connection.connect() and connection.end(), called without a callback.
Handshake == [op |-> "handshake"]
Quit == [op |-> "quit"]

HasErrorHandler(q) == q.op \notin {"handshake", "quit"}

\* What is left, and what a callback enqueues behind it.
Rest == Tail(queue)

Enqueue(q) == queue' = Append(queue, q) /\ UNCHANGED fatal

\* Callbacks owed an error run from process.nextTick, before any timer or I/O.
MayDispatch == ~(fatal /\ queue # <<>>)

\* The head can be answered by the server only while the connection lives.
Serving == ~fatal /\ queue # <<>>

\* _shouldErrorBubbleUp: nobody in the queue would hear of a fatal error.
Unheard == \A i \in DOMAIN queue : ~HasErrorHandler(queue[i])

\* The socket fails or the server closes it.
ConnectionLost == ~fatal /\ fatal' = TRUE /\ UNCHANGED queue

-----------------------------------------------------------------------------
(***************************************************************************)
(* The same as a specification of its own, which Protocol implements.      *)
(***************************************************************************)
Init == Len(queue) = 1 /\ Head(queue).op = "handshake" /\ fatal = FALSE

\* The program sends a sequence.
Ask == /\ Len(queue') = Len(queue) + 1 /\ SubSeq(queue', 1, Len(queue)) = queue
       /\ UNCHANGED fatal

\* The oldest callback runs; the error it is given may be the fatal one.
Call == queue # <<>> /\ queue' = Rest /\ fatal' \in {fatal, TRUE}

Next == Ask \/ Call \/ ConnectionLost

Spec == Init /\ [][Next]_conn
=============================================================================
