------------------------------ MODULE Protocol ------------------------------
(***************************************************************************)
(* The MySQL driver's Protocol.js and Sequence.js as the repository's      *)
(* programs use them: connect() and end() without a callback, query() with *)
(* one, from the event loop or from another query's callback, and nothing  *)
(* after end() (Database.tla checks that of the one script that calls it). *)
(*                                                                         *)
(* A step is a stretch of JavaScript between two calls of the program's    *)
(* own code.  Ending a sequence is therefore two: the error event and the  *)
(* callback, in which the program may send more queries, and then the end  *)
(* event, in which the driver takes the sequence off its queue.            *)
(*                                                                         *)
(* TLS, ping, changeUser, statistics, pause and destroy are left out; so   *)
(* is a server that does not speak the protocol.                           *)
(***************************************************************************)
EXTENDS Integers, Sequences, FiniteSets

CONSTANTS Queries         \* the queries the program will send

ASSUME ProtocolAssumption == Queries \cap {"handshake", "quit"} = {}

VARIABLES
  queue,                  \* _queue
  fatalError,             \* _fatalError is set
  protocolEnded,          \* _ended of the protocol
  ticks,                  \* process.nextTick: what runs before the event loop
  flush,                  \* the index queue.forEach has reached, 0 when not in it
  running,                \* the sequences whose callback runs: one or none
  died,                   \* an error event had no listener
  started,                \* sequences whose first packet has been written
  asked, called           \* every sequence sent, and every one ended, in order

vars == <<queue, fatalError, protocolEnded, ticks, flush, running, died, started,
          asked, called>>

Sequence == Queries \cup {"handshake", "quit"}

HasErrorHandler(s) == s \in Queries

\* A tick flushes the queue or ends the one sequence that was refused.
Flush == [what |-> "flush"]
Refuse(s) == [what |-> "refuse", sequence |-> s]
Tick == {Flush} \cup {Refuse(s) : s \in Sequence}

None == {}

Ended == {called[i] : i \in DOMAIN called}
Asked == {asked[i] : i \in DOMAIN asked}
Queued == {queue[i] : i \in DOMAIN queue}

TypeOK ==
  /\ queue \in Seq(Sequence) /\ asked \in Seq(Sequence) /\ called \in Seq(Sequence)
  /\ ticks \in Seq(Tick)
  /\ flush \in 0 .. Len(queue) + 1
  /\ running = None \/ \E s \in Sequence : running = {s}
  /\ started \in SUBSET Sequence
  /\ fatalError \in BOOLEAN /\ protocolEnded \in BOOLEAN /\ died \in BOOLEAN

\* connection.connect()
Init ==
  /\ queue = <<"handshake">> /\ asked = <<"handshake">> /\ called = <<>>
  /\ started = {"handshake"}
  /\ fatalError = FALSE /\ protocolEnded = FALSE /\ died = FALSE
  /\ ticks = <<>> /\ flush = 0 /\ running = None

-----------------------------------------------------------------------------
(***************************************************************************)
(* Mutants                                                                 *)
(***************************************************************************)
\* The queue advances although the connection is dead.
_dequeueDead ==
  /\ queue' = Tail(queue)
  /\ started' = started \cup {queue'[i] : i \in DOMAIN queue' \cap {1}}

\* A sequence is started when it is enqueued behind the one being ended.
_enqueueEager(s) ==
  /\ queue' = Append(queue, s)
  /\ started' = IF Len(queue) <= 1 THEN started \cup {s} ELSE started
  /\ UNCHANGED ticks

\* Only sequences that have been started are told of the fatal error.
_shouldErrorBubbleUpHead(Q) == ~(Q # <<>> /\ HasErrorHandler(Head(Q)))

\* The deferred flush is forgotten when the head has heard of the error.
_delegateErrorOnce ==
  /\ fatalError' = TRUE
  /\ IF \A i \in DOMAIN queue : ~HasErrorHandler(queue[i])
     THEN died' = TRUE /\ UNCHANGED ticks
     ELSE UNCHANGED <<ticks, died>>

-----------------------------------------------------------------------------
(***************************************************************************)
(* What the handlers do                                                    *)
(***************************************************************************)
\* The program's own code runs in a callback, or when the event loop is free.
Idle == ~died /\ running = None /\ ticks = <<>> /\ flush = 0
MayCall == ~died /\ (Idle \/ \E s \in Queries : running = {s})

\* Lines 134-189: a sequence that finds the queue empty starts at once; after a
\* fatal error it is refused and ended on the next tick (lines 198-229).
_enqueue(s) ==
  /\ queue' = Append(queue, s)
  /\ started' = IF Len(queue') = 1 THEN started \cup {s} ELSE started
  /\ UNCHANGED ticks

_refuse(s) ==
  /\ ticks' = Append(ticks, Refuse(s))
  /\ UNCHANGED <<queue, started>>

\* Lines 325-344
_dequeue ==
  IF fatalError THEN UNCHANGED <<queue, started>>
  ELSE /\ queue' = Tail(queue)
       /\ started' = started \cup {queue'[i] : i \in DOMAIN queue' \cap {1}}

\* Lines 411-427 for a fatal error: nobody in the queue would hear of it.
_shouldErrorBubbleUp(Q) == \A i \in DOMAIN Q : ~HasErrorHandler(Q[i])

\* Lines 379-409 for the first fatal error.
_delegateError ==
  /\ fatalError' = TRUE
  /\ IF _shouldErrorBubbleUp(queue)
     THEN died' = TRUE /\ UNCHANGED ticks
     ELSE ticks' = Append(ticks, Flush) /\ UNCHANGED died

\* Sequence.js lines 60-88, up to the callback.
End(s) == called' = Append(called, s) /\ running' = {s}

-----------------------------------------------------------------------------
(***************************************************************************)
(* The program                                                             *)
(***************************************************************************)
\* query() and end(), of which the latter comes last.
Ask(s) ==
  /\ MayCall
  /\ s \in (Queries \cup {"quit"}) \ Asked /\ "quit" \notin Asked
  /\ asked' = Append(asked, s)
  /\ IF fatalError THEN _refuse(s) ELSE _enqueue(s)
  /\ UNCHANGED <<fatalError, protocolEnded, flush, running, died, called>>

\* The callback has returned: the end event.  A refused sequence is in no
\* queue, and the end of the quit ends the protocol (lines 90-92).
Return ==
  /\ ~died
  /\ \E s \in running :
       /\ IF s \in Queued THEN _dequeue ELSE UNCHANGED <<queue, started>>
       /\ protocolEnded' = (protocolEnded \/ s = "quit")
  /\ running' = None
  /\ UNCHANGED <<fatalError, ticks, flush, died, asked, called>>

-----------------------------------------------------------------------------
(***************************************************************************)
(* process.nextTick                                                        *)
(***************************************************************************)
AtTick == ~died /\ running = None /\ flush = 0 /\ ticks # <<>>

\* Lines 225-227.
EndRefused ==
  /\ AtTick /\ Head(ticks).what = "refuse"
  /\ ticks' = Tail(ticks)
  /\ End(Head(ticks).sequence)
  /\ UNCHANGED <<queue, fatalError, protocolEnded, flush, died, started, asked>>

\* Lines 397-402: forEach over the array as it is when each index is reached;
\* a sequence that has ended already does nothing.
StartFlush ==
  /\ AtTick /\ Head(ticks) = Flush
  /\ ticks' = Tail(ticks) /\ flush' = 1
  /\ UNCHANGED <<queue, fatalError, protocolEnded, running, died, started, asked, called>>

FlushNext ==
  /\ ~died /\ running = None /\ flush > 0 /\ flush <= Len(queue)
  /\ flush' = flush + 1
  /\ IF queue[flush] \in Ended THEN UNCHANGED <<called, running>> ELSE End(queue[flush])
  /\ UNCHANGED <<queue, fatalError, protocolEnded, ticks, died, started, asked>>

FlushDone ==
  /\ ~died /\ running = None /\ flush > Len(queue)
  /\ flush' = 0 /\ queue' = <<>>
  /\ UNCHANGED <<fatalError, protocolEnded, ticks, running, died, started, asked, called>>

NextTick == EndRefused \/ StartFlush \/ FlushNext \/ FlushDone

-----------------------------------------------------------------------------
(***************************************************************************)
(* The server and the socket                                               *)
(***************************************************************************)
\* The head's last packet, an error of a query included.
Answer ==
  /\ Idle /\ ~fatalError /\ queue # <<>> /\ Head(queue) # "quit"
  /\ End(Head(queue))
  /\ UNCHANGED <<queue, fatalError, protocolEnded, ticks, flush, died, started, asked>>

\* handleNetworkError (lines 359-368), and the handshake's ErrorPacket: the head
\* is ended at once, its error event first.
NetworkError ==
  /\ Idle /\ ~fatalError /\ ~protocolEnded
  /\ _delegateError
  /\ IF queue # <<>> THEN End(Head(queue)) ELSE UNCHANGED <<called, running>>
  /\ UNCHANGED <<queue, protocolEnded, flush, started, asked>>

\* Protocol.end (lines 97-114) on the socket's end event.
SocketEnd ==
  /\ Idle /\ ~protocolEnded
  /\ protocolEnded' = TRUE
  /\ IF queue # <<>> /\ Head(queue) = "quit"
     THEN End("quit") /\ UNCHANGED <<fatalError, ticks, died>>
     ELSE /\ IF fatalError THEN UNCHANGED <<fatalError, ticks, died>> ELSE _delegateError
          /\ UNCHANGED <<called, running>>
  /\ UNCHANGED <<queue, flush, started, asked>>

\* Connection.js line 245: the quit waits 30 seconds for the server to close.
QuitTimeout ==
  /\ Idle /\ ~fatalError /\ queue # <<>> /\ Head(queue) = "quit"
  /\ _delegateError
  /\ UNCHANGED <<queue, protocolEnded, flush, running, started, asked, called>>

Next == \/ \E s \in Sequence : Ask(s)
        \/ Return \/ NextTick \/ Answer \/ NetworkError \/ SocketEnd \/ QuitTimeout

Spec == Init /\ [][Next]_vars

\* JavaScript runs to completion, ticks before anything else; the server
\* answers what it is sent, and closes the connection when told to.
ServerActs == Answer \/ (queue # <<>> /\ Head(queue) = "quit" /\ SocketEnd)

FairSpec == Spec /\ WF_vars(Return) /\ WF_vars(NextTick) /\ WF_vars(ServerActs)

-----------------------------------------------------------------------------
(***************************************************************************)
(* Properties                                                              *)
(***************************************************************************)
\* The deferred flush comes before every refused sequence's tick.
FlushesDue == IF ticks # <<>> /\ ticks[1] = Flush THEN 1 ELSE 0
RefusedCount == Len(ticks) - FlushesDue

\* Those in the queue that have been ended are its first.
EndedInQueue == Cardinality({i \in DOMAIN queue : queue[i] \in Ended})

\* The sequences the driver still holds a callback of, in the order they will
\* come: what is left of the queue, then what was refused.
Owed == SubSeq(queue, EndedInQueue + 1, Len(queue))
          \o [j \in 1 .. RefusedCount |-> ticks[FlushesDue + j].sequence]

\* Every sequence is ended exactly once and in the order the program sent
\* them, refused ones and those of a dead connection included.
InOrder == called \o Owed = asked

\* The server has at most one sequence, the head of the queue, and has it as
\* soon as there is one: neither a callback's query nor a query from the event
\* loop is started twice, too early or never (lines 184-187, 333-343).
HeadIsStarted ==
  ~fatalError /\ running = None =>
    started \ Ended = {queue[i] : i \in DOMAIN queue \cap {1}}

\* As long as an error is owed the driver has a tick for it, so neither a timer
\* nor the network can come before the last callback (lines 225, 397).
ErrorsComeFirst == fatalError /\ Ended # Asked => died \/ ~Idle

\* An error event that nobody hears costs no query its callback: with one in
\* the queue, behind the handshake or anything else, the error is not thrown
\* (lines 389-420).
NobodyLeftBehind == died => Asked \cap Queries \subseteq Ended

\* With a server that answers, whatever the program sends is called back.
EveryoneIsCalled ==
  \A s \in Sequence : s \in Asked ~> (s \in Ended \/ died)

-----------------------------------------------------------------------------
(***************************************************************************)
(* Why callbacks come in order: where the sequences that were sent wait.   *)
(***************************************************************************)
\* How many sequences the queue has behind it.
Ahead == Len(asked) - RefusedCount - Len(queue)

\* First those in the queue, then those refused, in the order they were sent.
Placed ==
  /\ Ahead \in Nat
  /\ \A i \in 1 .. Len(queue) : queue[i] = asked[Ahead + i]
  /\ \A j \in 1 .. RefusedCount :
       ticks[FlushesDue + j] = Refuse(asked[Ahead + Len(queue) + j])
  /\ \A i, j \in 1 .. Len(asked) : asked[i] = asked[j] => i = j

\* How many in the queue have been ended, of which the last may be running.
Done == Len(called) - Ahead

Alive ==
  ~fatalError =>
    /\ ticks = <<>> /\ flush = 0 /\ ~died
    /\ Done = (IF running = None THEN 0 ELSE 1) /\ Done <= Len(queue)
    /\ started = Ended \cup {queue[i] : i \in DOMAIN queue \cap {1}}

Dead ==
  fatalError /\ ~died =>
    /\ Done \in 0 .. Len(queue)
    /\ FlushesDue = 1 => flush = 0 /\ Done <= 1
    /\ flush > 0 => FlushesDue = 0 /\ (Done = flush - 1 \/ (flush = 1 /\ Done = 1))
    /\ FlushesDue = 0 /\ flush = 0 => queue = <<>>

Died == died => ticks = <<>> /\ Done \in 0 .. Len(queue) /\ Queued \cap Queries = {}

IInv == /\ TypeOK /\ Placed /\ Alive /\ Dead /\ Died
        /\ \A i \in 1 .. Len(called) : called[i] = asked[i]
        /\ \A s \in running : called # <<>> /\ s = called[Len(called)]

-----------------------------------------------------------------------------
\* What Crawler and Database take the driver for.
Entry(s) == [op |-> IF s \in Queries THEN "query" ELSE s, of |-> s]

Conn == INSTANCE Connection WITH
  queue <- [i \in 1 .. Len(Owed) |-> Entry(Owed[i])], fatal <- fatalError

\* Seen from the program the driver is Connection: one FIFO of callbacks.
ImplementsConnection == Conn!Spec
=============================================================================
