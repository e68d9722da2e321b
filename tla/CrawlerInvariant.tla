-------------------------- MODULE CrawlerInvariant --------------------------
(***************************************************************************)
(* The inductive invariant behind the safety properties of Crawler.  TLC   *)
(* checks it on small instances; CrawlerProofs proves it for all.          *)
(***************************************************************************)
EXTENDS Crawler

\* The places in a queue q of the queries of a kind in O.
Places(q, O) == {i \in DOMAIN q : q[i].op \in O}

AtMostOne(q, O) == \A i, j \in Places(q, O) : i = j

\* A dead program has no memory.
DeadIsEmpty ==
  ~up => /\ queue = <<>> /\ batchTimers = 0
         /\ stage = "idle" /\ pending = <<>>
         /\ \A b \in Batches : remaining[b] = 0

\* OneBatchChain without the arithmetic.
Counting(b) == remaining[b] > 0

ChainTimer == /\ batchTimers = 1
              /\ Places(queue, {"list"}) = {}
              /\ \A b \in Batches : ~Counting(b)

ChainList == /\ batchTimers = 0
             /\ Places(queue, {"list"}) # {} /\ AtMostOne(queue, {"list"})
             /\ \A b \in Batches : ~Counting(b)

ChainBatch == /\ batchTimers = 0
              /\ Places(queue, {"list"}) = {}
              /\ \E b \in Batches : Counting(b)
              /\ \A b, c \in Batches : Counting(b) /\ Counting(c) => b = c

Chain == up => ChainTimer \/ ChainList \/ ChainBatch

\* The pipeline has at most one query in the queue, the one it waits for.
PipeQuery ==
  /\ AtMostOne(queue, P!QueryStages)
  /\ \A i \in Places(queue, P!QueryStages) : queue[i].op = stage

\* That query, and the page it is about, belong to the head of pending.
PipePage ==
  /\ stage # "idle" => page \in Urls /\ pending # <<>> /\ Head(pending) = page
  /\ \A i \in Places(queue, {"finish", "upload_article"}) : queue[i].url = page

\* Status 2 is written, and about to be written, only after the INSERT.
DoneIsStored ==
  /\ \A i \in Places(queue, {"finish"}) : queue[i].val = 2 => Stored(queue[i].url)
  /\ StoredBeforeDone

\* Text outlives its page's turn only through a crash.
Extracting == stage \in {"extract_metadata", "upload_article"}

TextOwned ==
  /\ \A f \in P!Folders :
       outputs[f] \subseteq interrupted \cup (IF Extracting THEN {page} ELSE {})
  /\ \A i \in Places(queue, {"upload_article"}) :
       queue[i].from \subseteq {queue[i].url} \cup interrupted
  /\ ForeignTextOnlyAfterCrash

IInv == /\ TypeOK /\ DeadIsEmpty /\ Chain
        /\ PipeQuery /\ PipePage /\ DoneIsStored /\ TextOwned
-----------------------------------------------------------------------------
(***************************************************************************)
(* As long as there is no fault every address is in one place at a time,   *)
(* and its status says in which.                                           *)
(***************************************************************************)
Receiving == {t.url : t \in transfers}
Marking == {queue[i].url : i \in Entries("mark")}

\* No transfer has called back and is still there.
Calm == ~fatal /\ \A t \in transfers : t.phase \in {"get", "body"}

OnePlace ==
  /\ \A s, t \in transfers : s.url = t.url => s = t
  /\ \A i, j \in Entries("mark") : queue[i].url = queue[j].url => i = j
  /\ \A i, j \in DOMAIN pending : pending[i] = pending[j] => i = j
  /\ Receiving \cap Marking = {} /\ Fetching \cap Backlog = {}

\* A batch's counter counts its addresses that are not yet pending.
ReceivedBy(b) == {t.url : t \in {s \in transfers : s.batch = b}}
MarkedBy(b) == {queue[i].url : i \in {j \in Entries("mark") : queue[j].batch = b}}
FetchedBy(b) == ReceivedBy(b) \cup MarkedBy(b)

BatchCounts == \A b \in Batches : remaining[b] = Cardinality(FetchedBy(b))

\* A listing is only ever asked for when there is room for it.
ListFits == Entries("list") # {} => Len(pending) <= PendingLimit

StatusTells ==
  /\ \A u \in Urls : status[u] # 0 => u \in rows
  /\ \A u \in Fetching : u \in rows /\ status[u] = 0
  /\ \A u \in Backlog : status[u] \in {-1, 1}

\* An article is stored before its status is written, and a crash may come between.
StoredStatus ==
  \A u \in Urls : Stored(u) =>
    \/ status[u] = 2
    \/ status[u] \in {-1, 1} /\ (u \in Backlog => stage = "finish" /\ page = u)

FinishTells == \A i \in Entries("finish") : queue[i].val # 2 => ~Stored(queue[i].url)

StoredTells == StoredStatus /\ FinishTells

\* What only a crash can break: a marked row is pending, and a file is that of a
\* page that process() has yet to clean away.
NothingLost ==
  /\ \A u \in Urls : status[u] \in {-1, 1} => u \in Backlog
  /\ \A u \in files : \/ u \in Fetching
                      \/ u \in Backlog /\ ~(stage = "finish" /\ page = u)

Located == /\ Calm /\ OnePlace /\ BatchCounts /\ ListFits
           /\ StatusTells /\ StoredTells

LifeInv == faults = 0 => Located /\ (crashes = 0 => NothingLost)

-----------------------------------------------------------------------------
(***************************************************************************)
(* Under faults: how many pushes onto pending are still to come.           *)
(***************************************************************************)
Outstanding == Cardinality(transfers) + Cardinality(Entries("mark"))

\* A fault lets a transfer call back once more than its batch has counted it.
BoundInv ==
  /\ \A b \in Batches : Counting(b) => Outstanding <= remaining[b] + faults
  /\ (\A b \in Batches : ~Counting(b)) => Outstanding <= faults
  /\ Entries("list") # {} => Outstanding + Len(pending) <= PendingLimit + faults
  /\ Outstanding + Len(pending) <= PendingLimit + BatchCount + faults

FullInv == IInv /\ LifeInv /\ BoundInv
=============================================================================
