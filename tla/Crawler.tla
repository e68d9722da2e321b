------------------------------- MODULE Crawler ------------------------------
(***************************************************************************)
(* crawler.js: two loops in one Node process that share the array pending  *)
(* and one MySQL connection.                                               *)
(*                                                                         *)
(*   batch_download lists fresh rows, downloads them all at once, writes   *)
(*   each one's status, pushes it on pending and starts again when the     *)
(*   batch's counter of remaining rows reaches 0;                          *)
(*   process_pending takes pending[0] through the pipeline of process.js,  *)
(*   writes its final status, removes pending[0] and starts again.         *)
(*                                                                         *)
(* Each action is one event of the Node loop with everything its callbacks *)
(* do before they return.  The components' own state and events are in     *)
(* Tables (the database), Connection (the driver), Download and Process.   *)
(* An interval sends update_metrics' INSERT down the same connection; what *)
(* it counts is in Metrics.  The logging is left out.                      *)
(***************************************************************************)
EXTENDS Integers, Sequences, FiniteSets

CONSTANTS Urls, Seed, Root, None, Batches,
          BatchCount,     \* url_batch_count
          PendingLimit,   \* pending_limit
          MaxFaults,      \* bound on faults of the database and the transfers
          MaxCrashes,     \* bound on deaths of the Node process
          MaxMetrics      \* bound on update_metrics' INSERTs in the queue

ASSUME CrawlerAssumption ==
  /\ IsFiniteSet(Urls) /\ Seed \in Urls /\ Root \in Urls /\ None \notin Urls
  /\ IsFiniteSet(Batches) /\ Batches # {}
  /\ BatchCount \in Nat \ {0}
  /\ PendingLimit \in Nat /\ MaxFaults \in Nat /\ MaxCrashes \in Nat
  /\ MaxMetrics \in Nat

VARIABLES
  rows, status, content,          \* the database
  files, outputs,                 \* the file system
  queue, fatal,                   \* the driver
  transfers,                      \* the requests in flight
  stage, page,                    \* the process_pending loop
  pending,                        \* var pending (line 30)
  remaining,                      \* var remaining of each batch's closure (line 44)
  batchTimers,                    \* armed setTimeout(batch_download, ...)
  up,                             \* the Node process runs
  faults, crashes,                \* how many there have been
  interrupted                     \* pages some crash found in the pipeline

tables == <<rows, status, content>>
conn == <<queue, fatal>>
pipeline == <<stage, page>>
batching == <<remaining, batchTimers>>
history == <<crashes, interrupted>>
vars == <<tables, files, outputs, conn, transfers, pipeline, pending, batching,
          up, faults, history>>

T == INSTANCE Tables
C == INSTANCE Connection
D == INSTANCE Download
P == INSTANCE Process

-----------------------------------------------------------------------------
(***************************************************************************)
(* The queries, each with what its callback's closure holds.               *)
(***************************************************************************)
Query ==
  [op : {"handshake", "list", "metrics"}]
    \cup [op : {"mark"}, url : Urls, val : {-1, 1}, batch : Batches]
    \cup [op : {"upload_urls"}, found : SUBSET Urls]
    \cup [op : {"upload_article"}, url : Urls, from : SUBSET Urls]
    \cup [op : {"finish"}, url : Urls, val : T!Settled]

List == [op |-> "list"]
InsertMetrics == [op |-> "metrics"]
Mark(u, v, b) == [op |-> "mark", url |-> u, val |-> v, batch |-> b]
UploadUrls(S) == [op |-> "upload_urls", found |-> S]
UploadArticle(u, S) == [op |-> "upload_article", url |-> u, from |-> S]
Finish(u, v) == [op |-> "finish", url |-> u, val |-> v]

\* The places in the driver's queue of the queries of a kind.
Entries(op) == {i \in DOMAIN queue : queue[i].op = op}

\* The closures of a batch are alive while one of its callbacks may still run.
InUse == {t.batch : t \in transfers}
           \cup {queue[i].batch : i \in Entries("mark")}

TypeOK ==
  /\ T!TypeOK /\ D!TypeOK /\ P!TypeOK
  /\ queue \in Seq(Query)
  /\ fatal \in BOOLEAN
  /\ pending \in Seq(Urls)
  /\ remaining \in [Batches -> Int]
  /\ batchTimers \in Nat
  /\ up \in BOOLEAN
  /\ faults \in 0 .. MaxFaults
  /\ crashes \in Nat
  /\ interrupted \in SUBSET Urls

\* Lines 109-110 on a fresh process: nothing is pending, so batch_download
\* lists at once, behind the handshake, and process_pending has its timer.
Launch == <<C!Handshake, List>>

Started ==
  /\ queue = Launch
  /\ fatal = FALSE
  /\ transfers = {}
  /\ stage = "idle" /\ page = None
  /\ pending = <<>>
  /\ remaining = [b \in Batches |-> 0]
  /\ batchTimers = 0
  /\ up = TRUE

Init ==
  /\ T!Init /\ D!Init /\ P!Init /\ Started
  /\ faults = 0 /\ crashes = 0 /\ interrupted = {}

-----------------------------------------------------------------------------
(***************************************************************************)
(* Mutants: what a plausible slip would make of a definition below.  They  *)
(* are used nowhere; each is substituted for its original to see that a    *)
(* property notices (PROJECT.json says which).                             *)
(***************************************************************************)
\* The limit tested as if the batch to come were already counted.
OverLimitLate(p) == Len(p) > PendingLimit + BatchCount

\* A page without a file is dropped without a callback.
process_pendingSilent(q, p) ==
  \/ p = <<>> /\ P!Idle /\ queue' = q
  \/ p # <<>> /\ P!process(Head(p)) /\ queue' = q

\* The error of the pipeline is not looked at.
processedIgnoringError(q, err, is_article) ==
  queue' = Append(q, Finish(Head(pending), IF is_article THEN 2 ELSE 3))

\* The newest page goes first; or failed downloads are skipped.
unshift(p, q) == <<q.url>> \o p
pushIfDownloaded(p, q) == IF q.val = 1 THEN Append(p, q.url) ELSE p

\* Three slips in the test of the counter.
AtOrBelowZero(n) == n <= 0
OneLeft(n) == n = 1
AtMostOneLeft(n) == n \in {0, 1}

-----------------------------------------------------------------------------
(***************************************************************************)
(* The two loop functions, as what a call does to the driver's queue q,    *)
(* the timers and the pipeline when it finds pending equal to p.           *)
(***************************************************************************)
OverLimit(p) == Len(p) > PendingLimit

batch_download(q, timers, p) ==
  \/ OverLimit(p) /\ queue' = q /\ batchTimers' = timers + 1
  \/ ~OverLimit(p) /\ queue' = Append(q, List) /\ batchTimers' = timers

process_pending(q, p) ==
  \/ p = <<>> /\ P!Idle /\ queue' = q
  \/ /\ p # <<>>
     /\ P!process(Head(p))
     /\ queue' = IF Head(p) \in files THEN q ELSE Append(q, Finish(Head(p), -2))

\* The callback of process() (lines 72-81): the status written is that of the
\* page at the front of pending, whatever page was processed.
processed(q, err, is_article) ==
  queue' = Append(q, Finish(Head(pending),
                            IF err THEN -2 ELSE IF is_article THEN 2 ELSE 3))

\* Line 54: a failed download is pushed like any other.
push(p, q) == Append(p, q.url)

\* Line 55-58: the callback that brings the batch's counter to 0 starts the next.
LastOfBatch(n) == n = 0

-----------------------------------------------------------------------------
(***************************************************************************)
(* Events of the Node loop.  Those that need the loop to be idle wait for  *)
(* the callbacks process.nextTick owes an error to.                        *)
(***************************************************************************)
Running == up /\ C!MayDispatch

Fault == faults < MaxFaults /\ faults' = faults + 1

\* Timers
BatchTimer ==
  /\ Running /\ batchTimers > 0
  /\ batch_download(queue, batchTimers - 1, pending)
  /\ UNCHANGED <<tables, files, outputs, fatal, transfers, pipeline, pending,
                 remaining, up, faults, history>>

ProcessTimer ==
  /\ Running /\ stage = "idle"
  /\ process_pending(queue, pending)
  /\ UNCHANGED <<tables, fatal, transfers, pending, batching, up, faults, history>>

\* setInterval(update_metrics, ...), lines 89-92 and 112: nothing waits for the
\* INSERT before the last has been answered.
MetricsTimer ==
  /\ Running /\ Cardinality(Entries("metrics")) < MaxMetrics
  /\ C!Enqueue(InsertMetrics)
  /\ UNCHANGED <<tables, files, outputs, transfers, pipeline, pending, batching,
                 up, faults, history>>

\* The network.  The callback of download (lines 46-52) writes the outcome as
\* the row's status.
downloaded(t, err) == C!Enqueue(Mark(t.url, IF err THEN -1 ELSE 1, t.batch))

notNetwork == <<tables, outputs, pipeline, pending, batching, up, history>>

Response(t) ==
  /\ Running /\ D!Response(t)
  /\ UNCHANGED <<notNetwork, conn, faults>>

RequestError(t) ==
  /\ Running /\ D!RequestError(t)
  /\ downloaded(t, TRUE)
  /\ IF t.phase = "body" THEN Fault ELSE UNCHANGED faults
  /\ UNCHANGED notNetwork

FileFinish(t) ==
  /\ Running /\ D!FileFinish(t)
  /\ downloaded(t, FALSE)
  /\ UNCHANGED <<notNetwork, faults>>

FileError(t) ==
  /\ Running /\ D!FileError(t)
  /\ downloaded(t, TRUE)
  /\ Fault
  /\ UNCHANGED notNetwork

RequestEnd(t) ==
  /\ Running /\ D!RequestEnd(t)
  /\ UNCHANGED <<notNetwork, conn, faults>>

Network == \E t \in transfers :
  \/ Response(t) \/ RequestError(t) \/ FileFinish(t) \/ FileError(t) \/ RequestEnd(t)

\* Child processes
notChild == <<tables, fatal, transfers, pending, batching, up, faults, history>>

\* url-extract ends every path with a line break, so the last value split off
\* is empty and the domain itself is always among the addresses (line 69).
UrlExtractClosed(readable) ==
  /\ Running /\ P!UrlExtractClosed(readable)
  /\ IF readable
     THEN \E S \in SUBSET Urls : queue' = Append(queue, UploadUrls(S \cup {Root}))
     ELSE UNCHANGED queue
  /\ UNCHANGED notChild

VerifyArticleClosed ==
  /\ Running
  /\ \/ P!NotArticle /\ processed(queue, FALSE, FALSE)
     \/ P!IsArticle /\ UNCHANGED queue
  /\ UNCHANGED notChild

ContentExtractClosed ==
  /\ Running /\ P!ContentExtractClosed
  /\ UNCHANGED <<notChild, queue>>

MetaExtractClosed ==
  /\ Running /\ P!MetaExtractClosed
  /\ queue' = Append(queue, UploadArticle(page, P!ReadOutputs(outputs')))
  /\ UNCHANGED notChild

Children == \/ \E readable \in BOOLEAN : UrlExtractClosed(readable)
            \/ VerifyArticleClosed \/ ContentExtractClosed \/ MetaExtractClosed
\* Query callbacks.  A query is answered by the server, refused by it, or ended
\* by the driver after a fatal error.
Answers(op, ok) ==
  /\ up /\ queue # <<>> /\ Head(queue).op = op
  /\ ok => ~fatal

\* A refusal that no statement of the crawler provokes by itself is a fault.
Outcome(ok) == IF ok \/ fatal THEN UNCHANGED faults ELSE Fault

\* A refused handshake is fatal: ConnectionLost, then this.
HandshakeAnswered ==
  /\ Answers("handshake", ~fatal)
  /\ queue' = C!Rest
  /\ UNCHANGED <<tables, files, outputs, fatal, transfers, pipeline, pending,
                 batching, up, faults, history>>

\* The callback only logs an error (line 91).
MetricsAnswered ==
  /\ Answers("metrics", ~fatal)
  /\ queue' = C!Rest
  /\ UNCHANGED <<tables, files, outputs, fatal, transfers, pipeline, pending,
                 batching, up, faults, history>>

\* urls.list's callback (lines 37-63); no row at all is an error too.
ListAnswered(ok) ==
  /\ Answers("list", ok) /\ Outcome(ok)
  /\ queue' = C!Rest
  /\ IF ok /\ T!Fresh # {}
     THEN \E S \in T!Listing, b \in Batches \ InUse :
            /\ D!download(S, b)
            /\ remaining' = [remaining EXCEPT ![b] = Cardinality(S)]
            /\ UNCHANGED batchTimers
     ELSE batchTimers' = batchTimers + 1 /\ UNCHANGED <<transfers, files, remaining>>
  /\ UNCHANGED <<tables, outputs, fatal, pipeline, pending, up, history>>

\* update_status's callback in batch_download (lines 52-60).  Neither a failed
\* download nor a failed update keeps the row off pending.
MarkAnswered(ok) ==
  LET q == Head(queue) IN
  /\ Answers("mark", ok) /\ Outcome(ok)
  /\ IF ok THEN T!UpdateStatus(q.url, q.val) ELSE UNCHANGED tables
  /\ pending' = push(pending, q)
  /\ remaining' = [remaining EXCEPT ![q.batch] = @ - 1]
  /\ IF LastOfBatch(remaining'[q.batch])
     THEN batch_download(C!Rest, batchTimers, pending')
     ELSE queue' = C!Rest /\ UNCHANGED batchTimers
  /\ UNCHANGED <<files, outputs, fatal, transfers, pipeline, up, history>>

\* One address longer than the column makes the server refuse the whole INSERT.
UrlsAnswered(ok) ==
  /\ Answers("upload_urls", ok)
  /\ P!UrlsUploaded
  /\ IF ok THEN T!InsertUrls(Head(queue).found) ELSE UNCHANGED tables
  /\ queue' = C!Rest
  /\ UNCHANGED <<fatal, transfers, pending, batching, up, faults, history>>

\* The INSERT may be refused on account of the page (a date that is none) or of
\* an earlier row of the same address.
ArticleAnswered(ok) ==
  /\ Answers("upload_article", ok)
  /\ P!ArticleUploaded
  /\ IF ok THEN T!InsertContent(Head(queue).url, Head(queue).from) ELSE UNCHANGED tables
  /\ processed(C!Rest, ~ok, TRUE)
  /\ UNCHANGED <<fatal, transfers, pending, batching, up, faults, history>>

\* update_status's callback in process_pending (lines 81-85)
FinishAnswered(ok) ==
  /\ Answers("finish", ok) /\ Outcome(ok)
  /\ IF ok THEN T!UpdateStatus(Head(queue).url, Head(queue).val) ELSE UNCHANGED tables
  /\ pending' = Tail(pending)
  /\ process_pending(C!Rest, pending')
  /\ UNCHANGED <<fatal, transfers, batching, up, history>>

Callback == \/ HandshakeAnswered \/ MetricsAnswered
            \/ \E ok \in BOOLEAN :
                 \/ ListAnswered(ok) \/ MarkAnswered(ok) \/ UrlsAnswered(ok)
                 \/ ArticleAnswered(ok) \/ FinishAnswered(ok)

-----------------------------------------------------------------------------
(***************************************************************************)
(* Loss of the connection and of the process.  Either may come after the   *)
(* server has carried out the query it holds and before the answer.        *)
(***************************************************************************)
Execute(q) ==
  \/ q.op \in {"mark", "finish"} /\ T!UpdateStatus(q.url, q.val)
  \/ q.op = "upload_urls" /\ T!InsertUrls(q.found)
  \/ q.op = "upload_article" /\ T!InsertContent(q.url, q.from)

Unanswered == \/ UNCHANGED tables
              \/ C!Serving /\ Execute(Head(queue))

ConnectionLost ==
  /\ up /\ ~C!Unheard /\ C!ConnectionLost /\ Fault /\ Unanswered
  /\ UNCHANGED <<files, outputs, transfers, pipeline, pending, batching, up, history>>

\* What a dead process leaves: the database, the files, nothing of its memory.
Dies ==
  /\ up' = FALSE
  /\ P!Orphaned
  /\ queue' = <<>> /\ fatal' = FALSE /\ transfers' = {}
  /\ stage' = "idle" /\ page' = None /\ pending' = <<>>
  /\ remaining' = [b \in Batches |-> 0] /\ batchTimers' = 0
  /\ crashes' = crashes + 1
  /\ interrupted' = interrupted \cup ({page} \ {None})
  /\ UNCHANGED files

\* Nobody in the queue has a callback: the driver's error event is unhandled.
ConnectionLostUnheard ==
  /\ up /\ ~fatal /\ C!Unheard /\ Fault /\ Dies
  /\ UNCHANGED tables

\* A kill, or an error event without a listener: a download's file that cannot
\* be opened, a child process that cannot be started.
Crash ==
  /\ up /\ crashes < MaxCrashes /\ Dies
  /\ Unanswered
  /\ UNCHANGED faults

\* Dies has left the memory as Started wants it, but for the two listed here.
Restart ==
  /\ ~up
  /\ up' = TRUE
  /\ queue' = Launch
  /\ UNCHANGED <<tables, files, outputs, fatal, transfers, pipeline, pending,
                 batching, faults, history>>

Next == \/ BatchTimer \/ ProcessTimer \/ MetricsTimer \/ Network \/ Children \/ Callback
        \/ ConnectionLost \/ ConnectionLostUnheard \/ Crash \/ Restart

Spec == Init /\ [][Next]_vars

\* Timers fire, child processes end and the server answers; the network need
\* not, and nobody need restart the program.  Fairness is strong where the event
\* waits for an idle loop: the callbacks owed an error come first, and they only
\* delay an event the loop has queued.
FairSpec == /\ Spec
            /\ SF_vars(BatchTimer) /\ SF_vars(ProcessTimer) /\ SF_vars(Children)
            /\ WF_vars(Callback)
-----------------------------------------------------------------------------
(***************************************************************************)
(* Properties                                                              *)
(***************************************************************************)
Stored(u) == \E r \in content : r.url = u

Backlog == {pending[i] : i \in DOMAIN pending}

Fetching == {t.url : t \in transfers} \cup {queue[i].url : i \in Entries("mark")}

\* The places that hold an address on its way through the program.
Holders(u) == Cardinality({t \in transfers : t.url = u})
                + Cardinality({i \in Entries("mark") : queue[i].url = u})
                + Cardinality({i \in DOMAIN pending : pending[i] = u})

\* batch_download never forks and never dies: whatever the transfers' callbacks
\* do to the counters, exactly one of an armed timer, a listing in the driver's
\* queue and a batch that still counts down will call it next (lines 32-65).
OneBatchChain ==
  up => batchTimers + Cardinality(Entries("list"))
          + Cardinality({b \in Batches : remaining[b] > 0}) = 1

\* Everything crawler.js lines 72-85 reads from pending[0] in its callbacks
\* belongs to the page that process() was given, however many pages have been
\* pushed since: the statuses and the article rows written are that page's.
PageIsHead ==
  /\ stage # "idle" => pending # <<>> /\ pending[1] = page
  /\ \A i \in Entries("finish") \cup Entries("upload_article") : queue[i].url = page

\* Status 2 is only ever seen on a row whose article is in content: the INSERT
\* of process.js line 107 was accepted, through faults, double downloads,
\* crashes and restarts.
StoredBeforeDone == \A u \in Urls : status[u] = 2 => Stored(u)

\* Without faults the reverse holds too: a page reported as failed or as no
\* article has no row in content, even if the program died in the meantime.
FailedNotStored ==
  faults = 0 => \A u \in Urls : status[u] \in {-2, 3} => ~Stored(u)

\* The extractors append to shared files (content-extract.c line 40,
\* meta-extract.c line 309), so a row may hold another page's text; that page
\* was in the pipeline when the program died, for clean() has run otherwise.
ForeignTextOnlyAfterCrash ==
  \A r \in content : r.from \subseteq {r.url} \cup interrupted

\* pending_limit is tested before a batch is listed (line 33), so pending can
\* exceed it by one more than the test admits, by a whole batch, and by one push
\* for every fault that made a download call back twice.
PendingBounded == Len(pending) <= PendingLimit + BatchCount + faults

\* Without faults an address is in one place at a time: not listed again while
\* it is downloaded, its status is written or it is pending.
OneHolder == faults = 0 => \A u \in Urls : Holders(u) <= 1

\* Without faults and crashes a row is marked downloaded or failed exactly while
\* it waits in pending: no page is forgotten, none waits under a wrong status.
MarkedIffPending ==
  faults = 0 /\ crashes = 0 =>
    \A u \in Urls : status[u] \in {-1, 1} <=> u \in Backlog

\* Without faults and crashes the download directory holds files only of pages
\* on their way: clean() has removed all others, failed downloads' included.
FilesOwned ==
  faults = 0 /\ crashes = 0 => \A u \in files : Holders(u) = 1

\* No step puts a row back to status 0: what has been listed and marked once is
\* never listed again, not even when another page links to it.
NeverFreshAgain ==
  [][\A u \in Urls : status[u] # 0 => status'[u] # 0]_status

\* Without faults a final status is final: no late callback of an earlier
\* download overwrites it.
FinalStays ==
  [][faults' = 0 => \A u \in Urls : status[u] \in T!Settled => status'[u] = status[u]]_vars

\* The loop over pending needs no network: every page in it is taken out, even
\* while a hung request keeps batch_download waiting for ever.
PendingDrains ==
  \A u \in Urls : u \in Backlog ~> (u \notin Backlog \/ ~up)

\* batch_download keeps listing as long as no transfer stays open for ever:
\* no database error, refused update or double callback stops it.
KeepsListing ==
  []<>(transfers = {}) => []<>(Entries("list") # {} \/ ~up)

\* With transfers that end and without faults every address found is settled.
EveryRowSettles ==
  []<>(transfers = {}) =>
    \A u \in Urls : u \in rows ~> (status[u] \in T!Settled \/ ~up \/ faults > 0)

(***************************************************************************)
(* The abstract specification, which holds as long as there is no fault.   *)
(***************************************************************************)
LifeOf ==
  [u \in Urls |->
     CASE u \notin rows                          -> "unknown"
       [] u \in rows /\ u \in Backlog            -> "waiting"
       [] u \in rows \ Backlog /\ u \in Fetching -> "fetching"
       [] OTHER -> IF status[u] = 0 THEN "new"
                   ELSE IF status[u] \in T!Settled THEN "done" ELSE "lost"]

Life == INSTANCE PageLife WITH life <- LifeOf, backlog <- pending

\* Every step of the two loops, of the pipeline and of a crash is a step of
\* PageLife or changes nothing in it: one batch at a time (lines 44-58), pages
\* settled once and in the order of arrival (lines 72-84).
ImplementsPageLife == Life!Spec

(***************************************************************************)
(* What crawler.js line 80 says of the status column.                      *)
(***************************************************************************)
\* "3=done_article": a page with status 3 is one whose article has been stored
\* (lines 80-81).
DoneArticleIs3 == \A u \in Urls : status[u] = 3 => Stored(u)
=============================================================================
