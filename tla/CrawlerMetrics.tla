--------------------------- MODULE CrawlerMetrics ---------------------------
(***************************************************************************)
(* The crawler with its metrics: every event of Crawler that runs the      *)
(* callback of download() or of process(), sends or answers update_metrics'*)
(* INSERT, or ends the program, does its counting in the same step.        *)
(***************************************************************************)
EXTENDS CrawlerInvariant

VARIABLES counts, sent, recorded, lost

M == INSTANCE Metrics

metrics == <<counts, sent, recorded, lost>>
allvars == <<vars, metrics>>

MInit == Init /\ M!Init

\* In the events below a callback of process() has run exactly if the pipeline
\* waits for a status update afterwards.
Counted(err, is_article) ==
  IF stage' = "finish" THEN M!processed(err, is_article) ELSE UNCHANGED metrics

CountDownload(t) ==
  \/ RequestError(t) /\ M!downloaded(TRUE)
  \/ FileError(t) /\ M!downloaded(TRUE)
  \/ FileFinish(t) /\ M!downloaded(FALSE)
  \/ (Response(t) \/ RequestEnd(t)) /\ UNCHANGED metrics

\* process() calls back at once when the page has no file.
CountMissing == (ProcessTimer \/ \E ok \in BOOLEAN : FinishAnswered(ok))
                  /\ Counted(TRUE, FALSE)

CountNoArticle == VerifyArticleClosed /\ Counted(FALSE, FALSE)

CountArticle(ok) == ArticleAnswered(ok) /\ Counted(~ok, TRUE)

Send == MetricsTimer /\ M!update_metrics

Record(ok) == MetricsAnswered /\ (ok => ~fatal) /\ M!Answered(ok)

\* The server may have carried out the INSERT it holds; of the INSERTs it
\* carries out one, so the tables do not change then.
AtServer == C!Serving /\ Head(queue).op = "metrics"

LoseConnection ==
  /\ ConnectionLost
  /\ UNCHANGED metrics \/ (AtServer /\ M!Unanswered)

Die ==
  /\ ConnectionLostUnheard \/ Crash
  /\ M!Forgotten(FALSE) \/ (AtServer /\ M!Forgotten(TRUE))

\* What counts nothing.
Aside ==
  /\ \/ BatchTimer \/ Restart \/ HandshakeAnswered \/ ContentExtractClosed \/ MetaExtractClosed
     \/ \E ok \in BOOLEAN :
          UrlExtractClosed(ok) \/ ListAnswered(ok) \/ MarkAnswered(ok) \/ UrlsAnswered(ok)
  /\ UNCHANGED metrics

MNext == \/ \E t \in transfers : CountDownload(t)
         \/ CountMissing \/ CountNoArticle \/ \E ok \in BOOLEAN : CountArticle(ok) \/ Record(ok)
         \/ Send \/ LoseConnection \/ Die \/ Aside

MSpec == MInit /\ [][MNext]_allvars

-----------------------------------------------------------------------------
(***************************************************************************)
(* Properties                                                              *)
(***************************************************************************)
\* What the INSERTs of a queue s hold of a kind.
Sum(s, k) ==
  LET sum[n \in 0 .. Len(s)] == IF n = 0 THEN 0 ELSE sum[n - 1] + s[n][k]
  IN  sum[Len(s)]

\* All that has been counted, in the table, on its way there and in memory.
Total(k) == recorded[k] + counts[k] + Sum(sent, k)

\* What the rest of the program says should have been counted.
Marks(V) == Cardinality({i \in Entries("mark") : queue[i].val \in V})
Finishes(V) == Cardinality({i \in Entries("finish") : queue[i].val \in V})
HaveStatus(V) == Cardinality({u \in Urls : status[u] \in V})

Agrees(n, truth) == n <= truth /\ (~lost => n = truth)

\* Without faults and crashes the metrics are the history of the tables: a
\* download for every row that has left status 0, a processed page for every
\* final status, an article for every row of content or failure; and when an
\* INSERT was refused they are too low, never too high (crawler.js lines 47-51,
\* 73-78, 89-102).
CountsAgree ==
  faults = 0 /\ crashes = 0 =>
    /\ Agrees(Total("downloads"), HaveStatus(T!Status \ {0}) + Marks({-1, 1}))
    /\ Agrees(Total("processed"), HaveStatus(T!Settled) + Finishes(T!Settled))
    /\ Agrees(Total("failed_processed"), HaveStatus({-2}) + Finishes({-2}))
    /\ ~lost => Total("articles") = Cardinality(content) + Total("failed_processed")

\* Whatever fails or dies, unless a count was lost nothing that shows in the
\* tables is missing in the metrics, but for the one article whose INSERT was
\* answered to a program that had died (crawler.js line 74).
NeverUndercounts ==
  ~lost =>
    /\ Total("downloads") >= HaveStatus(T!Status \ {0})
    /\ Total("failed_downloads") >= HaveStatus({-1})
    /\ Total("processed") >= HaveStatus(T!Settled)
    /\ Total("failed_processed") >= HaveStatus({-2})
    /\ Total("articles") + Cardinality(Entries("upload_article")) + crashes
         >= Cardinality(content)
-----------------------------------------------------------------------------
(***************************************************************************)
(* The inductive invariant behind them                                     *)
(***************************************************************************)
Counts == [M!Kinds -> Nat]

MTypeOK == counts \in Counts /\ sent \in Seq(Counts) /\ recorded \in Counts /\ lost \in BOOLEAN

\* sent holds the values of the INSERTs in the driver's queue.
SentQueued == Len(sent) = Cardinality(Entries("metrics"))

\* The addresses with a status in V, or with a query in the queue to write one.
Reached(V) ==
  {u \in Urls : status[u] \in V}
    \cup {queue[i].url : i \in {j \in Entries("mark") \cup Entries("finish") : queue[j].val \in V}}

\* An INSERT that may have been carried out before the connection was lost.
Withdrawn == IF fatal /\ Entries("upload_article") # {} THEN 1 ELSE 0

\* What shows in the tables or is about to has been counted.  A page that waits
\* in pending may have no status, if its update was refused, but will have one.
CountedBefore ==
  ~lost =>
    /\ Total("downloads") >= Cardinality(Reached(T!Status \ {0}) \cup Backlog)
    /\ Total("failed_downloads") >= Cardinality(Reached({-1}))
    /\ Total("processed") >= Cardinality(Reached(T!Settled))
    /\ Total("failed_processed") >= Cardinality(Reached({-2}))
    /\ Total("articles") + crashes + Withdrawn >= Cardinality(content)

\* Without faults and crashes nothing is counted that does not show.
CountedOnce ==
  faults = 0 /\ crashes = 0 =>
    /\ Total("downloads") <= Cardinality(Reached(T!Status \ {0}))
    /\ Total("processed") <= Cardinality(Reached(T!Settled))
    /\ Total("failed_processed") <= Cardinality(Reached({-2}))
    /\ ~lost => Total("articles") = Cardinality(content) + Total("failed_processed")

\* Without faults and crashes process() never finds the page's file missing.
FilesThere ==
  faults = 0 /\ crashes = 0 =>
    \A u \in Fetching \cup Backlog : u \in files \/ (stage = "finish" /\ page = u)

MInv == /\ FullInv /\ MTypeOK /\ SentQueued
        /\ CountedBefore /\ CountedOnce /\ FilesThere
=============================================================================
