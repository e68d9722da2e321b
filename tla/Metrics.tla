------------------------------ MODULE Metrics -------------------------------
(***************************************************************************)
(* crawler.js lines 11-15 and 89-103: the counters, the INSERTs            *)
(* update_metrics() has sent with their values, and the sum of the rows    *)
(* the metrics table holds.  CrawlerMetrics says when the crawler counts.  *)
(***************************************************************************)
EXTENDS Integers, Sequences

VARIABLES counts,       \* total_downloads and the other four
          sent,         \* the values of the INSERTs in the driver's queue
          recorded,     \* the metrics table, its rows summed
          lost          \* some count has been forgotten

metrics == <<counts, sent, recorded, lost>>

Kinds == {"downloads", "processed", "articles", "failed_downloads", "failed_processed"}

Zero == [k \in Kinds |-> 0]

Plus(c, d) == [k \in Kinds |-> c[k] + d[k]]

Init == counts = Zero /\ sent = <<>> /\ recorded = Zero /\ lost = FALSE

\* Mutants: a failed download is not counted as a download; the counters are
\* not reset.
downloadedUnlessFailed(err) ==
  /\ counts' = [counts EXCEPT !["downloads"] = IF err THEN @ ELSE @ + 1,
                              !["failed_downloads"] = IF err THEN @ + 1 ELSE @]
  /\ UNCHANGED <<sent, recorded, lost>>

update_metricsKeeps ==
  /\ sent' = Append(sent, counts)
  /\ UNCHANGED <<counts, recorded, lost>>

\* Lines 47-51: every call of download's callback.
downloaded(err) ==
  /\ counts' = [counts EXCEPT !["downloads"] = @ + 1,
                              !["failed_downloads"] = IF err THEN @ + 1 ELSE @]
  /\ UNCHANGED <<sent, recorded, lost>>

\* Lines 73-78: every call of process()'s callback.
processed(err, is_article) ==
  /\ counts' = [counts EXCEPT !["processed"] = @ + 1,
                              !["articles"] = IF is_article THEN @ + 1 ELSE @,
                              !["failed_processed"] = IF err THEN @ + 1 ELSE @]
  /\ UNCHANGED <<sent, recorded, lost>>

\* The counters start again at once, whatever becomes of the INSERT.
update_metrics ==
  /\ sent' = Append(sent, counts)
  /\ counts' = Zero
  /\ UNCHANGED <<recorded, lost>>

\* The server refuses a second row of the same second (database.js line 36):
\* its counts are in no row and in no counter any more.
Answered(ok) ==
  /\ sent' = Tail(sent)
  /\ IF ok THEN recorded' = Plus(recorded, Head(sent)) /\ UNCHANGED lost
           ELSE lost' = (lost \/ Head(sent) # Zero) /\ UNCHANGED recorded
  /\ UNCHANGED counts

\* The row is written and the answer never comes.
Unanswered ==
  /\ recorded' = Plus(recorded, Head(sent))
  /\ sent' = [sent EXCEPT ![1] = Zero]
  /\ UNCHANGED <<counts, lost>>

\* The program dies; executed says that the INSERT at the server was written.
Forgotten(executed) ==
  /\ recorded' = IF executed THEN Plus(recorded, Head(sent)) ELSE recorded
  /\ lost' = \/ lost \/ counts # Zero
             \/ \E i \in DOMAIN sent : sent[i] # Zero /\ ~(executed /\ i = 1)
  /\ counts' = Zero /\ sent' = <<>>

=============================================================================
