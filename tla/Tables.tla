------------------------------- MODULE Tables -------------------------------
(***************************************************************************)
(* The two tables of the crawler's MySQL database that its own code reads  *)
(* or relies on (nlib/database.js lines 9-34), and what each SQL statement *)
(* of the crawler does to them when the server accepts it.                 *)
(*                                                                         *)
(* urls    -- rows is the set of addresses that have a row and status      *)
(*            their status column; an address without a row has the        *)
(*            column's default, 0.  The occurances and added columns are   *)
(*            written but never read, and are left out.                    *)
(* content -- a set of rows [url, from]: the article's address, and the    *)
(*            pages whose extracted text the row's columns hold.  One row  *)
(*            per address, because content.url is UNIQUE.                  *)
(***************************************************************************)
EXTENDS Integers, FiniteSets

CONSTANTS Urls,         \* every address the crawler may meet
          Seed,         \* the address database.js inserts
          BatchCount    \* url_batch_count, the LIMIT of the listing

VARIABLES rows, status, content

tables == <<rows, status, content>>

(***************************************************************************)
(* crawler.js line 80: -2=process_error, -1=download_error, 0=default,     *)
(* 1=pending; the code writes 2 for an article and 3 for any other page.   *)
(***************************************************************************)
Status == -2 .. 3
Settled == {-2, 2, 3}

ContentRow == [url : Urls, from : SUBSET Urls]

Init == /\ rows = {Seed}
        /\ status = [u \in Urls |-> 0]
        /\ content = {}

\* A mutant of Fresh: pages found pending are listed again after a restart.
FreshOrPending == {u \in rows : status[u] \in {0, 1}}

\* SELECT ... WHERE status = 0
Fresh == {u \in rows : status[u] = 0}

\* ... LIMIT n, with no ORDER BY: any n of the fresh rows, or all of them when
\* there are fewer.
Listing == {S \in SUBSET Fresh : \/ Cardinality(S) = BatchCount
                                 \/ S = Fresh /\ Cardinality(S) < BatchCount}

\* UPDATE urls SET status = s WHERE id = u
UpdateStatus(u, s) ==
  /\ status' = [status EXCEPT ![u] = s]
  /\ UNCHANGED <<rows, content>>

\* A mutant of InsertUrls: a known address is queued again.
InsertUrlsRequeue(found) ==
  /\ rows' = rows \cup found
  /\ status' = [u \in Urls |-> IF u \in found THEN 0 ELSE status[u]]
  /\ UNCHANGED content

\* INSERT INTO urls ... ON DUPLICATE KEY UPDATE occurances = occurances + 1: an
\* address that has a row keeps it, status included.
InsertUrls(found) ==
  /\ rows' = rows \cup found
  /\ UNCHANGED <<status, content>>

\* INSERT INTO content: a second row for an address breaks the UNIQUE key.
InsertContent(u, from) ==
  /\ \A r \in content : r.url # u
  /\ content' = content \cup {[url |-> u, from |-> from]}
  /\ UNCHANGED <<rows, status>>

TypeOK == /\ rows \in SUBSET Urls
          /\ status \in [Urls -> Status]
          /\ content \in SUBSET ContentRow
=============================================================================
