------------------------------- MODULE Process ------------------------------
(***************************************************************************)
(* nlib/process.js: the pipeline one downloaded page goes through.  Each   *)
(* stage is the wait for one asynchronous call -- a child process or a     *)
(* query -- whose callback starts the next.  page is the id and address    *)
(* process() was called with, held by its closures.                        *)
(*                                                                         *)
(* The extractors run with one shared output directory.  outputs[f] is the *)
(* set of pages whose text the files of folder f hold: content-extract and *)
(* meta-extract open them in append mode, and only clean() removes them.   *)
(***************************************************************************)
EXTENDS FiniteSets

CONSTANTS Urls,
          None          \* no page is being processed

VARIABLES stage, page, outputs, files

Folders == {"content", "meta"}

QueryStages == {"upload_urls", "upload_article", "finish"}

Stages == {"idle", "url_extract", "verify_article", "extract_content",
           "extract_metadata"} \cup QueryStages

Init == stage = "idle" /\ page = None /\ outputs = [f \in Folders |-> {}]

\* process(id, url, callback); a page without a file fails at once (line 24)
\* and its callback asks for the status update.
process(u) ==
  /\ page' = u
  /\ stage' = IF u \in files THEN "url_extract" ELSE "finish"
  /\ UNCHANGED <<outputs, files>>

\* process_pending() found nothing pending.
Idle == stage' = "idle" /\ page' = None /\ UNCHANGED <<outputs, files>>

GoTo(s) == stage' = s /\ UNCHANGED page

\* Mutants of clean: the extracted or the downloaded file is left behind.
cleanKeepsOutputs(u) == files' = files \ {u} /\ UNCHANGED outputs
cleanKeepsInput(u) == outputs' = [f \in Folders |-> {}] /\ UNCHANGED files

\* clean(input, callback): every file of the page, downloaded and extracted.
clean(u) ==
  /\ files' = files \ {u}
  /\ outputs' = [f \in Folders |-> {}]

\* upload_urls: url-extract has closed and its output was read or not.
UrlExtractClosed(readable) ==
  /\ stage = "url_extract"
  /\ GoTo(IF readable THEN "upload_urls" ELSE "verify_article")
  /\ UNCHANGED <<outputs, files>>

\* The INSERT's callback; its error is only logged (line 26).
UrlsUploaded ==
  /\ stage = "upload_urls"
  /\ GoTo("verify_article")
  /\ UNCHANGED <<outputs, files>>

\* verify-article has closed: exit code 1 says no article, exit code 0 says
\* article, and so does a child killed by a signal, whose code is null.
NotArticle ==
  /\ stage = "verify_article"
  /\ clean(page)
  /\ GoTo("finish")

IsArticle ==
  /\ stage = "verify_article"
  /\ GoTo("extract_content")
  /\ UNCHANGED <<outputs, files>>

\* An extractor appends the page's text to a folder, or finds none in it.
Wrote(f) == outputs' \in {outputs, [outputs EXCEPT ![f] = @ \cup {page}]}

ContentExtractClosed ==
  /\ stage = "extract_content"
  /\ Wrote("content")
  /\ GoTo("extract_metadata")
  /\ UNCHANGED files

MetaExtractClosed ==
  /\ stage = "extract_metadata"
  /\ Wrote("meta")
  /\ GoTo("upload_article")
  /\ UNCHANGED files

\* upload_article reads every output file; a missing one reads as "".
ReadOutputs(o) == UNION {o[f] : f \in Folders}

ArticleUploaded ==
  /\ stage = "upload_article"
  /\ clean(page)
  /\ GoTo("finish")

\* The program dies: a running extractor may still write its output.
Orphaned ==
  \/ stage = "extract_content" /\ Wrote("content")
  \/ stage = "extract_metadata" /\ Wrote("meta")
  \/ stage \notin {"extract_content", "extract_metadata"} /\ UNCHANGED outputs

TypeOK == /\ stage \in Stages
          /\ page \in Urls \cup {None}
          /\ outputs \in [Folders -> SUBSET Urls]
=============================================================================
