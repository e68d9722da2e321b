--------------------------- MODULE CrawlerProofs ----------------------------
(***************************************************************************)
(* Proofs about Crawler: type correctness, the inductive invariants IInv,  *)
(* LifeInv and BoundInv of CrawlerInvariant with the safety properties     *)
(* that follow, and that Crawler implements PageLife as long as there is   *)
(* no fault.                                                               *)
(***************************************************************************)
EXTENDS CrawlerInvariant, SequenceTheorems, FiniteSetTheorems, TLAPS

-----------------------------------------------------------------------------
(***************************************************************************)
(* Queries                                                                 *)
(***************************************************************************)
\* The constructors build queries.
LEMMA QueryTypes ==
  /\ C!Handshake \in Query /\ List \in Query /\ InsertMetrics \in Query
  /\ \A u \in Urls, v \in {-1, 1}, b \in Batches : Mark(u, v, b) \in Query
  /\ \A S \in SUBSET Urls : UploadUrls(S) \in Query
  /\ \A u \in Urls, S \in SUBSET Urls : UploadArticle(u, S) \in Query
  /\ \A u \in Urls, v \in {-2, 2, 3} : Finish(u, v) \in Query
BY DEF C!Handshake, List, InsertMetrics, Mark, UploadUrls, UploadArticle, Finish, Query, T!Settled

\* The fields of a query of each kind.
LEMMA QueryFields ==
  ASSUME NEW q \in Query
  PROVE  /\ q.op = "mark" => q.url \in Urls /\ q.val \in {-1, 1} /\ q.batch \in Batches
         /\ q.op = "upload_urls" => q.found \in SUBSET Urls
         /\ q.op = "upload_article" => q.url \in Urls /\ q.from \in SUBSET Urls
         /\ q.op = "finish" => q.url \in Urls /\ q.val \in {-2, 2, 3}
<1>1. CASE q \in [op : {"handshake", "list", "metrics"}]
  BY <1>1
<1>2. CASE q \in [op : {"mark"}, url : Urls, val : {-1, 1}, batch : Batches]
  BY <1>2
<1>3. CASE q \in [op : {"upload_urls"}, found : SUBSET Urls]
  BY <1>3
<1>4. CASE q \in [op : {"upload_article"}, url : Urls, from : SUBSET Urls]
  BY <1>4
<1>5. CASE q \in [op : {"finish"}, url : Urls, val : {-2, 2, 3}]
  BY <1>5
<1> QED BY <1>1, <1>2, <1>3, <1>4, <1>5 DEF Query, T!Settled

\* What the driver's queue is after its head has been answered.
LEMMA RestTypes ==
  ASSUME queue \in Seq(Query), queue # <<>>
  PROVE  /\ Head(queue) \in Query
         /\ C!Rest \in Seq(Query)
         /\ Head(queue) = queue[1]
         /\ DOMAIN C!Rest = 1 .. Len(queue) - 1
         /\ \A i \in DOMAIN C!Rest : i + 1 \in DOMAIN queue /\ C!Rest[i] = queue[i + 1]
BY HeadTailProperties DEF C!Rest

\* Whatever the server carries out keeps the tables well-typed.
LEMMA TableTypes ==
  ASSUME T!TypeOK, NEW u \in Urls, NEW s \in T!Status, NEW S \in SUBSET Urls
  PROVE  /\ T!UpdateStatus(u, s) => T!TypeOK'
         /\ T!InsertUrls(S) => T!TypeOK'
         /\ T!InsertContent(u, S) => T!TypeOK'
         /\ UNCHANGED tables => T!TypeOK'
<1>1. T!UpdateStatus(u, s) => T!TypeOK'
  BY DEF T!TypeOK, T!UpdateStatus
<1>2. T!InsertUrls(S) => T!TypeOK'
  BY DEF T!TypeOK, T!InsertUrls
<1>3. T!InsertContent(u, S) => T!TypeOK'
  BY DEF T!TypeOK, T!InsertContent, T!ContentRow
<1>4. UNCHANGED tables => T!TypeOK'
  BY DEF T!TypeOK, tables
<1> QED BY <1>1, <1>2, <1>3, <1>4

\* The instance of FiniteSets inside Tables counts as FiniteSets does.
LEMMA SameCardinality == \A S : T!Cardinality(S) = Cardinality(S)
BY DEF T!Cardinality, Cardinality

\* A batch has at least one row, and a finite number of them.
LEMMA ListingTypes ==
  ASSUME T!TypeOK, NEW S \in T!Listing, T!Fresh # {}
  PROVE  S \in SUBSET Urls /\ Cardinality(S) \in Nat \ {0}
<1>1. S \subseteq Urls /\ S \subseteq T!Fresh
  BY DEF T!Listing, T!Fresh, T!TypeOK
<1>2. IsFiniteSet(S)
  BY <1>1, CrawlerAssumption, FS_Subset
<1>3. Cardinality(S) \in Nat
  BY <1>2, FS_CardinalityType
<1>4. S # {}
  BY SameCardinality, FS_EmptySet, CrawlerAssumption DEF T!Listing
<1>5. Cardinality(S) # 0
  BY <1>2, <1>4, FS_EmptySet
<1> QED BY <1>1, <1>3, <1>5

-----------------------------------------------------------------------------
(***************************************************************************)
(* Types                                                                   *)
(***************************************************************************)
LEMMA TypeInit == Init => TypeOK
<1> SUFFICES ASSUME Init PROVE TypeOK
  OBVIOUS
<1> USE DEF Init, Started
<1>1. T!TypeOK
  BY CrawlerAssumption DEF T!Init, T!TypeOK, T!Status
<1>2. D!TypeOK
  BY DEF D!Init, D!TypeOK
<1>3. P!TypeOK
  BY DEF P!Init, P!TypeOK, P!Stages
<1>4. queue \in Seq(Query)
  BY QueryTypes DEF Launch
<1>5. remaining \in [Batches -> Int]
  OBVIOUS
<1>6. faults \in 0 .. MaxFaults
  BY CrawlerAssumption
<1>7. fatal \in BOOLEAN /\ up \in BOOLEAN
  BY Zenon
<1>8. /\ pending \in Seq(Urls) /\ batchTimers \in Nat /\ crashes \in Nat
      /\ interrupted \in SUBSET Urls
  OBVIOUS
<1> HIDE DEF Init, Started
<1> QED BY <1>1, <1>2, <1>3, <1>4, <1>5, <1>6, <1>7, <1>8 DEF TypeOK

\* A call of batch_download keeps the queue and the timers well-typed.
LEMMA TypeBatch ==
  ASSUME NEW q \in Seq(Query), NEW n \in Nat, NEW p, batch_download(q, n, p)
  PROVE  queue' \in Seq(Query) /\ batchTimers' \in Nat
BY QueryTypes DEF batch_download

\* So does one of process_pending, with the pipeline.
LEMMA TypeProcess ==
  ASSUME P!TypeOK, NEW q \in Seq(Query), NEW p \in Seq(Urls), process_pending(q, p)
  PROVE  queue' \in Seq(Query) /\ P!TypeOK' /\ files' = files
<1>1. CASE p = <<>>
  BY <1>1 DEF process_pending, P!Idle, P!TypeOK, P!Stages
<1>2. CASE p # <<>>
  <2>1. Head(p) \in Urls
    BY <1>2
  <2>2. queue' \in Seq(Query)
    BY SMTT(20), <1>2, <2>1, QueryTypes DEF process_pending
  <2>3. P!TypeOK' /\ files' = files
    BY <1>2, <2>1 DEF process_pending, P!process, P!TypeOK, P!Stages, P!QueryStages
  <2> QED BY <2>2, <2>3
<1> QED BY <1>1, <1>2

\* clean only removes.
LEMMA TypeClean ==
  ASSUME D!TypeOK, P!clean(page)
  PROVE  files' \in SUBSET Urls /\ outputs' \in [P!Folders -> SUBSET Urls]
BY DEF D!TypeOK, P!clean

\* An extractor adds the page's text to at most one folder.
LEMMA TypeWrote ==
  ASSUME P!TypeOK, page \in Urls, NEW f \in P!Folders, P!Wrote(f)
  PROVE  outputs' \in [P!Folders -> SUBSET Urls]
BY DEF P!TypeOK, P!Wrote

\* Steps that leave a component's variables alone leave its types alone.
LEMMA TypeUnchanged ==
  /\ T!TypeOK /\ UNCHANGED tables => T!TypeOK'
  /\ D!TypeOK /\ UNCHANGED <<transfers, files>> => D!TypeOK'
  /\ P!TypeOK /\ UNCHANGED <<stage, page, outputs>> => P!TypeOK'
BY DEF T!TypeOK, D!TypeOK, P!TypeOK, tables

LEMMA TypeFault ==
  ASSUME faults \in 0 .. MaxFaults, Fault \/ UNCHANGED faults
  PROVE  faults' \in 0 .. MaxFaults
BY CrawlerAssumption DEF Fault

\* The callback of a download asks for one status update.
LEMMA TypeDownloaded ==
  ASSUME queue \in Seq(Query), NEW t \in D!Transfer, NEW err \in BOOLEAN, downloaded(t, err)
  PROVE  queue' \in Seq(Query) /\ fatal' = fatal
<1>1. /\ t.url \in Urls /\ t.batch \in Batches
      /\ (IF err THEN -1 ELSE 1) \in {-1, 1}
  BY DEF D!Transfer
<1>2. Mark(t.url, IF err THEN -1 ELSE 1, t.batch) \in Query
  BY <1>1, QueryTypes
<1> QED BY <1>2 DEF downloaded, C!Enqueue

LEMMA TypeTimers == TypeOK /\ (BatchTimer \/ ProcessTimer \/ MetricsTimer) => TypeOK'
<1> SUFFICES ASSUME TypeOK
             PROVE  (BatchTimer => TypeOK') /\ (ProcessTimer => TypeOK') /\ (MetricsTimer => TypeOK')
  OBVIOUS
<1> USE DEF TypeOK
<1>1. ASSUME BatchTimer PROVE TypeOK'
  <2>1. batchTimers - 1 \in Nat
    BY <1>1 DEF BatchTimer
  <2>2. queue' \in Seq(Query) /\ batchTimers' \in Nat
    BY <1>1, <2>1, TypeBatch DEF BatchTimer
  <2> QED BY <1>1, <2>2, TypeUnchanged DEF BatchTimer, pipeline, history
<1>2. ASSUME ProcessTimer PROVE TypeOK'
  <2>1. queue' \in Seq(Query) /\ P!TypeOK' /\ files' = files
    BY <1>2, TypeProcess DEF ProcessTimer
  <2> QED BY <1>2, <2>1, TypeUnchanged DEF ProcessTimer, batching, history
<1>3. ASSUME MetricsTimer PROVE TypeOK'
  <2>1. queue' \in Seq(Query) /\ fatal' = fatal
    BY <1>3, QueryTypes DEF MetricsTimer, C!Enqueue
  <2> QED BY <1>3, <2>1, TypeUnchanged DEF MetricsTimer, pipeline, batching, history
<1> QED BY <1>1, <1>2, <1>3

LEMMA TypeNetwork == TypeOK /\ Network => TypeOK'
<1> SUFFICES ASSUME TypeOK, NEW t \in transfers,
                    \/ Response(t) \/ RequestError(t) \/ FileFinish(t)
                    \/ FileError(t) \/ RequestEnd(t)
             PROVE  TypeOK'
  BY DEF Network
<1> USE DEF TypeOK
<1>1. t \in D!Transfer
  BY DEF D!TypeOK
<1>2. D!TypeOK'
  BY <1>1 DEF Response, RequestError, FileFinish, FileError, RequestEnd,
              D!Response, D!RequestError, D!FileFinish, D!FileError, D!RequestEnd,
              D!Move, D!End, D!TypeOK, D!Transfer, D!Phases
<1>3. queue' \in Seq(Query) /\ fatal' = fatal
  <2>1. CASE Response(t) \/ RequestEnd(t)
    BY <2>1 DEF Response, RequestEnd, conn
  <2>2. CASE RequestError(t) \/ FileError(t)
    BY <1>1, <2>2, TypeDownloaded DEF RequestError, FileError
  <2>3. CASE FileFinish(t)
    BY <1>1, <2>3, TypeDownloaded DEF FileFinish
  <2> QED BY <2>1, <2>2, <2>3
<1>4. faults' \in 0 .. MaxFaults
  <2>1. Fault \/ UNCHANGED faults
    BY DEF Response, RequestError, FileFinish, FileError, RequestEnd
  <2> QED BY <2>1, TypeFault
<1>5. UNCHANGED notNetwork
  BY DEF Response, RequestError, FileFinish, FileError, RequestEnd
<1> QED BY <1>2, <1>3, <1>4, <1>5, TypeUnchanged DEF notNetwork, pipeline, batching, history

\* The callbacks of the pipeline find their page at the head of pending.
LEMMA Working ==
  ASSUME TypeOK, PipePage, stage # "idle"
  PROVE  page \in Urls /\ pending # <<>> /\ Head(pending) = page /\ Tail(pending) \in Seq(Urls)
BY HeadTailProperties DEF TypeOK, PipePage

\* A query of the pipeline that is answered is the one the stage waits for.
LEMMA Answering ==
  ASSUME TypeOK, PipeQuery, PipePage, queue # <<>>, Head(queue).op \in P!QueryStages
  PROVE  /\ stage = Head(queue).op /\ stage # "idle"
         /\ Head(queue).op \in {"finish", "upload_article"} => Head(queue).url = page
<1>1. 1 \in DOMAIN queue /\ queue[1] = Head(queue)
  BY RestTypes DEF TypeOK
<1>2. 1 \in Places(queue, P!QueryStages)
  BY <1>1 DEF Places
<1>3. Head(queue).op \in {"finish", "upload_article"}
        => 1 \in Places(queue, {"finish", "upload_article"})
  BY <1>1 DEF Places
<1> QED BY <1>1, <1>2, <1>3 DEF PipeQuery, PipePage, P!QueryStages

\* What the callback of process() asks for is a query.
LEMMA TypeProcessed ==
  ASSUME NEW q \in Seq(Query), pending # <<>>, Head(pending) \in Urls,
         NEW err \in BOOLEAN, NEW is_article \in BOOLEAN, processed(q, err, is_article)
  PROVE  queue' \in Seq(Query)
<1>1. (IF err THEN -2 ELSE IF is_article THEN 2 ELSE 3) \in {-2, 2, 3}
  OBVIOUS
<1> QED BY <1>1, QueryTypes DEF processed

LEMMA TypeChildren == TypeOK /\ PipePage /\ Children => TypeOK'
<1> SUFFICES ASSUME TypeOK, PipePage, Children PROVE TypeOK'
  OBVIOUS
<1> USE DEF TypeOK
<1>1. UNCHANGED notChild
  BY DEF Children, UrlExtractClosed, VerifyArticleClosed, ContentExtractClosed, MetaExtractClosed
<1>2. /\ queue' \in Seq(Query)
      /\ files' \in SUBSET Urls
      /\ P!TypeOK'
  <2>1. ASSUME NEW readable \in BOOLEAN, UrlExtractClosed(readable)
        PROVE  queue' \in Seq(Query)
    <3>1. CASE readable
      <4>1. PICK S \in SUBSET Urls : queue' = Append(queue, UploadUrls(S \cup {Root}))
        BY <2>1, <3>1 DEF UrlExtractClosed
      <4>2. UploadUrls(S \cup {Root}) \in Query
        BY QueryTypes, CrawlerAssumption
      <4> QED BY <4>1, <4>2
    <3>2. CASE ~readable
      BY <2>1, <3>2 DEF UrlExtractClosed
    <3> QED BY <3>1, <3>2
  <2>2. ASSUME NEW readable \in BOOLEAN, UrlExtractClosed(readable)
        PROVE  files' \in SUBSET Urls /\ P!TypeOK'
    BY <2>2 DEF UrlExtractClosed, P!UrlExtractClosed, P!GoTo, P!TypeOK, P!Stages,
                P!QueryStages, D!TypeOK
  <2>3. CASE VerifyArticleClosed
    <3>1. CASE P!NotArticle /\ processed(queue, FALSE, FALSE)
      <4>1. queue' \in Seq(Query)
        BY <3>1, Working, TypeProcessed DEF P!NotArticle
      <4>2. files' \in SUBSET Urls /\ outputs' \in [P!Folders -> SUBSET Urls]
        BY <3>1, TypeClean DEF P!NotArticle
      <4>3. P!TypeOK'
        BY <3>1, <4>2 DEF P!NotArticle, P!GoTo, P!TypeOK, P!Stages, P!QueryStages
      <4> QED BY <4>1, <4>2, <4>3
    <3>2. CASE P!IsArticle /\ UNCHANGED queue
      BY <3>2 DEF P!IsArticle, P!GoTo, P!TypeOK, P!Stages, D!TypeOK
    <3> QED BY <2>3, <3>1, <3>2 DEF VerifyArticleClosed
  <2>4. CASE ContentExtractClosed
    <3>1. outputs' \in [P!Folders -> SUBSET Urls]
      BY <2>4, Working, TypeWrote DEF ContentExtractClosed, P!ContentExtractClosed, P!Folders
    <3> QED BY <2>4, <3>1 DEF ContentExtractClosed, P!ContentExtractClosed, P!GoTo,
                              P!TypeOK, P!Stages, D!TypeOK
  <2>5. CASE MetaExtractClosed
    <3>1. outputs' \in [P!Folders -> SUBSET Urls] /\ page \in Urls
      BY <2>5, Working, TypeWrote DEF MetaExtractClosed, P!MetaExtractClosed, P!Folders
    <3>2. UploadArticle(page, P!ReadOutputs(outputs')) \in Query
      BY <3>1, QueryTypes DEF P!ReadOutputs
    <3> QED BY <2>5, <3>1, <3>2 DEF MetaExtractClosed, P!MetaExtractClosed, P!GoTo,
                                    P!TypeOK, P!Stages, P!QueryStages, D!TypeOK
  <2> QED BY <2>1, <2>2, <2>3, <2>4, <2>5 DEF Children
<1> QED BY <1>1, <1>2, TypeUnchanged DEF notChild, batching, history, D!TypeOK

LEMMA TypeList ==
  ASSUME TypeOK, NEW ok \in BOOLEAN, ListAnswered(ok)
  PROVE  TypeOK'
<1> USE DEF TypeOK
<1>1. queue' \in Seq(Query)
  BY RestTypes DEF ListAnswered, Answers
<1>2. faults' \in 0 .. MaxFaults
  BY TypeFault DEF ListAnswered, Outcome
<1>3. D!TypeOK' /\ remaining' \in [Batches -> Int] /\ batchTimers' \in Nat
  <2>1. CASE ok /\ T!Fresh # {}
    <3>1. PICK S \in T!Listing, b \in Batches \ InUse :
            /\ D!download(S, b)
            /\ remaining' = [remaining EXCEPT ![b] = Cardinality(S)]
            /\ UNCHANGED batchTimers
      BY <2>1 DEF ListAnswered
    <3>2. S \in SUBSET Urls /\ Cardinality(S) \in Int
      BY <2>1, ListingTypes
    <3>3. D!TypeOK'
      BY <3>1, <3>2 DEF D!download, D!TypeOK, D!Transfer, D!Phases
    <3> QED BY <3>1, <3>2, <3>3
  <2>2. CASE ~(ok /\ T!Fresh # {})
    BY <2>2 DEF ListAnswered, D!TypeOK
  <2> QED BY <2>1, <2>2
<1> QED BY <1>1, <1>2, <1>3, TypeUnchanged DEF ListAnswered, pipeline, history

LEMMA TypeMark ==
  ASSUME TypeOK, NEW ok \in BOOLEAN, MarkAnswered(ok)
  PROVE  TypeOK'
<1> USE DEF TypeOK
<1> DEFINE q == Head(queue)
<1>1. queue # <<>> /\ q \in Query /\ q.op = "mark" /\ C!Rest \in Seq(Query)
  BY RestTypes DEF MarkAnswered, Answers
<1>2. q.url \in Urls /\ q.val \in T!Status /\ q.batch \in Batches
  BY <1>1, QueryFields DEF T!Status
<1>3. T!TypeOK'
  BY <1>2, TableTypes DEF MarkAnswered
<1>4. pending' \in Seq(Urls) /\ remaining' \in [Batches -> Int]
  BY <1>2 DEF MarkAnswered, push
<1>5. queue' \in Seq(Query) /\ batchTimers' \in Nat
  BY <1>1, TypeBatch DEF MarkAnswered
<1>6. faults' \in 0 .. MaxFaults
  BY TypeFault DEF MarkAnswered, Outcome
<1> QED BY <1>3, <1>4, <1>5, <1>6, TypeUnchanged DEF MarkAnswered, pipeline, history

LEMMA TypeUrls ==
  ASSUME TypeOK, PipePage, NEW ok \in BOOLEAN, UrlsAnswered(ok)
  PROVE  TypeOK'
<1> USE DEF TypeOK
<1>1. Head(queue) \in Query /\ Head(queue).op = "upload_urls" /\ C!Rest \in Seq(Query)
  BY RestTypes DEF UrlsAnswered, Answers
<1>2. T!TypeOK'
  <2>1. Head(queue).found \in SUBSET Urls /\ Seed \in Urls /\ 0 \in T!Status
    BY <1>1, QueryFields, CrawlerAssumption DEF T!Status
  <2>2. T!InsertUrls(Head(queue).found) \/ UNCHANGED tables
    BY DEF UrlsAnswered
  <2> QED BY <2>1, <2>2, TableTypes
<1>3. P!TypeOK' /\ D!TypeOK'
  BY DEF UrlsAnswered, P!UrlsUploaded, P!GoTo, P!TypeOK, P!Stages, D!TypeOK
<1> QED BY <1>1, <1>2, <1>3 DEF UrlsAnswered, batching, history

LEMMA TypeArticle ==
  ASSUME TypeOK, PipePage, NEW ok \in BOOLEAN, ArticleAnswered(ok)
  PROVE  TypeOK'
<1> USE DEF TypeOK
<1>1. Head(queue) \in Query /\ Head(queue).op = "upload_article" /\ C!Rest \in Seq(Query)
  BY RestTypes DEF ArticleAnswered, Answers
<1>2. T!TypeOK'
  <2>1. Head(queue).url \in Urls /\ Head(queue).from \in SUBSET Urls
    BY <1>1, QueryFields
  <2> QED BY <2>1, TableTypes, CrawlerAssumption DEF ArticleAnswered, T!Status
<1>3. queue' \in Seq(Query)
  BY <1>1, Working, TypeProcessed DEF ArticleAnswered, P!ArticleUploaded
<1>4. files' \in SUBSET Urls /\ outputs' \in [P!Folders -> SUBSET Urls]
  BY TypeClean DEF ArticleAnswered, P!ArticleUploaded
<1>5. P!TypeOK' /\ D!TypeOK'
  BY <1>4 DEF ArticleAnswered, P!ArticleUploaded, P!GoTo, P!TypeOK, P!Stages,
              P!QueryStages, D!TypeOK
<1> QED BY <1>2, <1>3, <1>5 DEF ArticleAnswered, batching, history

LEMMA TypeFinish ==
  ASSUME TypeOK, PipeQuery, PipePage, NEW ok \in BOOLEAN, FinishAnswered(ok)
  PROVE  TypeOK'
<1> USE DEF TypeOK
<1>1. queue # <<>> /\ Head(queue) \in Query /\ Head(queue).op = "finish" /\ C!Rest \in Seq(Query)
  BY RestTypes DEF FinishAnswered, Answers
<1>2. T!TypeOK'
  <2>1. Head(queue).url \in Urls /\ Head(queue).val \in T!Status
    BY <1>1, QueryFields DEF T!Status
  <2> QED BY <2>1, TableTypes DEF FinishAnswered
<1>3. pending' \in Seq(Urls)
  BY <1>1, Answering, Working DEF FinishAnswered, P!QueryStages
<1>4. queue' \in Seq(Query) /\ P!TypeOK' /\ files' = files
  BY <1>1, <1>3, TypeProcess DEF FinishAnswered
<1>5. faults' \in 0 .. MaxFaults
  BY TypeFault DEF FinishAnswered, Outcome
<1> QED BY <1>2, <1>3, <1>4, <1>5, TypeUnchanged DEF FinishAnswered, batching, history

LEMMA TypeUnanswered ==
  ASSUME TypeOK, Unanswered
  PROVE  T!TypeOK'
<1> USE DEF TypeOK
<1>1. CASE UNCHANGED tables
  BY <1>1, TypeUnchanged
<1>2. CASE C!Serving /\ Execute(Head(queue))
  <2> DEFINE q == Head(queue)
  <2>1. q \in Query
    BY <1>2, RestTypes DEF C!Serving
  <2>2. CASE q.op \in {"mark", "finish"} /\ T!UpdateStatus(q.url, q.val)
    <3>1. q.url \in Urls /\ q.val \in T!Status
      BY <2>1, <2>2, QueryFields DEF T!Status
    <3> QED BY <2>2, <3>1, TableTypes
  <2>3. CASE q.op = "upload_urls" /\ T!InsertUrls(q.found)
    <3>1. q.found \in SUBSET Urls
      BY <2>1, <2>3, QueryFields
    <3> QED BY <2>3, <3>1, TableTypes, CrawlerAssumption DEF T!Status
  <2>4. CASE q.op = "upload_article" /\ T!InsertContent(q.url, q.from)
    <3>1. q.url \in Urls /\ q.from \in SUBSET Urls
      BY <2>1, <2>4, QueryFields
    <3> QED BY <2>4, <3>1, TableTypes DEF T!Status
  <2> QED BY <1>2, <2>2, <2>3, <2>4 DEF Execute
<1> QED BY <1>1, <1>2 DEF Unanswered

\* What a running extractor writes when the program dies is the page's text.
LEMMA TypeOrphaned ==
  ASSUME TypeOK, PipePage, P!Orphaned
  PROVE  outputs' \in [P!Folders -> SUBSET Urls]
<1>1. CASE stage \in {"extract_content", "extract_metadata"}
  <2>1. page \in Urls
    BY <1>1, Working
  <2>2. P!Wrote("content") \/ P!Wrote("meta")
    BY <1>1 DEF P!Orphaned
  <2> QED BY <2>1, <2>2, TypeWrote DEF P!Folders, TypeOK
<1>2. CASE stage \notin {"extract_content", "extract_metadata"}
  BY <1>2 DEF P!Orphaned, TypeOK, P!TypeOK
<1> QED BY <1>1, <1>2

LEMMA TypeDies ==
  ASSUME TypeOK, PipePage, Dies, T!TypeOK', faults' \in 0 .. MaxFaults
  PROVE  TypeOK'
<1> USE DEF TypeOK, Dies
<1>1. D!TypeOK'
  BY DEF D!TypeOK
<1>2. P!TypeOK'
  BY TypeOrphaned DEF P!TypeOK, P!Stages
<1>3. queue' \in Seq(Query) /\ pending' \in Seq(Urls)
  OBVIOUS
<1>4. remaining' \in [Batches -> Int] /\ batchTimers' \in Nat /\ crashes' \in Nat
  OBVIOUS
<1>5. interrupted' \in SUBSET Urls
  BY DEF P!TypeOK
<1>6. up' \in BOOLEAN /\ fatal' \in BOOLEAN
  BY Zenon
<1> HIDE DEF Dies
<1> QED BY <1>1, <1>2, <1>3, <1>4, <1>5, <1>6

LEMMA TypeLoss ==
  TypeOK /\ PipePage /\ (ConnectionLost \/ ConnectionLostUnheard \/ Crash \/ Restart) => TypeOK'
<1> SUFFICES ASSUME TypeOK, PipePage,
                    ConnectionLost \/ ConnectionLostUnheard \/ Crash \/ Restart
             PROVE  TypeOK'
  OBVIOUS
<1>1. CASE ConnectionLost
  <2>1. T!TypeOK'
    BY <1>1, TypeUnanswered DEF ConnectionLost
  <2>2. fatal' \in BOOLEAN
    BY <1>1, Zenon DEF ConnectionLost, C!ConnectionLost
  <2>3. faults' \in 0 .. MaxFaults
    BY <1>1, TypeFault DEF ConnectionLost, TypeOK
  <2> QED BY <1>1, <2>1, <2>2, <2>3, TypeUnchanged
          DEF ConnectionLost, C!ConnectionLost, TypeOK, pipeline, batching, history
<1>2. CASE ConnectionLostUnheard
  <2>1. T!TypeOK' /\ faults' \in 0 .. MaxFaults
    BY <1>2, TypeUnchanged, TypeFault DEF ConnectionLostUnheard, TypeOK
  <2> QED BY <1>2, <2>1, TypeDies DEF ConnectionLostUnheard
<1>3. CASE Crash
  <2>1. T!TypeOK' /\ faults' \in 0 .. MaxFaults
    BY <1>3, TypeUnanswered DEF Crash, TypeOK
  <2> QED BY <1>3, <2>1, TypeDies DEF Crash
<1>4. CASE Restart
  <2>1. queue' \in Seq(Query)
    BY <1>4, QueryTypes DEF Restart, Launch
  <2>2. up' \in BOOLEAN
    BY <1>4, Zenon DEF Restart
  <2> QED BY <1>4, <2>1, <2>2, TypeUnchanged
          DEF Restart, TypeOK, pipeline, batching, history
<1> QED BY <1>1, <1>2, <1>3, <1>4

\* The answers nothing of the two loops hangs on.
LEMMA TypeAside == TypeOK /\ (HandshakeAnswered \/ MetricsAnswered) => TypeOK'
<1> SUFFICES ASSUME TypeOK, HandshakeAnswered \/ MetricsAnswered PROVE TypeOK'
  OBVIOUS
<1>1. queue' \in Seq(Query)
  BY RestTypes DEF HandshakeAnswered, MetricsAnswered, Answers, TypeOK
<1> QED BY <1>1, TypeUnchanged DEF HandshakeAnswered, MetricsAnswered, TypeOK, pipeline,
                                   batching, history

LEMMA TypeNext == TypeOK /\ PipeQuery /\ PipePage /\ [Next]_vars => TypeOK'
<1> SUFFICES ASSUME TypeOK, PipeQuery, PipePage, [Next]_vars PROVE TypeOK'
  OBVIOUS
<1>1. CASE BatchTimer \/ ProcessTimer \/ MetricsTimer
  BY <1>1, TypeTimers
<1>2. CASE Network
  BY <1>2, TypeNetwork
<1>3. CASE Children
  BY <1>3, TypeChildren
<1>4. CASE Callback
  <2>1. CASE HandshakeAnswered \/ MetricsAnswered
    BY <2>1, TypeAside
  <2>2. ASSUME NEW ok \in BOOLEAN,
               \/ ListAnswered(ok) \/ MarkAnswered(ok) \/ UrlsAnswered(ok)
               \/ ArticleAnswered(ok) \/ FinishAnswered(ok)
        PROVE  TypeOK'
    BY <2>2, TypeList, TypeMark, TypeUrls, TypeArticle, TypeFinish
  <2> QED BY <1>4, <2>1, <2>2 DEF Callback
<1>5. CASE ConnectionLost \/ ConnectionLostUnheard \/ Crash \/ Restart
  BY <1>5, TypeLoss
<1>6. CASE UNCHANGED vars
  BY <1>6, TypeUnchanged DEF vars, TypeOK, conn, pipeline, batching, history
<1> QED BY <1>1, <1>2, <1>3, <1>4, <1>5, <1>6 DEF Next

-----------------------------------------------------------------------------
(***************************************************************************)
(* The places of a kind of query in a queue that grows and shrinks         *)
(***************************************************************************)
LEMMA PlacesOfAppend ==
  ASSUME NEW r \in Seq(Query), NEW e \in Query, NEW O
  PROVE  /\ e.op \in O => Places(Append(r, e), O) = Places(r, O) \cup {Len(r) + 1}
         /\ e.op \notin O => Places(Append(r, e), O) = Places(r, O)
         /\ \A i \in Places(r, O) : Append(r, e)[i] = r[i]
         /\ Append(r, e)[Len(r) + 1] = e
<1>1. /\ DOMAIN Append(r, e) = DOMAIN r \cup {Len(r) + 1}
      /\ \A i \in DOMAIN r : Append(r, e)[i] = r[i]
      /\ Append(r, e)[Len(r) + 1] = e
  BY AppendProperties
<1> QED BY <1>1 DEF Places

LEMMA PlacesOfRest ==
  ASSUME queue \in Seq(Query), queue # <<>>, NEW O
  PROVE  /\ \A i \in Places(C!Rest, O) : i + 1 \in Places(queue, O) /\ C!Rest[i] = queue[i + 1]
         /\ \A i \in Places(queue, O) : i # 1 => i - 1 \in Places(C!Rest, O)
         /\ Head(queue).op \in O <=> 1 \in Places(queue, O)
<1>1. /\ DOMAIN queue = 1 .. Len(queue) /\ Len(queue) \in Nat \ {0}
      /\ Head(queue) = queue[1]
  BY RestTypes
<1>2. /\ DOMAIN C!Rest = 1 .. Len(queue) - 1
      /\ \A i \in DOMAIN C!Rest : C!Rest[i] = queue[i + 1]
  BY RestTypes
<1> QED BY <1>1, <1>2 DEF Places

\* A queue without its head has none of a kind that occurs at most once and
\* whose one occurrence was the head.
LEMMA RestHasNone ==
  ASSUME queue \in Seq(Query), queue # <<>>, NEW O,
         AtMostOne(queue, O), Head(queue).op \in O
  PROVE  Places(C!Rest, O) = {}
<1>1. 1 \in Places(queue, O)
  BY PlacesOfRest
<1>2. ASSUME NEW i \in Places(C!Rest, O) PROVE FALSE
  <2>1. i + 1 \in Places(queue, O) /\ i \in 1 .. Len(queue) - 1
    BY PlacesOfRest, RestTypes DEF Places
  <2>2. i + 1 = 1
    BY <1>1, <2>1 DEF AtMostOne
  <2> QED BY <2>1, <2>2
<1> QED BY <1>2

\* The queue an event leaves: the one it found, or that without its head.
Left(r) == \/ r = queue
           \/ queue # <<>> /\ r = C!Rest

\* No query of a kind in O is new, and those there are have kept their order.
NoneNew(O) ==
  \E d \in {0, 1} : \A i \in Places(queue', O) :
    i + d \in Places(queue, O) /\ queue'[i] = queue[i + d]

LEMMA LeftAny ==
  /\ Left(queue)
  /\ queue # <<>> => Left(C!Rest)
BY DEF Left

LEMMA NoneNewRule ==
  ASSUME TypeOK, NEW O, NEW r, Left(r),
         \/ queue' = r
         \/ \E e \in Query : e.op \notin O /\ queue' = Append(r, e)
  PROVE  NoneNew(O)
<1>1. queue \in Seq(Query) /\ r \in Seq(Query)
  BY RestTypes DEF TypeOK, Left
<1>2. /\ Places(queue', O) = Places(r, O)
      /\ \A i \in Places(r, O) : queue'[i] = r[i]
  <2>1. CASE queue' = r
    BY <2>1
  <2>2. ASSUME NEW e \in Query, e.op \notin O, queue' = Append(r, e)
        PROVE  /\ Places(queue', O) = Places(r, O)
               /\ \A i \in Places(r, O) : queue'[i] = r[i]
    <3>1. /\ Places(Append(r, e), O) = Places(r, O)
          /\ \A i \in Places(r, O) : Append(r, e)[i] = r[i]
      BY <1>1, <2>2, PlacesOfAppend DEF Places
    <3> QED BY <2>2, <3>1
  <2> QED BY <2>1, <2>2
<1>3. CASE r = queue
  <2>1. \A i \in Places(queue', O) : i + 0 = i
    BY <1>1, <1>2 DEF Places
  <2> QED BY <1>2, <1>3, <2>1 DEF NoneNew
<1>4. CASE queue # <<>> /\ r = C!Rest
  BY <1>1, <1>2, <1>4, PlacesOfRest DEF NoneNew
<1> QED BY <1>3, <1>4 DEF Left

-----------------------------------------------------------------------------
(***************************************************************************)
(* The pipeline, when something else happens                               *)
(***************************************************************************)
Pipe == PipeQuery /\ PipePage /\ DoneIsStored /\ TextOwned

\* What the pipeline's part of the invariant asks of any other event.
Elsewhere ==
  /\ NoneNew(P!QueryStages)
  /\ UNCHANGED <<pipeline, outputs, interrupted>>
  /\ pending # <<>> => pending' # <<>> /\ Head(pending') = Head(pending)

LEMMA PipeElsewhere ==
  ASSUME TypeOK, TypeOK', PipeQuery, PipePage, Elsewhere
  PROVE  PipeQuery' /\ PipePage'
<1>1. PICK d \in {0, 1} : \A i \in Places(queue', P!QueryStages) :
        i + d \in Places(queue, P!QueryStages) /\ queue'[i] = queue[i + d]
  BY DEF Elsewhere, NoneNew
<1>2. \A i \in Places(queue', P!QueryStages) : i \in Int
  BY DEF Places, TypeOK
<1>3. PipeQuery'
  BY <1>1, <1>2 DEF PipeQuery, AtMostOne, Elsewhere, pipeline
<1>4. \A i \in Places(queue', {"finish", "upload_article"}) :
        i + d \in Places(queue, {"finish", "upload_article"}) /\ queue'[i] = queue[i + d]
  BY <1>1 DEF Places, P!QueryStages
<1>5. PipePage'
  BY <1>4 DEF PipePage, Elsewhere, pipeline
<1> QED BY <1>3, <1>5

\* batch_download asks for nothing but a list.
LEMMA BatchNone ==
  ASSUME TypeOK, NEW r, Left(r), NEW n, NEW p, batch_download(r, n, p)
  PROVE  NoneNew(P!QueryStages)
<1>1. List \in Query /\ List.op \notin P!QueryStages
  BY QueryTypes DEF List, P!QueryStages
<1>2. queue' = r \/ queue' = Append(r, List)
  BY DEF batch_download
<1> QED BY <1>1, <1>2, NoneNewRule

\* A download's callback asks for nothing but a mark.
LEMMA DownloadedNone ==
  ASSUME TypeOK, NEW t \in D!Transfer, NEW err \in BOOLEAN, downloaded(t, err),
         NEW O, "mark" \notin O
  PROVE  NoneNew(O)
<1> DEFINE e == Mark(t.url, IF err THEN -1 ELSE 1, t.batch)
<1>1. (IF err THEN -1 ELSE 1) \in {-1, 1} /\ t.url \in Urls /\ t.batch \in Batches
  BY DEF D!Transfer
<1>2. e \in Query
  BY <1>1, QueryTypes
<1>3. e.op \notin O
  BY DEF Mark
<1>4. queue' = Append(queue, e)
  BY DEF downloaded, C!Enqueue
<1>5. \E x \in Query : x.op \notin O /\ queue' = Append(queue, x)
  <2> HIDE DEF e
  <2> QED BY <1>2, <1>3, <1>4
<1> QED BY <1>5, LeftAny, NoneNewRule

LEMMA NetworkNone ==
  ASSUME TypeOK, Network, NEW O, "mark" \notin O
  PROVE  NoneNew(O)
<1>1. PICK t \in transfers : \/ Response(t) \/ RequestError(t) \/ FileFinish(t)
                             \/ FileError(t) \/ RequestEnd(t)
  BY DEF Network
<1>2. t \in D!Transfer
  BY DEF TypeOK, D!TypeOK
<1>3. CASE Response(t) \/ RequestEnd(t)
  BY <1>3, LeftAny, NoneNewRule DEF Response, RequestEnd, conn
<1>4. CASE RequestError(t) \/ FileError(t)
  BY <1>2, <1>4, DownloadedNone DEF RequestError, FileError
<1>5. CASE FileFinish(t)
  BY <1>2, <1>5, DownloadedNone DEF FileFinish
<1> QED BY <1>1, <1>3, <1>4, <1>5

\* Only the pipeline's own events ask for its queries.
LEMMA NoNewStage ==
  ASSUME TypeOK, \/ BatchTimer \/ MetricsTimer \/ Network
                 \/ HandshakeAnswered \/ MetricsAnswered
                 \/ \E ok \in BOOLEAN : ListAnswered(ok) \/ MarkAnswered(ok)
  PROVE  NoneNew(P!QueryStages)
<1>1. CASE BatchTimer
  BY <1>1, LeftAny, BatchNone DEF BatchTimer
<1>2. CASE Network
  BY <1>2, NetworkNone DEF P!QueryStages
<1>3. CASE HandshakeAnswered \/ MetricsAnswered
  BY <1>3, LeftAny, NoneNewRule DEF HandshakeAnswered, MetricsAnswered, Answers
<1>4. ASSUME NEW ok \in BOOLEAN, ListAnswered(ok) PROVE NoneNew(P!QueryStages)
  BY <1>4, LeftAny, NoneNewRule DEF ListAnswered, Answers
<1>5. ASSUME NEW ok \in BOOLEAN, MarkAnswered(ok) PROVE NoneNew(P!QueryStages)
  <2>1. Left(C!Rest)
    BY <1>5, LeftAny DEF MarkAnswered, Answers
  <2>2. CASE queue' = C!Rest
    BY <2>1, <2>2, NoneNewRule
  <2>3. CASE batch_download(C!Rest, batchTimers, pending')
    BY <2>1, <2>3, BatchNone
  <2> QED BY <1>5, <2>2, <2>3 DEF MarkAnswered
<1>6. CASE MetricsTimer
  <2>1. InsertMetrics \in Query /\ InsertMetrics.op \notin P!QueryStages
    BY QueryTypes DEF InsertMetrics, P!QueryStages
  <2>2. queue' = Append(queue, InsertMetrics)
    BY <1>6 DEF MetricsTimer, C!Enqueue
  <2> QED BY <2>1, <2>2, LeftAny, NoneNewRule
<1> QED BY <1>1, <1>2, <1>3, <1>4, <1>5, <1>6

LEMMA StoreElsewhere ==
  ASSUME TypeOK, TypeOK', DoneIsStored, TextOwned, Elsewhere,
         \/ UNCHANGED tables
         \/ \E u \in Urls, v \in {-1, 1} : T!UpdateStatus(u, v)
  PROVE  DoneIsStored' /\ TextOwned'
<1>1. PICK d \in {0, 1} : \A i \in Places(queue', P!QueryStages) :
        i + d \in Places(queue, P!QueryStages) /\ queue'[i] = queue[i + d]
  BY DEF Elsewhere, NoneNew
<1>2. /\ \A i \in Places(queue', {"finish"}) :
            i + d \in Places(queue, {"finish"}) /\ queue'[i] = queue[i + d]
      /\ \A i \in Places(queue', {"upload_article"}) :
            i + d \in Places(queue, {"upload_article"}) /\ queue'[i] = queue[i + d]
  BY <1>1 DEF Places, P!QueryStages
<1>3. content' = content /\ \A u \in Urls : status'[u] = 2 => status[u] = 2
  BY DEF tables, T!UpdateStatus, T!TypeOK, TypeOK
<1>4. DoneIsStored'
  BY <1>2, <1>3 DEF DoneIsStored, StoredBeforeDone, Stored
<1>5. TextOwned'
  BY <1>2, <1>3 DEF TextOwned, ForeignTextOnlyAfterCrash, Extracting, Elsewhere, pipeline
<1> QED BY <1>4, <1>5

\* Events of the two other loops leave the pipeline's part alone.
LEMMA PipeOther ==
  ASSUME TypeOK, TypeOK', Pipe, BatchTimer \/ MetricsTimer \/ Network
                            \/ HandshakeAnswered \/ MetricsAnswered
                            \/ \E ok \in BOOLEAN : ListAnswered(ok) \/ MarkAnswered(ok)
  PROVE  Pipe'
<1>0. NoneNew(P!QueryStages)
  BY NoNewStage
<1>1. CASE BatchTimer
  <2>1. Elsewhere /\ UNCHANGED tables
    BY <1>0, <1>1 DEF BatchTimer, Elsewhere, history
  <2> QED BY <2>1, PipeElsewhere, StoreElsewhere DEF Pipe
<1>2. CASE Network
  <2>1. Elsewhere /\ UNCHANGED tables
    BY <1>0, <1>2 DEF Elsewhere, Network, Response, RequestError, FileFinish, FileError,
                      RequestEnd, notNetwork, history
  <2> QED BY <2>1, PipeElsewhere, StoreElsewhere DEF Pipe
<1>3. CASE HandshakeAnswered \/ MetricsAnswered
  <2>1. Elsewhere /\ UNCHANGED tables
    BY <1>0, <1>3 DEF HandshakeAnswered, MetricsAnswered, Elsewhere, history
  <2> QED BY <2>1, PipeElsewhere, StoreElsewhere DEF Pipe
<1>4. ASSUME NEW ok \in BOOLEAN, ListAnswered(ok) PROVE Pipe'
  <2>1. Elsewhere /\ UNCHANGED tables
    BY <1>0, <1>4 DEF ListAnswered, Elsewhere, history
  <2> QED BY <2>1, PipeElsewhere, StoreElsewhere DEF Pipe
<1>5. ASSUME NEW ok \in BOOLEAN, MarkAnswered(ok) PROVE Pipe'
  <2> DEFINE q == Head(queue)
  <2>1. queue # <<>> /\ q \in Query /\ q.op = "mark"
    BY <1>5, RestTypes DEF MarkAnswered, Answers, TypeOK
  <2>2. q.url \in Urls /\ q.val \in {-1, 1}
    BY <2>1, QueryFields
  <2>3. pending # <<>> => pending' # <<>> /\ Head(pending') = Head(pending)
    <3>1. pending \in Seq(Urls) /\ pending' = Append(pending, q.url)
      BY <1>5 DEF MarkAnswered, push, TypeOK
    <3> HIDE DEF q
    <3> QED BY <2>2, <3>1, HeadTailAppend
  <2>4. Elsewhere
    BY <1>0, <1>5, <2>3 DEF MarkAnswered, Elsewhere, history
  <2>5. UNCHANGED tables \/ \E u \in Urls, v \in {-1, 1} : T!UpdateStatus(u, v)
    BY <1>5, <2>2 DEF MarkAnswered
  <2> QED BY <2>4, <2>5, PipeElsewhere, StoreElsewhere DEF Pipe
<1>6. CASE MetricsTimer
  <2>1. Elsewhere /\ UNCHANGED tables
    BY <1>0, <1>6 DEF MetricsTimer, Elsewhere, history
  <2> QED BY <2>1, PipeElsewhere, StoreElsewhere DEF Pipe
<1> QED BY <1>1, <1>2, <1>3, <1>4, <1>5, <1>6

-----------------------------------------------------------------------------
(***************************************************************************)
(* The pipeline's own events: each finds the queue without a query of the  *)
(* pipeline, or answers the one there is, and asks for at most one more.   *)
(***************************************************************************)
\* The queue an event of the pipeline leaves before it asks for anything.
Cleared(r) == r \in Seq(Query) /\ Places(r, P!QueryStages) = {}

LEMMA ClearedBetween ==
  ASSUME TypeOK, PipeQuery, stage \notin P!QueryStages
  PROVE  Cleared(queue)
BY DEF Cleared, PipeQuery, Places, TypeOK

LEMMA ClearedByAnswer ==
  ASSUME TypeOK, PipeQuery, queue # <<>>, Head(queue).op \in P!QueryStages
  PROVE  Cleared(C!Rest)
BY RestTypes, RestHasNone DEF Cleared, PipeQuery, TypeOK

\* What must hold of the query e an event asks for.
Proper(e) ==
  /\ e.op = stage'
  /\ e.op \in {"finish", "upload_article"} => e.url = page'
  /\ e.op = "finish" /\ e.val = 2 => Stored(e.url)'
  /\ e.op = "upload_article" => e.from \subseteq {e.url} \cup interrupted'

\* What must hold of the state whatever is asked.
PageProper ==
  stage' # "idle" => page' \in Urls /\ pending' # <<>> /\ Head(pending') = page'

OutputsProper ==
  \A f \in P!Folders : outputs'[f] \subseteq interrupted' \cup (IF Extracting' THEN {page'} ELSE {})

LEMMA PipeSilent ==
  ASSUME NEW r, Cleared(r), queue' = r,
         PageProper, OutputsProper, StoredBeforeDone', ForeignTextOnlyAfterCrash'
  PROVE  Pipe'
<1>1. /\ Places(queue', P!QueryStages) = {}
      /\ Places(queue', {"finish", "upload_article"}) = {}
      /\ Places(queue', {"finish"}) = {} /\ Places(queue', {"upload_article"}) = {}
  BY DEF Cleared, Places, P!QueryStages
<1>2. PipeQuery' /\ PipePage'
  BY <1>1 DEF PipeQuery, PipePage, AtMostOne, PageProper
<1>3. DoneIsStored' /\ TextOwned'
  BY <1>1 DEF DoneIsStored, TextOwned, OutputsProper
<1> QED BY <1>2, <1>3 DEF Pipe

LEMMA PipeAsks ==
  ASSUME NEW r, Cleared(r), NEW e \in Query, queue' = Append(r, e), Proper(e),
         PageProper, OutputsProper, StoredBeforeDone', ForeignTextOnlyAfterCrash'
  PROVE  Pipe'
<1>1. \A i \in Places(queue', P!QueryStages) : i = Len(r) + 1 /\ queue'[i] = e
  BY PlacesOfAppend DEF Cleared
<1>2. \A O \in {{"finish"}, {"upload_article"}, {"finish", "upload_article"}} :
        \A i \in Places(queue', O) : queue'[i] = e /\ e.op \in O
  BY <1>1 DEF Places, P!QueryStages
<1>3. PipeQuery'
  BY <1>1 DEF PipeQuery, AtMostOne, Proper
<1>4. PipePage'
  BY <1>2 DEF PipePage, PageProper, Proper
<1>5. DoneIsStored'
  BY <1>2 DEF DoneIsStored, Proper
<1>6. TextOwned'
  BY <1>2 DEF TextOwned, OutputsProper, Proper
<1> QED BY <1>3, <1>4, <1>5, <1>6 DEF Pipe

\* A call of process_pending, once the queries of the last page are done with
\* and their text is gone.
LEMMA PipeProcess ==
  ASSUME NEW r, Cleared(r), NEW p \in Seq(Urls), process_pending(r, p), pending' = p,
         \A f \in P!Folders : outputs[f] \subseteq interrupted, UNCHANGED interrupted,
         StoredBeforeDone', ForeignTextOnlyAfterCrash'
  PROVE  Pipe'
<1>1. CASE p = <<>>
  <2>1. queue' = r /\ PageProper /\ OutputsProper
    BY <1>1 DEF process_pending, P!Idle, PageProper, OutputsProper, Extracting
  <2> QED BY <2>1, PipeSilent
<1>2. CASE p # <<>>
  <2>1. Head(p) \in Urls /\ P!process(Head(p))
    BY <1>2 DEF process_pending
  <2>2. PageProper /\ OutputsProper
    BY <1>2, <2>1 DEF P!process, PageProper, OutputsProper, Extracting
  <2>3. CASE Head(p) \in files
    <3>1. queue' = r
      BY <1>2, <2>3 DEF process_pending
    <3> QED BY <2>2, <3>1, PipeSilent
  <2>4. CASE Head(p) \notin files
    <3>1. queue' = Append(r, Finish(Head(p), -2)) /\ Finish(Head(p), -2) \in Query
      BY <1>2, <2>1, <2>4, QueryTypes DEF process_pending
    <3>2. Proper(Finish(Head(p), -2))
      BY <2>1, <2>4 DEF P!process, Proper, Finish
    <3> QED BY <2>2, <3>1, <3>2, PipeAsks
  <2> QED BY <2>3, <2>4
<1> QED BY <1>1, <1>2

\* Between two pages no extractor's text is left but what a crash left.
LEMMA TextGone ==
  ASSUME TextOwned, ~Extracting
  PROVE  \A f \in P!Folders : outputs[f] \subseteq interrupted
BY DEF TextOwned

LEMMA PipeProcessTimer ==
  ASSUME TypeOK, Pipe, ProcessTimer
  PROVE  Pipe'
<1>1. Cleared(queue)
  BY ClearedBetween DEF ProcessTimer, Pipe, P!QueryStages
<1>2. \A f \in P!Folders : outputs[f] \subseteq interrupted
  BY TextGone DEF ProcessTimer, Pipe, Extracting
<1>3. StoredBeforeDone' /\ ForeignTextOnlyAfterCrash'
  BY DEF ProcessTimer, Pipe, DoneIsStored, TextOwned, StoredBeforeDone, Stored,
         ForeignTextOnlyAfterCrash, tables, history
<1>4. /\ process_pending(queue, pending) /\ pending' = pending
      /\ UNCHANGED interrupted /\ pending \in Seq(Urls)
  BY DEF ProcessTimer, history, TypeOK
<1> QED BY <1>1, <1>2, <1>3, <1>4, PipeProcess

LEMMA PipeFinish ==
  ASSUME TypeOK, TypeOK', Pipe, NEW ok \in BOOLEAN, FinishAnswered(ok)
  PROVE  Pipe'
<1> DEFINE q == Head(queue)
<1>1. queue # <<>> /\ q \in Query /\ q.op = "finish" /\ q.url \in Urls /\ q.val \in {-2, 2, 3}
  BY RestTypes, QueryFields DEF FinishAnswered, Answers, TypeOK
<1>2. Cleared(C!Rest) /\ stage = "finish"
  BY <1>1, ClearedByAnswer, Answering DEF Pipe, P!QueryStages
<1>3. \A f \in P!Folders : outputs[f] \subseteq interrupted
  BY <1>2, TextGone DEF Pipe, Extracting
<1>4. content' = content /\ UNCHANGED interrupted
  BY DEF FinishAnswered, tables, T!UpdateStatus, history
<1>5. StoredBeforeDone'
  <2>1. q.val = 2 => Stored(q.url)
    <3>1. 1 \in Places(queue, {"finish"}) /\ queue[1] = q
      BY <1>1, PlacesOfRest, RestTypes DEF TypeOK
    <3> QED BY <3>1 DEF Pipe, DoneIsStored
  <2>2. \A u \in Urls : status'[u] = 2 => status[u] = 2 \/ (u = q.url /\ q.val = 2)
    BY <1>1 DEF FinishAnswered, T!UpdateStatus, tables, TypeOK, T!TypeOK
  <2> QED BY <1>4, <2>1, <2>2 DEF Pipe, DoneIsStored, StoredBeforeDone, Stored
<1>6. ForeignTextOnlyAfterCrash'
  BY <1>4 DEF Pipe, TextOwned, ForeignTextOnlyAfterCrash
<1>7. process_pending(C!Rest, pending') /\ pending' \in Seq(Urls)
  BY DEF FinishAnswered, TypeOK
<1> QED BY <1>2, <1>3, <1>4, <1>5, <1>6, <1>7, PipeProcess

LEMMA PipeUrlExtract ==
  ASSUME TypeOK, Pipe, NEW readable \in BOOLEAN, UrlExtractClosed(readable)
  PROVE  Pipe'
<1> USE DEF UrlExtractClosed, P!UrlExtractClosed, P!GoTo
<1>1. Cleared(queue)
  BY ClearedBetween DEF Pipe, P!QueryStages
<1>2. PageProper /\ OutputsProper
  BY DEF Pipe, PipePage, TextOwned, PageProper, OutputsProper, Extracting, notChild, history
<1>3. StoredBeforeDone' /\ ForeignTextOnlyAfterCrash'
  BY DEF Pipe, DoneIsStored, TextOwned, StoredBeforeDone, Stored,
         ForeignTextOnlyAfterCrash, notChild, tables, history
<1>4. CASE readable
  <2>1. PICK S \in SUBSET Urls : queue' = Append(queue, UploadUrls(S \cup {Root}))
    BY <1>4
  <2>2. PICK e \in Query : e = UploadUrls(S \cup {Root})
    BY QueryTypes, CrawlerAssumption
  <2>3. Proper(e)
    BY <1>4, <2>2 DEF Proper, UploadUrls
  <2> QED BY <1>1, <1>2, <1>3, <2>1, <2>2, <2>3, PipeAsks
<1>5. CASE ~readable
  <2>1. queue' = queue
    BY <1>5
  <2> QED BY <1>1, <1>2, <1>3, <2>1, PipeSilent
<1> QED BY <1>4, <1>5

LEMMA PipeVerify ==
  ASSUME TypeOK, Pipe, VerifyArticleClosed
  PROVE  Pipe'
<1>1. stage = "verify_article"
  BY DEF VerifyArticleClosed, P!NotArticle, P!IsArticle
<1>2. Cleared(queue)
  BY <1>1, ClearedBetween DEF Pipe, P!QueryStages
<1>3. StoredBeforeDone' /\ ForeignTextOnlyAfterCrash' /\ UNCHANGED <<pending, interrupted, page>>
  BY DEF VerifyArticleClosed, P!NotArticle, P!IsArticle, P!GoTo, Pipe, DoneIsStored, TextOwned,
         StoredBeforeDone, Stored, ForeignTextOnlyAfterCrash, notChild, tables, history
<1>4. PageProper
  BY <1>1, <1>3 DEF Pipe, PipePage, PageProper
<1>5. CASE P!NotArticle /\ processed(queue, FALSE, FALSE)
  <2>1. page \in Urls /\ Head(pending) = page
    BY <1>1, Working DEF Pipe
  <2>2. PICK e \in Query : e = Finish(page, 3)
    BY <2>1, QueryTypes
  <2>3. queue' = Append(queue, e)
    BY <1>5, <2>1, <2>2 DEF processed
  <2>4. Proper(e)
    BY <1>3, <1>5, <2>2 DEF Proper, Finish, P!NotArticle, P!GoTo
  <2>5. OutputsProper
    BY <1>5 DEF OutputsProper, P!NotArticle, P!clean
  <2> QED BY <1>2, <1>3, <1>4, <2>3, <2>4, <2>5, PipeAsks
<1>6. CASE P!IsArticle /\ UNCHANGED queue
  <2>1. OutputsProper
    BY <1>1, <1>3, <1>6 DEF OutputsProper, P!IsArticle, P!GoTo, Pipe, TextOwned, Extracting
  <2>2. queue' = queue
    BY <1>6
  <2> QED BY <1>2, <1>3, <1>4, <2>1, <2>2, PipeSilent
<1> QED BY <1>5, <1>6 DEF VerifyArticleClosed

LEMMA PipeContent ==
  ASSUME TypeOK, TypeOK', Pipe, ContentExtractClosed
  PROVE  Pipe'
<1> USE DEF ContentExtractClosed, P!ContentExtractClosed, P!GoTo
<1>1. Cleared(queue) /\ queue' = queue
  BY ClearedBetween DEF Pipe, P!QueryStages
<1>2. PageProper
  BY DEF Pipe, PipePage, PageProper, notChild, history
<1>3. StoredBeforeDone' /\ ForeignTextOnlyAfterCrash' /\ UNCHANGED <<interrupted, page>>
  BY DEF Pipe, DoneIsStored, TextOwned, StoredBeforeDone, Stored,
         ForeignTextOnlyAfterCrash, notChild, tables, history
<1>4. OutputsProper
  <2>1. \A f \in P!Folders : outputs[f] \subseteq interrupted
    BY TextGone DEF Pipe, Extracting
  <2>2. \A f \in P!Folders : outputs'[f] \subseteq outputs[f] \cup {page}
    BY DEF P!Wrote, TypeOK, P!TypeOK, P!Folders
  <2> QED BY <1>3, <2>1, <2>2 DEF OutputsProper, Extracting
<1> QED BY <1>1, <1>2, <1>3, <1>4, PipeSilent

LEMMA PipeMeta ==
  ASSUME TypeOK, TypeOK', Pipe, MetaExtractClosed
  PROVE  Pipe'
<1> USE DEF MetaExtractClosed, P!MetaExtractClosed, P!GoTo
<1>1. Cleared(queue) /\ page \in Urls /\ Extracting
  BY ClearedBetween, Working DEF Pipe, P!QueryStages, Extracting
<1>2. PageProper
  BY DEF Pipe, PipePage, PageProper, notChild, history
<1>3. StoredBeforeDone' /\ ForeignTextOnlyAfterCrash' /\ UNCHANGED <<interrupted, page>>
  BY DEF Pipe, DoneIsStored, TextOwned, StoredBeforeDone, Stored,
         ForeignTextOnlyAfterCrash, notChild, tables, history
<1>4. \A f \in P!Folders : outputs'[f] \subseteq interrupted \cup {page}
  <2>1. \A f \in P!Folders : outputs[f] \subseteq interrupted \cup {page}
    BY <1>1 DEF Pipe, TextOwned
  <2>2. \A f \in P!Folders : outputs'[f] \subseteq outputs[f] \cup {page}
    BY DEF P!Wrote, TypeOK, P!TypeOK, P!Folders
  <2> QED BY <2>1, <2>2
<1>5. OutputsProper
  BY <1>3, <1>4 DEF OutputsProper, Extracting
<1>6. P!ReadOutputs(outputs') \in SUBSET Urls /\ P!ReadOutputs(outputs') \subseteq interrupted \cup {page}
  BY <1>4 DEF P!ReadOutputs, TypeOK, P!TypeOK
<1>7. PICK e \in Query : e = UploadArticle(page, P!ReadOutputs(outputs'))
  BY <1>1, <1>6, QueryTypes
<1>8. Proper(e)
  BY <1>3, <1>6, <1>7 DEF Proper, UploadArticle
<1>9. queue' = Append(queue, e)
  BY <1>7
<1> QED BY <1>1, <1>2, <1>3, <1>5, <1>8, <1>9, PipeAsks

LEMMA PipeUrls ==
  ASSUME TypeOK, Pipe, NEW ok \in BOOLEAN, UrlsAnswered(ok)
  PROVE  Pipe'
<1> USE DEF UrlsAnswered, P!UrlsUploaded, P!GoTo
<1>1. Cleared(C!Rest) /\ queue' = C!Rest
  BY ClearedByAnswer DEF Pipe, P!QueryStages, Answers
<1>2. PageProper
  BY DEF Pipe, PipePage, PageProper
<1>3. StoredBeforeDone' /\ ForeignTextOnlyAfterCrash'
  BY DEF Pipe, DoneIsStored, TextOwned, StoredBeforeDone, Stored,
         ForeignTextOnlyAfterCrash, T!InsertUrls, tables, history
<1>4. OutputsProper
  BY DEF Pipe, TextOwned, OutputsProper, Extracting, history
<1> QED BY <1>1, <1>2, <1>3, <1>4, PipeSilent

LEMMA PipeArticle ==
  ASSUME TypeOK, Pipe, NEW ok \in BOOLEAN, ArticleAnswered(ok)
  PROVE  Pipe'
<1> DEFINE q == Head(queue)
<1> USE DEF ArticleAnswered, P!ArticleUploaded, P!GoTo
<1>1. /\ queue # <<>> /\ q \in Query /\ q.op = "upload_article"
      /\ 1 \in Places(queue, {"upload_article"}) /\ queue[1] = q
  BY RestTypes, PlacesOfRest DEF Answers, TypeOK
<1>2. Cleared(C!Rest) /\ q.url = page
  BY <1>1, ClearedByAnswer, Answering DEF Pipe, P!QueryStages
<1>3. page \in Urls /\ pending # <<>> /\ Head(pending) = page
  BY Working DEF Pipe
<1>4. UNCHANGED <<page, pending, interrupted>>
  BY DEF history
<1>5. PageProper
  BY <1>3, <1>4 DEF PageProper
<1>6. OutputsProper
  BY DEF OutputsProper, P!clean
<1>7. content \subseteq content' /\ UNCHANGED status
  BY DEF T!InsertContent, tables
<1>8. ok => Stored(page)'
  <2> SUFFICES ASSUME ok PROVE Stored(page)'
    OBVIOUS
  <2>1. [url |-> q.url, from |-> q.from] \in content'
    BY DEF T!InsertContent
  <2> QED BY <1>2, <1>4, <2>1 DEF Stored
<1>9. StoredBeforeDone'
  BY <1>7 DEF Pipe, DoneIsStored, StoredBeforeDone, Stored
<1>10. ForeignTextOnlyAfterCrash'
  <2>1. q.from \subseteq {q.url} \cup interrupted
    BY <1>1 DEF Pipe, TextOwned
  <2>2. \A r \in content' : r \in content \/ r = [url |-> q.url, from |-> q.from]
    BY DEF T!InsertContent, tables
  <2> QED BY <1>4, <2>1, <2>2 DEF Pipe, TextOwned, ForeignTextOnlyAfterCrash
<1>11. PICK v \in {-2, 2} : v = IF ~ok THEN -2 ELSE 2
  OBVIOUS
<1>12. PICK e \in Query : e = Finish(page, v)
  BY <1>3, QueryTypes
<1>13. queue' = Append(C!Rest, e)
  BY <1>3, <1>11, <1>12 DEF processed
<1>14. Proper(e)
  BY <1>4, <1>8, <1>11, <1>12 DEF Proper, Finish
<1> QED BY <1>2, <1>5, <1>6, <1>9, <1>10, <1>13, <1>14, PipeAsks

-----------------------------------------------------------------------------
(***************************************************************************)
(* The pipeline, when the connection or the program is lost                *)
(***************************************************************************)
\* The query at the server may be carried out without an answer: whatever it
\* was, the tables stay in order.
LEMMA StoreUnanswered ==
  ASSUME TypeOK, Pipe, Unanswered, interrupted \subseteq interrupted'
  PROVE  content \subseteq content' /\ StoredBeforeDone' /\ ForeignTextOnlyAfterCrash'
<1>1. CASE UNCHANGED tables
  BY <1>1 DEF tables, Pipe, DoneIsStored, TextOwned, StoredBeforeDone, Stored,
              ForeignTextOnlyAfterCrash
<1>2. CASE C!Serving /\ Execute(Head(queue))
  <2> DEFINE q == Head(queue)
  <2>1. queue # <<>> /\ q \in Query /\ queue[1] = q
    BY <1>2, RestTypes DEF C!Serving, TypeOK
  <2>2. CASE q.op \in {"mark", "finish"} /\ T!UpdateStatus(q.url, q.val)
    <3>1. q.url \in Urls /\ q.val = 2 => q.op = "finish"
      BY <2>1, <2>2, QueryFields
    <3>2. q.op = "finish" => 1 \in Places(queue, {"finish"})
      BY <2>1, PlacesOfRest DEF TypeOK
    <3>3. q.val = 2 => Stored(q.url)
      BY <2>1, <2>2, <3>1, <3>2, QueryFields DEF Pipe, DoneIsStored
    <3>4. \A u \in Urls : status'[u] = 2 => status[u] = 2 \/ (u = q.url /\ q.val = 2)
      BY <2>2, <3>1 DEF T!UpdateStatus, TypeOK, T!TypeOK
    <3>5. content' = content
      BY <2>2 DEF T!UpdateStatus
    <3> QED BY <3>3, <3>4, <3>5 DEF Pipe, DoneIsStored, TextOwned, StoredBeforeDone, Stored,
                                    ForeignTextOnlyAfterCrash
  <2>3. CASE q.op = "upload_urls" /\ T!InsertUrls(q.found)
    BY <2>3 DEF T!InsertUrls, Pipe, DoneIsStored, TextOwned, StoredBeforeDone, Stored,
                ForeignTextOnlyAfterCrash
  <2>4. CASE q.op = "upload_article" /\ T!InsertContent(q.url, q.from)
    <3>1. 1 \in Places(queue, {"upload_article"})
      BY <2>1, <2>4, PlacesOfRest DEF TypeOK
    <3>2. q.from \subseteq {q.url} \cup interrupted
      BY <2>1, <3>1 DEF Pipe, TextOwned
    <3>3. content' = content \cup {[url |-> q.url, from |-> q.from]} /\ status' = status
      BY <2>4 DEF T!InsertContent
    <3> QED BY <3>2, <3>3 DEF Pipe, DoneIsStored, TextOwned, StoredBeforeDone, Stored,
                              ForeignTextOnlyAfterCrash
  <2> QED BY <1>2, <2>2, <2>3, <2>4 DEF Execute
<1> QED BY <1>1, <1>2 DEF Unanswered

LEMMA PipeConnectionLost ==
  ASSUME TypeOK, Pipe, ConnectionLost
  PROVE  Pipe'
<1>1. /\ UNCHANGED <<stage, page, pending, outputs, interrupted, queue>> /\ Unanswered
  BY DEF ConnectionLost, C!ConnectionLost, pipeline, history
<1>2. content \subseteq content' /\ StoredBeforeDone' /\ ForeignTextOnlyAfterCrash'
  BY <1>1, StoreUnanswered
<1>3. PipeQuery' /\ PipePage'
  BY <1>1 DEF Pipe, PipeQuery, PipePage, AtMostOne, Places
<1>4. DoneIsStored'
  BY <1>1, <1>2 DEF Pipe, DoneIsStored, Places, Stored
<1>5. TextOwned'
  BY <1>1, <1>2 DEF Pipe, TextOwned, Places, Extracting
<1> QED BY <1>3, <1>4, <1>5 DEF Pipe

LEMMA PipeDies ==
  ASSUME TypeOK, TypeOK', Pipe, Dies, StoredBeforeDone', ForeignTextOnlyAfterCrash'
  PROVE  Pipe'
<1>1. Cleared(<<>>) /\ queue' = <<>> /\ PageProper
  BY DEF Cleared, Places, Dies, PageProper
<1>2. \A f \in P!Folders : outputs[f] \subseteq interrupted'
  <2>1. Extracting => page # None
    BY Working, CrawlerAssumption DEF Extracting, Pipe
  <2> QED BY <2>1 DEF Pipe, TextOwned, Dies
<1>3. \A f \in P!Folders : outputs'[f] \subseteq interrupted'
  <2>1. CASE stage \in {"extract_content", "extract_metadata"}
    <3>1. page \in interrupted'
      BY <2>1, Working, CrawlerAssumption DEF Dies, Pipe
    <3>2. \A f \in P!Folders : outputs'[f] \subseteq outputs[f] \cup {page}
      BY <2>1 DEF Dies, P!Orphaned, P!Wrote, TypeOK, P!TypeOK, P!Folders
    <3> QED BY <1>2, <3>1, <3>2
  <2>2. CASE stage \notin {"extract_content", "extract_metadata"}
    BY <1>2, <2>2 DEF Dies, P!Orphaned
  <2> QED BY <2>1, <2>2
<1>4. OutputsProper
  BY <1>3 DEF OutputsProper
<1> QED BY <1>1, <1>4, PipeSilent

LEMMA PipeLoss ==
  ASSUME TypeOK, TypeOK', Pipe,
         ConnectionLost \/ ConnectionLostUnheard \/ Crash \/ Restart
  PROVE  Pipe'
<1>1. CASE ConnectionLost
  BY <1>1, PipeConnectionLost
<1>2. CASE ConnectionLostUnheard
  <2>1. StoredBeforeDone' /\ ForeignTextOnlyAfterCrash'
    BY <1>2, StoreUnanswered DEF ConnectionLostUnheard, Dies, Unanswered
  <2> QED BY <1>2, <2>1, PipeDies DEF ConnectionLostUnheard
<1>3. CASE Crash
  <2>1. StoredBeforeDone' /\ ForeignTextOnlyAfterCrash'
    BY <1>3, StoreUnanswered DEF Crash, Dies
  <2> QED BY <1>3, <2>1, PipeDies DEF Crash
<1>4. CASE Restart
  <2>1. Cleared(Launch) /\ queue' = Launch
    BY <1>4, QueryTypes DEF Restart, Cleared, Places, Launch, C!Handshake, List, P!QueryStages
  <2>2. PageProper /\ OutputsProper
    BY <1>4 DEF Restart, PageProper, OutputsProper, Extracting, Pipe, PipePage, TextOwned,
                pipeline, history
  <2>3. StoredBeforeDone' /\ ForeignTextOnlyAfterCrash'
    BY <1>4 DEF Restart, Pipe, DoneIsStored, TextOwned, StoredBeforeDone, Stored,
                ForeignTextOnlyAfterCrash, tables, history
  <2> QED BY <2>1, <2>2, <2>3, PipeSilent
<1> QED BY <1>1, <1>2, <1>3, <1>4

LEMMA PipeInit == Init => Pipe
<1> SUFFICES ASSUME Init PROVE Pipe
  OBVIOUS
<1>1. \A O : O \cap {"handshake", "list"} = {} => Places(queue, O) = {}
  BY DEF Init, Started, Launch, Places, C!Handshake, List
<1>2. PipeQuery /\ PipePage
  BY <1>1 DEF PipeQuery, PipePage, AtMostOne, P!QueryStages, Init, Started
<1>3. DoneIsStored /\ TextOwned
  BY <1>1 DEF DoneIsStored, TextOwned, StoredBeforeDone, ForeignTextOnlyAfterCrash,
              Init, T!Init, P!Init, Started
<1> QED BY <1>2, <1>3 DEF Pipe

LEMMA PipeNext == TypeOK /\ TypeOK' /\ Pipe /\ [Next]_vars => Pipe'
<1> SUFFICES ASSUME TypeOK, TypeOK', Pipe, [Next]_vars PROVE Pipe'
  OBVIOUS
<1>1. CASE BatchTimer \/ MetricsTimer \/ Network
  BY <1>1, PipeOther
<1>2. CASE ProcessTimer
  BY <1>2, PipeProcessTimer
<1>3. CASE Children
  BY <1>3, PipeUrlExtract, PipeVerify, PipeContent, PipeMeta DEF Children
<1>4. CASE Callback
  <2>1. CASE HandshakeAnswered \/ MetricsAnswered
    BY <2>1, PipeOther
  <2>2. ASSUME NEW ok \in BOOLEAN, ListAnswered(ok) \/ MarkAnswered(ok) PROVE Pipe'
    BY <2>2, PipeOther
  <2>3. ASSUME NEW ok \in BOOLEAN,
               UrlsAnswered(ok) \/ ArticleAnswered(ok) \/ FinishAnswered(ok)
        PROVE  Pipe'
    BY <2>3, PipeUrls, PipeArticle, PipeFinish
  <2> QED BY <1>4, <2>1, <2>2, <2>3 DEF Callback
<1>5. CASE ConnectionLost \/ ConnectionLostUnheard \/ Crash \/ Restart
  BY <1>5, PipeLoss
<1>6. CASE UNCHANGED vars
  BY <1>6 DEF vars, tables, conn, pipeline, history, Pipe, PipeQuery, PipePage, DoneIsStored,
              TextOwned, AtMostOne, Places, StoredBeforeDone, Stored, Extracting,
              ForeignTextOnlyAfterCrash
<1> QED BY <1>1, <1>2, <1>3, <1>4, <1>5, <1>6 DEF Next

-----------------------------------------------------------------------------
(***************************************************************************)
(* A dead program's memory, and the chain of batches                       *)
(***************************************************************************)
\* Every event but a death and a restart is one of a program that runs on.
LEMMA RunsOn ==
  ASSUME \/ BatchTimer \/ ProcessTimer \/ MetricsTimer \/ Network \/ Children
         \/ Callback \/ ConnectionLost
  PROVE  up /\ UNCHANGED up
<1>1. CASE BatchTimer \/ ProcessTimer \/ MetricsTimer
  BY <1>1, Zenon DEF BatchTimer, ProcessTimer, MetricsTimer, Running
<1>2. CASE Network
  <2>1. Running /\ UNCHANGED notNetwork
    BY <1>2, Zenon DEF Network, Response, RequestError, FileFinish, FileError, RequestEnd
  <2> QED BY <2>1 DEF notNetwork, Running
<1>3. CASE Children
  <2>1. Running /\ UNCHANGED notChild
    BY <1>3, Zenon DEF Children, UrlExtractClosed, VerifyArticleClosed,
                       ContentExtractClosed, MetaExtractClosed
  <2> QED BY <2>1 DEF notChild, Running
<1>4. CASE HandshakeAnswered \/ MetricsAnswered
  BY <1>4, Zenon DEF HandshakeAnswered, MetricsAnswered, Answers
<1>5. ASSUME NEW ok \in BOOLEAN, ListAnswered(ok) \/ MarkAnswered(ok)
      PROVE  up /\ UNCHANGED up
  BY <1>5, Zenon DEF ListAnswered, MarkAnswered, Answers
<1>6. ASSUME NEW ok \in BOOLEAN, UrlsAnswered(ok) \/ ArticleAnswered(ok) \/ FinishAnswered(ok)
      PROVE  up /\ UNCHANGED up
  BY <1>6, Zenon DEF UrlsAnswered, ArticleAnswered, FinishAnswered, Answers
<1>7. CASE ConnectionLost
  BY <1>7, Zenon DEF ConnectionLost
<1> QED BY <1>1, <1>2, <1>3, <1>4, <1>5, <1>6, <1>7 DEF Callback

LEMMA DeadNext == DeadIsEmpty /\ [Next]_vars => DeadIsEmpty'
<1> SUFFICES ASSUME DeadIsEmpty, [Next]_vars PROVE DeadIsEmpty'
  OBVIOUS
<1>1. CASE ConnectionLostUnheard \/ Crash
  BY <1>1 DEF ConnectionLostUnheard, Crash, Dies, DeadIsEmpty
<1>2. CASE Restart
  BY <1>2, Zenon DEF Restart, DeadIsEmpty
<1>3. CASE UNCHANGED vars
  BY <1>3 DEF vars, conn, pipeline, batching, DeadIsEmpty
<1>4. CASE \/ BatchTimer \/ ProcessTimer \/ MetricsTimer \/ Network \/ Children
            \/ Callback \/ ConnectionLost
  BY <1>4, RunsOn DEF DeadIsEmpty
<1> QED BY <1>1, <1>2, <1>3, <1>4 DEF Next

\* An event asks for at most one query, of a kind in O.
Asks(r, O) == \/ queue' = r
              \/ \E e \in Query : e.op \in O /\ queue' = Append(r, e)

\* The listings in the queue are those there were.
SameLists ==
  /\ NoneNew({"list"})
  /\ Places(queue, {"list"}) # {} => Places(queue', {"list"}) # {}

LEMMA SameListsRule ==
  ASSUME TypeOK, NEW r,
         r = queue \/ (queue # <<>> /\ r = C!Rest /\ Head(queue).op # "list"),
         Asks(r, {"mark", "metrics"} \cup P!QueryStages)
  PROVE  SameLists
<1> DEFINE L == {"list"}
<1>1. queue \in Seq(Query) /\ r \in Seq(Query) /\ Left(r)
  BY RestTypes DEF TypeOK, Left
<1>2. queue' = r \/ \E e \in Query : e.op \notin L /\ queue' = Append(r, e)
  BY DEF Asks, P!QueryStages
<1>3. NoneNew(L)
  <2> HIDE DEF L
  <2> QED BY <1>1, <1>2, NoneNewRule
<1>4. Places(queue', L) = Places(r, L)
  <2>1. ASSUME NEW e \in Query, e.op \notin L, queue' = Append(r, e)
        PROVE  Places(queue', L) = Places(r, L)
    <3> HIDE DEF L
    <3> QED BY <1>1, <2>1, PlacesOfAppend
  <2>2. CASE queue' = r
    BY <2>2
  <2> HIDE DEF L
  <2> QED BY <1>2, <2>1, <2>2
<1>5. Places(queue, L) # {} => Places(r, L) # {}
  BY <1>1, PlacesOfRest
<1> QED BY <1>3, <1>4, <1>5 DEF SameLists

LEMMA ChainSame ==
  ASSUME TypeOK, TypeOK', Chain, SameLists, UNCHANGED batching, up
  PROVE  Chain'
<1> DEFINE L == {"list"}
<1>1. PICK d \in {0, 1} : \A i \in Places(queue', L) : i + d \in Places(queue, L)
  BY DEF SameLists, NoneNew
<1>2. \A i \in Places(queue', L) : i \in Int
  BY DEF Places, TypeOK
<1>3. /\ Places(queue, L) = {} => Places(queue', L) = {}
      /\ Places(queue, L) # {} => Places(queue', L) # {}
      /\ AtMostOne(queue, L) => AtMostOne(queue', L)
  BY <1>1, <1>2 DEF SameLists, AtMostOne
<1> QED BY <1>3 DEF Chain, ChainTimer, ChainList, ChainBatch, Counting, batching

\* A call of batch_download when nothing else will call it.
LEMMA ChainCall ==
  ASSUME NEW r \in Seq(Query), Places(r, {"list"}) = {}, NEW p, batch_download(r, 0, p),
         \A b \in Batches : ~Counting(b)'
  PROVE  Chain'
<1>1. CASE queue' = r /\ batchTimers' = 0 + 1
  BY <1>1 DEF Chain, ChainTimer
<1>2. CASE queue' = Append(r, List) /\ batchTimers' = 0
  <2>1. Places(queue', {"list"}) = {Len(r) + 1}
    BY <1>2, QueryTypes, PlacesOfAppend DEF List
  <2> QED BY <1>2, <2>1 DEF Chain, ChainList, AtMostOne
<1> QED BY <1>1, <1>2 DEF batch_download

\* A call of process_pending asks for a final status at most.
LEMMA ProcessAsks ==
  ASSUME NEW r, NEW p \in Seq(Urls), process_pending(r, p)
  PROVE  Asks(r, P!QueryStages)
<1>1. CASE queue' = r
  BY <1>1 DEF Asks
<1>2. CASE p # <<>> /\ queue' = Append(r, Finish(Head(p), -2))
  <2>1. Finish(Head(p), -2) \in Query
    BY <1>2, QueryTypes
  <2> QED BY <1>2, <2>1 DEF Asks, Finish, P!QueryStages
<1> QED BY <1>1, <1>2 DEF process_pending

\* So does the callback of process().
LEMMA ProcessedAsks ==
  ASSUME NEW r, pending # <<>>, Head(pending) \in Urls,
         NEW err \in BOOLEAN, NEW is_article \in BOOLEAN, processed(r, err, is_article)
  PROVE  Asks(r, P!QueryStages)
<1>1. PICK v \in {-2, 2, 3} : v = IF err THEN -2 ELSE IF is_article THEN 2 ELSE 3
  OBVIOUS
<1>2. Finish(Head(pending), v) \in Query /\ queue' = Append(r, Finish(Head(pending), v))
  BY <1>1, QueryTypes DEF processed
<1> QED BY <1>2 DEF Asks, Finish, P!QueryStages

LEMMA NetworkAsks ==
  ASSUME TypeOK, Network
  PROVE  Asks(queue, {"mark"} \cup P!QueryStages)
<1>1. PICK t \in transfers : \/ Response(t) \/ RequestError(t) \/ FileFinish(t)
                             \/ FileError(t) \/ RequestEnd(t)
  BY DEF Network
<1>2. t.url \in Urls /\ t.batch \in Batches
  BY DEF TypeOK, D!TypeOK, D!Transfer
<1>3. Mark(t.url, -1, t.batch) \in Query /\ Mark(t.url, 1, t.batch) \in Query
  BY <1>2, QueryTypes
<1>4. CASE Response(t) \/ RequestEnd(t)
  BY <1>4 DEF Response, RequestEnd, conn, Asks
<1>5. CASE RequestError(t) \/ FileError(t)
  <2>1. queue' = Append(queue, Mark(t.url, -1, t.batch))
    BY <1>5 DEF RequestError, FileError, downloaded, C!Enqueue
  <2> QED BY <1>3, <2>1 DEF Asks, Mark
<1>6. CASE FileFinish(t)
  <2>1. queue' = Append(queue, Mark(t.url, 1, t.batch))
    BY <1>6 DEF FileFinish, downloaded, C!Enqueue
  <2> QED BY <1>3, <2>1 DEF Asks, Mark
<1> QED BY <1>1, <1>4, <1>5, <1>6

LEMMA ChildrenAsk ==
  ASSUME TypeOK, Pipe, Children
  PROVE  Asks(queue, P!QueryStages)
<1>1. ASSUME NEW readable \in BOOLEAN, UrlExtractClosed(readable)
      PROVE  Asks(queue, P!QueryStages)
  <2>1. CASE readable
    <3>1. PICK S \in SUBSET Urls : queue' = Append(queue, UploadUrls(S \cup {Root}))
      BY <1>1, <2>1 DEF UrlExtractClosed
    <3>2. UploadUrls(S \cup {Root}) \in Query
      BY QueryTypes, CrawlerAssumption
    <3> QED BY <3>1, <3>2 DEF Asks, UploadUrls, P!QueryStages
  <2>2. CASE ~readable
    BY <1>1, <2>2 DEF UrlExtractClosed, Asks
  <2> QED BY <2>1, <2>2
<1>2. CASE VerifyArticleClosed
  <2>1. CASE UNCHANGED queue
    BY <2>1 DEF Asks
  <2>2. CASE P!NotArticle /\ processed(queue, FALSE, FALSE)
    BY <2>2, Working, ProcessedAsks DEF P!NotArticle, Pipe
  <2> QED BY <1>2, <2>1, <2>2 DEF VerifyArticleClosed
<1>3. CASE ContentExtractClosed
  BY <1>3 DEF ContentExtractClosed, Asks
<1>4. CASE MetaExtractClosed
  <2>1. page \in Urls
    BY <1>4, Working DEF MetaExtractClosed, P!MetaExtractClosed, Pipe
  <2>2. outputs' \in [P!Folders -> SUBSET Urls]
    BY <1>4, <2>1, TypeWrote DEF MetaExtractClosed, P!MetaExtractClosed, P!Folders, TypeOK
  <2>3. UploadArticle(page, P!ReadOutputs(outputs')) \in Query
    BY <2>1, <2>2, QueryTypes DEF P!ReadOutputs
  <2> QED BY <1>4, <2>3 DEF MetaExtractClosed, Asks, UploadArticle, P!QueryStages
<1> QED BY <1>1, <1>2, <1>3, <1>4 DEF Children

\* Events that have nothing to do with the chain.
LEMMA ChainOther ==
  ASSUME TypeOK, TypeOK', Pipe, Chain,
         \/ ProcessTimer \/ MetricsTimer \/ Network \/ Children \/ ConnectionLost
         \/ HandshakeAnswered \/ MetricsAnswered
         \/ \E ok \in BOOLEAN : UrlsAnswered(ok) \/ ArticleAnswered(ok) \/ FinishAnswered(ok)
  PROVE  Chain'
<1> DEFINE Others == {"mark", "metrics"} \cup P!QueryStages
<1>1. up
  BY RunsOn DEF Callback
<1>2. CASE ProcessTimer \/ MetricsTimer \/ Network \/ Children \/ ConnectionLost
  <2>1. Asks(queue, Others)
    <3>1. CASE ProcessTimer
      BY <3>1, ProcessAsks DEF ProcessTimer, TypeOK, Asks
    <3>2. CASE ConnectionLost
      BY <3>2 DEF ConnectionLost, C!ConnectionLost, Asks
    <3>3. CASE MetricsTimer
      BY <3>3, QueryTypes DEF MetricsTimer, C!Enqueue, Asks, InsertMetrics
    <3> QED BY <1>2, <3>1, <3>2, <3>3, NetworkAsks, ChildrenAsk DEF Asks
  <2>2. UNCHANGED batching
    <3>1. CASE Network
      BY <3>1 DEF Network, Response, RequestError, FileFinish, FileError, RequestEnd, notNetwork
    <3>2. CASE Children
      BY <3>2 DEF Children, UrlExtractClosed, VerifyArticleClosed, ContentExtractClosed,
                  MetaExtractClosed, notChild
    <3> QED BY <1>2, <3>1, <3>2 DEF ProcessTimer, MetricsTimer, ConnectionLost
  <2> QED BY <1>1, <2>1, <2>2, SameListsRule, ChainSame
<1>3. ASSUME queue # <<>>, Head(queue).op # "list", Asks(C!Rest, Others), UNCHANGED batching
      PROVE  Chain'
  BY <1>1, <1>3, SameListsRule, ChainSame
<1>4. CASE HandshakeAnswered \/ MetricsAnswered
  BY <1>3, <1>4 DEF HandshakeAnswered, MetricsAnswered, Answers, Asks
<1>5. ASSUME NEW ok \in BOOLEAN, UrlsAnswered(ok) PROVE Chain'
  BY <1>3, <1>5 DEF UrlsAnswered, Answers, Asks
<1>6. ASSUME NEW ok \in BOOLEAN, ArticleAnswered(ok) PROVE Chain'
  <2>1. Asks(C!Rest, Others)
    BY <1>6, Working, ProcessedAsks DEF ArticleAnswered, P!ArticleUploaded, Pipe, Asks
  <2> QED BY <1>3, <1>6, <2>1 DEF ArticleAnswered, Answers
<1>7. ASSUME NEW ok \in BOOLEAN, FinishAnswered(ok) PROVE Chain'
  <2>1. Asks(C!Rest, Others)
    BY <1>7, ProcessAsks DEF FinishAnswered, TypeOK, Asks
  <2> QED BY <1>3, <1>7, <2>1 DEF FinishAnswered, Answers
<1> QED BY <1>2, <1>4, <1>5, <1>6, <1>7

LEMMA ChainBatchTimer ==
  ASSUME TypeOK, Chain, BatchTimer
  PROVE  Chain'
<1>1. ChainTimer
  BY RunsOn DEF Chain, ChainList, ChainBatch, BatchTimer
<1>2. queue \in Seq(Query) /\ batch_download(queue, 0, pending) /\ UNCHANGED remaining
  BY <1>1 DEF ChainTimer, BatchTimer, TypeOK
<1>3. \A b \in Batches : ~Counting(b)'
  BY <1>1, <1>2 DEF ChainTimer, Counting
<1> QED BY <1>1, <1>2, <1>3, ChainCall DEF ChainTimer

LEMMA ChainListAnswered ==
  ASSUME TypeOK, Chain, NEW ok \in BOOLEAN, ListAnswered(ok)
  PROVE  Chain'
<1> DEFINE L == {"list"}
<1>1. up /\ queue # <<>> /\ Head(queue).op \in L /\ queue' = C!Rest
  BY DEF ListAnswered, Answers
<1>2. 1 \in Places(queue, L)
  BY <1>1, PlacesOfRest DEF TypeOK
<1>3. ChainList
  BY <1>1, <1>2 DEF Chain, ChainTimer, ChainBatch
<1>4. Places(queue', L) = {}
  BY <1>1, <1>3, RestHasNone DEF ChainList, TypeOK
<1>5. CASE ok /\ T!Fresh # {}
  <2>1. PICK S \in T!Listing, b \in Batches \ InUse :
          remaining' = [remaining EXCEPT ![b] = Cardinality(S)] /\ UNCHANGED batchTimers
    BY <1>5 DEF ListAnswered
  <2>2. Cardinality(S) \in Nat \ {0}
    BY <1>5, ListingTypes DEF TypeOK
  <2>3. \A c \in Batches : Counting(c)' <=> c = b
    BY <1>3, <2>1, <2>2 DEF ChainList, Counting, TypeOK
  <2>4. batchTimers' = 0
    BY <1>3, <2>1 DEF ChainList
  <2> QED BY <1>4, <2>3, <2>4 DEF Chain, ChainBatch
<1>6. CASE ~(ok /\ T!Fresh # {})
  <2>1. batchTimers' = 1 /\ UNCHANGED remaining
    BY <1>3, <1>6 DEF ListAnswered, ChainList
  <2> QED BY <1>3, <1>4, <2>1 DEF Chain, ChainTimer, ChainList, Counting
<1> QED BY <1>5, <1>6

LEMMA ChainMarkAnswered ==
  ASSUME TypeOK, TypeOK', Chain, NEW ok \in BOOLEAN, MarkAnswered(ok)
  PROVE  Chain'
<1> DEFINE L == {"list"}
           b == Head(queue).batch
<1>1. up /\ queue # <<>> /\ Head(queue).op = "mark" /\ b \in Batches
  BY RestTypes, QueryFields DEF MarkAnswered, Answers, TypeOK
<1>2. remaining' = [remaining EXCEPT ![b] = @ - 1]
  BY DEF MarkAnswered
<1>3. /\ remaining'[b] = remaining[b] - 1 /\ remaining[b] \in Int
      /\ \A c \in Batches : c # b => remaining'[c] = remaining[c]
  BY <1>1, <1>2 DEF TypeOK
<1>4. CASE remaining[b] = 1
  <2>1. ChainBatch
    BY <1>1, <1>4 DEF Chain, ChainTimer, ChainList, Counting
  <2>2. batch_download(C!Rest, 0, pending')
    BY <1>3, <1>4, <2>1 DEF MarkAnswered, LastOfBatch, ChainBatch
  <2>3. \A c \in Batches : ~Counting(c)'
    BY <1>1, <1>3, <1>4, <2>1 DEF ChainBatch, Counting
  <2>4. C!Rest \in Seq(Query) /\ Places(C!Rest, L) = {}
    BY <1>1, <2>1, RestTypes, PlacesOfRest DEF ChainBatch, TypeOK
  <2> QED BY <2>2, <2>3, <2>4, ChainCall
<1>5. CASE remaining[b] # 1
  <2>1. ~LastOfBatch(remaining'[b])
    BY <1>3, <1>5 DEF LastOfBatch
  <2>2. queue' = C!Rest /\ UNCHANGED batchTimers
    BY <2>1 DEF MarkAnswered
  <2>3. SameLists
    BY <1>1, <2>2, SameListsRule DEF Asks
  <2>4. \A c \in Batches : Counting(c)' <=> Counting(c)
    BY <1>1, <1>3, <1>5 DEF Counting
  <2>5. PICK d \in {0, 1} : \A i \in Places(queue', L) : i + d \in Places(queue, L)
    BY <2>3 DEF SameLists, NoneNew
  <2>6. \A i \in Places(queue', L) : i \in Int
    BY DEF Places, TypeOK
  <2>7. /\ Places(queue, L) = {} => Places(queue', L) = {}
        /\ Places(queue, L) # {} => Places(queue', L) # {}
        /\ AtMostOne(queue, L) => AtMostOne(queue', L)
    BY <2>3, <2>5, <2>6 DEF SameLists, AtMostOne
  <2> QED BY <1>1, <2>2, <2>4, <2>7 DEF Chain, ChainTimer, ChainList, ChainBatch
<1> QED BY <1>4, <1>5

LEMMA ChainRestart ==
  ASSUME TypeOK, DeadIsEmpty, Restart
  PROVE  Chain'
<1>1. batchTimers' = 0 /\ \A b \in Batches : remaining'[b] = 0
  BY DEF Restart, DeadIsEmpty, batching
<1>2. Places(queue', {"list"}) = {2}
  BY DEF Restart, Launch, Places, C!Handshake, List
<1> QED BY <1>1, <1>2 DEF Chain, ChainList, AtMostOne, Counting

LEMMA ChainInit == Init => Chain
<1> SUFFICES ASSUME Init PROVE Chain
  OBVIOUS
<1>1. Places(queue, {"list"}) = {2}
  BY DEF Init, Started, Launch, Places, C!Handshake, List
<1> QED BY <1>1 DEF Chain, ChainList, AtMostOne, Counting, Init, Started

LEMMA ChainNext ==
  TypeOK /\ TypeOK' /\ Pipe /\ DeadIsEmpty /\ Chain /\ [Next]_vars => Chain'
<1> SUFFICES ASSUME TypeOK, TypeOK', Pipe, DeadIsEmpty, Chain, [Next]_vars PROVE Chain'
  OBVIOUS
<1>1. CASE BatchTimer
  BY <1>1, ChainBatchTimer
<1>2. CASE ProcessTimer \/ MetricsTimer \/ Network \/ Children \/ ConnectionLost
  BY <1>2, ChainOther
<1>3. CASE Callback
  <2>1. CASE HandshakeAnswered \/ MetricsAnswered
    BY <2>1, ChainOther
  <2>2. ASSUME NEW ok \in BOOLEAN, ListAnswered(ok) \/ MarkAnswered(ok) PROVE Chain'
    BY <2>2, ChainListAnswered, ChainMarkAnswered
  <2>3. ASSUME NEW ok \in BOOLEAN,
               UrlsAnswered(ok) \/ ArticleAnswered(ok) \/ FinishAnswered(ok)
        PROVE  Chain'
    BY <2>3, ChainOther
  <2> QED BY <1>3, <2>1, <2>2, <2>3 DEF Callback
<1>4. CASE ConnectionLostUnheard \/ Crash
  BY <1>4 DEF ConnectionLostUnheard, Crash, Dies, Chain
<1>5. CASE Restart
  BY <1>5, ChainRestart
<1>6. CASE UNCHANGED vars
  BY <1>6 DEF vars, conn, batching, Chain, ChainTimer, ChainList, ChainBatch, Counting,
              Places, AtMostOne
<1> QED BY <1>1, <1>2, <1>3, <1>4, <1>5, <1>6 DEF Next

-----------------------------------------------------------------------------
(***************************************************************************)
(* What the invariant says in the words of Crawler's properties            *)
(***************************************************************************)
LEMMA ChainIsOne == TypeOK /\ Chain => OneBatchChain
<1> SUFFICES ASSUME TypeOK, Chain, up
             PROVE  batchTimers + Cardinality(Entries("list"))
                      + Cardinality({b \in Batches : remaining[b] > 0}) = 1
  BY DEF OneBatchChain
<1> DEFINE L == Entries("list")
           B == {b \in Batches : remaining[b] > 0}
<1>1. L = Places(queue, {"list"})
  BY DEF Entries, Places
<1>2. \A S : S = {} => Cardinality(S) = 0
  BY FS_EmptySet
<1>3. \A S : (\E x : S = {x}) => Cardinality(S) = 1
  BY FS_Singleton
<1>4. CASE ChainTimer
  <2>1. batchTimers = 1 /\ L = {} /\ B = {}
    BY <1>1, <1>4 DEF ChainTimer, Counting
  <2>2. Cardinality(L) = 0 /\ Cardinality(B) = 0
    <3> HIDE DEF L, B
    <3> QED BY <1>2, <2>1
  <2> QED BY <2>1, <2>2
<1>5. CASE ChainList
  <2>1. batchTimers = 0 /\ B = {} /\ \E i : L = {i}
    BY <1>1, <1>5 DEF ChainList, Counting, AtMostOne
  <2>2. Cardinality(L) = 1 /\ Cardinality(B) = 0
    <3> HIDE DEF L, B
    <3> QED BY <1>2, <1>3, <2>1
  <2> QED BY <2>1, <2>2
<1>6. CASE ChainBatch
  <2>1. batchTimers = 0 /\ L = {} /\ \E b : B = {b}
    BY SMTT(20), <1>1, <1>6 DEF ChainBatch, Counting
  <2>2. Cardinality(L) = 0 /\ Cardinality(B) = 1
    <3> HIDE DEF L, B
    <3> QED BY <1>2, <1>3, <2>1
  <2> QED BY <2>1, <2>2
<1> QED BY <1>4, <1>5, <1>6 DEF Chain

LEMMA PipeIsHead == TypeOK /\ Pipe => PageIsHead
<1> SUFFICES ASSUME TypeOK, Pipe PROVE PageIsHead
  OBVIOUS
<1>1. stage # "idle" => pending # <<>> /\ pending[1] = page
  BY Working DEF Pipe, TypeOK
<1>2. Entries("finish") \cup Entries("upload_article") = Places(queue, {"finish", "upload_article"})
  BY DEF Entries, Places
<1> QED BY <1>1, <1>2 DEF PageIsHead, Pipe, PipePage

\* No statement of the crawler writes status 0.
LEMMA UpdateMarks ==
  ASSUME TypeOK, NEW u \in Urls, NEW v \in Int, v # 0, T!UpdateStatus(u, v)
  PROVE  \A w \in Urls : status[w] # 0 => status'[w] # 0
BY DEF T!UpdateStatus, TypeOK, T!TypeOK

LEMMA NextMarks ==
  ASSUME TypeOK, [Next]_vars
  PROVE  \A u \in Urls : status[u] # 0 => status'[u] # 0
<1> DEFINE q == Head(queue)
           Goal == \A u \in Urls : status[u] # 0 => status'[u] # 0
<1>1. UNCHANGED status => Goal
  OBVIOUS
<1>2. ASSUME queue # <<>>, q.op \in {"mark", "finish"}, T!UpdateStatus(q.url, q.val)
      PROVE  Goal
  <2>1. q \in Query
    BY <1>2, RestTypes DEF TypeOK
  <2>2. q.url \in Urls /\ q.val \in Int /\ q.val # 0
    BY <1>2, <2>1, QueryFields
  <2> QED BY <1>2, <2>2, UpdateMarks
<1>3. ASSUME Unanswered PROVE Goal
  <2>1. UNCHANGED status \/ (queue # <<>> /\ q.op \in {"mark", "finish"} /\ T!UpdateStatus(q.url, q.val))
    BY <1>3 DEF Unanswered, Execute, C!Serving, T!InsertUrls, T!InsertContent, tables
  <2> HIDE DEF Goal
  <2> QED BY <1>1, <1>2, <2>1
<1>4. ASSUME NEW ok \in BOOLEAN, MarkAnswered(ok) \/ FinishAnswered(ok) PROVE Goal
  <2>1. UNCHANGED status \/ (queue # <<>> /\ q.op \in {"mark", "finish"} /\ T!UpdateStatus(q.url, q.val))
    BY <1>4 DEF MarkAnswered, FinishAnswered, Answers, tables
  <2> HIDE DEF Goal
  <2> QED BY <1>1, <1>2, <2>1
<1>5. ASSUME NEW ok \in BOOLEAN, ListAnswered(ok) \/ UrlsAnswered(ok) \/ ArticleAnswered(ok)
      PROVE  UNCHANGED status
  BY <1>5 DEF ListAnswered, UrlsAnswered, ArticleAnswered, T!InsertUrls, T!InsertContent, tables
<1>6. CASE BatchTimer \/ ProcessTimer \/ MetricsTimer \/ HandshakeAnswered \/ MetricsAnswered
  BY <1>6 DEF BatchTimer, ProcessTimer, MetricsTimer, HandshakeAnswered, MetricsAnswered, tables
<1>7. CASE Network
  BY <1>7 DEF Network, Response, RequestError, FileFinish, FileError, RequestEnd, notNetwork, tables
<1>8. CASE Children
  BY <1>8 DEF Children, UrlExtractClosed, VerifyArticleClosed, ContentExtractClosed,
              MetaExtractClosed, notChild, tables
<1>9. CASE ConnectionLost \/ Crash
  BY <1>3, <1>9 DEF ConnectionLost, Crash
<1>10. CASE ConnectionLostUnheard \/ Restart \/ UNCHANGED vars
  BY <1>10 DEF ConnectionLostUnheard, Restart, vars, tables
<1>11. CASE Callback
  BY <1>1, <1>4, <1>5, <1>6, <1>11 DEF Callback
<1> QED BY <1>6, <1>7, <1>8, <1>9, <1>10, <1>11 DEF Next

-----------------------------------------------------------------------------
(***************************************************************************)
(* The theorems                                                            *)
(***************************************************************************)
\* IInv is inductive: every step of the program, faults, crashes and restarts
\* included, preserves it.
THEOREM Invariance == Spec => []IInv
<1>1. Init => IInv
  <2>1. Init => DeadIsEmpty
    BY Zenon DEF Init, Started, DeadIsEmpty
  <2> QED BY <2>1, TypeInit, ChainInit, PipeInit DEF IInv, Pipe
<1>2. IInv /\ [Next]_vars => IInv'
  BY TypeNext, DeadNext, ChainNext, PipeNext DEF IInv, Pipe
<1> QED BY <1>1, <1>2, PTL DEF Spec

\* Every variable of the crawler keeps its type.
THEOREM TypeCorrect == Spec => []TypeOK
<1>1. IInv => TypeOK
  BY DEF IInv
<1> QED BY <1>1, Invariance, PTL

\* Exactly one continuation of batch_download is alive while the program runs,
\* however often downloads call back (crawler.js lines 32-65).
THEOREM BatchChain == Spec => []OneBatchChain
<1>1. IInv => OneBatchChain
  BY ChainIsOne DEF IInv
<1> QED BY <1>1, Invariance, PTL

\* The callbacks of process_pending read their own page from pending[0]
\* (crawler.js lines 72-85).
THEOREM HeadOfPending == Spec => []PageIsHead
<1>1. IInv => PageIsHead
  BY PipeIsHead DEF IInv, Pipe
<1> QED BY <1>1, Invariance, PTL

\* A row with status 2 has its article in content (crawler.js line 81,
\* process.js line 107).
THEOREM DoneMeansStored == Spec => []StoredBeforeDone
<1>1. IInv => StoredBeforeDone
  BY DEF IInv, DoneIsStored
<1> QED BY <1>1, Invariance, PTL

\* An article's row holds another page's text only if a crash interrupted that
\* page (process.js lines 49-58, the extractors' append mode).
THEOREM ForeignText == Spec => []ForeignTextOnlyAfterCrash
<1>1. IInv => ForeignTextOnlyAfterCrash
  BY DEF IInv, TextOwned
<1> QED BY <1>1, Invariance, PTL

\* A marked row never becomes fresh again (urls.js line 13, process.js line 70).
THEOREM MarkedForGood == Spec => NeverFreshAgain
<1>1. TypeOK /\ [Next]_vars => [\A u \in Urls : status[u] # 0 => status'[u] # 0]_status
  BY NextMarks
<1> QED BY <1>1, TypeCorrect, PTL DEF Spec, NeverFreshAgain

-----------------------------------------------------------------------------
(***************************************************************************)
(* The queries of a kind, when others come and go                          *)
(***************************************************************************)
\* The queries of a kind in O are those there were, moved up by d places.
Kept(O) ==
  \E d \in {0, 1} :
    /\ \A i \in Places(queue', O) : i + d \in Places(queue, O) /\ queue'[i] = queue[i + d]
    /\ \A i \in Places(queue, O) : i - d \in Places(queue', O)

LEMMA EntriesArePlaces ==
  /\ \A op : Entries(op) = Places(queue, {op})
  /\ \A op : Entries(op)' = Places(queue', {op})
BY DEF Entries, Places

LEMMA AppendKept ==
  ASSUME NEW O, NEW r \in Seq(Query),
         \/ queue' = r
         \/ \E e \in Query : e.op \notin O /\ queue' = Append(r, e)
  PROVE  Places(queue', O) = Places(r, O) /\ \A i \in Places(r, O) : queue'[i] = r[i]
<1>1. CASE queue' = r
  BY <1>1
<1>2. ASSUME NEW e \in Query, e.op \notin O, queue' = Append(r, e)
      PROVE  Places(queue', O) = Places(r, O) /\ \A i \in Places(r, O) : queue'[i] = r[i]
  <2>1. /\ Places(Append(r, e), O) = Places(r, O)
        /\ \A i \in Places(r, O) : Append(r, e)[i] = r[i]
    BY <1>2, PlacesOfAppend DEF Places
  <2> QED BY <1>2, <2>1
<1> QED BY <1>1, <1>2

LEMMA KeptRule ==
  ASSUME queue \in Seq(Query), NEW O, NEW r,
         r = queue \/ (queue # <<>> /\ r = C!Rest /\ Head(queue).op \notin O),
         \/ queue' = r
         \/ \E e \in Query : e.op \notin O /\ queue' = Append(r, e)
  PROVE  Kept(O)
<1>1. r \in Seq(Query)
  BY RestTypes
<1>2. Places(queue', O) = Places(r, O) /\ \A i \in Places(r, O) : queue'[i] = r[i]
  BY <1>1, AppendKept
<1>3. \A i \in Places(queue, O) : i \in Int
  BY DEF Places
<1>4. CASE r = queue
  <2>1. \A i \in Places(queue, O) : i + 0 = i /\ i - 0 = i
    BY <1>3
  <2> QED BY <1>2, <1>4, <2>1 DEF Kept
<1>5. CASE queue # <<>> /\ r = C!Rest /\ Head(queue).op \notin O
  <2>1. /\ \A i \in Places(r, O) : i + 1 \in Places(queue, O) /\ r[i] = queue[i + 1]
        /\ \A i \in Places(queue, O) : i # 1 => i - 1 \in Places(r, O)
        /\ 1 \notin Places(queue, O)
    BY <1>5, PlacesOfRest
  <2> QED BY <1>2, <2>1 DEF Kept
<1> QED BY <1>4, <1>5

\* What is said of the queries of one kind without their places stays true.
LEMMA KeptSame ==
  ASSUME queue \in Seq(Query), queue' \in Seq(Query), NEW op, Kept({op})
  PROVE  /\ \A j \in Entries(op)' : \E i \in Entries(op) : queue'[j] = queue[i]
         /\ \A i \in Entries(op) : \E j \in Entries(op)' : queue'[j] = queue[i]
         /\ (\A i, j \in Entries(op) : queue[i].url = queue[j].url => i = j)
              => (\A i, j \in Entries(op)' : queue'[i].url = queue'[j].url => i = j)
<1>1. PICK d \in {0, 1} :
        /\ \A i \in Places(queue', {op}) : i + d \in Places(queue, {op}) /\ queue'[i] = queue[i + d]
        /\ \A i \in Places(queue, {op}) : i - d \in Places(queue', {op})
  BY DEF Kept
<1>2. \A i \in Places(queue, {op}) : i \in Int /\ (i - d) + d = i
  BY DEF Places
<1>3. \A i \in Places(queue', {op}) : i \in Int
  BY DEF Places
<1>4. \A i \in Int : (i + d) - d = i
  OBVIOUS
<1>5. \A j \in Places(queue', {op}) : \E i \in Places(queue, {op}) : queue'[j] = queue[i]
  BY <1>1
<1>6. \A i \in Places(queue, {op}) : \E j \in Places(queue', {op}) : queue'[j] = queue[i]
  <2> SUFFICES ASSUME NEW i \in Places(queue, {op})
               PROVE  \E j \in Places(queue', {op}) : queue'[j] = queue[i]
    OBVIOUS
  <2>1. i - d \in Places(queue', {op}) /\ (i - d) + d = i
    BY <1>1, <1>2
  <2> QED BY <1>1, <2>1
<1>7. ASSUME \A i, j \in Places(queue, {op}) : queue[i].url = queue[j].url => i = j,
             NEW i \in Places(queue', {op}), NEW j \in Places(queue', {op}),
             queue'[i].url = queue'[j].url
      PROVE  i = j
  <2>1. i + d = j + d
    <3>1. /\ i + d \in Places(queue, {op}) /\ queue'[i] = queue[i + d]
          /\ j + d \in Places(queue, {op}) /\ queue'[j] = queue[j + d]
      BY <1>1, <1>7
    <3>2. queue[i + d].url = queue[j + d].url
      BY <1>7, <3>1
    <3> QED BY <1>7, <3>1, <3>2
  <2>2. i \in Int /\ j \in Int
    BY <1>3, <1>7
  <2> QED BY <2>1, <2>2
<1> QED BY <1>5, <1>6, <1>7, EntriesArePlaces

LEMMA MarksKept ==
  ASSUME queue \in Seq(Query), queue' \in Seq(Query), Kept({"mark"})
  PROVE  Marking' = Marking /\ \A b : MarkedBy(b)' = MarkedBy(b)
<1>1. /\ \A j \in Entries("mark")' : \E i \in Entries("mark") : queue'[j] = queue[i]
      /\ \A i \in Entries("mark") : \E j \in Entries("mark")' : queue'[j] = queue[i]
  BY KeptSame
<1>2. Marking' = Marking
  BY <1>1 DEF Marking
<1>3. \A b : MarkedBy(b)' = MarkedBy(b)
  BY <1>1 DEF MarkedBy
<1> QED BY <1>2, <1>3

\* The events that bring no mark and answer none.
MarksStay ==
  \/ BatchTimer \/ ProcessTimer \/ MetricsTimer \/ Children
  \/ HandshakeAnswered \/ MetricsAnswered
  \/ \E t \in transfers : Response(t) \/ RequestEnd(t)
  \/ \E ok \in BOOLEAN : \/ ListAnswered(ok) \/ UrlsAnswered(ok)
                         \/ ArticleAnswered(ok) \/ FinishAnswered(ok)
  \/ Restart

LEMMA KeptAsks ==
  ASSUME TypeOK, NEW O, NEW K, NEW r, O \cap K = {}, Asks(r, K),
         r = queue \/ (queue # <<>> /\ r = C!Rest /\ Head(queue).op \notin O)
  PROVE  Kept(O)
<1>1. \/ queue' = r
      \/ \E e \in Query : e.op \notin O /\ queue' = Append(r, e)
  BY DEF Asks
<1> QED BY <1>1, KeptRule DEF TypeOK

\* A program that starts finds no query of its own.
LEMMA LaunchHas ==
  /\ \A O : Places(<<>>, O) = {}
  /\ \A O : O \cap {"handshake", "list"} = {} => Places(Launch, O) = {}
  /\ Launch \in Seq(Query)
<1>1. \A O : Places(<<>>, O) = {}
  BY DEF Places
<1>2. \A O : O \cap {"handshake", "list"} = {} => Places(Launch, O) = {}
  BY DEF Launch, Places, C!Handshake, List
<1>3. Launch \in Seq(Query)
  BY QueryTypes DEF Launch
<1> QED BY <1>1, <1>2, <1>3

LEMMA StayKept ==
  ASSUME TypeOK, Pipe, DeadIsEmpty, MarksStay
  PROVE  Kept({"mark"})
<1> DEFINE O == {"mark"}
           K == {"list", "metrics"} \cup P!QueryStages
<1> SUFFICES ASSUME TRUE PROVE Kept(O)
  OBVIOUS
<1>1. O \cap K = {}
  BY DEF P!QueryStages
<1>2. ASSUME NEW r, Asks(r, P!QueryStages) PROVE Asks(r, K)
  BY <1>2 DEF Asks
<1>3. ASSUME BatchTimer \/ MetricsTimer PROVE Asks(queue, K)
  BY <1>3, QueryTypes DEF BatchTimer, batch_download, MetricsTimer, C!Enqueue, Asks, List,
                          InsertMetrics
<1>4. ASSUME ProcessTimer PROVE Asks(queue, K)
  BY <1>2, <1>4, ProcessAsks DEF ProcessTimer, TypeOK
<1>5. ASSUME Children PROVE Asks(queue, K)
  BY <1>2, <1>5, ChildrenAsk
<1>6. ASSUME NEW t \in transfers, Response(t) \/ RequestEnd(t) PROVE Asks(queue, K)
  BY <1>6 DEF Response, RequestEnd, conn, Asks
<1>7. ASSUME \/ HandshakeAnswered \/ MetricsAnswered
             \/ \E ok \in BOOLEAN : ListAnswered(ok) \/ UrlsAnswered(ok)
      PROVE  queue # <<>> /\ Head(queue).op \notin O /\ Asks(C!Rest, K)
  BY <1>7 DEF HandshakeAnswered, MetricsAnswered, ListAnswered, UrlsAnswered, Answers, Asks
<1>8. ASSUME NEW ok \in BOOLEAN, ArticleAnswered(ok)
      PROVE  queue # <<>> /\ Head(queue).op \notin O /\ Asks(C!Rest, K)
  <2>1. Asks(C!Rest, P!QueryStages)
    BY <1>8, Working, ProcessedAsks DEF ArticleAnswered, P!ArticleUploaded, Pipe
  <2> QED BY <1>2, <1>8, <2>1 DEF ArticleAnswered, Answers
<1>9. ASSUME NEW ok \in BOOLEAN, FinishAnswered(ok)
      PROVE  queue # <<>> /\ Head(queue).op \notin O /\ Asks(C!Rest, K)
  <2>0. queue # <<>> /\ Head(queue).op = "finish"
    BY <1>9 DEF FinishAnswered, Answers
  <2>1. pending' \in Seq(Urls)
    BY <1>9, <2>0, Answering, Working DEF FinishAnswered, Pipe, P!QueryStages
  <2>2. Asks(C!Rest, P!QueryStages)
    BY <1>9, <2>1, ProcessAsks DEF FinishAnswered
  <2> QED BY <1>2, <2>0, <2>2
<1>10. CASE Restart
  <2>1. Places(queue', O) = {} /\ Places(queue, O) = {}
    BY <1>10, LaunchHas DEF Restart, DeadIsEmpty
  <2> QED BY <2>1 DEF Kept
<1>11. CASE Asks(queue, K)
  <2> HIDE DEF O, K
  <2> QED BY <1>1, <1>11, KeptAsks
<1>12. CASE queue # <<>> /\ Head(queue).op \notin O /\ Asks(C!Rest, K)
  <2> HIDE DEF O, K
  <2> QED BY <1>1, <1>12, KeptAsks
<1> QED BY <1>3, <1>4, <1>5, <1>6, <1>7, <1>8, <1>9, <1>10, <1>11, <1>12 DEF MarksStay

-----------------------------------------------------------------------------
(***************************************************************************)
(* The sets of addresses at each place, as an event changes them           *)
(***************************************************************************)
OneTransferEach == \A s, t \in transfers : s.url = t.url => s = t
OneMarkEach == \A i, j \in Entries("mark") : queue[i].url = queue[j].url => i = j
OncePending == \A i, j \in DOMAIN pending : pending[i] = pending[j] => i = j

\* A transfer that ends was the only one of its address.
LEMMA TransferEnds ==
  ASSUME OneTransferEach, NEW t \in transfers, transfers' = transfers \ {t}
  PROVE  /\ OneTransferEach'
         /\ Receiving' = Receiving \ {t.url}
         /\ \A b : ReceivedBy(b)' = ReceivedBy(b) \ {t.url}
<1>1. OneTransferEach'
  BY DEF OneTransferEach
<1>2. \A s \in transfers : s.url = t.url <=> s = t
  BY DEF OneTransferEach
<1>3. Receiving' = Receiving \ {t.url}
  BY <1>2 DEF Receiving
<1>4. \A b : ReceivedBy(b)' = ReceivedBy(b) \ {t.url}
  BY <1>2 DEF ReceivedBy
<1> QED BY <1>1, <1>3, <1>4

LEMMA TransferMoves ==
  ASSUME TypeOK, OneTransferEach, NEW t \in transfers, NEW phase, D!Move(t, phase)
  PROVE  /\ OneTransferEach'
         /\ Receiving' = Receiving
         /\ \A b : ReceivedBy(b)' = ReceivedBy(b)
<1> DEFINE n == [t EXCEPT !.phase = phase]
<1>1. t \in D!Transfer
  BY DEF TypeOK, D!TypeOK
<1>2. n.url = t.url /\ n.batch = t.batch
  BY <1>1 DEF D!Transfer
<1>3. transfers' = (transfers \ {t}) \cup {n}
  BY DEF D!Move
<1> HIDE DEF n
<1>4. OneTransferEach'
  BY <1>2, <1>3 DEF OneTransferEach
<1>5. Receiving' = Receiving
  BY <1>2, <1>3 DEF Receiving
<1>6. \A b : ReceivedBy(b)' = ReceivedBy(b)
  BY <1>2, <1>3 DEF ReceivedBy
<1> QED BY <1>4, <1>5, <1>6

LEMMA TransfersStart ==
  ASSUME transfers = {}, NEW S \in SUBSET Urls, NEW b \in Batches, D!download(S, b)
  PROVE  /\ OneTransferEach'
         /\ Receiving' = S
         /\ ReceivedBy(b)' = S /\ \A c \in Batches \ {b} : ReceivedBy(c)' = {}
<1>1. transfers' = {[url |-> u, batch |-> b, phase |-> "get"] : u \in S}
  BY DEF D!download
<1>2. \A t \in transfers' : t.batch = b /\ t = [url |-> t.url, batch |-> b, phase |-> "get"]
  BY <1>1
<1>3. \A u \in S : \E t \in transfers' : t.url = u
  <2>1. \A u \in S : [url |-> u, batch |-> b, phase |-> "get"] \in transfers'
    BY <1>1
  <2>2. \A u \in S : [url |-> u, batch |-> b, phase |-> "get"].url = u
    OBVIOUS
  <2> QED BY <2>1, <2>2
<1>4. \A t \in transfers' : t.url \in S
  BY <1>1
<1>5. OneTransferEach'
  BY <1>2 DEF OneTransferEach
<1>6. Receiving' = S
  BY <1>3, <1>4 DEF Receiving
<1>7. ReceivedBy(b)' = S /\ \A c \in Batches \ {b} : ReceivedBy(c)' = {}
  BY <1>2, <1>3, <1>4 DEF ReceivedBy
<1> QED BY <1>5, <1>6, <1>7

\* A download calls back.
LEMMA MarkComes ==
  ASSUME queue \in Seq(Query), NEW u \in Urls, NEW v \in {-1, 1}, NEW b \in Batches,
         queue' = Append(queue, Mark(u, v, b))
  PROVE  /\ Marking' = Marking \cup {u}
         /\ MarkedBy(b)' = MarkedBy(b) \cup {u}
         /\ \A c \in Batches \ {b} : MarkedBy(c)' = MarkedBy(c)
         /\ OneMarkEach /\ u \notin Marking => OneMarkEach'
<1> DEFINE e == Mark(u, v, b)
           n == Len(queue) + 1
<1>1. e \in Query /\ e.op = "mark" /\ e.url = u /\ e.batch = b
  BY QueryTypes DEF Mark
<1>2. /\ Entries("mark")' = Entries("mark") \cup {n}
      /\ \A i \in Entries("mark") : queue'[i] = queue[i]
      /\ queue'[n] = e
  <2> HIDE DEF e
  <2>1. /\ Places(Append(queue, e), {"mark"}) = Places(queue, {"mark"}) \cup {n}
        /\ \A i \in Places(queue, {"mark"}) : Append(queue, e)[i] = queue[i]
        /\ Append(queue, e)[n] = e
    BY <1>1, PlacesOfAppend DEF Places
  <2>2. queue' = Append(queue, e)
    BY DEF e
  <2>3. Entries("mark")' = Places(Append(queue, e), {"mark"})
    BY <2>2 DEF Entries, Places
  <2>4. Entries("mark") = Places(queue, {"mark"})
    BY EntriesArePlaces
  <2> QED BY <2>1, <2>2, <2>3, <2>4
<1> HIDE DEF e, n
<1>3. /\ \A j \in Entries("mark")' : j = n \/ (j \in Entries("mark") /\ queue'[j] = queue[j])
      /\ \A i \in Entries("mark") : i \in Entries("mark")' /\ queue'[i] = queue[i]
      /\ n \in Entries("mark")' /\ queue'[n].url = u /\ queue'[n].batch = b
  BY <1>1, <1>2
<1>4. Marking' = Marking \cup {u}
  <2>1. \A x \in Marking' : x \in Marking \cup {u}
    BY <1>3 DEF Marking
  <2>2. \A x \in Marking \cup {u} : x \in Marking'
    BY <1>3 DEF Marking
  <2> QED BY <2>1, <2>2
<1>5. MarkedBy(b)' = MarkedBy(b) \cup {u}
  <2>1. \A x \in MarkedBy(b)' : x \in MarkedBy(b) \cup {u}
    BY <1>3 DEF MarkedBy
  <2>2. \A x \in MarkedBy(b) \cup {u} : x \in MarkedBy(b)'
    BY <1>3 DEF MarkedBy
  <2> QED BY <2>1, <2>2
<1>6. ASSUME NEW c \in Batches \ {b} PROVE MarkedBy(c)' = MarkedBy(c)
  <2>1. \A x \in MarkedBy(c)' : x \in MarkedBy(c)
    BY <1>3, <1>6 DEF MarkedBy
  <2>2. \A x \in MarkedBy(c) : x \in MarkedBy(c)'
    BY <1>3, <1>6 DEF MarkedBy
  <2> QED BY <2>1, <2>2
<1>7. ASSUME OneMarkEach, u \notin Marking PROVE OneMarkEach'
  <2>1. \A i \in Entries("mark") : queue[i].url # u
    BY <1>7 DEF Marking
  <2>2. ASSUME NEW i \in Entries("mark")', NEW j \in Entries("mark")', queue'[i].url = queue'[j].url
        PROVE  i = j
    <3>1. CASE i = n \/ j = n
      <4>1. \A k \in Entries("mark")' : queue'[k].url = u => k = n
        BY <1>3, <2>1
      <4> QED BY <1>3, <2>2, <3>1, <4>1
    <3>2. CASE i # n /\ j # n
      <4>1. i \in Entries("mark") /\ j \in Entries("mark") /\ queue[i].url = queue[j].url
        BY <1>3, <2>2, <3>2
      <4> QED BY <1>7, <4>1 DEF OneMarkEach
    <3> QED BY <3>1, <3>2
  <2> QED BY <2>2 DEF OneMarkEach
<1> QED BY <1>4, <1>5, <1>6, <1>7

\* A mark is answered; it was the only one of its address.
LEMMA MarkGoes ==
  ASSUME queue \in Seq(Query), queue # <<>>, Head(queue).op = "mark", OneMarkEach,
         queue' = C!Rest \/ queue' = Append(C!Rest, List)
  PROVE  /\ Head(queue).url \in MarkedBy(Head(queue).batch)
         /\ Marking' = Marking \ {Head(queue).url}
         /\ \A c : MarkedBy(c)' = MarkedBy(c) \ {Head(queue).url}
         /\ OneMarkEach'
<1> DEFINE O == {"mark"}
           u == Head(queue).url
<1>1. /\ \A i \in Places(C!Rest, O) : i + 1 \in Places(queue, O) /\ C!Rest[i] = queue[i + 1]
      /\ \A i \in Places(queue, O) : i # 1 => i - 1 \in Places(C!Rest, O)
      /\ 1 \in Places(queue, O)
  BY PlacesOfRest
<1>2. Places(queue', O) = Places(C!Rest, O) /\ \A i \in Places(C!Rest, O) : queue'[i] = C!Rest[i]
  <2>1. List \in Query /\ List.op \notin O
    BY QueryTypes DEF List
  <2>2. C!Rest \in Seq(Query)
    BY RestTypes
  <2> HIDE DEF O
  <2> QED BY <2>1, <2>2, AppendKept
<1>3. \A i \in Places(queue, O) : i \in 1 .. Len(queue)
  BY DEF Places
<1>4. \A i \in Places(C!Rest, O) : i \in 1 .. Len(queue)
  BY <1>1, <1>3, RestTypes DEF Places
<1>5. queue[1] = Head(queue)
  BY RestTypes
<1>6. \A i \in Places(queue, O) : queue[i].url = u <=> i = 1
  BY <1>1, <1>5, EntriesArePlaces DEF OneMarkEach
<1>7. \A j \in Places(queue', O) : \E i \in Places(queue, O) : i # 1 /\ queue'[j] = queue[i]
  <2> SUFFICES ASSUME NEW j \in Places(queue', O)
               PROVE  \E i \in Places(queue, O) : i # 1 /\ queue'[j] = queue[i]
    OBVIOUS
  <2>1. j \in Nat \ {0}
    BY <1>2, <1>4
  <2>2. j + 1 # 1
    BY <2>1
  <2> QED BY <1>1, <1>2, <2>2
<1>8. \A i \in Places(queue, O) : i # 1 => \E j \in Places(queue', O) : queue'[j] = queue[i]
  <2> SUFFICES ASSUME NEW i \in Places(queue, O), i # 1
               PROVE  \E j \in Places(queue', O) : queue'[j] = queue[i]
    OBVIOUS
  <2>1. i - 1 \in Places(C!Rest, O) /\ (i - 1) + 1 = i
    BY <1>1, <1>3
  <2> QED BY <1>1, <1>2, <2>1
<1>9. u \in MarkedBy(Head(queue).batch)
  BY <1>1, <1>5, EntriesArePlaces DEF MarkedBy
<1>10. Entries("mark") = Places(queue, O) /\ Entries("mark")' = Places(queue', O)
  BY EntriesArePlaces
<1> HIDE DEF u
<1>11. Marking' = Marking \ {u}
  BY <1>6, <1>7, <1>8, <1>10 DEF Marking
<1>12. \A c : MarkedBy(c)' = MarkedBy(c) \ {u}
  BY <1>6, <1>7, <1>8, <1>10 DEF MarkedBy
<1>13. OneMarkEach'
  <2> SUFFICES ASSUME NEW i \in Places(queue', O), NEW j \in Places(queue', O),
                      queue'[i].url = queue'[j].url
               PROVE  i = j
    BY <1>10 DEF OneMarkEach
  <2>1. i + 1 = j + 1
    BY <1>1, <1>2, <1>10 DEF OneMarkEach
  <2>2. i \in Int /\ j \in Int
    BY <1>2, <1>4
  <2> QED BY <2>1, <2>2
<1> QED BY <1>9, <1>11, <1>12, <1>13 DEF u

LEMMA PageComes ==
  ASSUME pending \in Seq(Urls), NEW u \in Urls, pending' = Append(pending, u)
  PROVE  /\ Backlog' = Backlog \cup {u}
         /\ OncePending /\ u \notin Backlog => OncePending'
<1>1. /\ DOMAIN pending' = DOMAIN pending \cup {Len(pending) + 1}
      /\ \A i \in DOMAIN pending : pending'[i] = pending[i]
      /\ pending'[Len(pending) + 1] = u
  BY AppendProperties
<1>2. Backlog' = Backlog \cup {u}
  BY <1>1 DEF Backlog
<1>3. OncePending /\ u \notin Backlog => OncePending'
  BY <1>1 DEF OncePending, Backlog
<1> QED BY <1>2, <1>3

LEMMA PageGoes ==
  ASSUME pending \in Seq(Urls), pending # <<>>, pending' = Tail(pending), OncePending
  PROVE  /\ Head(pending) \in Backlog
         /\ Backlog' = Backlog \ {Head(pending)}
         /\ OncePending'
<1>1. /\ DOMAIN pending = 1 .. Len(pending) /\ Len(pending) \in Nat \ {0}
      /\ DOMAIN pending' = 1 .. Len(pending) - 1
      /\ \A i \in 1 .. Len(pending) - 1 : pending'[i] = pending[i + 1]
      /\ Head(pending) = pending[1]
  BY HeadTailProperties
<1>2. Head(pending) \in Backlog
  BY <1>1 DEF Backlog
<1>3. \A i \in DOMAIN pending : pending[i] = Head(pending) <=> i = 1
  BY <1>1 DEF OncePending
<1>4. \A j \in DOMAIN pending' : j + 1 \in DOMAIN pending /\ j + 1 # 1 /\ pending'[j] = pending[j + 1]
  BY <1>1
<1>5. \A i \in DOMAIN pending : i # 1 => \E j \in DOMAIN pending' : pending'[j] = pending[i]
  <2> SUFFICES ASSUME NEW i \in DOMAIN pending, i # 1
               PROVE  \E j \in DOMAIN pending' : pending'[j] = pending[i]
    OBVIOUS
  <2>1. i - 1 \in DOMAIN pending' /\ (i - 1) + 1 = i
    BY <1>1
  <2> QED BY <1>1, <2>1
<1>6. Backlog' = Backlog \ {Head(pending)}
  <2>1. \A x \in Backlog' : x \in Backlog /\ x # Head(pending)
    BY <1>3, <1>4 DEF Backlog
  <2>2. \A x \in Backlog \ {Head(pending)} : x \in Backlog'
    BY <1>1, <1>5 DEF Backlog
  <2> QED BY <2>1, <2>2
<1>7. OncePending'
  <2> SUFFICES ASSUME NEW i \in DOMAIN pending', NEW j \in DOMAIN pending', pending'[i] = pending'[j]
               PROVE  i = j
    BY DEF OncePending
  <2>1. i + 1 = j + 1
    BY <1>4 DEF OncePending
  <2> QED BY <1>1, <2>1
<1> QED BY <1>2, <1>6, <1>7

-----------------------------------------------------------------------------
(***************************************************************************)
(* A step without faults, and where the addresses are after it             *)
(***************************************************************************)
Faultless == IInv /\ IInv' /\ Located /\ faults = 0 /\ faults' = 0

\* What follows for the queries' callbacks: none of them is given an error that
\* the database did not mean.
LEMMA FaultlessTypes ==
  ASSUME Faultless
  PROVE  /\ TypeOK /\ TypeOK' /\ Pipe /\ Pipe' /\ DeadIsEmpty /\ Chain /\ Chain'
         /\ Calm /\ OnePlace /\ BatchCounts /\ ListFits /\ StatusTells /\ StoredTells
         /\ OneTransferEach /\ OneMarkEach /\ OncePending
         /\ ~Fault /\ ~fatal
         /\ \A ok \in BOOLEAN : Outcome(ok) => ok
<1>1. ~Fault
  BY DEF Faultless, Fault
<1>2. ~fatal
  BY DEF Faultless, Located, Calm
<1>3. \A ok \in BOOLEAN : Outcome(ok) => ok
  BY <1>1, <1>2 DEF Outcome
<1> QED BY <1>1, <1>2, <1>3 DEF Faultless, IInv, Pipe, Located, OnePlace, OneTransferEach,
                                OneMarkEach, OncePending

\* The addresses a batch has fetched are finitely many.
LEMMA FetchedFinite ==
  ASSUME TypeOK, NEW b
  PROVE  /\ FetchedBy(b) \subseteq Fetching /\ Fetching \subseteq Urls
         /\ IsFiniteSet(FetchedBy(b)) /\ Cardinality(FetchedBy(b)) \in Nat
<1>1. Fetching \subseteq Urls
  <2>1. \A t \in transfers : t.url \in Urls
    BY DEF TypeOK, D!TypeOK, D!Transfer
  <2>2. \A i \in Entries("mark") : queue[i].url \in Urls
    BY QueryFields DEF Entries, TypeOK
  <2> QED BY <2>1, <2>2 DEF Fetching
<1>2. FetchedBy(b) \subseteq Fetching
  BY DEF FetchedBy, ReceivedBy, MarkedBy, Fetching
<1> QED BY <1>1, <1>2, CrawlerAssumption, FS_Subset, FS_CardinalityType

LEMMA FetchingIs == Fetching = Receiving \cup Marking /\ Fetching' = Receiving' \cup Marking'
BY DEF Fetching, Receiving, Marking

\* Each address that is fetched is fetched by a batch that still counts.
LEMMA FetchedCounts ==
  ASSUME TypeOK, BatchCounts
  PROVE  /\ \A u \in Fetching : \E b \in Batches : u \in FetchedBy(b)
         /\ \A b \in Batches : FetchedBy(b) # {} => Counting(b)
<1>1. ASSUME NEW t \in transfers PROVE t.batch \in Batches /\ t.url \in FetchedBy(t.batch)
  BY <1>1 DEF TypeOK, D!TypeOK, D!Transfer, FetchedBy, ReceivedBy
<1>2. ASSUME NEW i \in Entries("mark")
      PROVE  queue[i].batch \in Batches /\ queue[i].url \in FetchedBy(queue[i].batch)
  <2>1. queue[i] \in Query /\ queue[i].op = "mark"
    BY <1>2 DEF TypeOK, Entries
  <2> QED BY <1>2, <2>1, QueryFields DEF FetchedBy, MarkedBy
<1>3. ASSUME NEW b \in Batches, FetchedBy(b) # {} PROVE Counting(b)
  <2>1. Cardinality(FetchedBy(b)) \in Nat /\ Cardinality(FetchedBy(b)) # 0
    BY <1>3, FetchedFinite, FS_EmptySet
  <2> QED BY <2>1 DEF BatchCounts, Counting
<1> QED BY <1>1, <1>2, <1>3 DEF Fetching

\* Events that move no address.
Still ==
  /\ Kept({"mark"})
  /\ OneTransferEach'
  /\ Receiving' = Receiving /\ \A b : ReceivedBy(b)' = ReceivedBy(b)
  /\ UNCHANGED <<pending, remaining>>

LEMMA StillPlaces ==
  ASSUME Faultless, Still
  PROVE  OnePlace' /\ BatchCounts' /\ Fetching' = Fetching /\ Backlog' = Backlog
<1>1. Marking' = Marking /\ \A b : MarkedBy(b)' = MarkedBy(b)
  BY FaultlessTypes, MarksKept DEF Still, TypeOK
<1>2. OneMarkEach'
  BY FaultlessTypes, KeptSame DEF Still, TypeOK, OneMarkEach
<1>3. Backlog' = Backlog /\ OncePending'
  BY FaultlessTypes DEF Still, Backlog, OncePending
<1>4. OnePlace'
  BY <1>1, <1>2, <1>3, FaultlessTypes, FetchingIs
     DEF Still, OnePlace, OneTransferEach, OneMarkEach, OncePending
<1>5. BatchCounts'
  BY <1>1, FaultlessTypes DEF Still, BatchCounts, FetchedBy
<1> QED BY <1>1, <1>3, <1>4, <1>5, FetchingIs DEF Still

\* A download's callback: the address goes from the transfers to the marks.
Lands(t) ==
  /\ D!End(t)
  /\ \E v \in {-1, 1} : queue' = Append(queue, Mark(t.url, v, t.batch))
  /\ UNCHANGED <<pending, remaining>>

LEMMA LandsPlaces ==
  ASSUME Faultless, NEW t \in transfers, Lands(t)
  PROVE  OnePlace' /\ BatchCounts' /\ Fetching' = Fetching /\ Backlog' = Backlog
<1> DEFINE u == t.url
<1>0. t.url \in Urls /\ t.batch \in Batches
  BY FaultlessTypes DEF TypeOK, D!TypeOK, D!Transfer
<1>1. /\ OneTransferEach'
      /\ Receiving' = Receiving \ {t.url}
      /\ \A b : ReceivedBy(b)' = ReceivedBy(b) \ {t.url}
  BY FaultlessTypes, TransferEnds DEF Lands, D!End
<1>2. /\ Marking' = Marking \cup {t.url}
      /\ MarkedBy(t.batch)' = MarkedBy(t.batch) \cup {t.url}
      /\ \A c \in Batches \ {t.batch} : MarkedBy(c)' = MarkedBy(c)
      /\ OneMarkEach /\ t.url \notin Marking => OneMarkEach'
  BY <1>0, FaultlessTypes, MarkComes DEF Lands, TypeOK
<1>3. t.url \in Receiving /\ t.url \in ReceivedBy(t.batch)
  BY DEF Receiving, ReceivedBy
<1>4. \A c : c # t.batch => t.url \notin ReceivedBy(c)
  BY FaultlessTypes DEF ReceivedBy, OneTransferEach
<1>5. Receiving \cap Marking = {} /\ Fetching \cap Backlog = {}
  BY FaultlessTypes DEF OnePlace
<1>6. Backlog' = Backlog /\ OncePending'
  BY FaultlessTypes DEF Lands, Backlog, OncePending
<1>7. Fetching' = Fetching
  BY <1>1, <1>2, <1>3, FetchingIs
<1>8. OnePlace'
  BY <1>1, <1>2, <1>3, <1>5, <1>6, <1>7, FaultlessTypes, FetchingIs
     DEF OnePlace, OneTransferEach, OneMarkEach, OncePending
<1>9. ASSUME NEW b \in Batches PROVE FetchedBy(b)' = FetchedBy(b)
  <2>1. CASE b = t.batch
    BY <1>1, <1>2, <1>3, <2>1 DEF FetchedBy
  <2>2. CASE b # t.batch
    BY <1>1, <1>2, <1>4, <2>2 DEF FetchedBy
  <2> QED BY <2>1, <2>2
<1>10. BatchCounts'
  BY <1>9, FaultlessTypes DEF Lands, BatchCounts
<1> QED BY <1>6, <1>7, <1>8, <1>10

\* A mark is answered: the address goes from the marks to pending.
LEMMA ArrivesPlaces ==
  ASSUME Faultless, NEW ok \in BOOLEAN, MarkAnswered(ok)
  PROVE  /\ OnePlace' /\ BatchCounts'
         /\ Head(queue) \in Query /\ Head(queue).url \in Fetching /\ Head(queue).url \in Urls
         /\ Fetching' = Fetching \ {Head(queue).url}
         /\ Backlog' = Backlog \cup {Head(queue).url}
<1> DEFINE q == Head(queue)
<1>1. queue # <<>> /\ q \in Query /\ q.op = "mark" /\ queue \in Seq(Query) /\ pending \in Seq(Urls)
  BY FaultlessTypes, RestTypes DEF MarkAnswered, Answers, TypeOK
<1>2. q.url \in Urls /\ q.batch \in Batches
  BY <1>1, QueryFields
<1>3. queue' = C!Rest \/ queue' = Append(C!Rest, List)
  BY DEF MarkAnswered, batch_download
<1>4. /\ q.url \in MarkedBy(q.batch)
      /\ Marking' = Marking \ {q.url}
      /\ \A c : MarkedBy(c)' = MarkedBy(c) \ {q.url}
      /\ OneMarkEach'
  <2> HIDE DEF q
  <2>1. q = Head(queue)
    BY DEF q
  <2> QED BY <1>1, <1>3, <2>1, FaultlessTypes, MarkGoes
<1>5. q.url \in Marking /\ Receiving \cap Marking = {} /\ Fetching \cap Backlog = {}
  BY <1>4, FaultlessTypes DEF OnePlace, MarkedBy, Marking
<1>6. /\ Receiving' = Receiving /\ \A b : ReceivedBy(b)' = ReceivedBy(b)
      /\ OneTransferEach'
  BY FaultlessTypes DEF MarkAnswered, Receiving, ReceivedBy, OneTransferEach
<1>7. pending' = Append(pending, q.url)
  BY DEF MarkAnswered, push
<1> HIDE DEF q
<1>8. /\ Backlog' = Backlog \cup {q.url}
      /\ OncePending /\ q.url \notin Backlog => OncePending'
  BY <1>1, <1>2, <1>7, PageComes
<1>9. q.url \in Fetching /\ Fetching' = Fetching \ {q.url}
  BY <1>4, <1>5, <1>6, FetchingIs
<1>10. OnePlace'
  BY <1>4, <1>5, <1>6, <1>8, <1>9, FaultlessTypes, FetchingIs
     DEF OnePlace, OneTransferEach, OneMarkEach, OncePending
<1>11. ASSUME NEW b \in Batches PROVE FetchedBy(b)' = FetchedBy(b) \ {q.url}
  <2>1. q.url \notin ReceivedBy(b)
    BY <1>5 DEF ReceivedBy, Receiving
  <2> QED BY <1>4, <1>6, <2>1 DEF FetchedBy
<1>12. \A c \in Batches : c # q.batch => q.url \notin FetchedBy(c)
  <2>1. \A c : c # q.batch => q.url \notin MarkedBy(c)
    BY <1>4, FaultlessTypes DEF MarkedBy, OneMarkEach
  <2>2. \A c : q.url \notin ReceivedBy(c)
    BY <1>5 DEF ReceivedBy, Receiving
  <2> QED BY <2>1, <2>2 DEF FetchedBy
<1>13. remaining' = [remaining EXCEPT ![q.batch] = @ - 1]
  BY DEF MarkAnswered, q
<1>14. BatchCounts'
  <2> SUFFICES ASSUME NEW b \in Batches PROVE remaining'[b] = Cardinality(FetchedBy(b)')
    BY DEF BatchCounts
  <2>1. /\ IsFiniteSet(FetchedBy(b)) /\ Cardinality(FetchedBy(b)) \in Nat
        /\ remaining[b] = Cardinality(FetchedBy(b)) /\ remaining \in [Batches -> Int]
    BY FaultlessTypes, FetchedFinite DEF BatchCounts, TypeOK
  <2>2. CASE b = q.batch
    <3>1. q.url \in FetchedBy(b)
      BY <1>4, <2>2 DEF FetchedBy
    <3>2. Cardinality(FetchedBy(b) \ {q.url}) = Cardinality(FetchedBy(b)) - 1
      BY <2>1, <3>1, FS_RemoveElement
    <3> QED BY <1>2, <1>11, <1>13, <2>1, <2>2, <3>2
  <2>3. CASE b # q.batch
    <3>1. FetchedBy(b)' = FetchedBy(b)
      BY <1>11, <1>12, <2>3
    <3> QED BY <1>2, <1>13, <2>1, <2>3, <3>1
  <2> QED BY <2>2, <2>3
<1> QED BY <1>1, <1>2, <1>8, <1>9, <1>10, <1>14 DEF q

\* A listing is answered while nothing is fetched.
LEMMA ListsPlaces ==
  ASSUME Faultless, NEW ok \in BOOLEAN, ListAnswered(ok), T!Fresh # {}
  PROVE  /\ OnePlace' /\ BatchCounts'
         /\ Fetching = {} /\ Backlog' = Backlog
         /\ \A t \in transfers' : t.phase = "get"
         /\ \E S \in T!Listing : Fetching' = S /\ files' = files \cup S
<1>1. ok /\ up /\ queue # <<>> /\ Head(queue).op = "list" /\ queue \in Seq(Query)
  BY FaultlessTypes DEF ListAnswered, Answers, TypeOK
<1>2. PICK S \in T!Listing, b \in Batches \ InUse :
        /\ D!download(S, b)
        /\ remaining' = [remaining EXCEPT ![b] = Cardinality(S)]
  BY <1>1 DEF ListAnswered
<1>3. S \subseteq Urls /\ S \subseteq T!Fresh
  BY FaultlessTypes DEF T!Listing, T!Fresh, TypeOK, T!TypeOK
<1>4. \A c \in Batches : ~Counting(c)
  <2>1. 1 \in Places(queue, {"list"})
    BY <1>1, PlacesOfRest
  <2> QED BY <1>1, <2>1, FaultlessTypes DEF Chain, ChainTimer, ChainList, ChainBatch
<1>5. /\ \A c \in Batches : FetchedBy(c) = {} /\ remaining[c] = 0
      /\ Fetching = {}
  <2>1. \A c \in Batches : FetchedBy(c) = {}
    BY <1>4, FaultlessTypes, FetchedCounts
  <2>2. Fetching = {}
    BY <2>1, FaultlessTypes, FetchedCounts
  <2>3. Cardinality({}) = 0
    BY FS_EmptySet
  <2> QED BY <2>1, <2>2, <2>3, FaultlessTypes DEF BatchCounts
<1>6. transfers = {} /\ Marking = {} /\ \A c \in Batches : MarkedBy(c) = {}
  BY <1>5, FetchingIs DEF Receiving, FetchedBy
<1>7. Kept({"mark"})
  BY FaultlessTypes, StayKept DEF MarksStay
<1>8. Marking' = {} /\ (\A c \in Batches : MarkedBy(c)' = {}) /\ OneMarkEach'
  <2>1. Marking' = Marking /\ \A c : MarkedBy(c)' = MarkedBy(c)
    BY <1>7, FaultlessTypes, MarksKept DEF TypeOK
  <2>2. OneMarkEach'
    BY <1>7, FaultlessTypes, KeptSame DEF TypeOK, OneMarkEach
  <2> QED BY <1>6, <2>1, <2>2
<1>9. /\ OneTransferEach' /\ Receiving' = S
      /\ ReceivedBy(b)' = S /\ \A c \in Batches \ {b} : ReceivedBy(c)' = {}
  BY <1>2, <1>3, <1>6, TransfersStart
<1>10. Fetching' = S
  BY <1>8, <1>9, FetchingIs
<1>11. Backlog' = Backlog /\ OncePending'
  BY FaultlessTypes DEF ListAnswered, Backlog, OncePending
<1>12. S \cap Backlog = {}
  BY <1>3, FaultlessTypes DEF StatusTells, T!Fresh
<1>13. OnePlace'
  BY <1>8, <1>9, <1>10, <1>11, <1>12 DEF OnePlace, OneTransferEach, OneMarkEach, OncePending
<1>14. BatchCounts'
  <2> SUFFICES ASSUME NEW c \in Batches PROVE remaining'[c] = Cardinality(FetchedBy(c)')
    BY DEF BatchCounts
  <2>1. remaining \in [Batches -> Int]
    BY FaultlessTypes DEF TypeOK
  <2>2. CASE c = b
    <3>1. FetchedBy(c)' = S
      BY <1>8, <1>9, <2>2 DEF FetchedBy
    <3> QED BY <1>2, <2>1, <2>2, <3>1
  <2>3. CASE c # b
    <3>1. FetchedBy(c)' = {}
      BY <1>8, <1>9, <2>3 DEF FetchedBy
    <3>2. Cardinality({}) = 0
      BY FS_EmptySet
    <3> QED BY <1>2, <1>5, <2>1, <2>3, <3>1, <3>2
  <2> QED BY <2>2, <2>3
<1>15. \A t \in transfers' : t.phase = "get"
  BY <1>2, <1>6 DEF D!download
<1>16. files' = files \cup S
  BY <1>2 DEF D!download
<1> QED BY <1>2, <1>5, <1>10, <1>11, <1>13, <1>14, <1>15, <1>16

\* A final status is written: the page at the head of pending leaves.
LEMMA SettlesPlaces ==
  ASSUME Faultless, NEW ok \in BOOLEAN, FinishAnswered(ok)
  PROVE  /\ OnePlace' /\ BatchCounts'
         /\ ok /\ T!UpdateStatus(page, Head(queue).val)
         /\ stage = "finish" /\ page \in Urls /\ page \in Backlog
         /\ queue # <<>> /\ Head(queue) \in Query /\ Head(queue).op = "finish" /\ Head(queue).url = page
         /\ pending # <<>> /\ Head(pending) = page
         /\ Fetching' = Fetching /\ Backlog' = Backlog \ {page}
<1>1. /\ ok /\ queue # <<>> /\ Head(queue).op = "finish"
      /\ T!UpdateStatus(Head(queue).url, Head(queue).val)
      /\ pending' = Tail(pending)
  BY FaultlessTypes DEF FinishAnswered, Answers
<1>2. Head(queue) \in Query
  BY <1>1, FaultlessTypes, RestTypes DEF TypeOK
<1>3. stage = "finish" /\ Head(queue).url = page
  BY <1>1, FaultlessTypes, Answering DEF Pipe, P!QueryStages
<1>4. page \in Urls /\ pending # <<>> /\ Head(pending) = page
  BY <1>3, FaultlessTypes, Working DEF Pipe
<1>5. /\ page \in Backlog
      /\ Backlog' = Backlog \ {page}
      /\ OncePending'
  BY <1>1, <1>4, FaultlessTypes, PageGoes DEF TypeOK
<1>6. Kept({"mark"})
  BY FaultlessTypes, StayKept DEF MarksStay
<1>7. /\ Marking' = Marking /\ (\A b : MarkedBy(b)' = MarkedBy(b)) /\ OneMarkEach'
  <2>1. Marking' = Marking /\ \A b : MarkedBy(b)' = MarkedBy(b)
    BY <1>6, FaultlessTypes, MarksKept DEF TypeOK
  <2>2. OneMarkEach'
    BY <1>6, FaultlessTypes, KeptSame DEF TypeOK, OneMarkEach
  <2> QED BY <2>1, <2>2
<1>8. UNCHANGED <<transfers, remaining>>
  BY DEF FinishAnswered, batching
<1>9. Fetching' = Fetching
  BY <1>7, <1>8, FetchingIs DEF Receiving
<1>10. OnePlace'
  BY <1>5, <1>7, <1>8, <1>9, FaultlessTypes
     DEF OnePlace, OneTransferEach, OneMarkEach, OncePending, Receiving
<1>11. BatchCounts'
  BY <1>7, <1>8, FaultlessTypes DEF BatchCounts, FetchedBy, ReceivedBy
<1> QED BY <1>1, <1>2, <1>3, <1>4, <1>5, <1>9, <1>10, <1>11

\* A program that dies forgets every address.
LEMMA DeadPlaces ==
  ASSUME Dies
  PROVE  /\ OnePlace' /\ BatchCounts' /\ ListFits' /\ Calm'
         /\ Fetching' = {} /\ Backlog' = {} /\ \A op : Entries(op)' = {}
<1>1. queue' = <<>> /\ fatal' = FALSE /\ transfers' = {} /\ pending' = <<>>
  BY DEF Dies
<1>2. \A op : Entries(op)' = {}
  BY <1>1 DEF Entries
<1>3. Fetching' = {} /\ Backlog' = {} /\ Receiving' = {} /\ Marking' = {}
  BY <1>1, <1>2 DEF Fetching, Backlog, Receiving, Marking
<1>4. OnePlace'
  BY <1>1, <1>2, <1>3 DEF OnePlace
<1>5. BatchCounts'
  <2>1. \A b : FetchedBy(b)' = {}
    BY <1>1, <1>2 DEF FetchedBy, ReceivedBy, MarkedBy
  <2>2. Cardinality({}) = 0
    BY FS_EmptySet
  <2> QED BY <2>1, <2>2 DEF BatchCounts, Dies
<1>6. ListFits' /\ Calm'
  BY <1>1, <1>2 DEF ListFits, Calm
<1> QED BY <1>2, <1>3, <1>4, <1>5, <1>6

-----------------------------------------------------------------------------
(***************************************************************************)
(* Which event is which of these                                           *)
(***************************************************************************)
\* The events that move no address.
Quiet ==
  \/ BatchTimer \/ ProcessTimer \/ MetricsTimer \/ Children
  \/ HandshakeAnswered \/ MetricsAnswered
  \/ \E t \in transfers : Response(t)
  \/ \E ok \in BOOLEAN : \/ ListAnswered(ok) /\ T!Fresh = {}
                         \/ UrlsAnswered(ok) \/ ArticleAnswered(ok)
  \/ Restart \/ UNCHANGED vars

LEMMA QuietIsStill ==
  ASSUME Faultless, Quiet
  PROVE  Still /\ Calm'
<1>1. Kept({"mark"})
  <2>1. CASE UNCHANGED vars
    BY <2>1, FaultlessTypes, KeptRule DEF vars, conn, TypeOK
  <2> QED BY <2>1, FaultlessTypes, StayKept DEF Quiet, MarksStay
<1>2. ASSUME NEW t \in transfers, Response(t)
      PROVE  /\ OneTransferEach'
             /\ Receiving' = Receiving /\ \A b : ReceivedBy(b)' = ReceivedBy(b)
             /\ UNCHANGED <<pending, remaining, fatal>>
             /\ \A s \in transfers' : s.phase \in {"get", "body"}
  <2>1. D!Move(t, "body") /\ UNCHANGED <<pending, remaining, fatal>>
    BY <1>2 DEF Response, D!Response, notNetwork, conn, batching
  <2>2. t \in D!Transfer
    BY FaultlessTypes DEF TypeOK, D!TypeOK
  <2>3. [t EXCEPT !.phase = "body"].phase = "body"
    BY <2>2 DEF D!Transfer
  <2>4. \A s \in transfers' : s.phase \in {"get", "body"}
    BY <2>1, <2>3, FaultlessTypes DEF D!Move, Calm
  <2> QED BY <2>1, <2>4, FaultlessTypes, TransferMoves
<1>3. ASSUME UNCHANGED <<transfers, pending, remaining, fatal>>
      PROVE  /\ OneTransferEach'
             /\ Receiving' = Receiving /\ \A b : ReceivedBy(b)' = ReceivedBy(b)
             /\ \A s \in transfers' : s.phase \in {"get", "body"}
  BY <1>3, FaultlessTypes DEF OneTransferEach, Receiving, ReceivedBy, Calm
<1>4. \/ UNCHANGED <<transfers, pending, remaining, fatal>>
      \/ \E t \in transfers : Response(t)
  <2>1. CASE BatchTimer \/ ProcessTimer \/ MetricsTimer
    BY <2>1 DEF BatchTimer, ProcessTimer, MetricsTimer, C!Enqueue, batching
  <2>2. CASE Children
    BY <2>2 DEF Children, UrlExtractClosed, VerifyArticleClosed, ContentExtractClosed,
                MetaExtractClosed, notChild, batching
  <2>3. CASE HandshakeAnswered \/ MetricsAnswered \/ Restart
    BY <2>3 DEF HandshakeAnswered, MetricsAnswered, Restart, batching
  <2>4. ASSUME NEW ok \in BOOLEAN, \/ ListAnswered(ok) /\ T!Fresh = {}
                                   \/ UrlsAnswered(ok) \/ ArticleAnswered(ok)
        PROVE  UNCHANGED <<transfers, pending, remaining, fatal>>
    BY <2>4 DEF ListAnswered, UrlsAnswered, ArticleAnswered, batching
  <2>5. CASE UNCHANGED vars
    BY <2>5 DEF vars, conn, batching
  <2> QED BY <2>1, <2>2, <2>3, <2>4, <2>5 DEF Quiet
<1>5. Calm'
  BY <1>2, <1>3, <1>4, FaultlessTypes DEF Calm
<1> QED BY <1>1, <1>2, <1>3, <1>4, <1>5 DEF Still

\* Without faults a transfer calls back once, and is gone.
LEMMA NetworkLands ==
  ASSUME Faultless, Network
  PROVE  \/ \E t \in transfers : Response(t)
         \/ \E t \in transfers : Lands(t) /\ Calm' /\ files' = files /\ UNCHANGED notNetwork
<1>1. PICK t \in transfers : \/ Response(t) \/ RequestError(t) \/ FileFinish(t)
                             \/ FileError(t) \/ RequestEnd(t)
  BY DEF Network
<1>2. t.phase \in {"get", "body"} /\ ~Fault /\ ~fatal
  BY FaultlessTypes DEF Calm
<1>3. ~FileError(t) /\ ~RequestEnd(t)
  BY <1>2 DEF FileError, RequestEnd, D!RequestEnd
<1>4. ASSUME D!End(t), UNCHANGED fatal PROVE Calm'
  BY <1>4, FaultlessTypes DEF Calm, D!End
<1>5. CASE RequestError(t)
  <2>1. t.phase = "get" /\ D!End(t) /\ files' = files /\ UNCHANGED notNetwork
    BY <1>2, <1>5 DEF RequestError, D!RequestError
  <2>2. queue' = Append(queue, Mark(t.url, -1, t.batch)) /\ UNCHANGED fatal
    BY <1>5 DEF RequestError, downloaded, C!Enqueue
  <2> QED BY <1>4, <2>1, <2>2 DEF Lands, notNetwork, batching
<1>6. CASE FileFinish(t)
  <2>1. D!End(t) /\ files' = files /\ UNCHANGED notNetwork
    BY <1>6 DEF FileFinish, D!FileFinish
  <2>2. queue' = Append(queue, Mark(t.url, 1, t.batch)) /\ UNCHANGED fatal
    BY <1>6 DEF FileFinish, downloaded, C!Enqueue
  <2> QED BY <1>4, <2>1, <2>2 DEF Lands, notNetwork, batching
<1> QED BY <1>1, <1>3, <1>5, <1>6

\* The steps without a fault.
LEMMA FaultlessSteps ==
  ASSUME Faultless, [Next]_vars
  PROVE  \/ Quiet
         \/ \E t \in transfers : Lands(t) /\ Calm' /\ files' = files /\ UNCHANGED notNetwork
         \/ \E ok \in BOOLEAN : \/ ListAnswered(ok) /\ T!Fresh # {}
                                \/ MarkAnswered(ok) \/ FinishAnswered(ok)
         \/ Crash
<1>1. ~ConnectionLost /\ ~ConnectionLostUnheard
  BY FaultlessTypes DEF ConnectionLost, ConnectionLostUnheard
<1>2. CASE Network
  BY <1>2, NetworkLands DEF Quiet
<1>3. CASE Callback
  BY <1>3 DEF Callback, Quiet
<1> QED BY <1>1, <1>2, <1>3 DEF Next, Quiet

-----------------------------------------------------------------------------
(***************************************************************************)
(* Room for the next batch                                                 *)
(***************************************************************************)
\* No listing is asked for by any event but those of batch_download.
LEMMA NoNewList ==
  ASSUME TypeOK, Pipe,
         \/ ProcessTimer \/ MetricsTimer \/ Network \/ Children \/ ConnectionLost
         \/ HandshakeAnswered \/ MetricsAnswered \/ UNCHANGED vars
         \/ \E ok \in BOOLEAN : \/ ListAnswered(ok) \/ UrlsAnswered(ok)
                                \/ ArticleAnswered(ok) \/ FinishAnswered(ok)
  PROVE  NoneNew({"list"})
<1> DEFINE Others == {"mark", "metrics"} \cup P!QueryStages
<1>1. ASSUME NEW r, Left(r), Asks(r, Others) PROVE NoneNew({"list"})
  <2>1. \A e \in Query : e.op \in Others => e.op \notin {"list"}
    BY DEF P!QueryStages
  <2> QED BY <1>1, <2>1, NoneNewRule DEF Asks
<1>2. ASSUME NEW r, Asks(r, P!QueryStages) \/ Asks(r, {"mark"} \cup P!QueryStages) \/ queue' = r
      PROVE  Asks(r, Others)
  BY <1>2 DEF Asks
<1>3. Left(queue) /\ (queue # <<>> => Left(C!Rest))
  BY LeftAny
<1> HIDE DEF Others
<1>4. CASE ProcessTimer
  BY <1>1, <1>2, <1>3, <1>4, ProcessAsks DEF ProcessTimer, TypeOK
<1>5. CASE MetricsTimer
  <2>1. queue' = Append(queue, InsertMetrics) /\ InsertMetrics \in Query /\ InsertMetrics.op = "metrics"
    BY <1>5, QueryTypes DEF MetricsTimer, C!Enqueue, InsertMetrics
  <2>2. Asks(queue, Others)
    BY <2>1 DEF Asks, Others
  <2> QED BY <1>1, <1>3, <2>2
<1>6. CASE Network
  BY <1>1, <1>2, <1>3, <1>6, NetworkAsks
<1>7. CASE Children
  BY <1>1, <1>2, <1>3, <1>7, ChildrenAsk
<1>8. CASE ConnectionLost \/ UNCHANGED vars
  <2>1. queue' = queue
    BY <1>8 DEF ConnectionLost, C!ConnectionLost, vars, conn
  <2> QED BY <1>1, <1>2, <1>3, <2>1
<1>9. CASE HandshakeAnswered \/ MetricsAnswered
  <2>1. queue # <<>> /\ queue' = C!Rest
    BY <1>9 DEF HandshakeAnswered, MetricsAnswered, Answers
  <2> QED BY <1>1, <1>2, <1>3, <2>1
<1>10. ASSUME NEW ok \in BOOLEAN, ListAnswered(ok) \/ UrlsAnswered(ok) PROVE NoneNew({"list"})
  <2>1. queue # <<>> /\ queue' = C!Rest
    BY <1>10 DEF ListAnswered, UrlsAnswered, Answers
  <2> QED BY <1>1, <1>2, <1>3, <2>1
<1>11. ASSUME NEW ok \in BOOLEAN, ArticleAnswered(ok) PROVE NoneNew({"list"})
  <2>1. queue # <<>> /\ Asks(C!Rest, P!QueryStages)
    BY <1>11, Working, ProcessedAsks DEF ArticleAnswered, Answers, P!ArticleUploaded, Pipe
  <2> QED BY <1>1, <1>2, <1>3, <2>1
<1>12. ASSUME NEW ok \in BOOLEAN, FinishAnswered(ok) PROVE NoneNew({"list"})
  <2>0. queue # <<>> /\ Head(queue).op = "finish"
    BY <1>12 DEF FinishAnswered, Answers
  <2>1. pending' \in Seq(Urls)
    BY <1>12, <2>0, Answering, Working DEF FinishAnswered, Pipe, P!QueryStages
  <2>2. Asks(C!Rest, P!QueryStages)
    BY <1>12, <2>1, ProcessAsks DEF FinishAnswered
  <2> QED BY <1>1, <1>2, <1>3, <2>0, <2>2
<1> QED BY <1>4, <1>5, <1>6, <1>7, <1>8, <1>9, <1>10, <1>11, <1>12

\* A call of batch_download asks for a listing only if there is room.
LEMMA RoomForList ==
  ASSUME NEW r \in Seq(Query), NEW n, NEW p \in Seq(Urls), batch_download(r, n, p), pending' = p,
         Places(r, {"list"}) # {} => Len(p) <= PendingLimit
  PROVE  ListFits'
<1>1. CASE queue' = r
  BY <1>1, EntriesArePlaces DEF ListFits
<1>2. CASE ~OverLimit(p)
  BY <1>2, CrawlerAssumption DEF ListFits, OverLimit
<1> QED BY <1>1, <1>2 DEF batch_download

LEMMA ListFitsNext ==
  ASSUME Faultless, [Next]_vars
  PROVE  ListFits'
<1>1. /\ TypeOK /\ TypeOK' /\ Pipe /\ Chain /\ BatchCounts /\ queue \in Seq(Query)
      /\ pending \in Seq(Urls) /\ ~Fault
      /\ Entries("list") # {} => Len(pending) <= PendingLimit
  BY FaultlessTypes DEF TypeOK, ListFits
<1>2. Entries("list") = Places(queue, {"list"})
  BY EntriesArePlaces
<1>3. ASSUME NoneNew({"list"}), Len(pending') <= Len(pending) PROVE ListFits'
  <2>1. Entries("list")' # {} => Entries("list") # {}
    BY <1>3, EntriesArePlaces DEF NoneNew
  <2> QED BY <1>1, <1>3, <2>1, CrawlerAssumption DEF ListFits, TypeOK
<1>4. CASE BatchTimer
  BY <1>1, <1>2, <1>4, RoomForList DEF BatchTimer
<1>5. CASE ProcessTimer \/ MetricsTimer \/ Network \/ Children \/ UNCHANGED vars
  <2>1. pending' = pending
    <3>1. CASE Network
      BY <3>1 DEF Network, Response, RequestError, FileFinish, FileError, RequestEnd, notNetwork
    <3>2. CASE Children
      BY <3>2 DEF Children, UrlExtractClosed, VerifyArticleClosed, ContentExtractClosed,
                  MetaExtractClosed, notChild
    <3> QED BY <1>5, <3>1, <3>2 DEF ProcessTimer, MetricsTimer, vars
  <2> QED BY <1>1, <1>3, <1>5, <2>1, NoNewList
<1>6. CASE HandshakeAnswered \/ MetricsAnswered
  BY <1>1, <1>3, <1>6, NoNewList DEF HandshakeAnswered, MetricsAnswered
<1>7. ASSUME NEW ok \in BOOLEAN, ListAnswered(ok) \/ UrlsAnswered(ok) \/ ArticleAnswered(ok)
      PROVE  ListFits'
  <2>1. pending' = pending
    BY <1>7 DEF ListAnswered, UrlsAnswered, ArticleAnswered
  <2>2. NoneNew({"list"})
    BY <1>1, <1>7, NoNewList
  <2> QED BY <1>1, <1>3, <2>1, <2>2
<1>8. ASSUME NEW ok \in BOOLEAN, FinishAnswered(ok) PROVE ListFits'
  <2>1. pending # <<>> /\ pending' = Tail(pending)
    BY <1>8, SettlesPlaces DEF FinishAnswered
  <2>2. Len(pending') <= Len(pending)
    BY <1>1, <2>1, HeadTailProperties
  <2> QED BY <1>1, <1>3, <1>8, <2>2, NoNewList
<1>9. ASSUME NEW ok \in BOOLEAN, MarkAnswered(ok) PROVE ListFits'
  <2>1. queue # <<>> /\ Head(queue).op = "mark"
    BY <1>9 DEF MarkAnswered, Answers
  <2>2. C!Rest \in Seq(Query) /\ pending' \in Seq(Urls) /\ up
    BY <1>1, <1>9, <2>1, RestTypes DEF TypeOK, MarkAnswered, Answers
  <2>3. \E b \in Batches : Counting(b)
    <3>1. Head(queue).url \in Fetching
      BY <1>9, ArrivesPlaces
    <3>2. PICK b \in Batches : Head(queue).url \in FetchedBy(b)
      BY <1>1, <3>1, FetchedCounts
    <3>3. FetchedBy(b) # {}
      BY <3>2
    <3> QED BY <1>1, <3>3, FetchedCounts
  <2>4. Places(queue, {"list"}) = {}
    BY <1>1, <2>2, <2>3 DEF Chain, ChainTimer, ChainList, ChainBatch
  <2>5. Places(C!Rest, {"list"}) = {}
    BY <1>1, <2>1, <2>4, PlacesOfRest
  <2>6. CASE queue' = C!Rest
    BY <2>5, <2>6, EntriesArePlaces DEF ListFits
  <2>7. CASE batch_download(C!Rest, batchTimers, pending')
    <3>1. PICK p \in Seq(Urls) : p = pending'
      BY <2>2
    <3> QED BY <2>2, <2>5, <2>7, <3>1, RoomForList
  <2> QED BY <1>9, <2>6, <2>7 DEF MarkAnswered
<1>10. CASE Crash
  BY <1>10, DeadPlaces DEF Crash
<1>11. CASE Restart
  <2>1. pending' = <<>>
    BY <1>11, FaultlessTypes DEF Restart, DeadIsEmpty
  <2> QED BY <2>1, CrawlerAssumption DEF ListFits
<1>12. ~ConnectionLost /\ ~ConnectionLostUnheard
  BY <1>1 DEF ConnectionLost, ConnectionLostUnheard
<1> QED BY <1>4, <1>5, <1>6, <1>7, <1>8, <1>9, <1>10, <1>11, <1>12 DEF Next, Callback

-----------------------------------------------------------------------------
(***************************************************************************)
(* What a status says                                                      *)
(***************************************************************************)
\* The query at the server is about an address whose place is known.
LEMMA HeadPlaces ==
  ASSUME Faultless, queue # <<>>
  PROVE  /\ Head(queue) \in Query
         /\ Head(queue).op = "mark" =>
              /\ Head(queue).url \in Fetching /\ Head(queue).url \in Urls
              /\ Head(queue).val \in {-1, 1}
         /\ Head(queue).op \in {"finish", "upload_article"} =>
              /\ Head(queue).op = stage /\ Head(queue).url = page /\ page \in Urls
              /\ page \in Backlog /\ pending # <<>> /\ Head(pending) = page
         /\ Head(queue).op = "finish" =>
              /\ Head(queue).val \in {-2, 2, 3}
              /\ Head(queue).val # 2 => ~Stored(page)
<1> DEFINE q == Head(queue)
<1>1. q \in Query /\ 1 \in DOMAIN queue /\ queue[1] = q
  BY FaultlessTypes, RestTypes DEF TypeOK
<1>2. /\ q.op = "mark" => q.url \in Urls /\ q.val \in {-1, 1}
      /\ q.op = "finish" => q.val \in {-2, 2, 3}
  BY <1>1, QueryFields
<1>3. q.op = "mark" => q.url \in Fetching
  BY <1>1 DEF Entries, Fetching
<1>4. ASSUME q.op \in {"finish", "upload_article"}
      PROVE  /\ q.op = stage /\ q.url = page /\ page \in Urls
             /\ page \in Backlog /\ pending # <<>> /\ Head(pending) = page
  <2>1. q.op = stage /\ stage # "idle" /\ q.url = page
    BY <1>4, FaultlessTypes, Answering DEF Pipe, P!QueryStages
  <2>2. page \in Urls /\ pending # <<>> /\ Head(pending) = page
    BY <2>1, FaultlessTypes, Working DEF Pipe
  <2>3. Head(pending) = pending[1] /\ 1 \in DOMAIN pending
    BY <2>2, FaultlessTypes, HeadTailProperties DEF TypeOK
  <2> QED BY <2>1, <2>2, <2>3 DEF Backlog
<1>5. q.op = "finish" /\ q.val # 2 => ~Stored(page)
  <2>1. q.op = "finish" => 1 \in Entries("finish")
    BY <1>1 DEF Entries
  <2> QED BY <1>1, <1>4, <2>1, FaultlessTypes DEF StoredTells, FinishTells
<1> QED BY <1>1, <1>2, <1>3, <1>4, <1>5

\* A page in pending has no article, but when its final status is being written.
LEMMA BacklogUnstored ==
  ASSUME Faultless, NEW u \in Urls, u \in Backlog, ~(stage = "finish" /\ page = u)
  PROVE  ~Stored(u)
BY FaultlessTypes DEF StatusTells, StoredTells, StoredStatus

\* The page the pipeline works on is the oldest one in pending.
LEMMA WorkingBacklog ==
  ASSUME Faultless, stage # "idle"
  PROVE  page \in Urls /\ page \in Backlog /\ pending # <<>> /\ Head(pending) = page
<1>1. page \in Urls /\ pending # <<>> /\ Head(pending) = page
  BY FaultlessTypes, Working DEF Pipe
<1>2. Head(pending) = pending[1] /\ 1 \in DOMAIN pending
  BY <1>1, FaultlessTypes, HeadTailProperties DEF TypeOK
<1> QED BY <1>1, <1>2 DEF Backlog

\* What the events that move no address do to the rest.
QuietEffect ==
  /\ status' = status /\ rows \subseteq rows' /\ files' \subseteq files
  /\ stage = "finish" => stage' = "finish" /\ page' = page
  /\ stage' = "finish" => (stage = "finish" /\ page' = page) \/ page' \notin files'
  /\ \/ content' = content
     \/ \E ok \in BOOLEAN : ArticleAnswered(ok) /\ ok

LEMMA QuietData ==
  ASSUME Faultless, Quiet
  PROVE  QuietEffect
<1>1. ASSUME UNCHANGED <<tables, stage, page, files>> PROVE QuietEffect
  BY <1>1 DEF tables, QuietEffect
<1>2. CASE BatchTimer \/ MetricsTimer \/ HandshakeAnswered \/ MetricsAnswered \/ Restart
  BY <1>1, <1>2 DEF BatchTimer, MetricsTimer, HandshakeAnswered, MetricsAnswered, Restart, pipeline
<1>3. CASE UNCHANGED vars
  BY <1>1, <1>3 DEF vars, pipeline
<1>4. ASSUME NEW t \in transfers, Response(t) PROVE QuietEffect
  BY <1>1, <1>4 DEF Response, D!Response, notNetwork, pipeline
<1>5. ASSUME NEW ok \in BOOLEAN, ListAnswered(ok), T!Fresh = {} PROVE QuietEffect
  BY <1>1, <1>5 DEF ListAnswered, pipeline
<1>6. CASE ProcessTimer
  <2>1. UNCHANGED tables /\ stage = "idle"
    BY <1>6 DEF ProcessTimer
  <2>2. files' = files /\ (stage' = "finish" => page' \notin files)
    <3>1. CASE pending = <<>>
      BY <1>6, <3>1 DEF ProcessTimer, process_pending, P!Idle
    <3>2. CASE pending # <<>>
      BY <1>6, <3>2 DEF ProcessTimer, process_pending, P!process
    <3> QED BY <3>1, <3>2
  <2> QED BY <2>1, <2>2 DEF QuietEffect, tables
<1>7. CASE Children
  <2>1. UNCHANGED tables /\ stage # "finish"
    BY <1>7 DEF Children, UrlExtractClosed, VerifyArticleClosed, ContentExtractClosed,
                MetaExtractClosed, notChild, P!UrlExtractClosed, P!NotArticle, P!IsArticle,
                P!ContentExtractClosed, P!MetaExtractClosed
  <2>2. files' \subseteq files /\ (stage' = "finish" => page' \notin files')
    <3>1. CASE VerifyArticleClosed
      BY <3>1 DEF VerifyArticleClosed, P!NotArticle, P!IsArticle, P!clean, P!GoTo
    <3>2. ASSUME NEW readable \in BOOLEAN, UrlExtractClosed(readable)
          PROVE  files' = files /\ stage' # "finish"
      BY <3>2 DEF UrlExtractClosed, P!UrlExtractClosed, P!GoTo
    <3>3. CASE ContentExtractClosed \/ MetaExtractClosed
      BY <3>3 DEF ContentExtractClosed, MetaExtractClosed, P!ContentExtractClosed,
                  P!MetaExtractClosed, P!GoTo
    <3> QED BY <1>7, <3>1, <3>2, <3>3 DEF Children
  <2> QED BY <2>1, <2>2 DEF QuietEffect, tables
<1>8. ASSUME NEW ok \in BOOLEAN, UrlsAnswered(ok) PROVE QuietEffect
  <2>1. /\ stage = "upload_urls" /\ stage' = "verify_article" /\ files' = files
        /\ T!InsertUrls(Head(queue).found) \/ UNCHANGED tables
    BY <1>8 DEF UrlsAnswered, P!UrlsUploaded, P!GoTo
  <2> QED BY <2>1 DEF QuietEffect, tables, T!InsertUrls
<1>9. ASSUME NEW ok \in BOOLEAN, ArticleAnswered(ok) PROVE QuietEffect
  <2>1. /\ stage = "upload_article" /\ stage' = "finish" /\ page' = page
        /\ files' = files \ {page}
        /\ IF ok THEN T!InsertContent(Head(queue).url, Head(queue).from) ELSE UNCHANGED tables
    BY <1>9 DEF ArticleAnswered, P!ArticleUploaded, P!GoTo, P!clean
  <2>2. status' = status /\ rows' = rows /\ (~ok => content' = content)
    BY <2>1 DEF T!InsertContent, tables
  <2> QED BY <1>9, <2>1, <2>2 DEF QuietEffect
<1> QED BY <1>2, <1>3, <1>4, <1>5, <1>6, <1>7, <1>8, <1>9 DEF Quiet

LEMMA StatusStill ==
  ASSUME StatusTells, status' = status, rows \subseteq rows', Fetching' = Fetching,
         Backlog' = Backlog
  PROVE  StatusTells'
BY DEF StatusTells

LEMMA StatusNext ==
  ASSUME Faultless, [Next]_vars
  PROVE  StatusTells'
<1>1. /\ StatusTells /\ Fetching \cap Backlog = {} /\ TypeOK
      /\ status \in [Urls -> T!Status]
  BY FaultlessTypes DEF OnePlace, TypeOK, T!TypeOK
<1>2. CASE Quiet
  BY <1>1, <1>2, QuietIsStill, StillPlaces, QuietData, StatusStill DEF QuietEffect
<1>3. ASSUME NEW t \in transfers, Lands(t), UNCHANGED notNetwork PROVE StatusTells'
  BY <1>1, <1>3, LandsPlaces, StatusStill DEF notNetwork, tables
<1>4. ASSUME NEW ok \in BOOLEAN, ListAnswered(ok), T!Fresh # {} PROVE StatusTells'
  <2>1. PICK S \in T!Listing : Fetching' = S /\ Backlog' = Backlog
    BY <1>4, ListsPlaces
  <2>2. \A u \in S : u \in rows /\ status[u] = 0
    BY DEF T!Listing, T!Fresh
  <2>3. UNCHANGED tables
    BY <1>4 DEF ListAnswered
  <2> QED BY <1>1, <2>1, <2>2, <2>3 DEF StatusTells, tables
<1>5. ASSUME NEW ok \in BOOLEAN, MarkAnswered(ok) PROVE StatusTells'
  <2> DEFINE q == Head(queue)
  <2>1. ok /\ queue # <<>> /\ q.op = "mark" /\ T!UpdateStatus(q.url, q.val)
    BY <1>5, FaultlessTypes DEF MarkAnswered, Answers
  <2>2. q.url \in Fetching /\ q.url \in Urls /\ q.val \in {-1, 1}
    BY <2>1, HeadPlaces
  <2>3. Fetching' = Fetching \ {q.url} /\ Backlog' = Backlog \cup {q.url}
    BY <1>5, ArrivesPlaces
  <2>4. rows' = rows /\ status' = [status EXCEPT ![q.url] = q.val]
    BY <2>1 DEF T!UpdateStatus
  <2> HIDE DEF q
  <2> QED BY <1>1, <2>2, <2>3, <2>4 DEF StatusTells
<1>6. ASSUME NEW ok \in BOOLEAN, FinishAnswered(ok) PROVE StatusTells'
  <2>1. /\ T!UpdateStatus(page, Head(queue).val) /\ page \in Urls /\ page \in Backlog
        /\ Fetching' = Fetching /\ Backlog' = Backlog \ {page}
    BY <1>6, SettlesPlaces
  <2>2. rows' = rows /\ status' = [status EXCEPT ![page] = Head(queue).val]
    BY <2>1 DEF T!UpdateStatus
  <2>3. page \in rows
    BY <1>1, <2>1 DEF StatusTells
  <2> QED BY <1>1, <2>1, <2>2, <2>3 DEF StatusTells
<1>7. CASE Crash
  <2>1. Fetching' = {} /\ Backlog' = {}
    BY <1>7, DeadPlaces DEF Crash
  <2>2. \A u \in Urls : status'[u] # 0 => u \in rows'
    <3>1. CASE UNCHANGED tables
      BY <1>1, <3>1 DEF tables, StatusTells
    <3>2. ASSUME queue # <<>>, Execute(Head(queue)) PROVE \A u \in Urls : status'[u] # 0 => u \in rows'
      <4>1. CASE Head(queue).op \in {"mark", "finish"} /\ T!UpdateStatus(Head(queue).url, Head(queue).val)
        <5>1. Head(queue).url \in rows
          BY <1>1, <3>2, <4>1, HeadPlaces DEF StatusTells
        <5> QED BY <1>1, <4>1, <5>1 DEF T!UpdateStatus, StatusTells
      <4>2. CASE T!InsertUrls(Head(queue).found) \/ T!InsertContent(Head(queue).url, Head(queue).from)
        BY <1>1, <4>2 DEF T!InsertUrls, T!InsertContent, StatusTells
      <4> QED BY <3>2, <4>1, <4>2 DEF Execute
    <3> QED BY <1>7, <3>1, <3>2 DEF Crash, Unanswered, C!Serving
  <2> QED BY <2>1, <2>2 DEF StatusTells
<1> QED BY <1>2, <1>3, <1>4, <1>5, <1>6, <1>7, FaultlessSteps

-----------------------------------------------------------------------------
(***************************************************************************)
(* What an article's row says                                              *)
(***************************************************************************)
LEMMA StoredStill ==
  ASSUME Faultless, content' = content, status' = status, Backlog' \subseteq Backlog,
         stage = "finish" => stage' = "finish" /\ page' = page
  PROVE  StoredStatus'
BY FaultlessTypes DEF StoredTells, StoredStatus, Stored

\* A row that a final status reaches is out of pending.
LEMMA StoredSettles ==
  ASSUME Faultless, NEW ok \in BOOLEAN, FinishAnswered(ok)
  PROVE  StoredStatus' /\ content' = content
<1>1. /\ T!UpdateStatus(page, Head(queue).val) /\ page \in Urls /\ page \in Backlog
      /\ Backlog' = Backlog \ {page} /\ queue # <<>> /\ Head(queue).op = "finish"
  BY SettlesPlaces
<1>2. Head(queue).val # 2 => ~Stored(page)
  BY <1>1, HeadPlaces
<1>3. content' = content /\ status' = [status EXCEPT ![page] = Head(queue).val]
  BY <1>1 DEF T!UpdateStatus
<1>4. status \in [Urls -> T!Status]
  BY FaultlessTypes DEF TypeOK, T!TypeOK
<1>5. ASSUME NEW u \in Urls, Stored(u)' PROVE status'[u] = 2 \/ (status'[u] \in {-1, 1} /\ u \notin Backlog')
  <2>1. Stored(u)
    BY <1>3, <1>5 DEF Stored
  <2>2. CASE u = page
    BY <1>1, <1>2, <1>3, <1>4, <2>1, <2>2
  <2>3. CASE u # page
    <3>1. status'[u] = status[u]
      BY <1>1, <1>3, <1>4, <2>3
    <3>2. u \notin Backlog
      BY <2>1, <2>3, BacklogUnstored
    <3>3. status[u] = 2 \/ status[u] \in {-1, 1}
      BY <2>1, FaultlessTypes DEF StoredTells, StoredStatus
    <3> QED BY <1>1, <3>1, <3>2, <3>3
  <2> QED BY <2>2, <2>3
<1> QED BY <1>3, <1>5 DEF StoredStatus

LEMMA StoredArrives ==
  ASSUME Faultless, NEW ok \in BOOLEAN, MarkAnswered(ok)
  PROVE  StoredStatus' /\ content' = content
<1> DEFINE q == Head(queue)
<1>1. ok /\ queue # <<>> /\ q.op = "mark" /\ T!UpdateStatus(q.url, q.val) /\ UNCHANGED pipeline
  BY FaultlessTypes DEF MarkAnswered, Answers
<1>2. q.url \in Fetching /\ q.url \in Urls
  BY <1>1, HeadPlaces
<1>3. Backlog' = Backlog \cup {q.url}
  BY ArrivesPlaces
<1>4. content' = content /\ status' = [status EXCEPT ![q.url] = q.val]
  BY <1>1 DEF T!UpdateStatus
<1>5. status \in [Urls -> T!Status] /\ StoredStatus /\ status[q.url] = 0
  BY <1>2, FaultlessTypes DEF TypeOK, T!TypeOK, StoredTells, StatusTells
<1>6. ~Stored(q.url)
  BY <1>2, <1>5 DEF StoredStatus
<1> HIDE DEF q
<1>7. ASSUME NEW u \in Urls, Stored(u)'
      PROVE  \/ status'[u] = 2
             \/ status'[u] \in {-1, 1} /\ (u \in Backlog' => stage' = "finish" /\ page' = u)
  <2>1. Stored(u) /\ u # q.url
    BY <1>4, <1>6, <1>7 DEF Stored
  <2>2. status'[u] = status[u] /\ (u \in Backlog' => u \in Backlog)
    BY <1>2, <1>3, <1>4, <1>5, <2>1
  <2>3. stage' = stage /\ page' = page
    BY <1>1 DEF pipeline
  <2> QED BY <1>5, <2>1, <2>2, <2>3 DEF StoredStatus
<1> QED BY <1>4, <1>7 DEF StoredStatus

\* The INSERT of the page at the head of pending.
LEMMA StoredInsert ==
  ASSUME Faultless, queue # <<>>, Head(queue).op = "upload_article",
         T!InsertContent(Head(queue).url, Head(queue).from)
  PROVE  /\ status' = status /\ status[page] \in {-1, 1}
         /\ \A u \in Urls : Stored(u)' => u = page \/ Stored(u)
<1>1. Head(queue).url = page /\ page \in Urls /\ page \in Backlog
  BY HeadPlaces
<1>2. status[page] \in {-1, 1}
  BY <1>1, FaultlessTypes DEF StatusTells
<1>3. /\ status' = status
      /\ content' = content \cup {[url |-> page, from |-> Head(queue).from]}
  BY <1>1 DEF T!InsertContent
<1>4. [url |-> page, from |-> Head(queue).from].url = page
  OBVIOUS
<1>5. \A u \in Urls : Stored(u)' => u = page \/ Stored(u)
  BY <1>3, <1>4 DEF Stored
<1> QED BY <1>2, <1>3, <1>5

LEMMA StoredArticle ==
  ASSUME Faultless, NEW ok \in BOOLEAN, ArticleAnswered(ok), ok
  PROVE  StoredStatus'
<1>1. /\ queue # <<>> /\ Head(queue).op = "upload_article"
      /\ T!InsertContent(Head(queue).url, Head(queue).from)
      /\ stage = "upload_article" /\ stage' = "finish" /\ page' = page /\ UNCHANGED pending
  BY DEF ArticleAnswered, Answers, P!ArticleUploaded, P!GoTo
<1>2. /\ status' = status /\ status[page] \in {-1, 1}
      /\ \A u \in Urls : Stored(u)' => u = page \/ Stored(u)
  BY <1>1, StoredInsert
<1>3. Backlog' = Backlog /\ StoredStatus
  BY <1>1, FaultlessTypes DEF Backlog, StoredTells
<1> QED BY <1>1, <1>2, <1>3 DEF StoredStatus

LEMMA StoredCrash ==
  ASSUME Faultless, Crash
  PROVE  StoredStatus'
<1>1. Backlog' = {}
  BY DeadPlaces DEF Crash
<1>2. StoredStatus /\ status \in [Urls -> T!Status]
  BY FaultlessTypes DEF StoredTells, TypeOK, T!TypeOK
<1>3. SUFFICES \A u \in Urls : Stored(u)' => status'[u] \in {-1, 1, 2}
  BY <1>1 DEF StoredStatus
<1>4. \A u \in Urls : Stored(u) => status[u] \in {-1, 1, 2}
  BY <1>2 DEF StoredStatus
<1>5. CASE UNCHANGED tables
  BY <1>4, <1>5 DEF tables, Stored
<1>6. ASSUME queue # <<>>, Execute(Head(queue))
      PROVE  \A u \in Urls : Stored(u)' => status'[u] \in {-1, 1, 2}
  <2> DEFINE q == Head(queue)
  <2>1. CASE q.op \in {"mark", "finish"} /\ T!UpdateStatus(q.url, q.val)
    <3>1. content' = content /\ status' = [status EXCEPT ![q.url] = q.val]
      BY <2>1 DEF T!UpdateStatus
    <3>2. q.url \in Urls /\ (Stored(q.url) => q.val \in {-1, 1, 2})
      BY <1>6, <2>1, HeadPlaces
    <3> HIDE DEF q
    <3> QED BY <1>2, <1>4, <3>1, <3>2 DEF Stored
  <2>2. CASE q.op = "upload_urls" /\ T!InsertUrls(q.found)
    BY <1>4, <2>2 DEF T!InsertUrls, Stored
  <2>3. CASE q.op = "upload_article" /\ T!InsertContent(q.url, q.from)
    BY <1>4, <1>6, <2>3, StoredInsert
  <2> QED BY <1>6, <2>1, <2>2, <2>3 DEF Execute
<1> QED BY <1>5, <1>6 DEF Crash, Unanswered, C!Serving

LEMMA StoredStatusNext ==
  ASSUME Faultless, [Next]_vars
  PROVE  StoredStatus'
<1>1. CASE Quiet
  <2>1. QuietEffect /\ Backlog' = Backlog
    BY <1>1, QuietData, QuietIsStill, StillPlaces
  <2>2. CASE content' = content
    BY <2>1, <2>2, StoredStill DEF QuietEffect
  <2> QED BY <2>1, <2>2, StoredArticle DEF QuietEffect
<1>2. ASSUME NEW t \in transfers, Lands(t), UNCHANGED notNetwork PROVE StoredStatus'
  BY <1>2, LandsPlaces, StoredStill DEF notNetwork, tables, pipeline
<1>3. ASSUME NEW ok \in BOOLEAN, ListAnswered(ok), T!Fresh # {} PROVE StoredStatus'
  <2>1. UNCHANGED <<tables, pipeline>> /\ Backlog' = Backlog
    BY <1>3, ListsPlaces DEF ListAnswered
  <2> QED BY <2>1, StoredStill DEF tables, pipeline
<1> QED BY <1>1, <1>2, <1>3, FaultlessSteps, StoredArrives, StoredSettles, StoredCrash

\* A page reported as failed or as no article has none: the callback that asks
\* for that status runs before its page can have one.
LEMMA FinishKept ==
  ASSUME Faultless, NoneNew(P!QueryStages), content' = content
  PROVE  FinishTells'
<1>1. PICK d \in {0, 1} : \A i \in Places(queue', P!QueryStages) :
        i + d \in Places(queue, P!QueryStages) /\ queue'[i] = queue[i + d]
  BY DEF NoneNew
<1>2. \A i \in Entries("finish")' : i + d \in Entries("finish") /\ queue'[i] = queue[i + d]
  BY <1>1 DEF Places, Entries, P!QueryStages
<1> QED BY <1>2, FaultlessTypes DEF StoredTells, FinishTells, Stored

LEMMA FinishAsked ==
  ASSUME NEW r, Cleared(r),
         \/ queue' = r
         \/ \E e \in Query : /\ queue' = Append(r, e)
                             /\ e.op = "finish" /\ e.val # 2 => ~Stored(e.url)'
  PROVE  FinishTells'
<1>1. \A i \in DOMAIN r : r[i].op # "finish"
  BY DEF Cleared, Places, P!QueryStages
<1>2. CASE queue' = r
  BY <1>1, <1>2 DEF FinishTells, Entries
<1>3. ASSUME NEW e \in Query, queue' = Append(r, e),
             e.op = "finish" /\ e.val # 2 => ~Stored(e.url)'
      PROVE  FinishTells'
  <2>1. /\ DOMAIN queue' = DOMAIN r \cup {Len(r) + 1}
        /\ \A i \in DOMAIN r : queue'[i] = r[i]
        /\ queue'[Len(r) + 1] = e
    BY <1>3, AppendProperties DEF Cleared
  <2> QED BY <1>1, <1>3, <2>1 DEF FinishTells, Entries
<1> QED BY <1>2, <1>3

\* So for the callback of process(), which is given the page's own outcome.
LEMMA FinishProcessed ==
  ASSUME Faultless, NEW r, Cleared(r), stage # "idle",
         NEW err \in BOOLEAN, NEW is_article \in BOOLEAN, processed(r, err, is_article),
         page' = page, err \/ ~is_article => ~Stored(page)'
  PROVE  FinishTells'
<1> DEFINE v == IF err THEN -2 ELSE IF is_article THEN 2 ELSE 3
           e == Finish(page, v)
<1>1. page \in Urls /\ Head(pending) = page
  BY WorkingBacklog
<1>2. v \in {-2, 2, 3} /\ (v # 2 => ~Stored(page)')
  OBVIOUS
<1>3. queue' = Append(r, e)
  BY <1>1 DEF processed
<1>4. e \in Query /\ e.val = v /\ e.url = page
  BY <1>1, <1>2, QueryTypes DEF Finish
<1> HIDE DEF e, v
<1>5. PICK q \in Query : q = e
  BY <1>4
<1>6. q.val # 2 => ~Stored(q.url)'
  <2>1. PICK u : u = page /\ u = page'
    OBVIOUS
  <2>2. q.val # 2 => ~Stored(u)'
    BY <1>2, <1>4, <1>5, <2>1
  <2> QED BY <1>4, <1>5, <2>1, <2>2
<1> QED BY <1>3, <1>5, <1>6, FinishAsked

\* And for a page without a file.
LEMMA FinishProcess ==
  ASSUME Faultless, NEW r, Cleared(r), NEW p \in Seq(Urls), process_pending(r, p),
         p # <<>> => ~Stored(Head(p))'
  PROVE  FinishTells'
<1>1. CASE queue' = r
  BY <1>1, FinishAsked
<1>2. CASE p # <<>> /\ queue' = Append(r, Finish(Head(p), -2))
  <2>0. PICK u \in Urls : u = Head(p)
    BY <1>2
  <2>1. PICK q \in Query : q = Finish(u, -2) /\ q.url = u
    BY QueryTypes DEF Finish
  <2>2. ~Stored(q.url)'
    BY <1>2, <2>0, <2>1 DEF Stored
  <2> QED BY <1>2, <2>0, <2>1, <2>2, FinishAsked
<1> QED BY <1>1, <1>2 DEF process_pending

LEMMA FinishTellsNext ==
  ASSUME Faultless, [Next]_vars
  PROVE  FinishTells'
<1>1. /\ TypeOK /\ TypeOK' /\ Pipe /\ PipeQuery /\ pending \in Seq(Urls)
      /\ ~ConnectionLost /\ ~ConnectionLostUnheard
  BY FaultlessTypes DEF ConnectionLost, ConnectionLostUnheard, TypeOK, Pipe
<1>2. CASE BatchTimer \/ MetricsTimer \/ Network \/ HandshakeAnswered \/ MetricsAnswered
  <2>1. content' = content
    <3>1. CASE Network
      BY <3>1 DEF Network, Response, RequestError, FileFinish, FileError, RequestEnd,
                  notNetwork, tables
    <3> QED BY <1>2, <3>1 DEF BatchTimer, MetricsTimer, HandshakeAnswered, MetricsAnswered, tables
  <2> QED BY <1>1, <1>2, <2>1, NoNewStage, FinishKept
<1>3. ASSUME NEW ok \in BOOLEAN, ListAnswered(ok) \/ MarkAnswered(ok) PROVE FinishTells'
  <2>1. content' = content
    BY <1>3, StoredArrives DEF ListAnswered, tables
  <2> QED BY <1>1, <1>3, <2>1, NoNewStage, FinishKept
<1>4. CASE UNCHANGED vars
  BY <1>4, FaultlessTypes DEF vars, conn, tables, StoredTells, FinishTells, Entries, Stored
<1>5. CASE ProcessTimer
  <2>1. stage = "idle" /\ process_pending(queue, pending) /\ UNCHANGED tables
    BY <1>5 DEF ProcessTimer
  <2>2. Cleared(queue)
    BY <1>1, <2>1, ClearedBetween DEF P!QueryStages
  <2>3. ASSUME pending # <<>> PROVE ~Stored(Head(pending))'
    <3>1. Head(pending) \in Backlog /\ Head(pending) \in Urls
      BY <1>1, <2>3, HeadTailProperties DEF Backlog
    <3>2. ~Stored(Head(pending))
      BY <2>1, <3>1, BacklogUnstored
    <3>3. pending' = pending /\ content' = content
      BY <1>5 DEF ProcessTimer, tables
    <3> QED BY <3>2, <3>3 DEF Stored
  <2>4. PICK p \in Seq(Urls) : p = pending /\ p = pending'
    BY <1>1, <1>5 DEF ProcessTimer
  <2> QED BY <2>1, <2>2, <2>3, <2>4, FinishProcess
<1>6. CASE Children
  <2>1. stage \notin P!QueryStages /\ stage # "idle" /\ UNCHANGED tables
    BY <1>6 DEF Children, UrlExtractClosed, VerifyArticleClosed, ContentExtractClosed,
                MetaExtractClosed, notChild, P!UrlExtractClosed, P!NotArticle, P!IsArticle,
                P!ContentExtractClosed, P!MetaExtractClosed, P!QueryStages
  <2>2. Cleared(queue)
    BY <1>1, <2>1, ClearedBetween
  <2>3. page \in Urls /\ ~Stored(page)
    BY <2>1, WorkingBacklog, BacklogUnstored DEF P!QueryStages
  <2>4. CASE UNCHANGED queue
    BY <2>2, <2>4, FinishAsked
  <2>5. ASSUME NEW readable \in BOOLEAN, UrlExtractClosed(readable) PROVE FinishTells'
    <3>1. CASE readable
      <4>1. PICK S \in SUBSET Urls : queue' = Append(queue, UploadUrls(S \cup {Root}))
        BY <2>5, <3>1 DEF UrlExtractClosed
      <4>2. UploadUrls(S \cup {Root}) \in Query /\ UploadUrls(S \cup {Root}).op # "finish"
        BY QueryTypes, CrawlerAssumption DEF UploadUrls
      <4> QED BY <2>2, <4>1, <4>2, FinishAsked
    <3> QED BY <2>4, <2>5, <3>1 DEF UrlExtractClosed
  <2>6. CASE VerifyArticleClosed
    <3>1. CASE processed(queue, FALSE, FALSE)
      <4>1. page' = page
        BY <2>6 DEF VerifyArticleClosed, P!NotArticle, P!IsArticle, P!GoTo
      <4>2. ~Stored(page)'
        BY <2>1, <2>3, <4>1 DEF tables, Stored
      <4> QED BY <2>1, <2>2, <3>1, <4>1, <4>2, FinishProcessed
    <3> QED BY <2>4, <2>6, <3>1 DEF VerifyArticleClosed
  <2>7. CASE MetaExtractClosed
    <3>1. queue' = Append(queue, UploadArticle(page, P!ReadOutputs(outputs')))
      BY <2>7 DEF MetaExtractClosed
    <3>2. outputs' \in [P!Folders -> SUBSET Urls]
      BY <1>1 DEF TypeOK, P!TypeOK
    <3>3. /\ UploadArticle(page, P!ReadOutputs(outputs')) \in Query
          /\ UploadArticle(page, P!ReadOutputs(outputs')).op # "finish"
      BY <2>3, <3>2, QueryTypes DEF P!ReadOutputs, UploadArticle
    <3> QED BY <2>2, <3>1, <3>3, FinishAsked
  <2> QED BY <1>6, <2>4, <2>5, <2>6, <2>7 DEF Children, ContentExtractClosed
<1>7. ASSUME NEW ok \in BOOLEAN, UrlsAnswered(ok) PROVE FinishTells'
  <2>1. queue # <<>> /\ Head(queue).op \in P!QueryStages /\ queue' = C!Rest
    BY <1>7 DEF UrlsAnswered, Answers, P!QueryStages
  <2>2. Cleared(C!Rest)
    BY <1>1, <2>1, ClearedByAnswer
  <2> QED BY <2>1, <2>2, FinishAsked
<1>8. ASSUME NEW ok \in BOOLEAN, ArticleAnswered(ok) PROVE FinishTells'
  <2>1. /\ queue # <<>> /\ Head(queue).op = "upload_article"
        /\ stage = "upload_article" /\ processed(C!Rest, ~ok, TRUE) /\ page' = page
        /\ ~ok => UNCHANGED tables
    BY <1>8 DEF ArticleAnswered, Answers, P!ArticleUploaded, P!GoTo
  <2>2. Cleared(C!Rest)
    BY <1>1, <2>1, ClearedByAnswer DEF P!QueryStages
  <2>3. ~ok => ~Stored(page)'
    <3>1. ~Stored(page)
      BY <2>1, WorkingBacklog, BacklogUnstored
    <3> QED BY <2>1, <3>1 DEF tables, Stored
  <2>4. PICK err \in BOOLEAN : err = ~ok
    OBVIOUS
  <2>5. processed(C!Rest, err, TRUE) /\ (err => ~Stored(page)')
    BY <2>1, <2>3, <2>4
  <2> QED BY <2>1, <2>2, <2>5, FinishProcessed
<1>9. ASSUME NEW ok \in BOOLEAN, FinishAnswered(ok) PROVE FinishTells'
  <2>1. /\ queue # <<>> /\ Head(queue).op = "finish" /\ pending # <<>> /\ Head(pending) = page
        /\ page \in Urls /\ Backlog' = Backlog \ {page}
    BY <1>9, SettlesPlaces
  <2>2. Cleared(C!Rest)
    BY <1>1, <2>1, ClearedByAnswer DEF P!QueryStages
  <2>3. pending' \in Seq(Urls) /\ process_pending(C!Rest, pending')
    BY <1>9, <1>1 DEF FinishAnswered, TypeOK
  <2>4. PICK p \in Seq(Urls) : p = pending'
    BY <2>3
  <2>5. ASSUME p # <<>> PROVE ~Stored(Head(p))'
    <3>1. Head(p) \in Urls /\ Head(p) \in Backlog'
      BY <2>4, <2>5, HeadTailProperties DEF Backlog
    <3>2. Head(p) \in Backlog /\ Head(p) # page
      BY <2>1, <3>1
    <3>3. ~Stored(Head(p))
      BY <3>1, <3>2, BacklogUnstored
    <3>4. content' = content
      BY <1>9, StoredSettles
    <3> QED BY <3>3, <3>4 DEF Stored
  <2> QED BY <2>2, <2>3, <2>4, <2>5, FinishProcess
<1>10. CASE Crash
  BY <1>10, DeadPlaces DEF Crash, FinishTells
<1>11. CASE Restart
  <2>1. Places(queue', {"finish"}) = {}
    BY <1>11, LaunchHas DEF Restart
  <2> QED BY <2>1, EntriesArePlaces DEF FinishTells
<1> QED BY <1>1, <1>2, <1>3, <1>4, <1>5, <1>6, <1>7, <1>8, <1>9, <1>10, <1>11 DEF Next, Callback

-----------------------------------------------------------------------------
(***************************************************************************)
(* Without crashes nothing is lost                                         *)
(***************************************************************************)
LEMMA NothingLostNext ==
  ASSUME Faultless, NothingLost, [Next]_vars, ~Crash
  PROVE  NothingLost'
<1>1. /\ status \in [Urls -> T!Status] /\ Fetching \cap Backlog = {} /\ StatusTells
  BY FaultlessTypes DEF OnePlace, TypeOK, T!TypeOK
<1>2. CASE Quiet
  <2>1. QuietEffect /\ Fetching' = Fetching /\ Backlog' = Backlog
    BY <1>2, QuietData, QuietIsStill, StillPlaces
  <2> QED BY <2>1 DEF NothingLost, QuietEffect
<1>3. ASSUME NEW t \in transfers, Lands(t), files' = files, UNCHANGED notNetwork
      PROVE  NothingLost'
  <2>1. Fetching' = Fetching /\ Backlog' = Backlog
    BY <1>3, LandsPlaces
  <2> QED BY <1>3, <2>1 DEF NothingLost, notNetwork, tables, pipeline
<1>4. ASSUME NEW ok \in BOOLEAN, ListAnswered(ok), T!Fresh # {} PROVE NothingLost'
  <2>1. PICK S \in T!Listing : Fetching' = S /\ files' = files \cup S
    BY <1>4, ListsPlaces
  <2>2. Fetching = {} /\ Backlog' = Backlog
    BY <1>4, ListsPlaces
  <2>3. UNCHANGED <<tables, pipeline>>
    BY <1>4 DEF ListAnswered
  <2> QED BY <2>1, <2>2, <2>3 DEF NothingLost, tables, pipeline
<1>5. ASSUME NEW ok \in BOOLEAN, MarkAnswered(ok) PROVE NothingLost'
  <2> DEFINE q == Head(queue)
  <2>1. /\ ok /\ queue # <<>> /\ q.op = "mark" /\ T!UpdateStatus(q.url, q.val)
        /\ UNCHANGED <<stage, page, files>>
    BY <1>5, FaultlessTypes DEF MarkAnswered, Answers, pipeline
  <2>2. q.url \in Fetching /\ q.url \in Urls
    BY <2>1, HeadPlaces
  <2>3. Fetching' = Fetching \ {q.url} /\ Backlog' = Backlog \cup {q.url}
    BY <1>5, ArrivesPlaces
  <2>4. status' = [status EXCEPT ![q.url] = q.val]
    BY <2>1 DEF T!UpdateStatus
  <2>5. stage = "finish" => page # q.url
    BY <1>1, <2>2, WorkingBacklog
  <2> HIDE DEF q
  <2> QED BY <1>1, <2>1, <2>2, <2>3, <2>4, <2>5 DEF NothingLost
<1>6. ASSUME NEW ok \in BOOLEAN, FinishAnswered(ok) PROVE NothingLost'
  <2>1. /\ T!UpdateStatus(page, Head(queue).val) /\ page \in Urls /\ page \in Backlog
        /\ stage = "finish" /\ queue # <<>> /\ Head(queue).op = "finish"
        /\ Fetching' = Fetching /\ Backlog' = Backlog \ {page}
    BY <1>6, SettlesPlaces
  <2>2. status' = [status EXCEPT ![page] = Head(queue).val]
    BY <2>1 DEF T!UpdateStatus
  <2>3. status'[page] \notin {-1, 1}
    BY <1>1, <2>1, <2>2, HeadPlaces
  <2>4. page \notin files
    BY <1>1, <2>1 DEF NothingLost
  <2>5. files' = files /\ (stage' = "finish" => page' \notin files)
    <3>1. process_pending(C!Rest, pending')
      BY <1>6 DEF FinishAnswered
    <3>2. CASE pending' = <<>>
      BY <3>1, <3>2 DEF process_pending, P!Idle
    <3>3. CASE pending' # <<>>
      BY <3>1, <3>3 DEF process_pending, P!process
    <3> QED BY <3>2, <3>3
  <2>6. \A u \in Urls : status'[u] \in {-1, 1} => u \in Backlog'
    BY <1>1, <2>1, <2>2, <2>3 DEF NothingLost
  <2> QED BY <2>1, <2>4, <2>5, <2>6 DEF NothingLost
<1> QED BY <1>2, <1>3, <1>4, <1>5, <1>6, FaultlessSteps

-----------------------------------------------------------------------------
(***************************************************************************)
(* The invariant                                                           *)
(***************************************************************************)
LEMMA LocatedNext ==
  ASSUME Faultless, [Next]_vars
  PROVE  Located'
<1>1. Calm' /\ OnePlace' /\ BatchCounts'
  <2>1. CASE Quiet
    BY <2>1, QuietIsStill, StillPlaces
  <2>2. ASSUME NEW t \in transfers, Lands(t), Calm' PROVE Calm' /\ OnePlace' /\ BatchCounts'
    BY <2>2, LandsPlaces
  <2>3. ASSUME NEW ok \in BOOLEAN, ListAnswered(ok), T!Fresh # {}
        PROVE  Calm' /\ OnePlace' /\ BatchCounts'
    <3>1. fatal' = fatal
      BY <2>3 DEF ListAnswered
    <3> QED BY <2>3, <3>1, FaultlessTypes, ListsPlaces DEF Calm
  <2>4. ASSUME NEW ok \in BOOLEAN, MarkAnswered(ok) PROVE Calm' /\ OnePlace' /\ BatchCounts'
    <3>1. UNCHANGED <<fatal, transfers>>
      BY <2>4 DEF MarkAnswered
    <3> QED BY <2>4, <3>1, FaultlessTypes, ArrivesPlaces DEF Calm
  <2>5. ASSUME NEW ok \in BOOLEAN, FinishAnswered(ok) PROVE Calm' /\ OnePlace' /\ BatchCounts'
    <3>1. UNCHANGED <<fatal, transfers>>
      BY <2>5 DEF FinishAnswered
    <3> QED BY <2>5, <3>1, FaultlessTypes, SettlesPlaces DEF Calm
  <2>6. CASE Crash
    BY <2>6, DeadPlaces DEF Crash
  <2> QED BY <2>1, <2>2, <2>3, <2>4, <2>5, <2>6, FaultlessSteps
<1> QED BY <1>1, ListFitsNext, StatusNext, StoredStatusNext, FinishTellsNext
        DEF Located, StoredTells

\* A fault is never forgotten, and neither is a crash.
LEMMA HistoryGrows ==
  ASSUME TypeOK, [Next]_vars
  PROVE  /\ faults \in Nat /\ faults' \in {faults, faults + 1}
         /\ crashes \in Nat /\ crashes' \in {crashes, crashes + 1}
         /\ Crash => crashes' # 0
<1> DEFINE G == /\ faults' \in {faults, faults + 1}
                /\ crashes' \in {crashes, crashes + 1}
<1>1. faults \in Nat /\ crashes \in Nat
  BY CrawlerAssumption DEF TypeOK
<1>2. \A ok \in BOOLEAN : Outcome(ok) => faults' \in {faults, faults + 1}
  BY DEF Outcome, Fault
<1>3. ASSUME BatchTimer \/ ProcessTimer \/ MetricsTimer PROVE G
  BY <1>3 DEF BatchTimer, ProcessTimer, MetricsTimer, history
<1>4. ASSUME Network PROVE G
  BY <1>4 DEF Network, Response, RequestError, FileFinish, FileError, RequestEnd, notNetwork,
              history, Fault
<1>5. ASSUME Children PROVE G
  BY <1>5 DEF Children, UrlExtractClosed, VerifyArticleClosed, ContentExtractClosed,
              MetaExtractClosed, notChild, history
<1>6. ASSUME HandshakeAnswered \/ MetricsAnswered PROVE G
  BY <1>6 DEF HandshakeAnswered, MetricsAnswered, history
<1>7. ASSUME NEW ok \in BOOLEAN, ListAnswered(ok) \/ MarkAnswered(ok) \/ FinishAnswered(ok)
      PROVE  G
  BY <1>2, <1>7 DEF ListAnswered, MarkAnswered, FinishAnswered, history
<1>8. ASSUME NEW ok \in BOOLEAN, UrlsAnswered(ok) \/ ArticleAnswered(ok)
      PROVE  G
  BY <1>8 DEF UrlsAnswered, ArticleAnswered, history
<1>9. ASSUME ConnectionLost \/ ConnectionLostUnheard \/ Crash \/ Restart \/ UNCHANGED vars PROVE G
  BY <1>9 DEF ConnectionLost, ConnectionLostUnheard, Crash, Restart, Dies, vars, history, Fault
<1>10. Crash => crashes' # 0
  BY <1>1 DEF Crash, Dies
<1> QED BY <1>1, <1>3, <1>4, <1>5, <1>6, <1>7, <1>8, <1>9, <1>10 DEF Next, Callback

LEMMA LifeNext == IInv /\ IInv' /\ LifeInv /\ [Next]_vars => LifeInv'
<1> SUFFICES ASSUME IInv, IInv', LifeInv, [Next]_vars, faults' = 0
             PROVE  Located' /\ (crashes' = 0 => NothingLost')
  BY DEF LifeInv
<1>1. TypeOK
  BY DEF IInv
<1>2. faults = 0 /\ (crashes' = 0 => crashes = 0 /\ ~Crash)
  BY <1>1, HistoryGrows
<1>3. Faultless
  BY <1>2 DEF Faultless, LifeInv
<1> QED BY <1>2, <1>3, LocatedNext, NothingLostNext DEF LifeInv

LEMMA LifeInit == Init => LifeInv
<1> SUFFICES ASSUME Init PROVE Located /\ NothingLost
  BY DEF LifeInv
<1>1. /\ queue = Launch /\ fatal = FALSE /\ transfers = {} /\ pending = <<>>
      /\ remaining = [b \in Batches |-> 0] /\ files = {} /\ content = {}
      /\ status = [u \in Urls |-> 0]
  BY DEF Init, Started, T!Init, D!Init
<1>2. Entries("mark") = {} /\ Entries("finish") = {}
  BY <1>1, EntriesArePlaces, LaunchHas
<1>3. Fetching = {} /\ Backlog = {} /\ Receiving = {} /\ Marking = {}
  BY <1>1, <1>2 DEF Fetching, Backlog, Receiving, Marking
<1>4. Calm /\ OnePlace
  BY <1>1, <1>2, <1>3 DEF Calm, OnePlace
<1>5. BatchCounts
  <2>1. \A b : FetchedBy(b) = {}
    BY <1>1, <1>2 DEF FetchedBy, ReceivedBy, MarkedBy
  <2>2. Cardinality({}) = 0
    BY FS_EmptySet
  <2> QED BY <1>1, <2>1, <2>2 DEF BatchCounts
<1>6. ListFits
  BY <1>1, CrawlerAssumption DEF ListFits
<1>7. StatusTells /\ StoredTells
  BY <1>1, <1>2, <1>3 DEF StatusTells, StoredTells, StoredStatus, FinishTells, Stored
<1>8. NothingLost
  BY <1>1 DEF NothingLost
<1> QED BY <1>4, <1>5, <1>6, <1>7, <1>8 DEF Located

-----------------------------------------------------------------------------
(***************************************************************************)
(* What it says in the words of Crawler's properties                       *)
(***************************************************************************)
LEMMA FewElements ==
  ASSUME NEW S, \A x, y \in S : x = y
  PROVE  Cardinality(S) = IF S = {} THEN 0 ELSE 1
<1>1. CASE S = {}
  BY <1>1, FS_EmptySet
<1>2. ASSUME NEW x \in S PROVE Cardinality(S) = 1
  <2>1. S = {x}
    BY <1>2
  <2> QED BY <2>1, FS_Singleton
<1> QED BY <1>1, <1>2

\* An address in one place is held once, and one in no place is not held.
LEMMA HeldOnce ==
  ASSUME OnePlace, NEW u
  PROVE  Holders(u) = IF u \in Fetching \cup Backlog THEN 1 ELSE 0
<1> DEFINE A == {t \in transfers : t.url = u}
           B == {i \in Entries("mark") : queue[i].url = u}
           W == {i \in DOMAIN pending : pending[i] = u}
<1>1. /\ \A x, y \in A : x = y
      /\ \A x, y \in B : x = y
      /\ \A x, y \in W : x = y
  BY DEF OnePlace
<1>2. /\ A # {} <=> u \in Receiving
      /\ B # {} <=> u \in Marking
      /\ W # {} <=> u \in Backlog
  BY DEF Receiving, Marking, Backlog
<1>3. Holders(u) = Cardinality(A) + Cardinality(B) + Cardinality(W)
  BY DEF Holders
<1> HIDE DEF A, B, W
<1>4. /\ Cardinality(A) = IF u \in Receiving THEN 1 ELSE 0
      /\ Cardinality(B) = IF u \in Marking THEN 1 ELSE 0
      /\ Cardinality(W) = IF u \in Backlog THEN 1 ELSE 0
  BY <1>1, <1>2, FewElements
<1>5. Receiving \cap Marking = {} /\ (Receiving \cup Marking) \cap Backlog = {}
  BY FetchingIs DEF OnePlace
<1> QED BY <1>3, <1>4, <1>5, FetchingIs

LEMMA LifeMeans ==
  IInv /\ LifeInv => OneHolder /\ FailedNotStored /\ MarkedIffPending /\ FilesOwned
<1> SUFFICES ASSUME IInv, Located, crashes = 0 => NothingLost
             PROVE  /\ \A u \in Urls : Holders(u) <= 1
                    /\ \A u \in Urls : status[u] \in {-2, 3} => ~Stored(u)
                    /\ crashes = 0 =>
                         /\ \A u \in Urls : status[u] \in {-1, 1} <=> u \in Backlog
                         /\ \A u \in files : Holders(u) = 1
  BY DEF LifeInv, OneHolder, FailedNotStored, MarkedIffPending, FilesOwned
<1>1. OnePlace /\ StatusTells /\ StoredStatus
  BY DEF Located, StoredTells
<1>2. \A u \in Urls : Holders(u) <= 1
  BY <1>1, HeldOnce
<1>3. \A u \in Urls : status[u] \in {-2, 3} => ~Stored(u)
  BY <1>1 DEF StoredStatus
<1>4. ASSUME NothingLost, NEW u \in Urls PROVE status[u] \in {-1, 1} <=> u \in Backlog
  BY <1>1, <1>4 DEF NothingLost, StatusTells
<1>5. ASSUME NothingLost, NEW u \in files PROVE Holders(u) = 1
  BY <1>1, <1>5, HeldOnce DEF NothingLost
<1> QED BY <1>2, <1>3, <1>4, <1>5

\* No step without a fault writes over a final status.
LEMMA FinalNext ==
  ASSUME Faultless, [Next]_vars
  PROVE  \A u \in Urls : status[u] \in T!Settled => status'[u] = status[u]
<1> DEFINE G == \A u \in Urls : status[u] \in T!Settled => status'[u] = status[u]
<1>1. /\ status \in [Urls -> T!Status]
      /\ \A u \in Fetching : status[u] = 0
      /\ \A u \in Backlog : status[u] \in {-1, 1}
  BY FaultlessTypes DEF StatusTells, TypeOK, T!TypeOK
<1>2. ASSUME queue # <<>>, Head(queue).op \in {"mark", "finish"},
             T!UpdateStatus(Head(queue).url, Head(queue).val)
      PROVE  G
  <2>1. status' = [status EXCEPT ![Head(queue).url] = Head(queue).val]
    BY <1>2 DEF T!UpdateStatus
  <2>2. Head(queue).url \in Urls /\ status[Head(queue).url] \notin T!Settled
    BY <1>1, <1>2, HeadPlaces DEF T!Settled
  <2> QED BY <1>1, <2>1, <2>2
<1>3. CASE Quiet
  BY <1>3, QuietData DEF QuietEffect
<1>4. ASSUME NEW t \in transfers, UNCHANGED notNetwork PROVE G
  BY <1>4 DEF notNetwork, tables
<1>5. ASSUME NEW ok \in BOOLEAN, ListAnswered(ok) \/ MarkAnswered(ok) \/ FinishAnswered(ok)
      PROVE  G
  <2>1. \/ UNCHANGED status
        \/ /\ queue # <<>> /\ Head(queue).op \in {"mark", "finish"}
           /\ T!UpdateStatus(Head(queue).url, Head(queue).val)
    BY <1>5 DEF ListAnswered, MarkAnswered, FinishAnswered, Answers, tables
  <2> QED BY <1>2, <2>1
<1>6. CASE Crash
  <2>1. \/ UNCHANGED status
        \/ /\ queue # <<>> /\ Head(queue).op \in {"mark", "finish"}
           /\ T!UpdateStatus(Head(queue).url, Head(queue).val)
    BY <1>6 DEF Crash, Unanswered, Execute, C!Serving, T!InsertUrls, T!InsertContent, tables
  <2> QED BY <1>2, <2>1
<1> QED BY <1>3, <1>4, <1>5, <1>6, FaultlessSteps

-----------------------------------------------------------------------------
(***************************************************************************)
(* The refinement of PageLife                                              *)
(***************************************************************************)
\* Where an address is in its life.
LEMMA LifeIs ==
  ASSUME NEW u \in Urls
  PROVE  LifeOf[u] = IF u \notin rows THEN "unknown"
                     ELSE IF u \in Backlog THEN "waiting"
                     ELSE IF u \in Fetching THEN "fetching"
                     ELSE IF status[u] = 0 THEN "new"
                     ELSE IF status[u] \in T!Settled THEN "done" ELSE "lost"
BY DEF LifeOf

\* The same after a step.
LEMMA LifeIsNext ==
  ASSUME NEW u \in Urls
  PROVE  LifeOf'[u] = IF u \notin rows' THEN "unknown"
                      ELSE IF u \in Backlog' THEN "waiting"
                      ELSE IF u \in Fetching' THEN "fetching"
                      ELSE IF status'[u] = 0 THEN "new"
                      ELSE IF status'[u] \in T!Settled THEN "done" ELSE "lost"
BY DEF LifeOf

LEMMA LifeFunctions ==
  /\ LifeOf = [u \in Urls |-> LifeOf[u]]
  /\ LifeOf' = [u \in Urls |-> LifeOf'[u]]
BY DEF LifeOf

\* The instance of FiniteSets inside PageLife counts as FiniteSets does.
LEMMA LifeCardinality == \A S : Life!Cardinality(S) = Cardinality(S)
BY DEF Life!Cardinality, Cardinality

LEMMA PlaceTypes ==
  ASSUME Faultless
  PROVE  /\ Fetching \subseteq rows /\ Backlog \subseteq rows /\ Fetching \cap Backlog = {}
         /\ rows \subseteq Urls /\ rows' \subseteq Urls
         /\ status \in [Urls -> T!Status] /\ StatusTells
<1>1. Fetching \subseteq Urls
  BY FaultlessTypes, FetchedFinite
<1>2. Backlog \subseteq Urls
  <2>1. pending \in Seq(Urls)
    BY FaultlessTypes DEF TypeOK
  <2> QED BY <2>1 DEF Backlog
<1>3. /\ rows \subseteq Urls /\ rows' \subseteq Urls /\ status \in [Urls -> T!Status]
  BY FaultlessTypes DEF TypeOK, T!TypeOK
<1>4. Fetching \cap Backlog = {} /\ StatusTells
  BY FaultlessTypes DEF OnePlace
<1>5. Fetching \subseteq rows /\ Backlog \subseteq rows
  BY <1>1, <1>2, <1>4 DEF StatusTells
<1> QED BY <1>3, <1>4, <1>5

\* An address is in the life its place says, and the sets of PageLife are those
\* of the program.
LEMMA LifePlaces ==
  ASSUME Faultless
  PROVE  /\ Life!In("unknown") = Urls \ rows
         /\ Life!In("fetching") = Fetching
         /\ Life!In("waiting") = Backlog
         /\ T!Fresh \ Fetching \subseteq Life!In("new")
<1>1. Fetching \subseteq Urls /\ Backlog \subseteq Urls /\ rows \subseteq Urls
  BY PlaceTypes
<1>2. /\ \A u \in Fetching : u \in rows /\ u \notin Backlog
      /\ \A u \in Backlog : u \in rows /\ status[u] # 0
  BY PlaceTypes DEF StatusTells
<1>3. Life!In("unknown") = Urls \ rows
  BY LifeIs DEF Life!In
<1>4. Life!In("fetching") = Fetching
  BY <1>1, <1>2, LifeIs DEF Life!In
<1>5. Life!In("waiting") = Backlog
  BY <1>1, <1>2, LifeIs DEF Life!In
<1>6. T!Fresh \ Fetching \subseteq Life!In("new")
  BY <1>1, <1>2, LifeIs DEF Life!In, T!Fresh
<1> QED BY <1>3, <1>4, <1>5, <1>6

LEMMA RefinesInit == Init => Life!Init
<1> SUFFICES ASSUME Init PROVE Life!Init
  OBVIOUS
<1>1. /\ queue = Launch /\ transfers = {} /\ pending = <<>>
      /\ rows = {Seed} /\ status = [u \in Urls |-> 0]
  BY DEF Init, Started, T!Init
<1>2. Entries("mark") = {}
  BY <1>1, EntriesArePlaces, LaunchHas
<1>3. Fetching = {} /\ Backlog = {}
  BY <1>1, <1>2 DEF Fetching, Backlog
<1>4. \A u \in Urls : LifeOf[u] = IF u = Seed THEN "new" ELSE "unknown"
  BY <1>1, <1>3, LifeIs
<1>5. LifeOf = [u \in Urls |-> IF u = Seed THEN "new" ELSE "unknown"]
  BY <1>4, LifeFunctions
<1> QED BY <1>1, <1>5 DEF Life!Init

\* What another page's links do, and any event that moves no address.
LEMMA RefinesQuiet ==
  ASSUME Faultless, Fetching' = Fetching, Backlog' = Backlog, pending' = pending,
         status' = status, rows \subseteq rows'
  PROVE  Life!Discover
<1> DEFINE S == rows' \ rows
<1>1. rows' \subseteq Urls
  BY FaultlessTypes DEF TypeOK, T!TypeOK
<1>2. \A u \in S : status[u] = 0 /\ u \notin Fetching /\ u \notin Backlog
  BY <1>1, PlaceTypes DEF StatusTells
<1>3. \A u \in Urls : LifeOf'[u] = IF u \in S THEN "new" ELSE LifeOf[u]
  BY <1>2, LifeIs, LifeIsNext
<1>4. S \in SUBSET Life!In("unknown")
  BY <1>1, LifePlaces
<1>5. LifeOf' = Life!Become(S, "new")
  BY <1>3, LifeFunctions DEF Life!Become
<1> QED BY <1>4, <1>5 DEF Life!Discover

LEMMA RefinesList ==
  ASSUME Faultless, NEW ok \in BOOLEAN, ListAnswered(ok), T!Fresh # {}
  PROVE  Life!Fetch
<1>1. Fetching = {} /\ Backlog' = Backlog /\ pending' = pending /\ UNCHANGED tables
  BY ListsPlaces DEF ListAnswered
<1>2. PICK S \in T!Listing : Fetching' = S
  BY ListsPlaces
<1>3. S \subseteq T!Fresh /\ Cardinality(S) <= BatchCount
  <2>1. Cardinality(S) = BatchCount \/ (S = T!Fresh /\ Cardinality(S) < BatchCount)
    BY SameCardinality DEF T!Listing
  <2>2. T!Fresh \subseteq Urls
    BY FaultlessTypes DEF T!Fresh, TypeOK, T!TypeOK
  <2>3. Cardinality(S) \in Nat
    BY <2>2, FS_Subset, FS_CardinalityType, CrawlerAssumption DEF T!Listing
  <2> QED BY <2>1, <2>3, CrawlerAssumption DEF T!Listing
<1>4. Len(pending) <= PendingLimit
  <2>1. queue # <<>> /\ Head(queue).op = "list"
    BY DEF ListAnswered, Answers
  <2>2. 1 \in Entries("list")
    BY <2>1, FaultlessTypes, RestTypes DEF Entries, TypeOK
  <2> QED BY <2>2, FaultlessTypes DEF ListFits
<1>5. S \in SUBSET Life!In("new") /\ Life!In("fetching") = {}
  BY <1>1, <1>3, LifePlaces
<1>6. \A u \in Urls : LifeOf'[u] = IF u \in S THEN "fetching" ELSE LifeOf[u]
  <2>1. \A u \in S : u \in rows /\ u \notin Backlog
    <3>1. S \subseteq rows /\ \A u \in S : status[u] = 0
      BY <1>3 DEF T!Fresh
    <3> QED BY <3>1, FaultlessTypes DEF StatusTells
  <2>2. rows' = rows /\ status' = status
    BY <1>1 DEF tables
  <2> QED BY <1>1, <1>2, <2>1, <2>2, LifeIs, LifeIsNext
<1>7. LifeOf' = Life!Become(S, "fetching")
  BY <1>6, LifeFunctions DEF Life!Become
<1> QED BY <1>1, <1>3, <1>4, <1>5, <1>7, LifeCardinality DEF Life!Fetch

LEMMA RefinesMark ==
  ASSUME Faultless, NEW ok \in BOOLEAN, MarkAnswered(ok)
  PROVE  Life!Arrive
<1> DEFINE q == Head(queue)
<1>1. ok /\ queue # <<>> /\ q.op = "mark" /\ T!UpdateStatus(q.url, q.val)
  BY FaultlessTypes DEF MarkAnswered, Answers
<1>2. PICK u \in Fetching : u = q.url /\ u \in Urls
  BY <1>1, HeadPlaces
<1>3. Fetching' = Fetching \ {u} /\ Backlog' = Backlog \cup {u} /\ pending' = Append(pending, u)
  BY <1>2, ArrivesPlaces DEF MarkAnswered, push
<1>4. rows' = rows /\ status' = [status EXCEPT ![u] = q.val]
  BY <1>1, <1>2 DEF T!UpdateStatus
<1>5. status \in [Urls -> T!Status] /\ u \in rows
  BY <1>2, FaultlessTypes DEF TypeOK, T!TypeOK, StatusTells
<1> HIDE DEF q
<1>6. \A v \in Urls : LifeOf'[v] = IF v \in {u} THEN "waiting" ELSE LifeOf[v]
  <2> SUFFICES ASSUME NEW v \in Urls PROVE LifeOf'[v] = IF v \in {u} THEN "waiting" ELSE LifeOf[v]
    OBVIOUS
  <2>1. CASE v = u
    BY <1>3, <1>4, <1>5, <2>1, LifeIsNext
  <2>2. CASE v # u
    <3>1. status'[v] = status[v] /\ (v \in Fetching' <=> v \in Fetching) /\ (v \in Backlog' <=> v \in Backlog)
      BY <1>3, <1>4, <1>5, <2>2
    <3> QED BY <1>4, <2>2, <3>1, LifeIs, LifeIsNext
  <2> QED BY <2>1, <2>2
<1>7. LifeOf' = Life!Become({u}, "waiting")
  BY <1>6, LifeFunctions DEF Life!Become
<1> QED BY <1>2, <1>3, <1>7, LifePlaces DEF Life!Arrive

LEMMA RefinesFinish ==
  ASSUME Faultless, NEW ok \in BOOLEAN, FinishAnswered(ok)
  PROVE  Life!Settle
<1>1. /\ T!UpdateStatus(page, Head(queue).val) /\ page \in Urls /\ page \in Backlog
      /\ queue # <<>> /\ Head(queue).op = "finish"
      /\ pending # <<>> /\ Head(pending) = page
      /\ Fetching' = Fetching /\ Backlog' = Backlog \ {page}
  BY SettlesPlaces
<1>2. PICK u \in Urls : u = page
  BY <1>1
<1>3. rows' = rows /\ status' = [status EXCEPT ![u] = Head(queue).val]
  BY <1>1, <1>2 DEF T!UpdateStatus
<1>4. Head(queue).val \in T!Settled
  BY <1>1, HeadPlaces DEF T!Settled
<1>5. status \in [Urls -> T!Status] /\ u \in rows /\ u \notin Fetching
  BY <1>1, <1>2, PlaceTypes
<1>6. \A v \in Urls : LifeOf'[v] = IF v \in {u} THEN "done" ELSE LifeOf[v]
  <2> SUFFICES ASSUME NEW v \in Urls PROVE LifeOf'[v] = IF v \in {u} THEN "done" ELSE LifeOf[v]
    OBVIOUS
  <2>1. CASE v = u
    <3>1. status'[v] \in T!Settled /\ status'[v] # 0
      BY <1>3, <1>4, <1>5, <2>1 DEF T!Settled
    <3> QED BY <1>1, <1>2, <1>3, <1>5, <2>1, <3>1, LifeIsNext
  <2>2. CASE v # u
    <3>1. status'[v] = status[v] /\ (v \in Backlog' <=> v \in Backlog)
      BY <1>1, <1>2, <1>3, <1>5, <2>2
    <3> QED BY <1>1, <1>3, <2>2, <3>1, LifeIs, LifeIsNext
  <2> QED BY <2>1, <2>2
<1>7. LifeOf' = Life!Become({u}, "done")
  BY <1>6, LifeFunctions DEF Life!Become
<1>8. pending' = Tail(pending)
  BY DEF FinishAnswered
<1> QED BY <1>1, <1>2, <1>7, <1>8 DEF Life!Settle

\* What the statement that a death leaves unanswered has done to the tables.
DeathEffect ==
  /\ rows \subseteq rows'
  /\ \A u \in Urls \ rows : status'[u] = 0
  /\ \A u \in Fetching : status'[u] \in {0, -1, 1}
  /\ \A u \in Backlog : \/ status'[u] \in {-1, 1}
                        \/ pending # <<>> /\ u = Head(pending) /\ status'[u] \in T!Settled
  /\ \A u \in Urls : u \in Fetching \/ u \in Backlog \/ status'[u] = status[u]

LEMMA DeathTables ==
  ASSUME Faultless, Crash
  PROVE  DeathEffect
<1>1. /\ status \in [Urls -> T!Status] /\ StatusTells /\ Fetching \cap Backlog = {}
      /\ Fetching \subseteq Urls /\ Backlog \subseteq Urls
  BY PlaceTypes
<1>2. ASSUME status' = status, rows \subseteq rows' PROVE DeathEffect
  BY <1>1, <1>2 DEF DeathEffect, StatusTells
<1>3. CASE UNCHANGED tables
  BY <1>2, <1>3 DEF tables
<1>4. ASSUME queue # <<>>, Execute(Head(queue)) PROVE DeathEffect
  <2> DEFINE q == Head(queue)
  <2>1. CASE q.op = "mark" /\ T!UpdateStatus(q.url, q.val)
    <3>1. q.url \in Fetching /\ q.url \in Urls /\ q.val \in {-1, 1}
      BY <1>4, <2>1, HeadPlaces
    <3>2. rows' = rows /\ status' = [status EXCEPT ![q.url] = q.val]
      BY <2>1 DEF T!UpdateStatus
    <3> HIDE DEF q
    <3> QED BY <1>1, <3>1, <3>2 DEF DeathEffect, StatusTells
  <2>2. CASE q.op = "finish" /\ T!UpdateStatus(q.url, q.val)
    <3>1. /\ q.url \in Backlog /\ q.url \in Urls /\ pending # <<>> /\ Head(pending) = q.url
          /\ q.val \in T!Settled
      BY <1>4, <2>2, HeadPlaces DEF T!Settled
    <3>2. rows' = rows /\ status' = [status EXCEPT ![q.url] = q.val]
      BY <2>2 DEF T!UpdateStatus
    <3> HIDE DEF q
    <3> QED BY <1>1, <3>1, <3>2 DEF DeathEffect, StatusTells
  <2>3. CASE T!InsertUrls(q.found) \/ T!InsertContent(q.url, q.from)
    BY <1>2, <2>3 DEF T!InsertUrls, T!InsertContent
  <2> QED BY <1>4, <2>1, <2>2, <2>3 DEF Execute
<1> QED BY <1>3, <1>4 DEF Crash, Unanswered, C!Serving

LEMMA RefinesCrash ==
  ASSUME Faultless, Crash
  PROVE  Life!Crash
<1>1. Fetching' = {} /\ Backlog' = {} /\ pending' = <<>>
  BY DeadPlaces DEF Crash, Dies
<1>2. DeathEffect
  BY DeathTables
<1>3. StatusTells /\ Fetching \cap Backlog = {} /\ rows' \subseteq Urls
  BY FaultlessTypes DEF OnePlace, TypeOK, T!TypeOK
<1>4. ASSUME NEW u \in Urls
      PROVE  LifeOf'[u] = IF u \notin rows' THEN "unknown"
                          ELSE IF status'[u] = 0 THEN "new"
                          ELSE IF status'[u] \in T!Settled THEN "done" ELSE "lost"
  BY <1>1, LifeIsNext
<1>5. ASSUME NEW u \in Urls PROVE LifeOf'[u] \in Life!AfterCrash(u)
  <2>1. CASE u \notin rows
    <3>1. LifeOf[u] = "unknown" /\ status'[u] = 0
      BY <1>2, <2>1, LifeIs DEF DeathEffect
    <3>2. LifeOf'[u] \in {"unknown", "new"}
      BY <1>4, <3>1
    <3> QED BY <3>1, <3>2 DEF Life!AfterCrash
  <2>2. CASE u \in rows /\ u \in Fetching
    <3>1. LifeOf[u] = "fetching" /\ status'[u] \in {0, -1, 1} /\ u \in rows'
      BY <1>2, <1>3, <2>2, LifeIs DEF DeathEffect
    <3>2. LifeOf'[u] \in {"new", "lost"}
      BY <1>4, <3>1 DEF T!Settled
    <3> QED BY <3>1, <3>2 DEF Life!AfterCrash
  <2>3. CASE u \in rows /\ u \in Backlog
    <3>1. LifeOf[u] = "waiting" /\ u \in rows'
      BY <1>2, <2>3, LifeIs DEF DeathEffect
    <3>2. \/ LifeOf'[u] = "lost"
          \/ u = Head(pending) /\ LifeOf'[u] = "done"
      BY <1>2, <1>4, <2>3, <3>1 DEF DeathEffect, T!Settled
    <3> QED BY <3>1, <3>2 DEF Life!AfterCrash
  <2>4. CASE u \in rows /\ u \notin Fetching /\ u \notin Backlog
    <3>1. status'[u] = status[u] /\ u \in rows'
      BY <1>2, <2>4 DEF DeathEffect
    <3>2. LifeOf'[u] = LifeOf[u] /\ LifeOf[u] \in {"new", "done", "lost"}
      BY <1>4, <2>4, <3>1, LifeIs
    <3> QED BY <3>2 DEF Life!AfterCrash
  <2> QED BY <2>1, <2>2, <2>3, <2>4
<1>6. LifeOf' \in [Urls -> Life!Lives]
  <2>1. \A u \in Urls : LifeOf'[u] \in Life!Lives
    BY <1>4 DEF Life!Lives
  <2> QED BY <2>1, LifeFunctions
<1> QED BY <1>1, <1>5, <1>6 DEF Life!Crash

LEMMA RefinesNext ==
  ASSUME Faultless, [Next]_vars
  PROVE  Life!Next
<1>1. CASE Quiet
  <2>1. Fetching' = Fetching /\ Backlog' = Backlog /\ pending' = pending
    BY <1>1, QuietIsStill, StillPlaces DEF Still
  <2>2. status' = status /\ rows \subseteq rows'
    BY <1>1, QuietData DEF QuietEffect
  <2> QED BY <2>1, <2>2, RefinesQuiet DEF Life!Next
<1>2. ASSUME NEW t \in transfers, Lands(t), UNCHANGED notNetwork PROVE Life!Next
  <2>1. Fetching' = Fetching /\ Backlog' = Backlog /\ pending' = pending
    BY <1>2, LandsPlaces DEF Lands
  <2>2. status' = status /\ rows \subseteq rows'
    BY <1>2 DEF notNetwork, tables
  <2> QED BY <2>1, <2>2, RefinesQuiet DEF Life!Next
<1> QED BY <1>1, <1>2, RefinesList, RefinesMark, RefinesFinish, RefinesCrash, FaultlessSteps
        DEF Life!Next

-----------------------------------------------------------------------------
(***************************************************************************)
(* How many pushes onto pending are still to come                          *)
(***************************************************************************)
LEMMA InjectionBounds ==
  ASSUME NEW S, NEW R, IsFiniteSet(R), NEW f \in [S -> R],
         \A x, y \in S : f[x] = f[y] => x = y
  PROVE  IsFiniteSet(S) /\ Cardinality(S) <= Cardinality(R)
<1>1. f \in Injection(S, R)
  BY DEF Injection, IsInjective
<1> QED BY <1>1, FS_Injection

LEMMA TransferFinite == IsFiniteSet(D!Transfer)
<1> DEFINE P2 == (Urls \X Batches) \X D!Phases
           f == [t \in D!Transfer |-> <<<<t.url, t.batch>>, t.phase>>]
<1>1. IsFiniteSet(D!Phases)
  <2>1. IsFiniteSet({"get"} \cup {"body"}) /\ IsFiniteSet({"cut"} \cup {"unpiped"})
    BY FS_Singleton, FS_Union
  <2>2. D!Phases = ({"get"} \cup {"body"}) \cup ({"cut"} \cup {"unpiped"})
    BY DEF D!Phases
  <2> QED BY <2>1, <2>2, FS_Union
<1>2. IsFiniteSet(P2)
  BY <1>1, CrawlerAssumption, FS_Product
<1>3. f \in [D!Transfer -> P2] /\ \A s, t \in D!Transfer : f[s] = f[t] => s = t
  BY DEF D!Transfer
<1> HIDE DEF f, P2
<1> QED BY <1>2, <1>3, InjectionBounds

\* Both of its parts are numbers.
LEMMA CountTypes ==
  /\ \A S \in SUBSET D!Transfer : IsFiniteSet(S) /\ Cardinality(S) \in Nat
  /\ \A q \in Seq(Query) : /\ IsFiniteSet(Places(q, {"mark"}))
                           /\ Cardinality(Places(q, {"mark"})) \in Nat
<1>1. ASSUME NEW S \in SUBSET D!Transfer PROVE IsFiniteSet(S) /\ Cardinality(S) \in Nat
  BY TransferFinite, FS_Subset, FS_CardinalityType
<1>2. ASSUME NEW q \in Seq(Query)
      PROVE  IsFiniteSet(Places(q, {"mark"})) /\ Cardinality(Places(q, {"mark"})) \in Nat
  <2>1. Places(q, {"mark"}) \in SUBSET (1 .. Len(q)) /\ Len(q) \in Nat
    BY DEF Places
  <2>2. IsFiniteSet(1 .. Len(q))
    BY <2>1, FS_Interval
  <2> QED BY <2>1, <2>2, FS_Subset, FS_CardinalityType
<1> QED BY <1>1, <1>2

LEMMA OutstandingIs ==
  ASSUME TypeOK, TypeOK'
  PROVE  /\ Outstanding = Cardinality(transfers) + Cardinality(Entries("mark"))
         /\ Outstanding' = Cardinality(transfers') + Cardinality(Entries("mark")')
         /\ IsFiniteSet(transfers) /\ Cardinality(transfers) \in Nat
         /\ IsFiniteSet(transfers') /\ Cardinality(transfers') \in Nat
         /\ IsFiniteSet(Entries("mark")) /\ Cardinality(Entries("mark")) \in Nat
         /\ IsFiniteSet(Entries("mark")') /\ Cardinality(Entries("mark")') \in Nat
<1>1. transfers \in SUBSET D!Transfer /\ transfers' \in SUBSET D!Transfer
  BY DEF TypeOK, D!TypeOK
<1>2. queue \in Seq(Query) /\ queue' \in Seq(Query)
  BY DEF TypeOK
<1>3. Entries("mark") = Places(queue, {"mark"}) /\ Entries("mark")' = Places(queue', {"mark"})
  BY EntriesArePlaces
<1>4. /\ Outstanding = Cardinality(transfers) + Cardinality(Entries("mark"))
      /\ Outstanding' = Cardinality(transfers') + Cardinality(Entries("mark")')
  BY DEF Outstanding
<1> QED BY <1>1, <1>2, <1>3, <1>4, CountTypes

\* Marks that only move up in the queue do not become more.
LEMMA MarksNotMore ==
  ASSUME TypeOK, TypeOK', Kept({"mark"})
  PROVE  Cardinality(Entries("mark")') <= Cardinality(Entries("mark"))
<1>1. PICK d \in {0, 1} : \A i \in Places(queue', {"mark"}) : i + d \in Places(queue, {"mark"})
  BY DEF Kept
<1>2. \A i \in Places(queue', {"mark"}) : i \in Int
  BY DEF Places, TypeOK
<1> DEFINE f == [i \in Places(queue', {"mark"}) |-> i + d]
<1>3. /\ f \in [Places(queue', {"mark"}) -> Places(queue, {"mark"})]
      /\ \A x, y \in Places(queue', {"mark"}) : f[x] = f[y] => x = y
  <2>1. \A x, y \in Int : x + d = y + d => x = y
    OBVIOUS
  <2>2. \A x, y \in Places(queue', {"mark"}) : f[x] = f[y] => x = y
    BY <1>2, <2>1
  <2> QED BY <1>1, <2>2
<1>4. Entries("mark") = Places(queue, {"mark"}) /\ Entries("mark")' = Places(queue', {"mark"})
  BY EntriesArePlaces
<1>5. IsFiniteSet(Places(queue, {"mark"}))
  BY <1>4, OutstandingIs
<1> HIDE DEF f
<1> QED BY <1>3, <1>4, <1>5, InjectionBounds

LEMMA MarkAdded ==
  ASSUME TypeOK, TypeOK', NEW e \in Query, e.op = "mark", queue' = Append(queue, e)
  PROVE  Cardinality(Entries("mark")') = Cardinality(Entries("mark")) + 1
<1>1. queue \in Seq(Query)
  BY DEF TypeOK
<1>2. Entries("mark")' = Entries("mark") \cup {Len(queue) + 1}
  BY <1>1, PlacesOfAppend, EntriesArePlaces
<1>3. Len(queue) + 1 \notin Entries("mark")
  BY <1>1 DEF Entries
<1> QED BY <1>2, <1>3, OutstandingIs, FS_AddElement

LEMMA MarkTaken ==
  ASSUME TypeOK, TypeOK', queue # <<>>, Head(queue).op = "mark",
         queue' = C!Rest \/ queue' = Append(C!Rest, List)
  PROVE  Cardinality(Entries("mark")') <= Cardinality(Entries("mark")) - 1
<1> DEFINE O == {"mark"}
           R == Places(queue, O) \ {1}
           f == [i \in Places(queue', O) |-> i + 1]
<1>1. queue \in Seq(Query) /\ C!Rest \in Seq(Query)
  BY RestTypes DEF TypeOK
<1>2. /\ \A i \in Places(C!Rest, O) : i + 1 \in Places(queue, O)
      /\ 1 \in Places(queue, O)
  BY <1>1, PlacesOfRest
<1>3. Places(queue', O) = Places(C!Rest, O)
  <2>1. List \in Query /\ List.op \notin O
    BY QueryTypes DEF List
  <2> HIDE DEF O
  <2> QED BY <1>1, <2>1, AppendKept
<1>4. \A i \in Places(C!Rest, O) : i \in Nat \ {0}
  BY <1>1 DEF Places
<1>5. f \in [Places(queue', O) -> R] /\ \A x, y \in Places(queue', O) : f[x] = f[y] => x = y
  BY <1>2, <1>3, <1>4
<1>6. Entries("mark") = Places(queue, O) /\ Entries("mark")' = Places(queue', O)
  BY EntriesArePlaces
<1>7. IsFiniteSet(Places(queue, O))
  BY <1>6, OutstandingIs
<1>8. IsFiniteSet(R) /\ Cardinality(R) = Cardinality(Places(queue, O)) - 1
  BY <1>2, <1>7, FS_RemoveElement
<1> HIDE DEF f, R
<1> QED BY <1>5, <1>6, <1>8, InjectionBounds

\* A transfer that only changes its phase, that ends, or that is opened.
LEMMA TransfersCount ==
  ASSUME TypeOK, TypeOK', NEW t \in transfers
  PROVE  /\ D!End(t) => Cardinality(transfers') = Cardinality(transfers) - 1
         /\ \A phase : D!Move(t, phase) => Cardinality(transfers') <= Cardinality(transfers)
<1>1. IsFiniteSet(transfers) /\ Cardinality(transfers) \in Nat
  BY OutstandingIs
<1>2. IsFiniteSet(transfers \ {t}) /\ Cardinality(transfers \ {t}) = Cardinality(transfers) - 1
  BY <1>1, FS_RemoveElement
<1>3. ASSUME NEW phase, D!Move(t, phase) PROVE Cardinality(transfers') <= Cardinality(transfers)
  <2> DEFINE n == [t EXCEPT !.phase = phase]
  <2>1. transfers' = (transfers \ {t}) \cup {n}
    BY <1>3 DEF D!Move
  <2> HIDE DEF n
  <2>2. \/ Cardinality(transfers') = Cardinality(transfers \ {t})
        \/ Cardinality(transfers') = Cardinality(transfers \ {t}) + 1
    BY <1>2, <2>1, FS_AddElement
  <2> QED BY <1>1, <1>2, <2>2
<1> QED BY <1>2, <1>3 DEF D!End

LEMMA TransfersOpened ==
  ASSUME TypeOK, TypeOK', NEW S, NEW b, IsFiniteSet(S), D!download(S, b)
  PROVE  Cardinality(transfers') <= Cardinality(transfers) + Cardinality(S)
<1> DEFINE N == {[url |-> u, batch |-> b, phase |-> "get"] : u \in S}
           f == [t \in N |-> t.url]
<1>1. f \in [N -> S] /\ \A x, y \in N : f[x] = f[y] => x = y
  OBVIOUS
<1>2. transfers' = transfers \cup N
  BY DEF D!download
<1>3. IsFiniteSet(transfers) /\ Cardinality(transfers) \in Nat
  BY OutstandingIs
<1> HIDE DEF f, N
<1>4. IsFiniteSet(N) /\ Cardinality(N) <= Cardinality(S)
  BY <1>1, InjectionBounds
<1>5. Cardinality(N) \in Nat /\ Cardinality(S) \in Nat
  BY <1>4, FS_CardinalityType
<1>6. /\ Cardinality(transfers') = Cardinality(transfers) + Cardinality(N)
                                     - Cardinality(transfers \cap N)
      /\ IsFiniteSet(transfers \cap N)
  <2>1. transfers \cap N \in SUBSET N
    OBVIOUS
  <2> QED BY <1>2, <1>3, <1>4, <2>1, FS_Union, FS_Subset
<1>7. Cardinality(transfers \cap N) \in Nat
  BY <1>6, FS_CardinalityType
<1> QED BY <1>3, <1>4, <1>5, <1>6, <1>7

-----------------------------------------------------------------------------
(***************************************************************************)
(* BoundInv, event by event                                                *)
(***************************************************************************)
\* What BoundInv speaks of are numbers.
LEMMA BoundTypes ==
  ASSUME TypeOK, TypeOK', [Next]_vars
  PROVE  /\ Outstanding \in Nat /\ Outstanding' \in Nat
         /\ Len(pending) \in Nat /\ Len(pending') \in Nat
         /\ faults \in Nat /\ faults' \in Nat /\ faults' >= faults
         /\ remaining \in [Batches -> Int]
         /\ PendingLimit \in Nat /\ BatchCount \in Nat
<1>1. faults \in Nat /\ faults' \in {faults, faults + 1}
  BY HistoryGrows
<1>2. Len(pending) \in Nat /\ Len(pending') \in Nat /\ remaining \in [Batches -> Int]
  BY DEF TypeOK
<1> QED BY <1>1, <1>2, OutstandingIs, CrawlerAssumption

\* An event that brings no push but for a fault, and starts no batch.
LEMMA BoundStill ==
  ASSUME TypeOK, TypeOK', [Next]_vars, BoundInv,
         Outstanding' + faults <= Outstanding + faults',
         Len(pending') <= Len(pending), remaining' = remaining, NoneNew({"list"})
  PROVE  BoundInv'
<1>1. Entries("list")' # {} => Entries("list") # {}
  BY EntriesArePlaces DEF NoneNew
<1>2. \A b \in Batches : Counting(b)' <=> Counting(b)
  BY DEF Counting
<1>3. \A b \in Batches : Counting(b) => Outstanding' <= remaining'[b] + faults'
  BY SMTT(20), BoundTypes DEF BoundInv
<1>4. (\A b \in Batches : ~Counting(b)) => Outstanding' <= faults'
  BY BoundTypes DEF BoundInv
<1>5. Entries("list")' # {} => Outstanding' + Len(pending') <= PendingLimit + faults'
  BY SMTT(20), <1>1, BoundTypes DEF BoundInv
<1>6. Outstanding' + Len(pending') <= PendingLimit + BatchCount + faults'
  BY SMTT(20), BoundTypes DEF BoundInv
<1> QED BY <1>2, <1>3, <1>4, <1>5, <1>6 DEF BoundInv

\* What the network does to the number: a second callback costs a fault.
LEMMA NetworkCounts ==
  ASSUME TypeOK, TypeOK', Network
  PROVE  Outstanding' + faults <= Outstanding + faults'
<1>1. PICK t \in transfers : \/ Response(t) \/ RequestError(t) \/ FileFinish(t)
                             \/ FileError(t) \/ RequestEnd(t)
  BY DEF Network
<1>2. /\ Outstanding = Cardinality(transfers) + Cardinality(Entries("mark"))
      /\ Outstanding' = Cardinality(transfers') + Cardinality(Entries("mark")')
      /\ Cardinality(transfers) \in Nat /\ Cardinality(transfers') \in Nat
      /\ Cardinality(Entries("mark")) \in Nat /\ Cardinality(Entries("mark")') \in Nat
      /\ faults \in Nat
  BY OutstandingIs, CrawlerAssumption DEF TypeOK
<1>3. t.url \in Urls /\ t.batch \in Batches
  BY DEF TypeOK, D!TypeOK, D!Transfer
<1>4. /\ D!End(t) => Cardinality(transfers') = Cardinality(transfers) - 1
      /\ \A phase : D!Move(t, phase) => Cardinality(transfers') <= Cardinality(transfers)
  BY TransfersCount
<1>5. ASSUME NEW err \in BOOLEAN, downloaded(t, err)
      PROVE  Cardinality(Entries("mark")') = Cardinality(Entries("mark")) + 1
  <2>1. PICK v \in {-1, 1} : v = IF err THEN -1 ELSE 1
    OBVIOUS
  <2>2. PICK e \in Query : e = Mark(t.url, v, t.batch)
    BY <1>3, QueryTypes
  <2>3. e.op = "mark"
    BY <2>2 DEF Mark
  <2>4. queue' = Append(queue, e)
    BY <1>5, <2>1, <2>2 DEF downloaded, C!Enqueue
  <2> QED BY <2>3, <2>4, MarkAdded
<1>6. UNCHANGED queue => Cardinality(Entries("mark")') = Cardinality(Entries("mark"))
  BY EntriesArePlaces
<1>7. CASE Response(t)
  <2>1. D!Move(t, "body") /\ UNCHANGED queue /\ UNCHANGED faults
    BY <1>7 DEF Response, D!Response, conn
  <2> QED BY <1>2, <1>4, <1>6, <2>1
<1>8. CASE RequestError(t)
  <2>1. /\ downloaded(t, TRUE)
        /\ \/ D!End(t) /\ UNCHANGED faults
           \/ D!Move(t, "cut") /\ faults' = faults + 1
    BY <1>8 DEF RequestError, D!RequestError, Fault
  <2>2. Cardinality(Entries("mark")') = Cardinality(Entries("mark")) + 1
    BY <1>5, <2>1
  <2> QED BY <1>2, <1>4, <2>1, <2>2
<1>9. CASE FileFinish(t)
  <2>1. downloaded(t, FALSE) /\ D!End(t) /\ UNCHANGED faults
    BY <1>9 DEF FileFinish, D!FileFinish
  <2>2. Cardinality(Entries("mark")') = Cardinality(Entries("mark")) + 1
    BY <1>5, <2>1
  <2> QED BY <1>2, <1>4, <2>1, <2>2
<1>10. CASE FileError(t)
  <2>1. downloaded(t, TRUE) /\ faults' = faults + 1 /\ (D!End(t) \/ D!Move(t, "unpiped"))
    BY <1>10 DEF FileError, D!FileError, Fault
  <2>2. Cardinality(Entries("mark")') = Cardinality(Entries("mark")) + 1
    BY <1>5, <2>1
  <2> QED BY <1>2, <1>4, <2>1, <2>2
<1>11. CASE RequestEnd(t)
  <2>1. D!End(t) /\ UNCHANGED queue /\ UNCHANGED faults
    BY <1>11 DEF RequestEnd, D!RequestEnd, conn
  <2> QED BY <1>2, <1>4, <1>6, <2>1
<1> QED BY <1>1, <1>7, <1>8, <1>9, <1>10, <1>11

\* Marks kept and no transfer opened: nothing more is to come.
LEMMA KeptCounts ==
  ASSUME TypeOK, TypeOK', Kept({"mark"}), transfers' = transfers
  PROVE  Outstanding' <= Outstanding
BY OutstandingIs, MarksNotMore

\* The events that neither open a transfer nor push onto pending.
LEMMA BoundQuiet ==
  ASSUME IInv, IInv', [Next]_vars, BoundInv,
         \/ ProcessTimer \/ MetricsTimer \/ Children \/ ConnectionLost
         \/ HandshakeAnswered \/ MetricsAnswered \/ UNCHANGED vars
         \/ \E ok \in BOOLEAN : \/ ListAnswered(ok) /\ ~(ok /\ T!Fresh # {})
                                \/ UrlsAnswered(ok) \/ ArticleAnswered(ok) \/ FinishAnswered(ok)
  PROVE  BoundInv'
<1>0. TypeOK /\ TypeOK' /\ Pipe /\ DeadIsEmpty
  BY DEF IInv, Pipe
<1>1. Kept({"mark"})
  <2>1. CASE ConnectionLost \/ UNCHANGED vars
    <3>1. queue' = queue
      BY <2>1 DEF ConnectionLost, C!ConnectionLost, vars, conn
    <3> QED BY <1>0, <3>1, KeptRule DEF TypeOK
  <2> QED BY <1>0, <2>1, StayKept DEF MarksStay
<1>2. NoneNew({"list"})
  BY <1>0, NoNewList
<1>3. transfers' = transfers /\ remaining' = remaining /\ Len(pending') <= Len(pending)
  <2>1. pending \in Seq(Urls) /\ Len(pending) \in Nat
    BY <1>0 DEF TypeOK
  <2>2. CASE UNCHANGED <<transfers, remaining, pending>>
    BY <2>1, <2>2
  <2>3. CASE ProcessTimer \/ MetricsTimer \/ ConnectionLost
    BY <2>2, <2>3 DEF ProcessTimer, MetricsTimer, ConnectionLost, batching
  <2>4. CASE Children
    BY <2>2, <2>4 DEF Children, UrlExtractClosed, VerifyArticleClosed, ContentExtractClosed,
                      MetaExtractClosed, notChild, batching
  <2>5. CASE HandshakeAnswered \/ MetricsAnswered \/ UNCHANGED vars
    BY <2>2, <2>5 DEF HandshakeAnswered, MetricsAnswered, batching, vars
  <2>6. ASSUME NEW ok \in BOOLEAN, \/ ListAnswered(ok) /\ ~(ok /\ T!Fresh # {})
                                   \/ UrlsAnswered(ok) \/ ArticleAnswered(ok)
        PROVE  UNCHANGED <<transfers, remaining, pending>>
    BY <2>6 DEF ListAnswered, UrlsAnswered, ArticleAnswered, batching
  <2>7. ASSUME NEW ok \in BOOLEAN, FinishAnswered(ok)
        PROVE  transfers' = transfers /\ remaining' = remaining /\ Len(pending') <= Len(pending)
    <3>0. queue # <<>> /\ Head(queue).op = "finish"
      BY <2>7 DEF FinishAnswered, Answers
    <3>1. pending # <<>>
      BY <1>0, <3>0, Answering, Working DEF Pipe, P!QueryStages
    <3>2. pending' = Tail(pending) /\ transfers' = transfers /\ remaining' = remaining
      BY <2>7 DEF FinishAnswered, batching
    <3> QED BY <2>1, <3>1, <3>2, HeadTailProperties
  <2> QED BY <2>2, <2>3, <2>4, <2>5, <2>6, <2>7
<1>4. Outstanding' + faults <= Outstanding + faults'
  BY <1>0, <1>1, <1>3, KeptCounts, BoundTypes
<1> QED BY <1>0, <1>2, <1>3, <1>4, BoundStill

\* The network: every push it brings replaces a transfer or costs a fault.
LEMMA BoundNetwork ==
  ASSUME IInv, IInv', BoundInv, Network
  PROVE  BoundInv'
<1>0. TypeOK /\ TypeOK' /\ Pipe /\ [Next]_vars
  BY DEF IInv, Pipe, Next
<1>1. NoneNew({"list"})
  BY <1>0, NoNewList
<1>2. UNCHANGED notNetwork
  BY DEF Network, Response, RequestError, FileFinish, FileError, RequestEnd
<1>3. remaining' = remaining /\ Len(pending') <= Len(pending)
  <2>1. remaining' = remaining /\ pending' = pending
    BY <1>2 DEF notNetwork, batching
  <2> QED BY <1>0, <2>1, BoundTypes
<1> QED BY <1>0, <1>1, <1>3, NetworkCounts, BoundStill

\* No batch counts while its timer is armed, so at most the pushes that faults
\* have added are still to come.
LEMMA BoundBatchTimer ==
  ASSUME IInv, IInv', BoundInv, BatchTimer
  PROVE  BoundInv'
<1>0. TypeOK /\ TypeOK' /\ Pipe /\ DeadIsEmpty /\ Chain /\ [Next]_vars
  BY DEF IInv, Pipe, Next
<1>1. \A b \in Batches : ~Counting(b)
  <2>1. up /\ batchTimers # 0
    BY <1>0 DEF BatchTimer, Running, TypeOK
  <2> QED BY <1>0, <2>1 DEF Chain, ChainTimer, ChainList, ChainBatch
<1>2. Outstanding <= faults
  BY <1>1 DEF BoundInv
<1>3. Outstanding' <= Outstanding
  <2>1. Kept({"mark"})
    BY <1>0, StayKept DEF MarksStay
  <2>2. transfers' = transfers
    BY DEF BatchTimer
  <2> QED BY <1>0, <2>1, <2>2, KeptCounts
<1>4. remaining' = remaining /\ faults' = faults /\ pending' = pending
  BY DEF BatchTimer
<1>5. CASE ~OverLimit(pending)
  <2>1. Len(pending) <= PendingLimit
    BY <1>0, <1>5, BoundTypes DEF OverLimit
  <2>2. \A b \in Batches : ~Counting(b)'
    BY <1>1, <1>4 DEF Counting
  <2>3. /\ Outstanding' <= faults'
        /\ Outstanding' + Len(pending') <= PendingLimit + faults'
        /\ Outstanding' + Len(pending') <= PendingLimit + BatchCount + faults'
    BY <1>0, <1>2, <1>3, <1>4, <2>1, BoundTypes
  <2> QED BY <2>2, <2>3 DEF BoundInv
<1>6. CASE OverLimit(pending)
  <2>1. queue' = queue
    BY <1>6 DEF BatchTimer, batch_download
  <2>2. NoneNew({"list"})
    BY <1>0, <2>1, LeftAny, NoneNewRule
  <2>3. Outstanding' + faults <= Outstanding + faults' /\ Len(pending') <= Len(pending)
    BY <1>0, <1>3, <1>4, BoundTypes
  <2> QED BY <1>0, <1>4, <2>2, <2>3, BoundStill
<1> QED BY <1>5, <1>6

\* A listing is answered while no batch counts and there is room for its rows.
LEMMA BoundList ==
  ASSUME IInv, IInv', BoundInv, NEW ok \in BOOLEAN, ListAnswered(ok), ok, T!Fresh # {}
  PROVE  BoundInv'
<1>0. TypeOK /\ TypeOK' /\ Pipe /\ DeadIsEmpty /\ Chain /\ [Next]_vars
  BY DEF IInv, Pipe, Next, Callback
<1>1. up /\ queue # <<>> /\ Head(queue).op = "list" /\ queue' = C!Rest /\ queue \in Seq(Query)
  BY <1>0 DEF ListAnswered, Answers, TypeOK
<1>2. 1 \in Places(queue, {"list"})
  BY <1>1, PlacesOfRest
<1>3. ChainList
  BY <1>0, <1>1, <1>2 DEF Chain, ChainTimer, ChainBatch
<1>4. Entries("list") # {} /\ Entries("list")' = {}
  <2>1. Places(C!Rest, {"list"}) = {}
    BY <1>1, <1>3, RestHasNone DEF ChainList
  <2> QED BY <1>1, <1>2, <2>1, EntriesArePlaces
<1>5. Outstanding <= faults /\ Outstanding + Len(pending) <= PendingLimit + faults
  BY <1>3, <1>4 DEF BoundInv, ChainList
<1>6. PICK S \in T!Listing, b \in Batches \ InUse :
        /\ D!download(S, b)
        /\ remaining' = [remaining EXCEPT ![b] = Cardinality(S)]
  BY DEF ListAnswered
<1>7. S \in SUBSET Urls /\ Cardinality(S) \in Nat \ {0} /\ IsFiniteSet(S)
  BY <1>0, ListingTypes, CrawlerAssumption, FS_Subset DEF TypeOK
<1>8. Cardinality(S) <= BatchCount
  BY <1>7, SameCardinality, CrawlerAssumption DEF T!Listing
<1>9. Outstanding' <= Outstanding + Cardinality(S)
  <2>1. Kept({"mark"})
    BY <1>0, StayKept DEF MarksStay
  <2>2. Cardinality(Entries("mark")') <= Cardinality(Entries("mark"))
    BY <1>0, <2>1, MarksNotMore
  <2>3. Cardinality(transfers') <= Cardinality(transfers) + Cardinality(S)
    BY <1>0, <1>6, <1>7, TransfersOpened
  <2> QED BY <1>0, <1>7, <2>2, <2>3, OutstandingIs
<1>10. pending' = pending
  BY DEF ListAnswered
<1>11. remaining'[b] = Cardinality(S) /\ \A c \in Batches \ {b} : ~Counting(c)'
  BY <1>0, <1>3, <1>6, BoundTypes DEF ChainList, Counting
<1>12. Counting(b)'
  BY <1>7, <1>11 DEF Counting
<1>13. /\ Outstanding' <= remaining'[b] + faults'
       /\ Outstanding' + Len(pending') <= PendingLimit + BatchCount + faults'
  BY SMTT(20), <1>0, <1>5, <1>7, <1>8, <1>9, <1>10, <1>11, BoundTypes
<1> QED BY <1>4, <1>11, <1>12, <1>13 DEF BoundInv

\* A mark is answered: what was to come has come, whichever batch it is of.
LEMMA BoundMark ==
  ASSUME IInv, IInv', BoundInv, NEW ok \in BOOLEAN, MarkAnswered(ok)
  PROVE  BoundInv'
<1> DEFINE b == Head(queue).batch
<1>0. TypeOK /\ TypeOK' /\ [Next]_vars
  BY DEF IInv, Next, Callback
<1>1. queue # <<>> /\ Head(queue).op = "mark" /\ queue \in Seq(Query) /\ b \in Batches
  BY <1>0, RestTypes, QueryFields DEF MarkAnswered, Answers, TypeOK
<1>2. queue' = C!Rest \/ queue' = Append(C!Rest, List)
  BY DEF MarkAnswered, batch_download
<1>3. Outstanding' <= Outstanding - 1
  <2>1. Cardinality(Entries("mark")') <= Cardinality(Entries("mark")) - 1
    BY <1>0, <1>1, <1>2, MarkTaken
  <2>2. transfers' = transfers
    BY DEF MarkAnswered
  <2> QED BY <1>0, <2>1, <2>2, OutstandingIs
<1>4. Len(pending') = Len(pending) + 1
  <2>1. pending \in Seq(Urls)
    BY <1>0 DEF TypeOK
  <2>2. pending' = Append(pending, Head(queue).url)
    BY DEF MarkAnswered, push
  <2> QED BY <2>1, <2>2
<1>5. /\ remaining'[b] = remaining[b] - 1 /\ remaining[b] \in Int
      /\ \A c \in Batches : c # b => remaining'[c] = remaining[c]
  BY <1>0, <1>1, BoundTypes DEF MarkAnswered
<1> HIDE DEF b
<1>6. ASSUME NEW c \in Batches, Counting(c)' PROVE Outstanding' <= remaining'[c] + faults'
  <2>1. remaining[c] \in Int
    BY <1>0, BoundTypes
  <2>2. \/ remaining'[c] = remaining[c] - 1
        \/ remaining'[c] = remaining[c]
    BY <1>5
  <2>3. Counting(c)
    BY <1>6, <2>1, <2>2 DEF Counting
  <2>4. Outstanding <= remaining[c] + faults
    BY <2>3 DEF BoundInv
  <2> QED BY <1>0, <1>3, <2>1, <2>2, <2>4, BoundTypes
<1>7. ASSUME \A c \in Batches : ~Counting(c)' PROVE Outstanding' <= faults'
  <2>1. CASE \A c \in Batches : ~Counting(c)
    BY <1>0, <1>3, <2>1, BoundTypes DEF BoundInv
  <2>2. ASSUME NEW c \in Batches, Counting(c) PROVE Outstanding' <= faults'
    <3>1. c = b /\ remaining[b] = 1
      BY <1>5, <1>7, <2>2 DEF Counting
    <3>2. Outstanding <= 1 + faults
      BY <1>1, <2>2, <3>1 DEF BoundInv
    <3> QED BY <1>0, <1>3, <3>2, BoundTypes
  <2> QED BY <2>1, <2>2
<1>8. ASSUME Entries("list")' # {}
      PROVE  Outstanding' + Len(pending') <= PendingLimit + faults'
  <2>1. CASE queue' = C!Rest
    <3>1. Entries("list") # {}
      BY <1>1, <1>8, <2>1, PlacesOfRest, EntriesArePlaces
    <3>2. Outstanding + Len(pending) <= PendingLimit + faults
      BY <3>1 DEF BoundInv
    <3> QED BY <1>0, <1>3, <1>4, <3>2, BoundTypes
  <2>2. CASE queue' # C!Rest
    <3>1. LastOfBatch(remaining'[b]) /\ batch_download(C!Rest, batchTimers, pending')
      BY <2>2 DEF MarkAnswered, b
    <3>2. ~OverLimit(pending')
      BY <2>2, <3>1 DEF batch_download
    <3>3. Len(pending') <= PendingLimit
      BY <1>0, <3>2, BoundTypes DEF OverLimit
    <3>4. remaining[b] = 1
      BY <1>5, <3>1 DEF LastOfBatch
    <3>5. Outstanding <= 1 + faults
      BY <1>1, <3>4 DEF BoundInv, Counting
    <3> QED BY <1>0, <1>3, <3>3, <3>5, BoundTypes
  <2> QED BY <2>1, <2>2
<1>9. Outstanding' + Len(pending') <= PendingLimit + BatchCount + faults'
  <2>1. Outstanding + Len(pending) <= PendingLimit + BatchCount + faults
    BY DEF BoundInv
  <2> QED BY <1>0, <1>3, <1>4, <2>1, BoundTypes
<1> QED BY <1>6, <1>7, <1>8, <1>9 DEF BoundInv

\* A program that dies forgets what was to come; one that starts has nothing.
LEMMA BoundDies ==
  ASSUME TypeOK', Dies
  PROVE  BoundInv'
<1>1. Outstanding' = 0
  <2>1. transfers' = {} /\ Entries("mark")' = {}
    BY DeadPlaces DEF Dies
  <2>2. Cardinality(transfers') = 0 /\ Cardinality(Entries("mark")') = 0
    BY <2>1, FS_EmptySet
  <2> QED BY <2>2 DEF Outstanding
<1>2. Len(pending') = 0 /\ faults' \in Nat /\ Entries("list")' = {}
  <2>1. pending' = <<>> /\ Entries("list")' = {}
    BY DeadPlaces DEF Dies
  <2>2. faults' \in Nat
    BY CrawlerAssumption DEF TypeOK
  <2> QED BY <2>1, <2>2
<1>3. \A c \in Batches : ~Counting(c)'
  BY DEF Dies, Counting
<1>4. PendingLimit \in Nat /\ BatchCount \in Nat
  BY CrawlerAssumption
<1>5. /\ Outstanding' <= faults'
      /\ Outstanding' + Len(pending') <= PendingLimit + BatchCount + faults'
  <2>1. \A o, n, m \in Nat : o = 0 /\ n = 0 =>
          /\ o <= m
          /\ o + n <= PendingLimit + BatchCount + m
    BY <1>4
  <2>2. Outstanding' \in Nat /\ Len(pending') \in Nat
    BY <1>1, <1>2
  <2> QED BY <1>1, <1>2, <2>1, <2>2
<1> QED BY <1>2, <1>3, <1>5 DEF BoundInv

LEMMA BoundRestart ==
  ASSUME IInv, IInv', BoundInv, Restart
  PROVE  BoundInv'
<1>0. TypeOK /\ TypeOK' /\ Pipe /\ DeadIsEmpty /\ [Next]_vars
  BY DEF IInv, Pipe, Next
<1>1. /\ transfers' = transfers /\ pending' = <<>> /\ faults' = faults
      /\ \A c \in Batches : remaining[c] = 0 /\ remaining'[c] = 0
  BY <1>0 DEF Restart, DeadIsEmpty, batching
<1>2. Outstanding' <= Outstanding
  <2>1. Kept({"mark"})
    BY <1>0, StayKept DEF MarksStay
  <2> QED BY <1>0, <1>1, <2>1, KeptCounts
<1>3. \A c \in Batches : ~Counting(c) /\ ~Counting(c)'
  BY <1>1 DEF Counting
<1>4. Outstanding <= faults
  BY <1>3 DEF BoundInv
<1>5. Len(pending') = 0
  BY <1>1
<1>6. /\ Outstanding' <= faults'
      /\ Outstanding' + Len(pending') <= PendingLimit + faults'
      /\ Outstanding' + Len(pending') <= PendingLimit + BatchCount + faults'
  BY <1>0, <1>1, <1>2, <1>4, <1>5, BoundTypes
<1> QED BY <1>3, <1>6 DEF BoundInv

LEMMA BoundNext == IInv /\ IInv' /\ BoundInv /\ [Next]_vars => BoundInv'
<1> SUFFICES ASSUME IInv, IInv', BoundInv, [Next]_vars PROVE BoundInv'
  OBVIOUS
<1>1. CASE \/ ProcessTimer \/ MetricsTimer \/ Children \/ ConnectionLost
           \/ HandshakeAnswered \/ MetricsAnswered \/ UNCHANGED vars
  BY <1>1, BoundQuiet
<1>2. ASSUME NEW ok \in BOOLEAN,
             \/ ListAnswered(ok) /\ ~(ok /\ T!Fresh # {})
             \/ UrlsAnswered(ok) \/ ArticleAnswered(ok) \/ FinishAnswered(ok)
      PROVE  BoundInv'
  BY <1>2, BoundQuiet
<1>3. ASSUME NEW ok \in BOOLEAN, ListAnswered(ok), ok, T!Fresh # {} PROVE BoundInv'
  BY <1>3, BoundList
<1>4. ASSUME NEW ok \in BOOLEAN, MarkAnswered(ok) PROVE BoundInv'
  BY <1>4, BoundMark
<1>5. CASE ConnectionLostUnheard \/ Crash
  BY <1>5, BoundDies DEF ConnectionLostUnheard, Crash, IInv
<1> QED BY <1>1, <1>2, <1>3, <1>4, <1>5, BoundBatchTimer, BoundNetwork, BoundRestart
        DEF Next, Callback

LEMMA BoundInit == Init => BoundInv
<1> SUFFICES ASSUME Init PROVE BoundInv
  OBVIOUS
<1>1. /\ queue = Launch /\ transfers = {} /\ pending = <<>> /\ faults = 0
      /\ remaining = [c \in Batches |-> 0]
  BY DEF Init, Started
<1>2. Outstanding = 0
  <2>1. Entries("mark") = {}
    BY <1>1, EntriesArePlaces, LaunchHas
  <2>2. Cardinality(transfers) = 0 /\ Cardinality(Entries("mark")) = 0
    BY <1>1, <2>1, FS_EmptySet
  <2> QED BY <2>2 DEF Outstanding
<1>3. Len(pending) = 0 /\ \A c \in Batches : ~Counting(c)
  BY <1>1 DEF Counting
<1> QED BY <1>1, <1>2, <1>3, CrawlerAssumption DEF BoundInv

LEMMA BoundMeans == IInv /\ BoundInv => PendingBounded
<1> SUFFICES ASSUME IInv, BoundInv PROVE Len(pending) <= PendingLimit + BatchCount + faults
  BY DEF PendingBounded
<1>1. transfers \in SUBSET D!Transfer /\ queue \in Seq(Query)
  BY DEF IInv, TypeOK, D!TypeOK
<1>2. Cardinality(transfers) \in Nat /\ Cardinality(Entries("mark")) \in Nat
  BY <1>1, CountTypes, EntriesArePlaces
<1>3. Outstanding \in Nat /\ Len(pending) \in Nat /\ faults \in Nat
  BY <1>1, <1>2, CrawlerAssumption DEF Outstanding, IInv, TypeOK
<1>4. Outstanding + Len(pending) <= PendingLimit + BatchCount + faults
  BY DEF BoundInv
<1> QED BY <1>3, <1>4, CrawlerAssumption

-----------------------------------------------------------------------------
(***************************************************************************)
(* The theorems                                                            *)
(***************************************************************************)
\* As long as no fault has happened every address is in one place, and its
\* status and its article's row say in which, through crashes and restarts.
THEOREM LifeInvariance == Spec => []LifeInv
<1>1. Init => LifeInv
  BY LifeInit
<1>2. IInv /\ IInv' /\ LifeInv /\ [Next]_vars => LifeInv'
  BY LifeNext
<1> QED BY <1>1, <1>2, Invariance, PTL DEF Spec

\* Without faults an address is being downloaded, is being marked or is pending,
\* and never twice (crawler.js lines 37-58).
THEOREM HeldByOne == Spec => []OneHolder
<1>1. IInv /\ LifeInv => OneHolder
  BY LifeMeans
<1> QED BY <1>1, Invariance, LifeInvariance, PTL

\* Without faults a page whose status is -2 or 3 has no article, even after a
\* crash (crawler.js line 81, process.js lines 24, 49 and 107).
THEOREM FailureStoresNothing == Spec => []FailedNotStored
<1>1. IInv /\ LifeInv => FailedNotStored
  BY LifeMeans
<1> QED BY <1>1, Invariance, LifeInvariance, PTL

\* Without faults and crashes the marked rows are the pending ones
\* (crawler.js lines 52-54 and 81-84).
THEOREM MarkedArePending == Spec => []MarkedIffPending
<1>1. IInv /\ LifeInv => MarkedIffPending
  BY LifeMeans
<1> QED BY <1>1, Invariance, LifeInvariance, PTL

\* Without faults and crashes every downloaded file is that of one address on its
\* way (download.js line 11, process.js lines 49-58).
THEOREM FilesAreOwned == Spec => []FilesOwned
<1>1. IInv /\ LifeInv => FilesOwned
  BY LifeMeans
<1> QED BY <1>1, Invariance, LifeInvariance, PTL

\* A final status is final: as long as no fault has happened no step overwrites
\* it (crawler.js lines 52 and 81).
THEOREM FinalIsFinal == Spec => FinalStays
<1>1. IInv /\ IInv' /\ LifeInv /\ [Next]_vars =>
        [faults' = 0 => \A u \in Urls : status[u] \in T!Settled => status'[u] = status[u]]_vars
  <2> SUFFICES ASSUME IInv, IInv', LifeInv, [Next]_vars, faults' = 0
               PROVE  \A u \in Urls : status[u] \in T!Settled => status'[u] = status[u]
    OBVIOUS
  <2>1. TypeOK
    BY DEF IInv
  <2>2. faults = 0
    BY <2>1, HistoryGrows
  <2> QED BY <2>2, FinalNext DEF Faultless, LifeInv
<1> QED BY <1>1, Invariance, LifeInvariance, PTL DEF Spec, FinalStays

\* Where no fault can happen the crawler implements PageLife: one batch at a
\* time, pages settled once and in the order of arrival, and what a death loses
\* stays lost (crawler.js lines 32-85).
THEOREM PageLifeRefined ==
  ASSUME MaxFaults = 0
  PROVE  Spec => ImplementsPageLife
<1>1. Init => Life!Init
  BY RefinesInit
<1>2. IInv /\ IInv' /\ LifeInv /\ [Next]_vars => [Life!Next]_(Life!vars)
  <2> SUFFICES ASSUME IInv, IInv', LifeInv, [Next]_vars PROVE Life!Next
    OBVIOUS
  <2>1. TypeOK /\ TypeOK'
    BY DEF IInv
  <2>2. faults = 0 /\ faults' = 0
    BY <2>1 DEF TypeOK
  <2> QED BY <2>2, RefinesNext DEF Faultless, LifeInv
<1> QED BY <1>1, <1>2, Invariance, LifeInvariance, PTL DEF Spec, ImplementsPageLife, Life!Spec

\* pending never exceeds the limit by more than one batch and one push for each
\* fault (crawler.js lines 33 and 54).
THEOREM PendingIsBounded == Spec => []PendingBounded
<1>1. Init => BoundInv
  BY BoundInit
<1>2. IInv /\ IInv' /\ BoundInv /\ [Next]_vars => BoundInv'
  BY BoundNext
<1>3. IInv /\ BoundInv => PendingBounded
  BY BoundMeans
<1> QED BY <1>1, <1>2, <1>3, Invariance, PTL DEF Spec

\* The whole invariant.
THEOREM FullInvariance == Spec => []FullInv
<1>1. Init => BoundInv
  BY BoundInit
<1>2. IInv /\ IInv' /\ BoundInv /\ [Next]_vars => BoundInv'
  BY BoundNext
<1>3. IInv /\ LifeInv /\ BoundInv => FullInv
  BY DEF FullInv
<1> QED BY <1>1, <1>2, <1>3, Invariance, LifeInvariance, PTL DEF Spec

=============================================================================
