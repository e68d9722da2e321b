# A TLA+ model of the crawler

The program (`src/crawler`) crawls one news site: it lists addresses from a MySQL
table, downloads them, extracts links and article text with four small C programs
and writes both back. This directory holds a TLA+ model of it, the TLC runs that
check the model on small instances, and TLAPS proofs that its main safety
properties hold for every value of the constants.

## The system

| part | state it keeps | operations |
|---|---|---|
| `crawler.js`, two loops and an interval in one Node process | `pending`, a `remaining` counter per batch, armed timers, five counters | `batch_download`, `process_pending`, `update_metrics` |
| `nlib/urls.js` and the tables of `nlib/database.js` | rows of `urls` (address, status) and of `content` | `list`, `update_status`, the two INSERTs of `process.js` |
| `nlib/download.js` | requests and write streams in flight, files in the download directory | `download`; events of the request, the response and the file |
| `nlib/process.js` | the stage of the page in the pipeline, the extractors' output files | `process`, `clean`; closings of children, answers to queries |
| `lib/*.c` | one scan over one file | `url-extract`, `verify-article`, `content-extract`, `meta-extract` |
| the MySQL driver in `node_modules/mysql` | a queue of sequences, the fatal error, ticks it has asked for | `connect`, `query`, `end`, dispatch of answers and errors |
| `nlib/database.js`, a program of its own | the database, the countdown `pending` | drops and creates the database, one statement from the callback of the last |
| `nlib/log.js`, `nlib/config.js` | - | output, constants |

`batch_download` and `process_pending` never call each other. They meet in the
array `pending`, in the FIFO of the one connection that all their queries share,
in the `urls` table and in the download directory. What makes them hard:

* each is a chain of callbacks that restarts itself; a path that forgets to, or
  that does so twice, stops or forks the loop without a message;
* a download can call back twice (`download.js` 18-28), because an error of the
  request does not keep the file from finishing;
* `pending[0]` is read in callbacks, long after `process` was given the page;
* a status is written by one statement, the article by another, and the row is
  pushed on `pending` whatever became of the statement before;
* a fatal error of the connection runs every queued callback with an error, or
  ends the process, depending on who is in the queue; the callbacks run in later
  ticks and send more queries, which are refused in ticks of their own;
* the metrics are counted in callbacks of both loops and reset before the INSERT
  that holds them has been answered;
* the setup script drops the database it then creates, and may end in between;
* the C programs read the page a character at a time and never look back, with
  one exception, a seek that goes the wrong way; what they copy, miss or run past
  depends on where a mismatch leaves them;
* a death of the process loses `pending` but not the rows' statuses, nor the
  extractors' output files, which are opened in append mode.

`PROJECT.json` lists these hazards at their lines with the properties that would
catch them going wrong.

## The modules

| module | models |
|---|---|
| `Tables` | the two tables, and each statement as the server carries it out |
| `Connection` | the driver: a FIFO, of which the head is at the server; after a fatal error, the callbacks owed an error |
| `Download` | one transfer's events in every order Node can deliver them |
| `Process` | the pipeline's stages, the output files, `clean` |
| `Crawler` | the whole: one action per event of the Node loop, with everything its callbacks do before they return; losses of the connection, deaths, restarts; all properties |
| `Metrics` | the counters, the INSERTs on their way with their values, the metrics table |
| `CrawlerMetrics` | `Crawler` and `Metrics` together: which event counts what; the inductive invariant `MInv` of the two |
| `Protocol` | the driver in detail: `Protocol.js` and `Sequence.js` with ticks, refusals, the flush after a fatal error, the quit; it implements `Connection` |
| `Database` | the setup script and the server it meets |
| `PageLife` | the abstract specification: the life of an address |
| `Matching` | what it means that a pattern occurs in a text, and a matcher that does not look back |
| `VerifyArticle`, `UrlExtract` | the two scanners, one action per character read; their properties and inductive invariants |
| `ContentExtract`, `MetaExtract` | the two extractors, one action per turn of their loops; their properties and inductive invariants |
| `CrawlerInvariant` | the inductive invariants of `Crawler`: `IInv`, which holds whatever happens, `LifeInv` for runs without faults, `BoundInv` for the credit of faults; together `FullInv` |
| `MCCrawler` | `CrawlerInvariant` for TLC, with the symmetry sets |
| `MCMetrics` | `CrawlerMetrics` for TLC; `Protocol` and `Database` need no such module |
| `MCVerifyArticle`, `MCUrlExtract`, `MCContentExtract`, `MCMetaExtract` | the scanners for TLC: the alphabets and the pages |
| `CrawlerProofs` | the theorems about `Crawler` and their proofs: first those that rest on `IInv` alone, then the life of an address and `PageLife` |
| `CrawlerMetricsProofs` | the theorems about `CrawlerMetrics` and their proofs |
| `ProtocolProofs`, `DatabaseProofs`, `VerifyArticleProofs`, `UrlExtractProofs`, `ContentExtractProofs`, `MetaExtractProofs` | the theorems about the other modules and their proofs |

`Tables`, `Connection`, `Download` and `Process` declare their own variables and
are instantiated by `Crawler`, which declares the same names. An action of
`Crawler` conjoins the component's action with what the callback passed to the
component does: `FileFinish(t)` is `Download`'s event of that name and
`downloaded`, the callback of lines 46-52.

`CrawlerMetrics` conjoins each action of `Crawler` with what its callback counts.
It recognises by the stage the pipeline has come to whether `process` has called
back, since one event may or may not do so (`ProcessTimer` when the page has no
file). `Metrics` knows nothing of the crawler, so that what it says can be
compared with the tables.

`Connection` is what `Crawler` and `Database` take the driver for: one FIFO of
callbacks. `Protocol` is the driver's own code, for which the FIFO is a result:
a sequence is ended in two steps (the callback, then the `end` event that takes it
off the queue) because the callback may send more queries in between; a fatal
error leaves a tick that flushes the queue, and each later sequence is refused in a
tick of its own. Its `Owed`, what is left of the queue followed by what was
refused, is `Connection`'s queue.

The scanners are modules of their own: `Process` knows of each only what its
caller can see, an exit code, a set of paths or text in a folder, and takes every
outcome as possible for every page. What the outcome says of the page is the
business of the scanner's module.

How the code is abstracted:

* An address stands for its row, its id, its file and its entry in `pending`
  (`urls.url` is UNIQUE and ids are never reused).
* A query is a record of its kind and what its callback's closure holds. The
  statement takes effect when its callback runs, or, if the connection or the
  process is lost, either not at all or without its callback (`Unanswered`). One
  connection carries one statement at a time, so nobody can tell the moments
  between apart.
* A batch is one call of the callback of `urls.list`: its closure holds
  `remaining`. `Batches` are the closures that may be alive at a time; a new
  batch takes one no transfer or query refers to any more.
* Children and files: `url-extract` may return any set of paths, always with the
  empty one (every path ends with a line break, so `split` yields an empty last
  part, and the domain root is inserted); `verify-article` may say yes or no;
  each extractor may append the page's text to its folder or nothing. A
  conversion of the text (lengths, dates) is left out: it can only make the
  INSERT fail, and the INSERT may always be refused. So may the INSERT of the
  links: one address of more than 300 characters is enough.
* A row of the metrics table only matters for its share of the sums. That two
  INSERTs may meet in one second, for which the table has one key, is a refusal
  that needs no fault; a ghost variable `lost` remembers that counts are gone.
* The setup script's server accepts a statement exactly if the objects it names
  are there, or not there yet, and may refuse any statement as a fault.
* A page is a sequence of characters, numbered from 1, of a small alphabet that
  holds what the program tells apart (`q` is the quotation mark); the position
  behind the last one is `feof`. What is written is kept as the places of the page
  it was copied from, so that a property can say whether it was copied twice or
  from inside another tag. A function that runs into the end of the file returns
  -1 and all its callers return; in the models they go on at the end of the file,
  where nothing is left to do, and `main` returns in one step. Functions that only
  move to a place are operators on positions; the loops that write are actions.
  The keys of `MetaExtract` (`name="`, `content="`) are constants.
* Timers have no duration: an armed timer may fire at any time. The properties
  do not depend on how long the program waits.

## The runs

The crawler's have `BatchCount` 2, the seed and the domain root among the
addresses; the scanners' start from every page within the bound.

| run | instance | shows |
|---|---|---|
| `faults` | 3 addresses, limit 0, 2 faults | `OneBatchChain`, `PageIsHead`, `PendingBounded`, `NeverFreshAgain` |
| `metrics` | `CrawlerMetrics` with 2 addresses, limit 0, 1 fault, 1 death | `MInv` (with `FullInv`) as an invariant, `StoredBeforeDone`, `ForeignTextOnlyAfterCrash`; `CountsAgree`: without faults what has been counted is what the tables say has happened, or less if an INSERT was refused; `NeverUndercounts` |
| `crash` | 4 addresses, limit 1, 1 death, no fault | `FailedNotStored`, `OneHolder`, `MarkedIffPending`, `FilesOwned`, `FinalStays`, and that `Crawler` implements `PageLife` |
| `live` | 2 addresses, 1 fault | `PendingDrains`, `KeepsListing`, `EveryRowSettles` |
| `database` | 2 addresses, 2 faults, any number of runs and kills | `CleanRunIsFresh`, `QuitIsLast`, `RunsEnd` |
| `protocol` | 4 queries | `InOrder`, `HeadIsStarted`, `ErrorsComeFirst`, `NobodyLeftBehind`, `EveryoneIsCalled`, and that `Protocol` implements `Connection` |
| `verify_article` | pages of up to 9 characters, 2 elements | exit code 0 and exit code 1 say what `process.js` takes them for (`ArticleHasElements`, `NoArticleLacksElement`) |
| `url_extract` | pages of up to 8 characters, a prefix of 3 | every line is a link of the page (`LinesAreLinks`) and every plain link has its line (`PlainLinksWritten`) |
| `content_extract` | pages of up to 4 pieces of markup | nothing is copied twice (`CopiedOnce`), headings and nothing else are copied from a careful page (`HeadingsCopied`, `NothingElseCopied`), from any page nothing before a tag of the heading's name or what the seek makes the program take for one (`CopiedBehindTag`), the scan ends (`Returns`) |
| `meta_extract` | pages of up to 3 pieces, with and without a plain meta tag behind them | values are whole and filed under a name of their tag (`ValuesAreContent`), each has a meta tag to itself (`OneValuePerTag`), plain tags are not missed, although `main` may return early (`PlainMetaCopied`), the scan ends (`Returns`) |

*Bounds.* Two closures are enough for a late callback of one batch to meet the
counter of the next. Two double callbacks, which two faults can bring about, could
keep two batches waiting for late callbacks while a third is listed; with two closures
the third listing then waits until one is free. `CrawlerProofs` has no such bound:
its theorems hold for any finite set of closures.
Two faults let a transfer call back twice by each of the two ways (a request's
error followed by the file's end, or by its error), or a double callback meet a
lost connection. With `BatchCount` 2 and 3 or 4 addresses there are batches of
two, of one and of none, a limit that is reached and one that is not; with 2, in
`live` and `metrics`, a batch of two when a refused update makes a page come back.
`MaxFaults` counts refused statements other than the article's, lost connections and errors
in mid-transfer; a request that fails before its response is not a fault but the
usual bad address, and neither is a refused article, a refused INSERT of links
or one of metrics. `MaxCrashes` bounds deaths;
a process that dies because nobody hears of a lost connection counts as a fault.

`MaxMetrics` bounds the INSERTs of `update_metrics` in the queue, of which the code
has no limit. It is 0 in `faults` and `crash`, whose instances are the largest, and 1 in
`metrics`, `live` and the run with a violation: the INSERT holds nothing the loops
read and its callback does nothing, so all it can do to them is to take a place in
the queue, at the head or behind, and to be heard of in a fatal error; one is
enough for both.
`CrawlerProofs` and `CrawlerMetricsProofs` hold for any `MaxMetrics`.

In `protocol` four queries are two in the queue when the connection fails, one
that a callback sends during the flush and one refused behind it, in every
order; the handshake and the quit come on top. In `database` two faults are a
refused statement and a connection lost in the same run or in two; more runs
start from the same databases.

The scanners' alphabets have a character for each test the code makes and one for
the rest. In `verify_article` one element begins like the code's and one overlaps
itself, so that a mismatch can hide an occurrence. In `url_extract` the prefix has
characters that may be in a path and one that may not. The extractors' pieces
include half tags, stray quotes, escapes, an end tag that begins like a
heading's, and a name that is the beginning of another; with three or four of them
a heading is met behind every kind of trouble. Two names stand for `attributes[]`;
one page has two plain meta tags of the one name before a plain tag of the other, so that a
`main` that counted values would return too early.

What the scanners promise is weaker than one might wish, and the properties say by
how much: `Clean` in `NoArticleLacksElement` and `PlainLink` names the occurrences
that a matcher without a second look cannot see, and `Calm` in `HeadingsCopied` and
`PlainMetaCopied` is the page up to the tag in question as a careful author writes
it. Without these conditions the properties are false: `</hr>` in a heading makes
the seek of `content-extract.c` line 216 run over the text behind it, a quote in
front of a `>` makes `meta-extract.c` lines 174-178 run over the tag's end, and a
value may be filed under an earlier tag's name when line 328 passes over a `>`.

`CopiedBehindTag` states a misbehaviour that no text of the repository speaks of. In
`<h1></xh2 >text` line 216 means to go back to the `/` and goes forward, to the `h2 `
of the end tag; `match_tag` takes that for the name of a tag, and `text` is copied to
the file of `h2`, although no `<h2` is in the page. `Landing` is exactly this place,
and the property says that it is the only one: everywhere else the name stands behind a
`<`. In the same way `OneValuePerTag` holds although a tag's end may be lost: the
name may then come from one tag and the value from the next, and the value's tag in the
property is the one the scan began in.

*Symmetry.* The addresses other than the seed and the root, and the closures,
are interchangeable; only safety runs use it.

*Deadlock* is checked in all runs of the crawler and of the setup script (which can
always be started again); the driver may be idle for good, so `protocol` turns the
check off. In the crawler there is always a
timer, a child, a query or a transfer to wait for, or the program is down and can
be started. The scanners return, so their configurations
turn the check off.

*Fairness* (`FairSpec`). Timers fire, children end and the server answers. No
fairness for the network: `download.js` sets no timeout, so a request may hang for
ever, and none for a restart. Fairness is strong for timers and children because
callbacks owed an error (`process.nextTick`) run before them: they may disable
such an event again and again, but Node keeps it queued and delivers it. The
liveness properties that need the network say so: `KeepsListing` and
`EveryRowSettles` assume `[]<>(transfers = {})`. `PendingDrains` does not need it:
a hung request stops the listing, which no property can forbid, but not the processing. `Returns`, of the two
extractors, assumes that a running process takes its next step. `Database` assumes
that callbacks come: the server answers or the driver delivers the error.
`Protocol` assumes less of the driver itself, since it is what delivers: code that
runs returns, ticks run, and the server answers the head or, told to quit, closes
the connection. Nothing makes the program send a query or the network fail.
`RunsEnd` and `EveryoneIsCalled` are what these assumptions are used for; that the
server answers at all cannot be weakened, because no query has a timeout.

*Violations.* `setup_completes`: `make database` on a server without the database
creates nothing. The script names the database in its handshake, the server
refuses a handshake with a database it does not have, a refused handshake is fatal,
and every statement behind it gets that error; the `CREATE DATABASE` that
follows a failed `DROP` is never carried out. The same happens to every later run
once one has ended between the two. The run needs no fault.

`done_article_is_3`: the comment at `crawler.js` line 80 says what the statuses
mean, and has the last two the wrong way round: 3 is written for pages that are no
article, 2 for articles. Two more of its claims are true for a while only, and the
properties say for how long. A download's -1 does not last, because a failed
download is pushed and processed like any other and ends with a final status,
usually 3 from an empty file (`MarkedIffPending`). A 1 is a page in `pending` only
until the program dies: after a restart the row keeps it, is in no array and is
never listed again (`PageLife`'s "lost").

## The abstract specification

`PageLife` says what becomes of an address: unknown, new, fetching, waiting, done,
or lost by a death of the program. Pages are fetched a batch at a time, only when
the batch before has arrived entirely and the backlog is within the limit, and
settled one at a time in the order of arrival. `Crawler` implements it as long as
there is no fault, a crash included: the refinement mapping (`LifeOf` in `Crawler`)
reads an address's life from its row, `pending`, the transfers and the queued
updates. With faults it does not hold, and should not: a refused update makes a
page come back, a double callback makes it arrive twice.

`Connection` is the other: a handshake first, then any sequence sent goes to the
end, callbacks come from the front, and a fatal error may arise. `Protocol`
implements it (`ImplementsConnection`) without any assumption on what callbacks do.

## The proofs

`CrawlerProofs` proves, from `CrawlerAssumption` alone (finite sets of addresses
and closures, `BatchCount` positive, the other bounds naturals):

| theorem | statement |
|---|---|
| `Invariance` | `Spec => []IInv` |
| `TypeCorrect` | `Spec => []TypeOK` |
| `BatchChain` | `Spec => []OneBatchChain` |
| `HeadOfPending` | `Spec => []PageIsHead` |
| `DoneMeansStored` | `Spec => []StoredBeforeDone` |
| `ForeignText` | `Spec => []ForeignTextOnlyAfterCrash` |
| `MarkedForGood` | `Spec => NeverFreshAgain` |

None of the invariants is inductive. `IInv` adds what they lean on:

* `DeadIsEmpty`: a dead program has no memory, so a restart starts from nothing;
* `Chain`: `OneBatchChain` without arithmetic over cardinalities: exactly one of
  a timer, a listing in the queue, a closure with a positive counter;
* `PipeQuery`: the pipeline has at most one query in the queue, the one its stage
  waits for. Even the type of `stage` leans on it, since a second answer would
  move the pipeline of another page;
* `PipePage`: that query and the stage belong to the head of `pending`; with
  `PipeQuery` it makes the splice of line 83 remove the right page, and pushes at
  the other end leave it alone. Without it `Head(pending)` may be of an empty
  array, so the type invariant needs it too;
* `DoneIsStored`: a queued status 2 is already justified by a row of `content`;
* `TextOwned`: the output files hold text of the page in the pipeline, between
  the extractors and `clean`, and of pages some death interrupted.

The inductive invariants of the driver, the setup script and the scanners were
checked with TLC on the runs' instances too; the runs list what they are there for.

The proof of `IInv` has one lemma per action and, under it, a step per conjunct that the
action disturbs; lemmas about `Append` and `Tail` say how the places of the
queries of a kind move. Cardinalities are brought in only at the end, to turn
`Chain` into the sum that `OneBatchChain` states.

Its second half proves, from the same assumption:

| theorem | statement |
|---|---|
| `LifeInvariance` | `Spec => []LifeInv` |
| `HeldByOne` | `Spec => []OneHolder` |
| `FailureStoresNothing` | `Spec => []FailedNotStored` |
| `MarkedArePending` | `Spec => []MarkedIffPending` |
| `FilesAreOwned` | `Spec => []FilesOwned` |
| `FinalIsFinal` | `Spec => FinalStays` |
| `PageLifeRefined` | where `MaxFaults` is 0, `Spec => ImplementsPageLife` |
| `PendingIsBounded` | `Spec => []PendingBounded` |
| `FullInvariance` | `Spec => []FullInv` |

`LifeInv` speaks of the time before the first fault, deaths included. Its part
`Located` says where every address is. `OnePlace`: in one transfer, in one queued
update or once in `pending`; `BatchCounts`: the counter of a batch is the number of its addresses
that are in a transfer or an update. The two lean on each other: that a listing finds no transfer
and no update left (so that what it lists is nowhere else) follows because every
counter is 0 when a listing is asked for, by `Chain`, and a counter at 0 has
nobody left to count. `StatusTells`: what is being fetched has status 0, what is
pending 1 or -1, so a final status is written once, over one of these. `StoredTells`:
an article's row exists only for a status 2, or for a page whose status 2 is due or was lost
with the process. `Calm`: no transfer has called back and is still there. `NothingLost`
holds until the first death: a page marked 1 or -1 is pending, and a file is that of a page on its way.
The proof goes by where an address moves: most events move none (`Quiet`), the
others land a download, list a batch, answer an update or kill the program
(`FaultlessSteps`), and there is a lemma for each of them on what it does to the
sets `Fetching` and `Backlog`.

For `PageLifeRefined` each of these moves is matched with the step of `PageLife` that
it takes. The hypothesis `MaxFaults = 0` is needed because `PageLife` is false of
runs with faults, not a matter of the proof; a weaker statement ("until the first
fault") is no refinement. Deaths and restarts are unlimited.

`BoundInv` holds through faults. `Outstanding`, the transfers and the queued
updates, is how many pushes onto `pending` are still to come. A batch that counts
has at least as many to count, except that a fault may let a transfer call back
once more: `Outstanding <= remaining[b] + faults`. A listing is asked for only with
the length of `pending` within the limit, but may find pushes outstanding, one for
each fault at most; hence the sum in `PendingBounded`.

`CrawlerMetricsProofs` proves, from the same assumption:

| theorem | statement |
|---|---|
| `MetricsInvariance` | `MSpec => []MInv` |
| `MetricsAreTheHistory` | `MSpec => []CountsAgree` |
| `NothingUncounted` | `MSpec => []NeverUndercounts` |
| `MetricsOnlyWatch` | `MSpec => Spec` |

A status shows in the tables some steps after it has been counted: the callback
counts and sends an update, and the update is answered later, or refused, or lost.
So `MInv` counts the addresses that a status has been written to *or is asked for*
(`Reached`), and a step that counts nothing adds none.

* `CountedBefore` bounds the totals from below, through faults and deaths. A double
  callback may be counted twice for one address, and its late update may put a
  settled row back to 1 or -1; both only leave more counted than there is to see.
  For downloads the addresses in `pending` are added: a page whose update was
  refused has status 0 there, is settled later all the same, and then shows as
  downloaded. An article is counted when its INSERT is answered; if that was carried
  out and the answer lost, `Withdrawn` is 1 until the callback hears of the error and
  counts the article after all. A death keeps it from doing so, which is where
  `crashes` comes in.
* `CountedOnce` bounds them from above before the first fault or death. It needs
  `LifeInv` (a download that calls back is of an address with status 0, a page that
  leaves the pipeline has no final status) and `FilesThere`: no page on its way has
  lost its file, so `process` never reports a missing one, which would be a failure
  without an article.
* `SentQueued` says that `sent` holds one value for each INSERT in the driver's
  queue. `Sum` is a recursive function; what it does to `Append` and `Tail` is proved
  from the functions that satisfy its equations, which are built a place at a time.

The steps of the proof go by what they count (`StepCounts`): nothing, an INSERT sent
or answered, a download, a page, or everything forgotten with the process. Each
inequality of `CountedBefore` and `CountedOnce` then follows from how its set of
addresses grows in such a step (`ReachedStep`, `BacklogStep`, `ReachedStays`).

`VerifyArticleProofs` and `UrlExtractProofs` prove, for any page, any elements and
any prefix, whatever the alphabet (`VerifyAssumption`, `ExtractAssumption`: they
are sequences, and not empty):

| theorem | statement |
|---|---|
| `VerifyInvariance` | `Spec => []IInv` of `VerifyArticle` |
| `ExitZeroIsRight` | `Spec => []ArticleHasElements` |
| `ExitOneIsRight` | `Spec => []NoArticleLacksElement` |
| `ExtractInvariance` | `Spec => []IInv` of `UrlExtract` |
| `OnlyLinksWritten` | `Spec => []LinesAreLinks` |
| `AllPlainLinksWritten` | `Spec => []PlainLinksWritten` |

A scanner's invariant has a half that looks back and one that looks ahead.
`Counted` says that what a counter has counted is there just before the position
it is at; with it a match is a match. `Followed` says that from the first
character of an occurrence that starts clean the count is exactly the distance
from its beginning; with it no such occurrence is missed. The second needs the
first: at the first character of the occurrence the counter must be 0, and it is,
because anything else would have been a beginning of the pattern just before.
In `UrlExtract` the occurrence may meanwhile be being copied or have been written
(`Caught`), and `Copying` says that a path being copied follows the prefix.

`ContentExtractProofs` proves, for any set of pages
(`ContentAssumption`):

| theorem | statement |
|---|---|
| `ContentInvariance` | `Spec => []IInv` of `ContentExtract` |
| `NothingCopiedTwice` | `Spec => []CopiedOnce` |
| `NothingBeforeItsTag` | `Spec => []CopiedBehindTag` |
| `HeadingInvariance` | `Spec => []HInv` |
| `NoHeadingMissed` | `Spec => []HeadingsCopied` |
| `OnlyHeadingsCopied` | `Spec => []NothingElseCopied` |

`CopiedBefore` says that the scan is behind whatever has been copied; with it a character copied next
is a new one. It survives the seek of line 216 because the seek, wrong way round
as it is, never ends before the place the matching began at (`RereadBounds`).
`FramesOpened` says that each call of `write` that has not returned began behind
a tag of its name, or behind a `Landing` of the seek (`Taken`): `next_open_tag`
stops behind a `<` (`StartTaken`), and the seek stops where it was, behind a `<`,
if `match_end_tag` took nothing, and as far behind the `/` again as it had read if it did
(`RereadTaken`). What the functions that move through the page return is defined by
recursion over positions; the lemmas bound it without an induction theorem: a
set of naturals that has, with each of its members, a smaller one is empty (`Descent`), so there
is no least position the bound fails at.

`HInv` is about a calm page, or the calm part of one: no quotes, every tag closed
before the next begins, no tags in a heading. As long as a heading behind it is
ahead, the scan is between the headings before it or in one of them (`Between`);
then it is in the heading and has copied it up to where it is, and then it has copied
it (`Met`). What comes behind may be anything, so the last of the three says nothing
about the scan. If the whole page is calm the scan is always `Between`, and copies
only what is in a heading (`OnlyHeadings`). The proof follows the scan function by
function: with no quote in its way `close_tag` stops at the first `>`, which is that
of the tag it is in, and `next_open_tag` at the first `<`; so the name that is
matched is always that of a tag and never a piece of text, and in a heading the
only `<` is that of its own end tag, which ends the call of `write` it belongs to.

`MetaExtractProofs` proves, for any set of pages and of names, from what the code's
strings have (`MetaAssumption`: they are not empty; `MarkupAssumption`, read off lines
8-14, 149, 158, 232 and 305: `meta ` has one blank, its last character, and no quote; keys and names
have no `<`, `>` or blank in them; the two keys end in their quote and the names
have none; `name="` begins with an n, the character line 232 tells it by, and
`property="` does not):

| theorem | statement |
|---|---|
| `MetaInvariance` | `Spec => []IInv` of `MetaExtract` |
| `ValuesBelongToTheirName` | `Spec => []ValuesAreContent` |
| `OneValueInvariance` | `Spec => []OneInv` |
| `ValuesHaveTheirTag` | `Spec => []OneValuePerTag` |
| `PlainMetaInvariance` | `Spec => []PlainMetasMet` |
| `NoPlainMetaMissed` | `Spec => []PlainMetaCopied` |

The invariant adds `NameSeen`: while a value is looked for, its name has been read
and no `>` has been passed since but those of line 328 (`SameTag`). A step over an
attribute that is not `content` lengthens that stretch by blanks, by what there is
of `content="` and by the one character behind it (`TagGoesOn`); this is where a
`>` may be lost, and where the assumption on the keys is used. That a value ends at
the first quote that is not escaped (`ValueEndIs`) relates two ways of seeing an
escape: the code skips the character behind a `\`, the property counts the `\`s
before a quote (`BackslashesNext`), and the two agree because the scan never stands
on an escaped character; this goes by `Descent`, too.

`OneInv` adds to `OneValuePerTag` where the scan is: behind all values (`ScanBehind`),
so that a tag found next begins behind them; and, from there to the value, in a tag that
begins behind all values, with the name read in it (`TagBegun`). A name or value
may be looked for past the tag's end, but only forward, and after a value
`main` looks for the next tag.

`PlainMetasMet` follows the scan to a plain meta tag behind a calm part of the page,
in which the only quotes are those of plain meta tags. Until the tag's value is
copied the scan `Approaches` it: it is outside all plain meta tags and not behind this
one, or at one of the four places in a plain meta tag before it, or in it, where a turn
of a loop ends (`InMeta`), and every value so far comes from before it. It stays so
because nothing can run over the tag. `close_tag` and `close_string` skip from quote to
quote; where the scan is outside a plain meta tag the next quote is at the earliest in
the next one (`NoQuote`, `NextMeta`), behind a `<` and so behind the `>` that stops
`close_tag`. In a plain meta tag the key, the name and the value follow each
other as the functions want them. Two plain meta tags do not overlap and no place
has two (`PlainBefore`, `PlainUnique`); the latter is where the assumption on the first
characters of the keys is used. If `main` returns while the scan still approaches,
it is not at the end of the page, and `ReturnsWithAll` says that every name has a value.

`ProtocolProofs` proves, for any set of queries (`ProtocolAssumption`: the handshake
and the quit are not among them):

| theorem | statement |
|---|---|
| `Invariance` | `Spec => []IInv` of `Protocol` |
| `CalledInOrder` | `Spec => []InOrder` |
| `OnlyHeadStarted` | `Spec => []HeadIsStarted` |
| `ErrorsFirst` | `Spec => []ErrorsComeFirst` |
| `NoQueryLeftBehind` | `Spec => []NobodyLeftBehind` |
| `Implements` | `Spec => ImplementsConnection` |

The history `asked` is a ruler: everything in the driver has a place on it.
`Placed` says that the queue is one stretch of it and the refused sequences the
next; `Ahead` is where the queue begins and `Done` how many of its sequences have
been ended but not taken off. While the connection lives `Done` is 0, or 1 while a
callback runs (`Alive`). When it is dead `Done` is where the flush is, except that
the head may have been ended before the flush began, by `handleNetworkError`, and
a flush is due or going on exactly as long as the queue is not empty (`Dead`):
without that a sequence could be refused before the ones ahead of it are ended.
If nobody heard the error there was no query in the queue (`Died`). Each lemma on
a step only moves these numbers. For `Implements`, every step of the driver
appends to `asked`, appends to `called`, sets the fatal error or changes neither
(`Kinds`), and what is owed is the difference of the two histories.

`DatabaseProofs` proves, for any addresses and any number of faults
(`DatabaseAssumption`):

| theorem | statement |
|---|---|
| `Invariance` | `Spec => []IInv` of `Database` |
| `CleanIsFresh` | `Spec => []CleanRunIsFresh` |
| `QuitComesLast` | `Spec => []QuitIsLast` |

`Shape` says that the queue holds the one statement the script waits for, or the
last `outstanding` of the three `CREATE TABLE`s; `Progress` what that statement
says of the database as long as no error was printed or is owed, and `ErrorPrinted`
that an error that is owed will be printed before the quit. `NoDatabase` gives the
first link: where there is no database there are no rows.

Every safety invariant and every safety property of steps that a passing run checks
is stated by one of these theorems, both refinements included. Only model-checked:
liveness (`PendingDrains`, `KeepsListing`, `EveryRowSettles`, `RunsEnd`,
`EveryoneIsCalled`, `Returns`), which is out of the prover's reach, as is `ENABLED`,
which fairness is made of.

## Not modelled

* Of the driver: TLS, `ping`, `changeUser`, `statistics`, `pause`, `resume`,
  `destroy` and inactivity timeouts, none of which the programs use (the quit's
  timeout is modelled), a server that does not speak the protocol, and a program
  that sends something after `end()`. The packets, the parser, pools and the
  formatting of values are third-party code below the level of the properties.
* Logging, configuration and the build; `end()` of `crawler.js`, which nothing calls.
* `src/crawler/mysql/include`: some 19,700 lines of the header files of a MySQL
  client library. No source of the repository includes one of them (the C programs
  include nothing but the C library's headers) and the build does not name them. They are
  declarations without behaviour the program has. They are most of the
  repository's lines outside `node_modules`, so the share of those lines the model
  covers is small: it covers about two thirds of the program's own 1,240 lines, and
  of the driver the two files that hold its state.
* An error of the socket or of the file after the file's finish event: `FileFinish`
  ends the transfer.
* Open descriptors: `download.js` leaks one for each request that fails before its
  response. A child that never ends: nothing in the code would stop it.
* Bytes outside the scanners' alphabets; the fixed buffers for paths in the C
  programs; files that cannot be opened, which end a C program before it scans.

## Plan

1. (done) `Tables`, `Connection`, `Download`, `Process`, `Crawler`, `PageLife`;
   the first invariants proved; the four scanners, two of them proved.
2. (done) `Protocol`, proved to implement `Connection`; `Metrics` composed with the
   loops; `Database`, the setup script, proved.
3. (done) Proofs of `PendingBounded`, `OneHolder`, `FailedNotStored` and the other
   properties of runs without faults; of the implementation of `PageLife`; of what
   `ContentExtract` and `MetaExtract` copy, at most and at least; of `CountsAgree` and
   `NeverUndercounts`, from an invariant that says of every count that it is made before
   it shows in a table.
4. The safety part of liveness: measures that the steps of the scanners and of the
   driver's flush make smaller, which would leave only the fairness to TLC.
