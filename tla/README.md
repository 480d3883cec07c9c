# A formal model of LoreX

LoreX indexes audiobook postings of Usenet groups, downloads the releases its
user grabs and imports them into a library. This directory holds TLA+ modules
that model its core, the TLC configurations that check them on small
instances, and proofs checked by TLAPS. Paths below are relative to
`backend/lorex/` unless they begin with `docs/`.

| module | what it is |
|---|---|
| `JobLifecycle` | abstract: what the download queue promises |
| `DownloadJobs` | the queue, the API handlers that touch it, its workers |
| `DownloadJobsProofs` | type correctness, four safety theorems, refinement of `JobLifecycle` |
| `DownloadOutcome` | abstract: what one call of `download_job` means to its caller |
| `ArticleDownload` | the threaded, streaming download engine |
| `ArticleDownloadProofs` | type correctness, nine safety theorems, refinement of `DownloadOutcome` |
| `GroupScan` | the scan of one group, its index commits and its checkpoint |
| `GroupScanProofs` | type correctness, checkpoints that only first scans move back, no gaps, whole releases, indexed windows |
| `ScannerService` | the scanner worker, provider settings, scan-now requests |
| `ScannerServiceProofs` | type correctness, distinct tokens, current statuses |
| `BookSearch` | the on-demand search and the targeted scan of groups behind it |
| `BookSearchProofs` | its two safety theorems |
| `ArticleStream` | one article: NNTP client and yEnc decoder |
| `ArticleStreamProofs` | what arrives is what was posted; decoding undoes encoding |
| `PostProcess` | operators: from articles to files, archives, one audiobook |
| `Delivery` | a downloaded job on its way into the library, on `PostProcess` |
| `DeliveryProofs` | whole books, true rows |
| `Metadata` | metadata resolver, caches, Redis lease, artwork scheduler |
| `MetadataProofs` | type correctness, single leaders, earned negatives, artwork permits |
| `MC*` | the constants of the TLC runs; one `.cfg` per run, and some kept beside them (section 6) |

`PROJECT.json` lists runs, mutants, hazards, theorems, and for every
definition the lines of code it stands for.

## 1. The system

### Processes

`docker-compose.yml` runs an API process, a `download-worker`, an
`nntp-scanner` and the stores (PostgreSQL, Redis), all with `restart:
unless-stopped`. The API process serves requests on threads; it may also embed
a scanner, and `POST /api/downloads/process-next` makes one of its threads do a
worker's pass. Both scanner and worker can be started by hand as well. Nothing
but PostgreSQL coordinates them: one transaction is atomic, two are not.

### Components

| component | state | operations | hard about it | modelled |
|---|---|---|---|---|
| Download queue (`services/download_jobs.py`, `read_repository.py`, `postgres_repository.py`) | `download_jobs`, the status columns of `releases` | grab, cancel, retry, claim, status changes, recovery | every operation is several transactions; workers, requests and crashes in between | `DownloadJobs` |
| Download engine (`downloader/engine.py`, `provider.py`, `progress.py`, `nntp/article_provider.py`) | `download_articles`, `.partial` and `.complete` files, slots, permits, coalesced progress | `download_job`, `_download_article` | thread pool, cancellation, fallback, failing statements, crash and resume | `ArticleDownload` |
| Scanner and indexing (`nntp/scanner.py`, `services/indexing.py`, `commit_index_batch`) | `indexer_checkpoints`, `releases`, `release_articles` | `scan_group_once`, `index_batches`, commit | overlapping scanners, replay, a group that moves | `GroupScan` |
| Header grouping (`indexer/grouping.py`) | pending groups, LRU | feed, evict, flush | completion by count, duplicates, eviction | in `GroupScan`, with its limit and eviction; not the reconciliation of duplicates |
| Scanner worker, runtime settings (`workers/nntp_scanner.py`, `runtime_repository.py`) | settings, scan-now token, heartbeat, scan states | `run_forever`, `run_pass`, request scan | requests and edits during a pass, exceptions between its transactions | `ScannerService` |
| Provider configuration (`nntp/repository.py`, `security/`, `api/nntp_settings.py`) | providers, groups, encrypted credentials | create, update, delete, list | `list_enabled` is not one read; a key that changes | `ScannerService` |
| On-demand and targeted search (`api/releases.py`, `services/on_demand_search.py`, `services/targeted_nntp_search.py`) | the request's candidates, the windows it scanned | search, acquire, search again | groups that move, parts in two windows, an error half-way | `BookSearch` |
| Classifier (`indexer/classifier.py`), NZB (`indexer/nzb.py`) | none | | | the classifier in `BookSearch`; the NZB's text is not modelled |
| NNTP client, yEnc (`nntp/client.py`, `nntp/yenc.py`, `nntp/article_provider.py`) | one connection, decoder state | commands, streamed body | damaged bodies, order of commands | `ArticleStream` |
| Post-processing (`postprocess.py`) | a work directory | rebuild, repair, extract, choose | names and kinds that lie, several volumes | `PostProcess`, `Delivery` |
| Library importer (`library/importer.py`) | files, `library_books` | `import_file` | destination choice, file and row apart | `Delivery` |
| Metadata resolver, caches, lease (`metadata/`) | key locks, Redis and fallback entries, leases | `resolve` | coalescing in and across processes, an expiring lease | `Metadata` |
| Artwork scheduler (`metadata/artwork.py`) | executor, capacity, active set | submit, run, close | three critical sections in one `submit` | `Metadata` |
| Provider health | counters per provider | one upsert per attempt | | only that the write may fail |
| Import pipeline and queue (`library/pipeline.py`, `import_repository.py`) | import jobs, stages | staged import | resume; used by tests and benchmarks only | no |
| In-memory repositories, reads, wiring, frontend, migrations, benchmarks | | | | no: doubles, pure reads, presentation |

### How they interact

A scanner turns overview rows into releases and articles and moves the group's
checkpoint. A grab inserts a job; a worker claims it, reads the release's
articles and the enabled providers, builds a downloader and calls
`download_job`; then it post-processes, imports and marks the job completed.
The API reads all of this and writes three things a worker meets later: a new
job, a cancel flag, a re-queued job. `DownloadJobs` treats the download as one
step with an outcome, and `ArticleDownload` is the inside of that step; the
abstract `DownloadOutcome` is the interface between them. A release that
`GroupScan` stored with all its articles (`ReleasesAreWhole`) is what a
download starts from.

The other modules meet these at the same kind of seam. `ScannerService` treats
the scan of a group as one step that ends or raises, and `GroupScan` is its
inside. `ArticleStream` is the inside of a stream of `ArticleDownload`, whose
outcomes are its outcomes. `Delivery` is the inside of `Postprocess`, `Imports`
and `ImportFails` of `DownloadJobs`. `BookSearch` indexes beside the scanner.
`Metadata` stands alone: no production path calls the resolver yet.

### What would make each component correct

*Queue.* One worker per job; claims that tell who has a job; no retry lost; no
job stuck; a cancellation that is accepted ends the job; what reads completed
is in the library; jobs in order; a grab of an active release adds nothing.
*Engine.* A completed article is a whole file; success means every article;
nothing runs on after the call; nothing is fetched twice; fallback hides a
provider that lacks an article; limits hold; counters agree with rows; every
call ends. *Stream.* A finished stream of a yEnc article is what was posted; a
whole article is never refused. *Delivery.* What can be seen in the library is
a whole book; rows and completed jobs have their files. *Scanner.* No article
skipped; no posting of a window lost, whatever fails; releases keep their
articles; checkpoints only grow; the group is caught up with. *Scanner worker.*
Statuses tell what runs; requests are told apart and served. *Search.* No
article of a stretch is passed over; what was gathered is shown. *Metadata.*
One leader per book; "not found" only when all say so; artwork permits add up;
every waiter is let go.

Not all of this is true of the code; section 6 lists what is not, and the
properties say what is left of it.

## 2. The modules

### DownloadJobs

State: the columns of `download_jobs` (`status`, `releaseOf`, `claimedBy`,
`cancelRequested`, with `rows` the identity column that orders them), the two
status columns of `releases`, the library; for every worker thread its place
in `process_next_download` and its job; for every API thread its place in a
grab. One action is one committed transaction or the code between two. So
`queue_release` is `GrabLooksUp` (or `GrabFindsActive`), `GrabAdds`,
`GrabMirrors`, and `claim_next` is `Claim` and `ClaimMirrors`, because
`ResponsivePostgresJobRepository` adds a second transaction to both. A worker
goes through `CheckBeforeDownload`, one of the four outcomes of the download,
`CheckAfterDownload`, `EntersPostprocessing`, `Postprocess`, `EntersImporting`,
`Imports` or `ImportFails`, `Completes` and `AppendsActivity`. Whatever raises
inside the `try` block leads to `FailsJob`. `WorkerCrash` and `CallerCrash`
also stand for an exception that leaves the handler.

A retry asks the row, as the code does, and not whether a worker is still
unwinding; any transaction inside the `try` block may raise. One parameter of
the environment is left: `RecoveryWired`, whether anything calls
`recover_stale` (nothing but the tests does). Since a job can be put back in
the queue under a worker, two history variables say when it was: `late` are the
workers that are still inside for a job that was put back, `contested` the jobs
this happened to, until they are put back with nobody inside. The promises of
the queue are about everybody else: `OneCurrentWorker` of workers that are not
late, `ClaimTellsOwner` of jobs that are not contested, and `JobLifecycle` has
a phase `contested` in which all it says of a job is that its release may be
delivered.

### ArticleDownload

State: `download_articles.status`, the job's failed mark, flag and counter, the
size in chunks of each `.partial` and `.complete` file; for every article the
thread that downloads it (`tpc`, with the index of the provider it is at); the
free permits of each engine's pools; for every job the main thread in
`download_job` (`mpc`), the articles it has yet to submit, the progress in the
coalescer and the outcome. `Fills`, `Reaps`, `ReapsError`, `LeavesLoop` and
`Drains` are the loop over futures and its `finally`; `submit_next` is
`SubmitsNext`, a helper with the cancel check in front of it. A task takes an
article slot, then per provider `StartsArticle`, `TakesPermit`, the stream
(`WritesChunk` ... `StreamEnds`), `Replaces`, `MarksCompleted`,
`RecordsSuccess`; `DropsPartial` and `ReturnsPermit` are part of every way out
of the stream. `Failures` says what the environment may do besides lacking an
article: temporary and hard provider errors, and raising transactions.
`Crash` kills the process of an engine; permits, threads and unwritten progress
are lost, files and rows stay, and a later `Begin` is the recovered job.
A flush whose transaction raises keeps what it was to write, and later chunks
add to it, so that the coalescer may hold more than its threshold.

Article bodies are `Chunks` chunks and a file is its length. A
`.complete` file is never damaged from outside, so that the size test of
`Unfinished` is existence.

### GroupScan

State: the server's low and high marks, the checkpoint row (0: no row), the
releases, and for every article the release that owns it in
`release_articles` (the message id is unique there); per scanner its place in
`scan_group_once` and its local variables. `ReadsCheckpoint`, `ChoosesWindow`
(`_scan_range`), `FetchesOverview`, then `FeedsHeader` one header at a time,
`CommitsFullBatch` when enough candidates have gathered, the commit that
carries the checkpoint in two steps (`OpensCommit` waits for, locks and
compares the row; `Commits` ends the transaction, and everything in it appears
at once), `CommitsUnnumbered` for what the grouper flushes. `RefusesCommit` is
"checkpoint cannot move backwards". `Fails` is an NNTP error, a rolled-back
transaction or a kill, at any place. `Posted` and `Expires` are the server.

The overview of a range without articles is an empty list, or the error 420 or
423, for which `client.py` raises (`OverviewIsRefused`); which it is depends on
the server. The grouper of a window holds at most `MaxPending` subjects, and a
new one evicts the subject that was touched longest ago (`pending`, `MakesRoom`).

A posting is the set of its article numbers; a numbered one is complete when
all its parts were fed, an unnumbered one is whatever its window held of it and
the grouper still has. `Fits` is what a reader of the grouper would say of a
posting: between any two of its articles there are fewer other subjects than
the limit. `locked` says whether the transaction of a commit found a row to
lock: of a group's first scans, several may find none. `scanned` is a
history variable: the windows that were committed, with their rows.

### ScannerService

State: the provider rows with `enabled`, credentials and groups; the scan
states; the settings with the scan-now token and whether its row exists yet;
the worker with its place in `run_forever` and `run_pass`, the ids it has still
to load and the scans it has still to make. `ListsEnabled` reads the ids and
`Loads` each provider, in sessions of their own. `MarksStarted`, `Scans`,
`MarksCompleted` or `MarksError`, `AppendsActivity` are one group's turn.
`ReadsToken` ends a pass. What raises outside the `try` of `run_pass` is `Dies`;
`Boots` is the restart by Docker. A scan-now request is `AsksScanNow`, then
`CountsUp`, or `FirstToken` and `InsertsToken` when there is no row. A secret
is sealed with the current key or with an earlier one (`KeyChanges`).

### BookSearch

State: the articles a group has, what is indexed; for each request its place,
the candidates, and per group the stretch it has searched. `AsksLocal` is one
query of `execute_on_demand_search`: the page of its matches (`Page`: at most
`PageLimit`, and since every indexed release has completion 1, those with the
last ids), scores, hiding, deduplication, stop at a strong match. `OpensGroup`,
`FetchesWindow`, `Indexes` are `scan_requested_book_group`; `EndsAcquisition`
and `AcquisitionFails` its two ends. A window without articles may be refused
with 420 or 423, which ends the whole acquisition (`WindowIsRefused`). The
scanner indexes and articles come and expire at any time. What the regular
expressions find in a subject are facts of a release (`Facts`), from which
scores and the classifier's verdict are computed as the code does; the scorer
and the classifier look for different words and endings, and have facts of
their own.

### ArticleStream

State: what was posted and the lines the server has still to send; the
connection; the decoder's `_mode`, `_finished`, `_expected_size`, what it has
decoded, `_output` and what was yielded. Commands and their replies are
`Greets`, `AuthenticatesUser`, `AuthenticatesPass`, `AsksBody`, `Closes`; a
line of the article is `ReadsLine`, stripped of the CR and LF bytes at its end
(`Stripped`) as the client does, with one disjunct for every branch of
`_process_line`. A trailer carries a checksum of the part and one of the file
(`pcrc`, `crc`), of which the decoder takes the first that is there
(`Checksum`). Bytes are numbers, encoded and decoded mod 256. The poster and
the server's dot stuffing are external. An article suffers at most one damage:
a line lost, doubled, swapped or added, a cut, a byte (also into a CR) or a
size changed. The
operators of the codec (`Encodes`, `Decoded`, `Cut`, `Checked`) are recursive
functions and folds, so that they can be proved about.

### PostProcess and Delivery

`PostProcess` has operators only: files are rebuilt from posts by their names;
magic bytes win over extensions, and a file they disagree with is renamed by
its position, so that its name is lost (`Normalized`, `Payload`); stray files
are named by position (`Unnamed`); the primary archive is chosen by priority;
several files are one book if they are MP3, in the order of their names.
`Product` is all of it, for a posting that nobody disturbs. `Delivery` takes a
job through `Claims`, `Rebuilds`, `Repairs`, `Extracts`, `Picks` and the
importer: `Chooses` a destination by existence and size, `Copies` to a
temporary file, `Replaces`, `Stats`, `Adds` the row, or `AddRaises` and
`TakesBack` what the call created (`Undoes`), then `UnlinksSource`; whatever
raises on the way fails the job. A file is the release it is of and its pieces
in order. `Crash` kills a worker anywhere.

`Unwinds` is what the queue can do to a delivery: the second mark of a worker
that failed in the engine falls on a job that another has claimed, which is
then retried once more and given to a third. Two workers of one job share its
directory: the job is `contested`, each may read some of what the other has
written (`Glimpses`, `Sights`, `copy`), and what they make of its release is
torn.

### Metadata

State: per process the key locks with their counts, the fallback cache and the
artwork scheduler; Redis entries and leases; per thread its place in `resolve`.
Threads reserve and take a key lock, recheck the caches, acquire the lease or
poll (`PollsCache`, `RetriesLease`, `GivesUpWaiting`), ask the providers one by
one, store, and let lease and lock go. Redis may raise at any access; leases,
entries and processes may end at any time.

## 3. The runs

Deadlock is not checked where the system may stop: a job, a request or an
article that is done has nothing to do (`ArticleDownload_*`, `Delivery_*`,
`BookSearch_search`, `ArticleStream_stream`). The other runs check it.

| run | what it asks | bounds |
|---|---|---|
| `queue` | Retries and recoveries at any time, cancels, statements that raise, a kill: all of the queue's properties, refinement of `JobLifecycle`, and under fairness `JobsSettle` | 2 workers (one loops), 1 API thread, 1 release, 2 jobs, 1 retry or recovery, 1 crash |
| `download_engine` | One job, three articles, two threads; a primary that lacks an article, a provider without pool, a fill server; every provider failure, cancellation, a crash and a second call: files, counters, flushes, fallback, no second fetch, refinement of `DownloadOutcome`, an end of every call | 2 chunks, flush at 2, 2 calls, 1 crash |
| `download_shared` | Two jobs on one downloader while any transaction may raise: permits, files, no thread left behind | 2 articles each, 2 slots, 1 connection; at most one of the jobs meets failures (`OneHurtJob`), both may be cancelled |
| `group_scan` | The scanner service and a manual backfill at one group, either of them first, either reply to an empty overview, a failure anywhere: all of the scanner's properties | 3 articles: a book of two numbered parts and a short one; windows of 2, batches of 2, grouper of 2, 1 failure, articles posted and expiring at any time |
| `scan_crowd` | A window with more subjects than the grouper holds: who has room is indexed whole, whatever is evicted | 1 scanner, 6 articles: a book of three parts, a short one, an unnumbered set, spam; grouper of 2, batches of 2, 1 failure |
| `scanner_service` | The worker, edits of providers and settings, scan-now requests, failures: statuses, tokens, and under fairness every request served | 1 provider with 1 group and 1 to be added, 2 clients, 2 requests, 2 edits, 1 failure |
| `delivery` | Two editions of one title from articles to library, eleven kinds of posting, three kinds of shelf, a job that gets a second worker: whole books, true rows | 2 workers, 2 jobs, 2 failures or kills; two workers share a job of several tracks, on an empty shelf, with one failure (`ContestsAreFew`) |
| `search` | A request over two moving groups beside the scanner: nothing skipped, nothing gathered hidden | 1 request, 2 groups of up to 4 article numbers, windows of 2 (two per group), 4 releases, 2 queries, pages of 1, 1 failure, either reply to an empty window |
| `article_stream` | One article, whole or damaged once, any reply, any failed read: what arrives is what was posted | contents of 1 to 3 bytes of 6 (an encoded dot, the escaped `=`, NUL and CR, a byte that wraps, a dot), damaged bytes may become CR; lines of 2, chunks of 2, 4 forms |
| `metadata` | Look-ups and artwork of three threads in up to two processes: leaders, negative entries, permits, and under fairness every key lock let go | 3 threads in 4 casts, 2 books, 2 providers, 1 artwork worker, queue of 1, 1 failure |
| `grab_race`, `scan_boundary` | see section 6: each ends with a counterexample to the property it is named for | |

Why the bounds are enough: the races of the queue need two workers, or a
worker and a request, at one job; order needs a second job; one
retry makes a worker late that may write over the next attempt, and a kill
leaves a job running or a grab half done; `DownloadJobs_races.cfg`, kept beside
the runs, checks the safety properties with two retries, and more of each
repeats these. In the
engine two threads and three articles let
the main thread reap one future while another runs and a third is pending; the
provider list has one that lacks an article, one skipped, and one that has all;
two chunks give a partial file that is neither empty nor whole; a second call
meets the files, rows and counters the first left. `download_shared` uses symmetry
over its two jobs, which nothing distinguishes, and its constraint leaves one job
healthy beside one that fails anywhere; it checks no liveness.

In the scanner, windows of two among three articles let two scanners overlap,
disagree on where a window starts, be both at the first scan, and commit in
either order; a window may hold the book or cut it in two, and hold the short
one or not. What one window can hold is the question of `scan_crowd`: a full
batch that is committed before the checkpoint, candidates that are committed
with it, an unnumbered posting after it, and a grouper of two that meets a third
subject while the book, touched in between, stays and the set has to go. That
the code's limit is 4096 and its window 5000 changes nothing but how
many subjects it takes. `Missing` is empty in the runs: expiry between `GROUP`
and `XOVER` makes the sparse and the empty answers.

A status that stays behind needs one scan, one failure and one edit; two tokens
that are one need two clients at the first request. The race of two imports
needs two jobs of one title, and choosing past an occupied path needs one and
two earlier books, which the shelves hold. A contested job needs one late mark;
a third worker would add readers of the same torn files. A gap between windows
needs two of them in one stretch, a lost group an error in the second; a page
of one is full with the first of two matches. Lines of two bytes put an escape
at a line's end and a dot at its start; three bytes make two lines, so that one
can be lost, doubled or swapped; a checksum of a content is the content
(section 5), which is exact for these. Two threads of a process share a key
lock, one in another process waits for the lease, two books compete for artwork
slots.

Every property of a passing run has a mutant in `PROJECT.json`: a plausible
bug in one mapped definition (its body is next to it in the module, marked
"Mutant") under which TLC finds the property violated in the same run.

### Fairness

* A looping worker claims again and again (`run_forever` polls once a second);
  a worker that has claimed a job, and a request that has begun a grab, goes on
  (threads are scheduled, transactions end); a job that a kill leaves in a
  running status is excused (`Stranded`), for nothing as shipped recovers it. Workers that are single
  `process-next` requests need not come. Users owe nothing: no fairness for
  grab, cancel, retry.
* A thread of the engine goes on: an article stream ends because the socket
  has a timeout, a full pool frees a permit because its holders go on. The
  weak fairness is on the step of a thread as a whole, never on the outcome it
  gets.
* `ScannerService`: the worker goes on and Docker restarts it (`Works`,
  `Boots`); no client, edit or failure need happen. `RequestsAreServed` takes a
  pass that was under way for an answer, and promises nothing while a secret
  cannot be opened or scanning is off.
* `Metadata`: a thread of a live process goes on, providers answer or time out,
  and the waiter's deadline passes; nothing is assumed of Redis or of leases.
* The scanner service scans again and again; a manual run need not start, but
  goes on once it has begun (or fails, a bounded number of times).

## 4. What is proved

For every number of workers, callers, releases, jobs, articles, providers,
engines, scanners and postings, and every bound:

* `DownloadJobsProofs`: `TypeCorrect`, `CompletedJobsAreImported`,
  `WorkersAreExclusive`, `ClaimsTellOwners`, `RetriesAreNotLost`,
  `QueueImplementsLifecycle`, all without an assumption on the environment:
  retries come as early as the row allows them, live jobs may be recovered,
  statements raise, workers die.
* `ArticleDownloadProofs`: `TypeCorrect`, `CompletedArticlesAreWhole`,
  `SuccessHasEverything`, `NothingIsRefetched`, `FallbackAlwaysWorks`,
  `PermitsAlwaysAddUp`, without assumptions; `ProgressGetsFlushed` and
  `CounterIsTrue`, whose properties speak of transactions that succeed;
  `DownloadImplementsOutcome` if they do (a transaction that raises at the
  flush turns a call that had succeeded into one that failed, and leaves
  progress unwritten). `EngineConnectionsAreBounded` is the bound on
  connections that does hold, that of one engine; in production every job has
  an engine of its own, and `ArticleDownload_connections.cfg` breaks the bound
  on all of them.
* `GroupScanProofs`: `TypeCorrect` (with the lock on the checkpoint row),
  `ReleasesStayWhole`, `CommittedWindowsAreIndexed`,
  `CheckpointsMoveBackInFirstScansOnly`, `ScansLeaveNoGap`, all without
  assumptions: whoever scans first, with however many others.
* `ScannerServiceProofs`: `TypeCorrect`, `RequestsAreToldApart`,
  `StatusesAreCurrent`, all without assumptions: whatever is edited, requested,
  raised or killed.
* `MetadataProofs`: `TypeCorrect`, `NegativesHaveBeenEarned`,
  `LeadersStayAlone`, `ArtworkStaysAccounted`, without assumptions.
* `DeliveryProofs`: `DeliveredStaysWhole`, of releases whose job never had two
  workers, and `LibraryStaysTrue`, of titles no two imports of which
  overlapped; both for postings of any make and files of any size.
* `BookSearchProofs`: `GatheredGetsShown`, of releases for which some query has
  room on its page, and `StretchGetsIndexed`, without assumptions.
* `ArticleStreamProofs`: `DeliveredMatchesPosted`, `WholeGetsAccepted`, for
  contents, lines and chunks of any length, any bytes, any replies and any one
  damage; `DecodingUndoesEncoding`, of any sequence of bytes.

With these, every invariant and every action property of a passing run, and
both refinements, are stated by a theorem.

The assumptions on constants are the `ConstantsAssumption` of each module,
which every run evaluates. `Delivery` has two more: `ParcelsAssumption` gives
the shape of a posting, and `ShelvesAssumption` says that what the library
holds at first is what the post-processor made of some release. What it makes
is `Product`, computed by the operators the steps themselves go through
(`Reconstructed`, `Archives`, `AudioFiles`, `Combined`). That no interleaving,
failure or kill lets anything else be seen in the library is proved, for any
postings; whether it is the audiobook that was posted is another question,
which `Delivery_tracks.cfg` answers: not if its tracks are named without leading zeros.

The arguments, component by component.

*Queue*: the steps are first sorted into a few kinds by what they do to jobs
(`StepKinds`), and each kind is shown to keep the invariant. `ImportInv` adds
to `CompletedIsImported` that a worker about to mark its job completed has
imported it. `ExclusiveInv` adds that a late worker's job is contested
(`LateIsContested`), that the job of a worker who is not late is not queued
(`CurrentIsUnqueued`), and that a worker in its `except` block has its own
claim or none (`UnwindingClaim`): without the second a claim could take a held
job, without the third the claim column would not follow the worker through its
end. The refinement takes `ExclusiveInv` as an invariant and maps each kind of
step to a step of `JobLifecycle` or to a stutter.

*Engine*: `EngineInv` says of each task which file it has where (`TaskInv`),
and of each job that pending articles have no thread, that outside the loop
nothing runs, that no unfinished article is forgotten and that a successful end
has all of them (`JobInv`). A step of a task keeps its own part, leaves other
tasks' alone and keeps its job's; a step of a main thread keeps its own job's
part and touches no other. `SuccessIsComplete` is not inductive: that the loop
is left only with nothing pending, no thread and nothing failed is what the
strengthening says. A failed outcome is traced to what marked its job `hurt`
(`FallbackIsAutomatic`). `MarkInv` says that a row a task is about to complete
does not read completed: without it the counter could go up twice for one row.
`PermitInv` adds the free permits of a pool and its streams to
`MaxConnections`, which is stronger than the bound and inductive where the
bound is not. The refinement needs `CancelInv` besides `EngineInv`: a call that
drains for a cancellation has one standing.

*Scanner*: a scanner that compared its window with a locked row keeps that
row's value until it commits (`LockedIsChecked`), and a row, once there, stays
(`KnownStays`). `CheckpointInv` is these two, and a commit that moves the
checkpoint back is then one that found no row. `WholeInv` holds every
candidate, in a batch or stored, to be all of its posting and every owned
article to be of its owner, so that a release can only lose an article to
itself. `IndexInv` follows a posting of a window through its scanner: not yet
fed, held by the grouper, in the batch, or indexed. `HoldsOf` says that the
grouper holds of a subject its newest article, and all of what was fed if the
subject fits; then the oldest group of a full grouper never is one that fits
(`NoKeptGroupIsEvicted`), for the others have all come between two of its
articles. `SkipInv` adds that what a scanner knew of the checkpoint is the end
of a window (`KnownInv`), that between it and its own window only expired
numbers lie (`StartInv`), and that windows begin with one of a first scan
(`FirstInv`): what lies below that one is the only gap.

*Service*: `TypeInv` adds to the types where the worker has a scan under way,
and that a token without a row is 0: without that the first row could give a
token out again. `StatusInv` adds that a worker about to note what happened has
taken the status back, or forgetting the scan would leave the status behind; a
process that dies moves its scan to `cut`, which excuses it until the next scan
of that group begins.

*Metadata*: `AskInv` counts, per thread, denials against providers asked, so
that only a round without a failure ends with all of them. `KeyLockInv` is
about lock objects: a thread's lock is its key's entry while it uses it,
entries of different keys differ, an entry counts its users and is held once; a
lock made anew for a key whose old lock is still in use would break it.
`LeaseInv` says that a lease not lost is the one Redis names; the two leaders
of one book are excluded by both. `ArtInv` adds the permits of a scheduler up,
free and in the four places one can be, and lets a book be in one submission or
one download.

*Delivery*: `StageInv` says what the steps of a worker have made of its job so
far, while it has it to itself (`Undisturbed`; the files of contested jobs are `Torn`),
and that it replaces only a path it has created. `ShelfInv` is about several:
imports that overlap have raced (`RaceInv`), and no other import under way is
to write or to take away what an unraced import, a completed job or a row
counts on (`Keeps`). Without `Keeps`, `LibraryIsTrue` is not inductive. Since
the importer tells files apart by size, `ShelfInv` speaks of a file that stands
for a release (`StandsFor`), and which release it is follows where no other has
its size.

*Search*: `WindowInv` says that the window at hand begins the stretch and that
what was fetched of a wanted release is none or all of it; `AnswerInv` that the
second search goes through the queries from the first on with everything
gathered indexed, and that each query has found it or had no room on its page;
a page that is full stays full, for nothing indexed is taken away.

*Article*: the codec comes first. What `Decoded` and `Encodes` yield is the
value of recursive functions, and the library's induction theorems take an
operator, which no prover here can instantiate; but that a set of numbers with
0 and all successors has all numbers follows from the numbers being
well-founded (`LeastNumber`, `Induction`), and that is induction enough. With
it a flattened sequence grows at its end (`FlattenAppends`), so do `Decoded`,
if no escape is open (`DecodedAppends`), and `Encodes`; a byte is decoded to
itself by computation (`DecodesEncoded`), hence every line is
(`EncodingUndone`). No encoded line ends in a CR or LF, so the client's
stripping leaves it as it is (`PostedEnds`). The lines of a content join to it
(`PieceJoins`), so what an article yields is `Posted` (`YieldsPosted`), and
every line before is a prefix of it. Then the steps. `HandedInv`: what was
decoded is what was yielded and what still waits in the output, so chunking
loses nothing. `CrcInv`: the checksum the decoder will take from a trailer
still to come is the poster's, for no damage touches it. `FinishedInv`: behind
a trailer that was accepted, what was decoded is the content, or as long. It is
not inductive: a damage may have changed the size in the trailer, and then
nothing else is damaged. So either the trailers to come have the right size
(`SizeInv`), or the article is the posted one but for that size and the decoder
is where the lines read so far have brought it (`CleanInv`), which a wrong size
then cannot pass. An undamaged article is in the second case.

Only model-checked:

* liveness (`JobsSettle`, `CallEnds`, `CatchesUp`,
  `RequestsAreServed`, `KeyLocksAreLetGo`), which needs `ENABLED` and is
  beyond the prover;
* that what `PostProcess` makes of a posting is the audiobook that was posted:
  it is not, for every posting (`Delivery_tracks.cfg`);
* that the connection of an article is closed, and the other paths of
  `ArticleStream` on which nothing is delivered, for they have no property of
  their own.

The properties of section 6 are false of the code;
where a weaker one holds (`OneCurrentWorker` for `OneWorkerPerJob`,
`OnlyFirstScansMoveBack` for `CheckpointNeverBackwards`, `PermitsAddUp` for
`ConnectionsBounded`, `WindowPostsAreIndexed` for `ScannedPostsAreIndexed`,
`LibraryIsTrue` for `RowsHaveFiles` and `EditionsAreKept`), it is checked and
proved.

## 5. Abstractions to keep in mind

* A transaction is atomic and isolated; `FOR UPDATE SKIP LOCKED` never hands
  one row to two claims, a row lock is waited for. In `GroupScan`, where a lock
  outlives a check, the lock is modelled; elsewhere the transaction is one
  action.
* `claimed_at` is not modelled: `recover_stale` may take any claimed job in
  `downloading`, for a cutoff can have passed for a dead worker and for a slow
  one.
* A provider either carries an article or does not; 430 and a temporary
  failure are both retryable, and so is what the pool raises when it has no
  client. The sort key of `ordered()` is the numbering of the providers.
* `Missing` articles are left out of the overview as a server does for
  cancelled articles. The classifier is a constant set of accepted postings.
  A subject belongs to one posting, and a header of none is complete by itself:
  it takes no place in the grouper.
* In `Delivery`, tools (`par2`, `unar`, `7z`, `ffmpeg`) succeed or fail as a
  whole, and repair restores no names: volumes in the old style (`.rar`,
  `.r00`) lose theirs to the renaming by magic bytes and cannot be unpacked.
  A size is the number of a file's pieces times a unit of its posting. How a
  job comes to have two workers is one step (`Unwinds`) instead of the steps of
  `DownloadJobs`.
* In `BookSearch` candidates of one book differ in size (what a tie would keep
  is left open). The limit of 4096 pending subjects is `GroupScan`'s, and not
  modelled a second time here. A database error leaves a request without an
  answer (500), as does a `stop_score` outside 0 to 100 (422); such requests
  are left out.
* In `ArticleStream` the wire hands over whole lines; chunking of `body` does
  not change what `feed` sees. A socket whose greeting cannot be read is closed
  at once. A part's trailer has the checksum of the part beside that of the
  file, as the format asks; with the file's alone the decoder would refuse it.
  Damage does not touch checksums, nor make a byte an LF.
* In `ArticleStream` a checksum of a sequence stands for it: CRC-32 tells
  sequences of up to four bytes from all others of their length; longer ones
  that collide are taken for one, as the decoder takes them, and of those
  `DeliveredIsPosted` holds only up to that. The kind of a line
  is a field: no text, and no data line with one byte changed, reads like
  `=ybegin `, `=ypart ` or `=yend ` (an encoded line never does). No line is longer
  than `max_line_length`, which both client and decoder refuse.
* In `Metadata` a book is its key; TTLs are the steps `LeaseExpires`,
  `EntryExpires`, `FallbackExpires`, the deadline of a waiter `DeadlinePasses`.

## 6. Where code and documents disagree

Shown by a run that TLC ends with a counterexample:

* `grab_race`. Grab is to be idempotent for an active release
  (`docs/superpowers/specs/2026-09-04-productionize-lorex-v1-design.md:38`);
  two concurrent grabs both find nothing active and both insert.
* `scan_boundary`. A multipart release may span input batches
  (`docs/performance/optimization-pr2-streaming-indexer.md:96`); every
  scan window gets a grouper of its own and moves the checkpoint behind it.

Shown by a configuration that is kept beside the runs, for
`tlc -config X.cfg MC<module>.tla`; each ends with a counterexample to its one
property:

* `DownloadJobs_retry_race.cfg`, `OneWorkerPerJob`. "Multiple workers must not claim the same job concurrently"
  (`docs/superpowers/specs/2026-09-03-optimization-pr5-queue-downloader-efficiency-design.md:36`);
  the engine marks a job failed, hence retryable, before its worker has left
  it, and the worker marks it failed once more on its way out.
* `DownloadJobs_recovery.cfg`, `InterruptedIsRecoverable`. "Interrupted or stale in-progress
  jobs are recoverable" (same document, :32); nothing but tests calls
  `recover_stale`, and were it called, it only knows `downloading`: a job whose
  worker is killed in `postprocessing` or `importing` stays there.
* `ArticleDownload_connections.cfg`, `ConnectionsBounded`. The connection count is never to exceed
  `max_connections`
  (`docs/superpowers/specs/2026-09-04-live-nntp-integration-design.md:323`);
  every job builds its own pools (`services/download_jobs.py:111`).
* `GroupScan_first.cfg`, `CheckpointNeverBackwards`. "Checkpoints never move
  backwards" (same document, :167); at a group's first scan there is no row
  for `FOR UPDATE` to lock (`postgres_repository.py:113`), and of two scanners
  the slower one may write the smaller number.
* `ScannerService_survives.cfg`, `WorkerSurvives`. "A failure in one
  provider/group is recorded and does not terminate the worker"
  (`docs/superpowers/specs/2026-09-04-productionize-lorex-v1-design.md:33`);
  `mark_started` and the marks after a scan are outside the `try` of
  `run_pass` (`workers/nntp_scanner.py:63`), so a provider deleted during the
  pass ends the process at its foreign key.
* `Delivery_race.cfg`, `RowsHaveFiles`. "Ensure a DB failure does not silently
  claim an absent file"
  (`docs/superpowers/plans/2026-09-04-productionize-lorex-v1.md:144`); of two
  overlapping imports of one title, the one whose row is refused unlinks the
  file the other's row names (`library/importer.py:84`).
* `Delivery_sizes.cfg`, `EditionsAreKept`. "Detect duplicates and alternate editions but
  never automatically delete them"
  (`docs/superpowers/specs/2026-09-01-lorex-v1-design.md:64`); an import takes
  an existing file of equal size for its own and unlinks the source
  (`library/importer.py:56`).
* `Delivery_tracks.cfg`, `TracksAreInOrder`. "Ambiguous ordering goes to manual
  identification rather than creating a bad book" (same document, :59); tracks
  are joined in the alphabetic order of their names (`postprocess.py:204`),
  "Track 10" before "Track 2".

Met while modelling, not given a run:

* A cancellation noticed inside the engine ends as `failed`: `DownloadCancelled`
  is caught by the `except Exception` at `services/download_jobs.py:164`.
* `add` and `claim_next` mirror the release's status in a second transaction
  (`read_repository.py:86` and :96), which may overwrite a newer one.
* `append_activity` at `services/download_jobs.py:157` is inside the `try`: if
  it raises, a completed and imported job becomes failed.
* Unnumbered postings are committed after the checkpoint
  (`services/indexing.py:119` and :121); a crash in between loses them. That is
  why `WindowPostsAreIndexed` promises them only while nothing failed.
* A scan-now request made during a pass, for a group the pass has visited, is
  swallowed by the token read at its end (`workers/nntp_scanner.py:140`).
* An empty overview that the server answers with 420 or 423 raises
  (`nntp/client.py`), and a scan that raises leaves the checkpoint where it is:
  a range whose articles have all gone is asked for again and again, until the
  group's low mark has passed it. A search ends its acquisition at such a window.
* Old-style archive volumes (`.r00`, `postprocess.py:16`) are renamed by their
  magic bytes to `payload-NNNN.rar` (`postprocess.py:169`), and the archive
  tools do not find the next volume of the first.
* A page of 100 (`api/releases.py:139`) can be full of other matches, whatever
  they score: a release that was gathered and indexed is then not shown.
* When a later group raises, the answer of a search is the one from before the
  acquisition (`api/releases.py:181`), without what earlier groups added.
* A request by title only scores at most 75 (`services/on_demand_search.py:140`)
  and so never stops at a strong match; and a hidden candidate that is larger
  displaces a visible one of the same book (:218).
* The first line decides: an article whose `=ybegin` line was lost is plain text
  for the decoder (`nntp/yenc.py:75`), yielded undecoded and unchecked.

## 7. Plan

Done, in this order: `DownloadJobs` over `JobLifecycle`, `ArticleDownload` over
`DownloadOutcome`, `GroupScan`, `ScannerService`, `Metadata`, `Delivery` on
`PostProcess`, `BookSearch`, `ArticleStream`. Next:

1. `HeaderGrouper`: the parts and duplicates of a subject and what flush makes
   of them, against a reference definition of what a header sequence contains
   (limit and eviction are in `GroupScan`).
2. A composition of queue and engine, in which the one-step download of
   `DownloadJobs` is `DownloadOutcome`.

### Not modelled

The staged import pipeline and its queue (no production path enqueues an import
job), provider health (sums in one statement), the in-memory repositories
(doubles of those modelled), the NZB printer, read-only handlers, the frontend,
migrations and benchmarks.
