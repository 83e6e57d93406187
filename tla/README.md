# MangaSama: specifications

TLA+ modules for the parts of MangaSama in which several coroutines, requests,
tables and files meet; TLC configurations that check them on small instances;
theorems that the TLA+ proof system checks for every value of the constants.
Paths below are relative to the repository.

## 1. The system

MangaSama is one asyncio process (FastAPI, `app/main.py`) over one SQLite
database and a tree of CBZ files. It finds manga on remote sources, follows
series, downloads chapters into CBZ archives and serves them to a Vue frontend.

| component | state | operations | interacts with |
|---|---|---|---|
| download engine `app/services/downloader.py` | bounded queue, worker coroutines; tables `provider_jobs`, `chapters`, `pages`, `volumes`; CBZ files | enqueue, worker loop, `_run_task`, `download_chapter`, `_set_job`, start/stop | scrapers, folder strategies, CBZ packager, job events |
| chapter service `app/services/chapter.py` | the same tables and files | list, delete, redownload, file response | download engine |
| follow `app/services/follow.py`, `language_picker.py` | `follow_log`, `series.last_checked_at` | `check_series`, `backfill_series`, `check_due_series` | scrapers, download engine |
| domain health `app/services/health.py`, `app/scrapers/domain_registry.py` | table `domain_health` | sweep, `_update`, reset, `pick_domain` | scheduler, settings API |
| series, library, search services | `series`, `volumes`, `series_external_ids`, `libraries` | add from search, update, soft delete, refresh metadata | scrapers, metadata providers, cover cache |
| job events `app/services/job_events.py`, `app/api/jobs.py`, `frontend/src/stores/jobs.ts` | subscriber queues; the store's list | publish, subscribe, load, connect, disconnect | download engine |
| HTTP client and rate limiter `app/core/` | token buckets, semaphores, retries | `request`, `acquire` | all scrapers |
| scheduler `app/scheduler/jobs.py` | APScheduler jobs | follow check, health sweep, cleanup, backup | services |
| metadata and covers `app/metadata/` | cache files | fetch, merge | series service |
| setup, auth, runtime settings | `admin.json`, `settings.yaml` | setup, verify, patch | API |
| OPDS, CLI, schemas, migrations, views | none of their own | read, format | services |

What is hard here: coroutines that read a row, await the network, and write what
they computed; transactions that a constraint, a lock or a crash rejects after a
file was already replaced; deletes between a read and a write; SQLite's reuse of
rowids; a bounded queue whose workers must survive every error; a shutdown that
cancels; overlapping sweeps; events, answers and snapshots that reach a browser in
another order than they were made in; a write lock held through a download; files
written in place. `PROJECT.json` lists each hazard at its line.

What makes each component correct:

- download engine: one row per `(source_provider, source_id, language)`; pages
  follow their chapter; the file comes before the row; a job is held by one worker
  and keeps the status it ends with; no task kills its worker; the queue gets room.
- domain health: a domain is healthy exactly while fewer than three failures in a
  row were recorded; a primary that recovers is used again.
- follow: one entry per number, Italian first; every check leaves its log; nothing
  stored is enqueued again.
- job feed: a job shown with a wrong status is one whose event is still to come or was lost
  in a way the code accepts; a view that keeps being loaded ends up right.
- HTTP client and scrapers: no slot is lost; every request has a token; every call ends; a
  failure is not taken for an empty list, unless the scraper is written to hide it.
- series: one series per title, where no two adds overlap; the genres of one merge; the write
  lock comes back.
- metadata: what is merged does not depend on the order in which the providers were asked.
- pages and paths: an image keeps an index and a row of its own, a chapter its place in
  the list and a file of its own.
- covers, setup: a hash names its content; a saved setting is what the next start reads, and what
  was never saved is not.

## 2. Modules

| module | models |
|---|---|
| `Downloader` | queue, workers, `download_chapter`, deletes, restarts |
| `ChapterStore` | what the engine promises: each accepted request stores its own chapter at most once |
| `MCDownloader` | instances of `Downloader` for TLC |
| `DownloaderProofs` | theorems about `Downloader` |
| `DomainHealth` | `domain_health`, sweeps, admin reset, `pick_domain` |
| `MCDomainHealth` | instances of `DomainHealth` for TLC |
| `DomainHealthProofs` | theorems about `DomainHealth` |
| `Ordering` | Python's `sorted()`, slices and comprehensions, without recursion |
| `OrderingProofs` | lemmas about `Ordering` |
| `LanguagePicker` | `select_chapters`, one entry per number, and what a reader would want of a list |
| `Follow` | sweeps, checks and backfills over the sources' lists and the download queue; EXTENDS `LanguagePicker` |
| `MCFollow` | instances of `Follow` for TLC |
| `FollowProofs` | theorems about `Follow` and the choice it makes |
| `JobFeed` | `JobEventBus`, the SSE stream, `GET /api/jobs` and the store `jobs.ts` |
| `HttpClient` | `HttpClient._request` over `RateLimiter.acquire` |
| `HttpClientProofs` | theorems about `HttpClient` |
| `SourceAccess` | what the scrapers' methods make of the client's answers and errors; EXTENDS `HttpClient` |
| `Catalog` | series, external ids and genres under concurrent requests and SQLite's write lock |
| `Merger` | `MetadataMerger.merge`; EXTENDS `Ordering`, as `Listing` and `LanguagePicker` do |
| `Listing` | MangaWorld's `get_pages` and `get_chapters`, and the page rows made of the former |
| `ChapterPaths` | `resolve_path` and the rows of a library whose strategy changes |
| `CoverCache` | `fetch_and_cache` |
| `Setup` | the wizard, `admin.json`, `settings.yaml`, the libraries' names |
| `SourceAccessProofs` | theorems about `SourceAccess` and `Listing` |
| `StorageProofs` | theorems about `CoverCache`, `Setup` and `ChapterPaths` |
| `ServiceProofs` | theorems about `Catalog`, `JobFeed` and `Merger` |
| `MCServices` | instances, for TLC, of these nine modules, of which one works in each behaviour |

### Downloader

A step of a worker is the code between two awaits at which another coroutine can
change what it reads next. SQLite begins a transaction at its first write, so a
SELECT is a step of its own whose result may be stale, and the writes of one
transaction with its commit are one step.

| state | code |
|---|---|
| `queue` | `DownloadQueue._queue` (bounded by `download_queue_size`) |
| `work[w]` | the local variables of a worker: task, job id, the row `download_chapter` loaded (`seen`), the packed archive, whether it found the volume |
| `jobs`, `chapters`, `pages`, `volumes` | the tables, with the rowids SQLite gives out: largest plus one |
| `disk` | what each path holds |
| `requests[d]` | the chapter a DELETE request has loaded |
| `up` | between startup and shutdown |
| `overlapped` | history: keys of which two downloads overlapped, or whose row was given an id that a download of another chapter had read |
| `robbed` | history: ids of rows whose pages the write or delete of another row removed |

The two histories are what `DoneRowDescribesFile` and `PagesMatchRows` excuse, and no guard reads them. The
excuses are needed. Two downloads of one chapter may commit in another order than they replaced its
file. A write or a delete names the page rows it loaded earlier by their ids, and SQLite may have given
those ids to the pages of another chapter in between.

| action | code |
|---|---|
| `EnqueueMissing`, `Redownload` | `check_series` / `backfill_series`, `redownload_chapter`, through `DownloadQueue.enqueue` |
| `Take`, `CreateJob`, `CreateJobFails` | `_worker_loop`, `_create_job` (outside the `try`) |
| `SkipExisting`, `LoadExisting` | the idempotency SELECT of `download_chapter` |
| `NoPages`, `SourceFails`, `Pack` | `get_pages`, the image fetches, `CbzPackager.build` up to `os.replace` |
| `FindVolume`, `InsertChapter`, `RewriteChapter` | `_get_or_create_volume` and the persisting transaction |
| `PersistRejected`, `PersistFails` | a constraint or stale row; a locked database |
| `SetDone`, `SetDoneFails`, `SetError`, `SetErrorFails` | `_set_job` in and out of the `try` |
| `BeginDelete`, `CommitDelete`, `DeleteFails` | `delete_chapter` and its route |
| `Shutdown`, `Crash`, `Start`, `FileLost` | the lifespan and the environment |

Abstractions: the content of a chapter is a version of the source; the pages of a
chapter are one row, since they are inserted and deleted together (`OtherPages`
and `NextIds` keep what rowid reuse does to them); the SELECT of a chapter and
the one of its pages are one step; a multi-chapter enqueue is several steps, which
adds only prefixes the code can also stop at (`DownloadQueueFull`); a path is a
constant of its chapter, right unless the title or the library's strategy changes
between two downloads; the series of a task is always found, since series are only
soft deleted; job cleanup is left out, as it touches ended jobs alone.

### ChapterStore

Two functions of the key: `pending`, the accepted requests not yet settled, and
`stored`. `Downloader` implements it with `pending` the tasks queued or with a
worker that has not committed, skipped or given up, and `stored` the row's hash. `Remove` may
take any chapter: that a delete takes the one it was asked for is `DeletesAskedChapter`, which the
program does not keep (section 5). So what the refinement says of `stored` is that it changes to a value
only for an accepted request of that key, at most once for each, and to none only one chapter at a time.
The refinement too has an exception, the overwrite of a row that is no longer its chapter's;
section 4 says that there is no other, and what keeps it from happening.

### DomainHealth

| state | code |
|---|---|
| `table` | the source's rows: `healthy` and `fail_count` |
| `sweep[s]` | a run of `check_all_domains`: the domains left, the outcome of the ping, the row `_update` read |
| `admin[a]` | the rows `reset_provider_health` read |
| `alive` | which domains answer |
| `streak`, `raced` | history: failures committed in a row; domains whose row was read while somebody else was between reading and committing it |

`Begin`, `Ping`, `Read` and then `InsertRow`, `UpdateRow`, `RowTaken` or
`DatabaseError` are the sweep; `LoadRows`, `Reset`, `ResetFails` the admin's reset;
`Turn` a site going up or down. An UPDATE writes the columns that differ from what
was read, which is what SQLAlchemy emits (`Updated`). An error of a recording is taken
for a failure of the domain and recorded as one (`RecordingRaises`); an error of that
second recording leaves `check_all_domains`, whose docstring says "Never raises".

Abstractions: one source, since sources share no row; failures beyond `MaxFails` are
not told apart; `last_ok` and `last_fail` are left out, so `Picks` is the set of
domains `pick_domain` may return when the timestamp decides.

### Follow

| state | code |
|---|---|
| `listing` | what `scraper.get_chapters` returns for a series |
| `call[c]` | the locals of `check_due_series`, of a route's `check_series` or of `backfill_series`: the series left, `selected`, and the FollowLogs that wait in the session |
| `deleted`, `due` | `series.deleted`; the series whose check interval has passed since `last_checked_at` |
| `stored`, `queue` | the uploads with a chapter row; `DownloadQueue._queue` |
| `unlogged`, `faults` | history: tasks the checks under way enqueued, which their waiting logs have to count; a bound on failures |

| action | code |
|---|---|
| `Sweep`, `Check`, `Backfill` | `check_due_series` from the cron, the two routes |
| `Load`, `SeriesNotFound`, `LoadFails` | `_load_series`: found; deleted meanwhile; its SELECT, which is outside the `try` of `check_series`, fails (both are counted by the sweep, without a log) |
| `List`, `ListFails` | `get_chapters` and `_list_selected`; an error, which `_check_provider` logs |
| `EnqueueMissing` | the SELECT of stored chapters, the enqueues until `DownloadQueueFull`, the FollowLog and `last_checked_at` put in the session |
| `Commit`, `CommitFails` | the end of `session_scope`, one for a whole sweep |
| `Download`, `DownloadFails`, `Restart` | the engine of `Downloader`, seen as `ChapterStore` promises it |
| `Delete`, `Publish`, `ComeDue` | the user, the source and the clock |

A sweep holds the logs of all its series until its commit, while their tasks go
to the queue at once. `SelectsBest` compares the filter, stable sort and fold of the
code with `Wanted`, which is stated without any of them.

A sort is written in `Ordering` without recursion: the positions of a list with, for each, the set of
positions that come before it; the element at place n is the one with n - 1 before it. `Preferred`,
`Higher` and `Listing`'s `ByIndex` are such orders, and equal elements keep the order of their
positions. `list_selected` then picks the positions at which a number comes first.

Abstractions: the series of the model are followed ones; an upload stands for a
`(source_id, language)`; deletes of single chapters are `Downloader`'s matter; the choice
of a provider fails as a source does; the SELECT of stored chapters and the
enqueues are one step, since what can change between them is only that a chapter
is stored, and its second task is skipped by the engine. A sweep whose SELECT of the due series
fails ends before it did anything and is no step. The runs list uploads in the two languages a library
takes, so that the language filter drops nothing there; `BestIsSelected` proves `SelectsBest` for lists in
any language.

### JobFeed

| state | code |
|---|---|
| `feedTable`, `unpublished` | `provider_jobs`; jobs whose worker is between its commit and `publish_job` |
| `stream`, `backlog`, `wire` | the store's reader; the subscriber's queue of `_MAX_SUBSCRIBER_BACKLOG`; frames sent and not read |
| `items`, `loads` | the store's list; the requests of `load()` |
| `missed`, `overtaken` | history: what `ShownUnlessMissed` excuses |

`FeedCreate`, `FeedEnd` and `FeedPublish` are `_create_job`, `_set_job` and `_publish`; `Connect`,
`Subscribe`, `SendFrame`, `ReadFrame` and `Disconnect` the stream; `Ask`, `ListJobs`, `Show` and
`LoadFails` a load. A job is done or failed at most once here, which `Downloader`'s
`EndedJobsStay` shows of the engine. A restart of the server is a `Disconnect` to the browser.
The views never call `connect()` while an aborted reader unwinds, so that the `finally` of
`_readStream` meeting a new reader is left out.

### HttpClient and SourceAccess

| state | code |
|---|---|
| `call[c]` | the frame of `_request`: where it is, the attempt, what it heard and gave |
| `bucket`, `free` | the `AsyncLimiter`'s level, the `asyncio.Semaphore`'s value |
| `started` | the httpx client is open |
| `unspent` | history: tokens taken that no request was sent for yet |
| `source`, `access[c]` | the scraper; the method that made the call and what it gave |

An attempt is `TakeToken`, `TakeSlot` or `ClientClosed`, then `Final` or `Backoff` by the answer, and
`Retry`; `Cancel` may come at any await. `Parse`, `Fail`, `AskSolver`, `Solved`, `SolverFails` and
`Cancelled` are the methods' `try` and `except`. A cancelled call may have spent a token, so
`unspent` counts tokens and is never negative. `EmptyIsExcused` names what the scrapers hide:
MangaWorld a 403 or a 503, MangaDex an API that is unavailable.

Abstractions: one scraper and one domain, as limiters share nothing; the token and the slot of
other domains (cover and image hosts) behave alike; the cookies only change headers.

### Catalog

| state | code |
|---|---|
| `series`, `eids` | the rows of a library with title, deleted mark and genres; `series_external_ids` |
| `lock` | SQLite's write lock, from the first flush of a transaction to its end |
| `req[c]` | the locals of `add_series_from_provider`, `refresh_metadata` or an update: what was loaded (`seen`), what is to be written (`new`) |
| `excused`, `merged`, `mixed`, `made` | history: titles two adds or a rename may have doubled; what refreshes committed; a bound |

`AddSeries`, `FindTitle`, `InsertSeries`, `MapExternalId` and the refresh that follows are
`POST /api/series`; `Refresh`, `Fetched`, `NothingFetched`, `ApplyMerged` the refresh;
`Patch` a rename or a soft delete; `CommitRequest`, `Rejected`, `LockTimeout` and `Answer` the end
of the session. An UPDATE writes the columns that differ from what was loaded; the genres
loaded are deleted, and the merged ones inserted. `Rejected` lets a refresh that was overtaken
by another fail on its authors, which are not modelled. One library: titles are looked up in one.
`FindTitle` compares titles for equality; the code asks with an unescaped `ilike`, which folds ASCII letters
and takes `%` and `_` in a title for wildcards, so that two titles of the model are two that do not match each
other.

### Merger, Listing, ChapterPaths

Pure functions, over records that arrive one by one, documents that grow element by element and
rows filed one after another, so that every input within the bounds is met.
`Merger` takes AniList's and MangaDex's records with their confidences (0.9 and 0.85, in
hundredths), sorts them (`Ordered`) and makes one of the sorted list (`MergedInOrder`); of the fields it
keeps one for each way of choosing. `Listing` follows an image from the
page of the source to its row. A path in `ChapterPaths` is the tuple of its parts: titles pass
`safe_filename`, which leaves no separator. A number that is text does not (`_pad` returns it as it is) and is
assumed to contain none; a chapter's number is never empty (the scrapers give "0").

### CoverCache, Setup

The steps between two awaits are one action, and a crash may come between any two writes of it.
Hard links are assumed to be available. Two fetches of one cover overlap only when neither
refresh holds the write lock (neither changed anything); `HashNamesContent` excuses them. `Setup` assumes
that no managed setting is given in the environment; the wizard's awaits on the database come after
its files are written, and are one step.

## 3. Runs

`downloader_*` configurations set `CHECK_DEADLOCK FALSE`: with `MaxJobs` job rows
created, an empty queue and nothing to download, the system is at rest. `services` sets it
for the same reason: calls end, requests are used up and documents are full.

| run | instance | shows |
|---|---|---|
| `downloader_pool` | 2 workers, 1 DELETE, 2 chapters of one volume in 2 versions, 3 jobs, queue of 2 | `TypeOK`, `UniqueRows`, `PagesMatchRows`, `HeldJobs`, `DoneRowDescribesFile`, `EndedJobsStay`, `SameRow` through failing transactions and unlinks, empty sources, lost files and restarts |
| `downloader_live` | 2 fair workers, nothing deleted | `RowsHaveFiles`, `DoneMeansStored`, `WorkersReturn`, `QueueGetsRoom`, `ImplementsCatalogue` |
| `downloader_stale_overwrite` | no faults | `OwnPages` is violated: an overwrite commits its pages onto the row of another chapter, which was given the deleted row's id |
| `downloader_late_delete` | 1 worker, 2 DELETEs, no faults | `DeletesAskedChapter` is violated: the later of two deletes of one chapter removes another one |
| `downloader_shutdown` | restarts only | `ShutdownDrains` is violated: tasks are dropped, jobs stay "running" |
| `health_race` | 2 sweeps, 1 reset, 1 domain, 2 database errors | `TypeOK`, `FlipsUnlessRaced` |
| `health_fallback` | 1 sweep, 1 reset, primary and alternate, 1 database error | `PrimaryReturns` |
| `health_overlap` | 2 sweeps, 1 domain, no error | `FlipsAfterThree` is violated: one of two overlapping increments is lost |
| `follow_requests` | the cron and one request (check or backfill, 0 or 1 chapters, two priorities), 1 fault | `TypeOK`, `LogsCountTasks`, `SelectsBest`, `BackfillsLatest` |
| `follow_catch_up` | the fair cron, a series that may be deleted under the sweep, 2 faults (a failed load, list or commit) | `SweepsCheckAll`, `FollowCatchesUp` |
| `services` | one of the eight parts below at work in each behaviour | see below |
| `follow_second_cbz` | the cron alone, no fault | `OneCBZPerNumber` is violated: an English chapter is stored before the Italian upload appears, and then both are |

`services` is one run for components that share no state: `part` names the one that takes steps, the
others stay as they started.

| part | instance | shows |
|---|---|---|
| feed | 2 jobs, 2 loads, a backlog, a wire and a list of 1 | `FeedTypeOK`, `ShownUnlessMissed`, `RefreshHeals` |
| access | 2 calls, 1 slot, 1 token, 1 retry, either scraper, 8 answers | `AccessTypeOK`, `SlotsBalance`, `RetriesPay`, `EmptyIsExcused`, `CallsEnd` |
| catalog | 2 clients, 3 requests, 3 external ids of 2 providers, 2 titles, 1 genre | `CatalogTypeOK`, `OneSeriesPerTitle`, `GenresOfOneMerge`, `LockReleased` |
| merge | both providers' records over 4 payloads | `MergeIgnoresOrder` |
| listing | 3 images with ids 0, 1, 2 or none; 3 uploads, a limit of 2 | `PagesKeepApart`, `ListingIsStable` |
| paths | 6 chapters of 3 titles, all four strategies | `RowsHaveOwnFiles` |
| covers | 2 fetches, 2 covers, 2 images, crashes | `HashNamesContent` |
| setup | 2 accounts, 2 settings, 2 libraries, crashes | `SavedSettingsReturn`, `StartsAsSaved` |

Bounds. Two workers and one delete are what every race of `Downloader` needs: two that
read, one that commits between. Three jobs let a chapter be downloaded, deleted, and
overwritten or downloaded again. A queue of two is filled while both workers are busy.
Two chapters of one volume give the collisions on the volume, the rowids and the
page ids; `downloader_pool` treats its workers as symmetric (its properties are
safety properties). Its two versions let the content of a chapter change between two
downloads; a source that fails ends a task as an empty one does for these properties, and is in
`downloader_live`. In `DomainHealth`, `MaxFails` of 3 or 4 lets a domain pass the threshold,
and two errors end a sweep from a domain that is up. In `Follow`, a chapter with an Italian
and an English upload beside one with English alone is what the order and the one entry
per number depend on, in every order of the list; a queue of one accepts a part of the two
missing chapters; a second series makes a sweep commit more than it checked last.
In `services`: a backlog of one is full after one event, and a list of one is cut by the second job; one
slot and one token make two calls wait for each other, and one retry gives them back and takes
them again. Three requests of two clients are two that overlap and one that finds what they
left; with one id of each title more, both the id and the title are contended. Ids from 0 to 2
over three images give gaps, a start at 1 and every order; a third upload passes the limit. The chapters
differ in one of language, decimals, zeros, title and series at a time. Two settings let a file be cut
between them.

Fairness. `Downloader`: every worker (`WF(WorkerStep(w))`), since the event loop runs
each ready coroutine, every HTTP call has a timeout and every statement a busy
timeout. Nothing is assumed of producers, deletes, restarts or the outcome of a step:
`WorkersReturn` and `QueueGetsRoom` hold though every attempt may fail.
`DomainHealth`: a sweep under way goes on (pings time out after 8 s), the cron starts
another, a request under way is answered. Database errors are finite in number.
`Follow`: the interval trigger fires again, a call under way goes on, a worker takes the
next task (`WorkersReturn`) and an interval passes. That a call goes on is `GoesOn`: infinitely often it is
at rest or takes a step, which is what weak fairness of `CallStep` comes to, written without ENABLED,
whose evaluation by TLC sorts the lists at every state. Failures are finite in number, since a
source that always fails never delivers; nothing is assumed of the source's list but that
the upload expected stays the best of its number.
`JobFeed`: a worker publishes after its commit, frames are delivered while the connection lasts, an
answer reaches the browser; `RefreshHeals` supposes further loads and does not assume them.
`HttpClient`: the bucket leaks with time, and every call goes on, since requests have timeouts and sleeps
end; the semaphore serves waiters in order, of which no more is needed than that a slot keeps coming
free. `Catalog`: a request under way goes on, for the same timeouts and the busy timeout of a
statement.

## 4. What is proved

For every value of the constants that the assumptions below allow: any number of workers,
requests, deletes, keys, versions, jobs, sweeps, calls, series, uploads, pages and errors.

| theorem | property | argument |
|---|---|---|
| `TypeCorrect` | `TypeOK` (engine) | inductive |
| `OneRowPerKey` | `UniqueRows` | the unique key rejects an insert (`KeyTaken`), an overwrite changes no key, and a rowid given out is larger than every live one (`NextIdsFresh`) |
| `RowsKeepTheirIds` | `SameRow` | from `UniqueRows`, since an insert takes a key and an id no row has and an overwrite keeps both |
| `JobsAreHeldOnce`, `EndedJobsKeepStatus` | `HeldJobs`, `EndedJobsStay` | a worker past `_create_job` holds a running job of its own, and only the holder of a running job ends it |
| `PagesFollowRows` | `PagesMatchRows` | inductive, given `UniqueRows` |
| `DoneRowsDescribeFiles` | `DoneRowDescribesFile` | `HashInv` |
| `FileBeforeRow`, `DoneJobsAreStored` | `RowsHaveFiles`, `DoneMeansStored` | `FilesInv`: a worker between `os.replace` and its commit has its file, one about to set its job done its row |
| `EngineImplementsCatalogue`, `EngineImplementsAlone`, `EngineImplementsApart` | `ImplementsCatalogue` | step by step, with `OwnRows` and `OwnArchives` |
| `OnlyStrayRewritesDiffer` | every step but an overwrite of another's row is one of `ChapterStore` | the same steps, with no hypothesis |
| `DeletesApartKeepIds`, `NoStaleRowsKeepIds` | what keeps an id that was read from being given again | `SeenRowsStay`: the row a download read is still there; one worker inserts for itself alone |
| `PagesAreOwn` | `OwnPages` (violated without the hypothesis) | `OwnRows` |
| `DeletesRemoveAsked`, `OneDeleteRemovesAsked` | `DeletesAskedChapter` (the same) | `AskedRows`: what a DELETE loaded is still there |
| `HealthTypeCorrect`, `UnracedDomainsFlip` | `TypeOK`, `FlipsUnlessRaced` (health) | `HealthInv` |
| `ApartDomainsFlip`, `OneSweepFlips` | `FlipsAfterThree` (violated without the hypothesis) | `raced` stays empty |
| `FollowTypeCorrect`, `LogsAreTrue`, `NoSeriesIsSkipped` | `TypeOK`, `LogsCountTasks`, `SweepsCheckAll` (follow) | `FollowInv`; for the last, `ErrorsPaid` too |
| `BestIsSelected`, `BackfillIsLatest` | `SelectsBest`, `BackfillsLatest` | what a sort by counting gives, and the type invariant |
| `OnlyAllowedIsStored` | what is stored passed the language filter | `FromLists` |
| `NumbersOnceStoredOnce` | `OneCBZPerNumber` (violated without the hypothesis) | `FromLists`, `OfferedOnce` |
| `HttpTypeCorrect`, `SlotsAreGivenBack`, `EveryRequestPays` | `HttpTypeOK`, `SlotsBalance`, `RetriesPay` | `HttpInv` |
| `AccessTypeCorrect`, `EmptyListsAreExcused` | `AccessTypeOK`, `EmptyIsExcused` | `AccessInv` |
| `ScrapersKeepTheClient` | `AccessSpec => HttpSpec` | every step is one of the client's or leaves it alone |
| `EveryImageGetsItsPage` | `PagesKeepApart` | what a sort by counting gives, for images numbered apart or not at all |
| `ListedChaptersStay` | `ListingIsStable` | a new upload comes last of the linked ones, oldest first, and a page from the start keeps its prefix |
| `CoversNameTheirContent` | `HashNamesContent` | `CoverInv` |
| `SavedSettingsAreRead`, `SavedSettingsRun` | `SavedSettingsReturn`, `StartsAsSaved` | `SetupInv` |
| `FilesAreShared` | `RowsHaveOwnFiles` | `PathsInv`, and what a path tells of its chapter |
| `CatalogTypeCorrect`, `TitlesAreOnce`, `GenresAreOfOneRefresh` | `CatalogTypeOK`, `OneSeriesPerTitle`, `GenresOfOneMerge` | `CatalogInv` |
| `FeedTypeCorrect`, `OnlyMissedIsStale` | `FeedTypeOK`, `ShownUnlessMissed` | `FeedInv` |
| `MergeIsOrderFree` | `MergeIgnoresOrder` | no two records have one sort key, and two strictly sorted lists of the same elements are one list |

The inductive invariants, and why the property alone is not one:

- `HashInv`. A row is committed with the hash of an archive packed earlier, so the invariant
  follows the archive: between `os.replace` and its commit, a worker's archive is the file at the path, if
  there is one, or the key is in `overlapped`, and the row it read is still the chapter's
  (`DownloadOK`); two downloads of one key under way make it overlapped (`DownloadsApart`). A job
  excuses a row only as long as whoever holds it cannot end it "done" without writing the row
  (`RowsExcused`).
- `OwnRows`, `OwnArchives`. The overwrite of a worker finds a row by its id. The step is a `Store` of
  the key that was asked for only if the row of that id, if there is one, is still of the key the worker
  asked for: `OwnRows`, which every step keeps but the insert of a row under an id that was read
  (`IdsNotReused`). `Pending` counts tasks in the queue and workers; one lemma for each way a worker or the queue may change says by how much it
  moves.
- `HealthInv`. A commit writes what was computed from a row read earlier: rows are
  never deleted (`RowsStay`), what was read of a domain that was not raced is
  still in the table (`SeenIsCurrent`), at most one sweep or reset is about to write such
  a domain (`OneHolder`), and its row counts its streak (`RowsCount`).
- `FollowInv`. A log is written for the series in hand and a sweep visits each once: `CallOK` says
  that the series left, in hand, logged and failed are those it began with and do not meet.
  `ErrorsPaid` adds that the failed ones that were not deleted are no more than the faults there were: a sweep
  leaves out a series that is still there only at the cost of a failure.
  `LogsCountTasks` is about the cardinality of the set of logged tasks, which grows by those
  a call accepts and empties by those of the call that commits.
- `FromLists`. What a call found, what is queued and what is stored is listed by the source of its series
  and allowed (`Offered`), and a list only grows; `OfferedOnce` that of those no two have one number.
- `HttpInv`. That `unspent` never falls below 0 needs `TokensCover`, that it
  counts the token of every call waiting for a slot, and `BackoffMayRetry`, that a call backs off only
  with an attempt left. `AccessInv` adds that a result tells what was heard (`ResultsTell`) and
  that the solver is asked about blocks alone.
- `CoverInv` adds that a fetch under way began when its cover was not there, `SetupInv` the shape of
  the file and that nothing but what was saved can be read from it, `PathsInv` that each file was named by one of the strategies.
- `CatalogInv`. What a request holds at each of its awaits (`RequestOK`), that a second series of
  a title in the making is excused before it is committed (`CreatingOK`), and that genres are
  replaced by the merge of the refresh that loaded them or the series is `mixed`.
- `FeedInv`. A status shown comes from the answer of a load or from a frame. Each event in the
  backlog and on the wire says what the row says, or is excused, or has another event of the job behind it
  in the connection; each row of an answer not shown yet is right or was overtaken (`BacklogOK`, `WireOK`,
  `AnswersOK`).

The lemmas of `OrderingProofs` say what a sort by counting gives: `SortedInOrder`, that the list
`InOrder(before)` has every position once and in order, which rests on the count of what comes before
being different for each; `PickedKeepsOrder` for comprehensions, `UptoIsPrefix` for slices; `StrictListsAgree`,
that two lists of the same elements, both in a strict order, are one list.

Assumptions. Those every instance meets are the named `ASSUME`s, which TLC evaluates:

- `KeysAssumption`, `BoundsAssumption`, `WorkersAssumption`, `NoneAssumption`: types, a non-empty queue,
  a finite pool.
- `UploadsAssumption`, `FollowAssumption`: every upload has a series, a number and a language
  of `Alphabet`, and a priority names such languages, since languages are compared with it alone.
- `FeedAssumption`: `load()` asks for no more jobs (100) than the store keeps (200).
- `CatalogAssumption`, `ListingAssumption`, `SetupAssumption`: types and marks that are no values.
- `CoverAssumption`: the marks for a missing and a short file are no images.
  `FileAssumption`: the mark for a missing file is not what a file may say.
- those of `DomainHealth` and `HttpClient`: finitely many calls, at least one slot and one
  token, a threshold below the failure bound.

Some theorems take a hypothesis of their own. On the constants:

- `NothingRemoved` (`FileBeforeRow`, `DoneJobsAreStored`): no deletes, no files lost from outside,
  no empty sources. `delete_chapter` unlinks before it commits, and an empty chapter ends done
  without a row, so both are false without it.
- `OwnPaths` (`DoneRowsDescribeFiles`): no two chapters share a path. `FilesAreShared` says
  when they do.
- `NoStaleRows` (`EngineImplementsAlone`): nothing is deleted, or there is one worker.
  `download_worker_count` is 3 unless configured, so that the first is the case
  that matters, until a chapter is deleted.
- one DELETE at a time (`OneDeleteRemovesAsked`), one sweep and no reset (`OneSweepFlips`).

On the behaviours, each the interleaving that one of the runs of section 5 ends in and that no lock of the code
excludes. Each theorem says that the disagreement has that cause and no other:

| hypothesis | says | without it |
|---|---|---|
| `IdsNotReused` | no row is inserted under an id that a download under way has read | `downloader_stale_overwrite` |
| `DeletesApart` | no DELETE commits while its chapter is downloaded again; implies `IdsNotReused` | the same |
| `DeletesDiffer` | no two DELETEs are under way for one chapter when either commits | `downloader_late_delete` |
| `RecordingsApart` | no row of `domain_health` is read, to be written, while another has read it and not committed | `health_overlap` |
| `NumbersComeOnce` | a source adds no second upload of a number in a language the library takes | `follow_second_cbz` |

They are satisfied by many behaviours of the same instances: those in which the requests, the sweeps or the
uploads do not meet. `OnlyStrayRewritesDiffer` and `UnracedDomainsFlip` say what holds without any.

Model-checked only: liveness. `WorkersReturn`, `QueueGetsRoom`, `PrimaryReturns`, `FollowCatchesUp`,
`RefreshHeals`, `CallsEnd` and `LockReleased` follow from fairness, which speaks of ENABLED, beyond the
provers. Every invariant and every action property that a passing run checks is the subject of a
theorem. What the recursive folds of `Merger` compute is never expanded in a proof:
`MergeIsOrderFree` rests on the sorted list they are given being the same.

## 5. Disagreements found

1. `downloader_stale_overwrite`: "a chapter downloaded twice is the same row"
   (`app/models/orm.py`). The row an overwrite keeps across its fetch may be deleted, and
   its id reused by another chapter, whose pages are then replaced by those of the first. The UPDATE of
   the row names only columns whose value differs from the one loaded: the path, which the same chapter
   was given again, stays the other chapter's.
2. `downloader_late_delete`: "Hard delete the chapter row + its pages"
   (`app/services/chapter.py`). Of two requests that loaded one chapter, the second deletes by an id
   that may have been given to another chapter since the first committed.
3. `downloader_shutdown`: "drain queue, flush jobs" (`app/main.py`). The queue is dropped
   and cancelled jobs stay "running" for ever.
4. `health_overlap`: "After 3 consecutive failures a domain flips" (`docs/architecture.md`).
   The failure count is read and written in two steps; overlapping sweeps lose one.
5. `follow_second_cbz`: "for a chapter available in both `it` and `en`, `it` wins (one CBZ
   per number)" (`docs/architecture.md`). The choice is made per check, over the list alone: a
   number whose English upload is stored gets a second CBZ when the Italian one appears.

Smaller ones, read while modelling and not the matter of a run:

- `docs/sources.md`, `core/exceptions.py` and `_get_html` say that after a block "the orchestrator
  tries the next source"; MangaWorld's list methods return an empty list, so a block looks like a
  series without chapters (`EmptyIsExcused` excuses it).
- `write_runtime_settings` says it writes atomically, and calls `write_text` on the file itself.
- `apply_runtime_settings` says environment variables still win, and sets the file's values over them.
- `refresh_metadata` says the highest-confidence provider is the cover's cache key; it takes
  the first record in the order asked, before the merge sorts.
- `init_runtime_settings` leaves an existing file alone, so the wizard's choices may be dropped while its
  answer reports success.
- `get_chapters` is called with its limit of 500, oldest first: the newest chapters of a longer series
  are never listed, and so never followed (`ListingIsStable` says where the cut falls).

## 6. Not modelled, and why

XML and ZIP layout, the selectors of remote pages, OPDS, schemas, migrations, backup and CLI: pure
functions or pure I/O no property here tells apart. Timestamps and rates are abstracted to
nondeterminism. The search service and the providers' searches only read. The lockout after failed
sign-ins counts in memory against the clock. The frontend's stores other than `jobs.ts` are
presentation over single requests; the late answer in `search.ts` is listed as a hazard. An orderly
shutdown closes the HTTP client before the workers: that a fetch then fails is `ClientClosed` here and
`SourceFails` in `Downloader`, which takes the shutdown as one step.

## 7. Plan

1. Models and runs of every component above: done.
2. Proofs of the invariants and action properties of the engine, domain health, follow, HTTP client, scrapers,
   pages, lists, merge, paths, covers, setup, catalog and feed: done.
3. The refinement of `ChapterStore` for any pool, and what each disagreement of section 5 needs to arise
   (the lost drain of a shutdown needs only the shutdown): done.
4. Open: liveness, should the provers come to reason about ENABLED; the cookies of the scrapers and the
   lockout after failed sign-ins, should a property come to depend on them.
