----------------------------- MODULE Downloader -----------------------------
(***************************************************************************)
(* The download engine of MangaSama: the bounded in-process task queue,    *)
(* its pool of worker coroutines, the rows of provider_jobs, chapters,     *)
(* pages and volumes they commit to SQLite, and the CBZ files they pack.   *)
(*                                                                         *)
(* A step of a worker is the code between two awaits at which another      *)
(* coroutine can change what it reads next.  A database transaction begins *)
(* at its first write and other connections see it only once committed, so *)
(* one transaction is one step; the SELECTs that precede it are steps of   *)
(* their own and may be stale by then.                                     *)
(***************************************************************************)
EXTENDS Naturals, Sequences, FiniteSets

CONSTANTS
    Keys,        \* idempotency keys: (source_provider, source_id, language)
    Workers,     \* worker coroutines (download_worker_count)
    Deleters,    \* concurrent DELETE /api/chapters/{id} requests
    Versions,    \* page contents a source may serve for one chapter
    Volumes,     \* volume keys: (series, number, language)
    Paths,       \* destination paths
    VolumeOf,    \* the volume a chapter belongs to
    PathOf,      \* the path folder_strategy resolves for a chapter
    QueueSize,   \* download_queue_size
    MaxJobs,     \* bound: job rows a behaviour may create
    Faults,      \* which failures the environment may produce
    None

FaultKinds == {"database", "source", "empty", "unlink", "file_lost", "stop"}

ASSUME KeysAssumption ==
    /\ VolumeOf \in [Keys -> Volumes]
    /\ PathOf \in [Keys -> Paths]
ASSUME BoundsAssumption ==
    /\ QueueSize \in Nat \ {0}
    /\ MaxJobs \in Nat
    /\ Faults \subseteq FaultKinds
ASSUME WorkersAssumption == IsFiniteSet(Workers) /\ Workers # {}

Tasks    == [key : Keys, overwrite : BOOLEAN]
Archives == [key : Keys, version : Versions]  \* a CBZ: whose pages, which content
Jobs     == [key : Keys, status : {"running", "done", "error"}]
Rows     == [id : Nat, key : Keys, sha : Archives]
PageRows == [id : Nat, chapter : Nat, of : Archives]  \* the pages of one chapter
Snapshots == [row : Rows, pages : SUBSET Nat]         \* an ORM object and its pages

ASSUME NoneAssumption ==
    None \notin Tasks \cup Archives \cup Snapshots

VARIABLES
    up,        \* the application is between startup and shutdown
    queue,     \* DownloadQueue._queue
    work,      \* the stack of each worker coroutine
    jobs,      \* table provider_jobs, by id
    chapters,  \* table chapters
    pages,     \* table pages, one row for all the pages of a chapter
    volumes,   \* table volumes
    disk,      \* what each path holds
    requests,  \* the chapter each DELETE request has loaded
    overlapped, \* history: keys whose downloads overlapped, or whose row has an id a
                \* download of another chapter had read
    robbed     \* history: ids of rows whose pages the write of another row removed

vars == <<up, queue, work, jobs, chapters, pages, volumes, disk, requests, overlapped, robbed>>
tables == <<jobs, chapters, pages, volumes>>
history == <<overlapped, robbed>>

PCs == {"idle", "create", "load", "fetch", "volume", "persist",
        "set_done", "set_error"}

Idle == [pc |-> "idle", task |-> None, job |-> 0, seen |-> None,
         archive |-> None, hasVolume |-> FALSE]

Init ==
    /\ up = TRUE
    /\ queue = <<>>
    /\ work = [w \in Workers |-> Idle]
    /\ jobs = <<>>
    /\ chapters = {}
    /\ pages = {}
    /\ volumes = {}
    /\ disk = [p \in Paths |-> None]
    /\ requests = [d \in Deleters |-> None]
    /\ overlapped = {}
    /\ robbed = {}

-----------------------------------------------------------------------------
(* SQLite gives a new row of an INTEGER PRIMARY KEY table the largest rowid *)
(* in the table plus one: the id of a deleted last row is given out again.  *)
NextIds(table) ==
    {n \in {1} \cup {r.id + 1 : r \in table} : \A r \in table : r.id < n}

StoredKeys == {r.key : r \in chapters}

PagesOf(row) == {p.id : p \in {q \in pages : q.chapter = row.id}}

Snapshot(row) == [row |-> row, pages |-> PagesOf(row)]

\* The row scalar_one_or_none() returns for a key, with its pages.
RowOf(key) == CHOOSE row \in chapters : row.key = key
Existing(key) == IF key \in StoredKeys THEN Snapshot(RowOf(key)) ELSE None

FileOf(key) == disk[PathOf[key]]

\* A worker has read the row of its chapter and not yet written it.
Downloads(w) == work[w].pc \in {"fetch", "volume", "persist"}

\* The rows whose pages have the ids.
Owners(ids) == {p.chapter : p \in {q \in pages : q.id \in ids}}

\* A download under way has read a row of this id.
Remembered(id) ==
    \E w \in Workers : Downloads(w) /\ work[w].seen # None /\ work[w].seen.row.id = id

\* Job rows that accepted tasks have been, or will be, given.
JobsPromised ==
    Len(jobs) + Len(queue) + Cardinality({w \in Workers : work[w].pc = "create"})

-----------------------------------------------------------------------------
(* Producers.                                                              *)

\* Mutant: an unbounded asyncio.Queue.
EnqueueUnbounded(task) ==
    /\ up
    /\ JobsPromised < MaxJobs
    /\ queue' = Append(queue, task)
    /\ UNCHANGED <<up, work, tables, disk, requests, history>>

\* DownloadQueue.enqueue: a full queue is DownloadQueueFull, changing nothing.
Enqueue(task) ==
    /\ up
    /\ Len(queue) < QueueSize
    /\ JobsPromised < MaxJobs
    /\ queue' = Append(queue, task)
    /\ UNCHANGED <<up, work, tables, disk, requests, history>>

\* check_series and backfill_series: a listed chapter with no row.  What is
\* already queued or being downloaded is not looked at.
EnqueueMissing(key) ==
    /\ key \notin StoredKeys
    /\ Enqueue([key |-> key, overwrite |-> FALSE])

Redownload(row) == Enqueue([key |-> row.key, overwrite |-> TRUE])

-----------------------------------------------------------------------------
(* A worker: _worker_loop, _run_task and download_chapter.                 *)

Goto(w, pc) == work' = [work EXCEPT ![w].pc = pc]

Take(w) ==
    /\ work[w].pc = "idle"
    /\ up
    /\ queue # <<>>
    /\ work' = [work EXCEPT ![w].pc = "create", ![w].task = Head(queue)]
    /\ queue' = Tail(queue)
    /\ UNCHANGED <<up, tables, disk, requests, history>>

\* Mutant: the job id is read before the row is inserted.
CreateJobReadsOldId(w) ==
    /\ work[w].pc = "create"
    /\ jobs' = Append(jobs, [key |-> work[w].task.key, status |-> "running"])
    /\ work' = [work EXCEPT ![w].pc = "load", ![w].job = Len(jobs)]
    /\ UNCHANGED <<up, queue, chapters, pages, volumes, disk, requests, history>>

CreateJob(w) ==
    /\ work[w].pc = "create"
    /\ jobs' = Append(jobs, [key |-> work[w].task.key, status |-> "running"])
    /\ work' = [work EXCEPT ![w].pc = "load", ![w].job = Len(jobs) + 1]
    /\ UNCHANGED <<up, queue, chapters, pages, volumes, disk, requests, history>>

\* Mutant: _worker_loop catches nothing.
CreateJobFailsKills(w) ==
    /\ work[w].pc = "create"
    /\ "database" \in Faults
    /\ Goto(w, "dead")
    /\ UNCHANGED <<up, queue, tables, disk, requests, history>>

\* The insert of the job row raises outside the try: the task is gone, the
\* worker goes on with the next.
CreateJobFails(w) ==
    /\ work[w].pc = "create"
    /\ "database" \in Faults
    /\ work' = [work EXCEPT ![w] = Idle]
    /\ UNCHANGED <<up, queue, tables, disk, requests, history>>

\* The row is there with its file, and no overwrite is asked for.
UpToDate(task) ==
    /\ ~task.overwrite
    /\ task.key \in StoredKeys
    /\ FileOf(task.key) # None

\* Mutant: the skip marks the job itself, and _run_task marks it again.
SkipExistingSetsDone(w) ==
    /\ work[w].pc = "load"
    /\ UpToDate(work[w].task)
    /\ jobs' = [jobs EXCEPT ![work[w].job].status = "done"]
    /\ Goto(w, "set_done")
    /\ UNCHANGED <<up, queue, chapters, pages, volumes, disk, requests, history>>

SkipExisting(w) ==
    /\ work[w].pc = "load"
    /\ UpToDate(work[w].task)
    /\ Goto(w, "set_done")
    /\ UNCHANGED <<up, queue, tables, disk, requests, history>>

LoadExisting(w) ==
    LET key == work[w].task.key
    IN  /\ work[w].pc = "load"
        /\ ~UpToDate(work[w].task)
        /\ work' = [work EXCEPT ![w].pc = "fetch", ![w].seen = Existing(key)]
        /\ overlapped' = IF \E v \in Workers : Downloads(v) /\ work[v].task.key = key
                         THEN overlapped \cup {key} ELSE overlapped
        /\ UNCHANGED <<up, queue, tables, disk, requests, robbed>>

\* get_pages found nothing: no chapter, and the job is still "done".
NoPages(w) ==
    /\ work[w].pc = "fetch"
    /\ "empty" \in Faults
    /\ Goto(w, "set_done")
    /\ UNCHANGED <<up, queue, tables, disk, requests, history>>

\* An unknown scraper, a failing source, an unreadable page, a full disk.
SourceFails(w) ==
    /\ work[w].pc \in {"load", "fetch"}
    /\ "source" \in Faults
    /\ Goto(w, "set_error")
    /\ UNCHANGED <<up, queue, tables, disk, requests, history>>

\* Mutant: the .tmp file is written and never moved to its place.
PackLeavesTmp(w) ==
    /\ work[w].pc = "fetch"
    /\ \E version \in Versions :
          LET cbz == [key |-> work[w].task.key, version |-> version]
          IN  work' = [work EXCEPT ![w].pc = "volume", ![w].archive = cbz]
    /\ UNCHANGED <<up, queue, tables, disk, requests, history>>

\* The last page arrives; what follows, up to os.replace, does not await.
Pack(w) ==
    /\ work[w].pc = "fetch"
    /\ \E version \in Versions :
          LET key == work[w].task.key
              cbz == [key |-> key, version |-> version]
          IN  /\ disk' = [disk EXCEPT ![PathOf[key]] = cbz]
              /\ work' = [work EXCEPT ![w].pc = "volume", ![w].archive = cbz]
    /\ UNCHANGED <<up, queue, tables, requests, history>>

FindVolume(w) ==
    /\ work[w].pc = "volume"
    /\ work' = [work EXCEPT ![w].pc = "persist",
                            ![w].hasVolume = VolumeOf[work[w].task.key] \in volumes]
    /\ UNCHANGED <<up, queue, tables, disk, requests, history>>

\* uq_volume_number_lang: another worker inserted the volume meanwhile.
VolumeTaken(w) == ~work[w].hasVolume /\ VolumeOf[work[w].task.key] \in volumes

\* Mutant: no unique constraint, only the SELECT that precedes the download.
KeyUnconstrained(w) == FALSE

\* uq_chapter_source_lang.
KeyTaken(w) == work[w].task.key \in StoredKeys

\* Mutant: the commit is reported as failed and the task is tried again.
InsertChapterRetried(w) ==
    /\ work[w].pc = "persist"
    /\ work[w].seen = None
    /\ ~VolumeTaken(w)
    /\ ~KeyTaken(w)
    /\ \E id \in NextIds(chapters), page \in NextIds(pages) :
          /\ chapters' = chapters \cup
                {[id |-> id, key |-> work[w].task.key, sha |-> work[w].archive]}
          /\ pages' = pages \cup
                {[id |-> page, chapter |-> id, of |-> work[w].archive]}
          /\ overlapped' = IF Remembered(id) THEN overlapped \cup {work[w].task.key}
                           ELSE overlapped
          /\ robbed' = robbed \ {id}
    /\ volumes' = volumes \cup {VolumeOf[work[w].task.key]}
    /\ Goto(w, "load")
    /\ UNCHANGED <<up, queue, jobs, disk, requests>>

InsertChapter(w) ==
    /\ work[w].pc = "persist"
    /\ work[w].seen = None
    /\ ~VolumeTaken(w)
    /\ ~KeyTaken(w)
    /\ \E id \in NextIds(chapters), page \in NextIds(pages) :
          /\ chapters' = chapters \cup
                {[id |-> id, key |-> work[w].task.key, sha |-> work[w].archive]}
          /\ pages' = pages \cup
                {[id |-> page, chapter |-> id, of |-> work[w].archive]}
          /\ overlapped' = IF Remembered(id) THEN overlapped \cup {work[w].task.key}
                           ELSE overlapped
          /\ robbed' = robbed \ {id}
    /\ volumes' = volumes \cup {VolumeOf[work[w].task.key]}
    /\ Goto(w, "set_done")
    /\ UNCHANGED <<up, queue, jobs, disk, requests>>

\* The page rows left once those of the loaded chapter are deleted, by id.
OtherPages(w) == {p \in pages : p.id \notin work[w].seen.pages}

\* The UPDATE finds its row (else StaleDataError) and the new pages do not
\* collide on (chapter_id, index).
CanRewrite(w) ==
    /\ \E r \in chapters : r.id = work[w].seen.row.id
    /\ \A p \in OtherPages(w) : p.chapter # work[w].seen.row.id

\* Mutant: the stale session also writes the key columns.
RewrittenWithKey(w, row) ==
    IF row.id = work[w].seen.row.id
    THEN [row EXCEPT !.key = work[w].task.key, !.sha = work[w].archive]
    ELSE row

\* Mutant: the overwrite forgets cbz_sha256.
RewrittenKeepsHash(w, row) == row

\* UPDATE ... WHERE id: the session writes the columns that differ from the
\* row it loaded, and the key is not among those it assigns.
Rewritten(w, row) ==
    IF row.id = work[w].seen.row.id /\ work[w].archive # work[w].seen.row.sha
    THEN [row EXCEPT !.sha = work[w].archive]
    ELSE row

RewriteChapter(w) ==
    /\ work[w].pc = "persist"
    /\ work[w].seen # None
    /\ ~VolumeTaken(w)
    /\ CanRewrite(w)
    /\ chapters' = {Rewritten(w, r) : r \in chapters}
    /\ \E page \in NextIds(OtherPages(w)) :
          pages' = OtherPages(w) \cup
             {[id |-> page, chapter |-> work[w].seen.row.id, of |-> work[w].archive]}
    /\ volumes' = volumes \cup {VolumeOf[work[w].task.key]}
    /\ robbed' = (robbed \cup Owners(work[w].seen.pages)) \ {work[w].seen.row.id}
    /\ Goto(w, "set_done")
    /\ UNCHANGED <<up, queue, jobs, disk, requests, overlapped>>

\* A constraint or the stale row rejects the transaction; it is rolled back.
PersistRejected(w) ==
    /\ work[w].pc = "persist"
    /\ \/ VolumeTaken(w)
       \/ work[w].seen = None /\ KeyTaken(w)
       \/ work[w].seen # None /\ ~CanRewrite(w)
    /\ Goto(w, "set_error")
    /\ UNCHANGED <<up, queue, tables, disk, requests, history>>

\* "database is locked" after the busy timeout, or an I/O error.
PersistFails(w) ==
    /\ work[w].pc \in {"load", "volume", "persist"}
    /\ "database" \in Faults
    /\ Goto(w, "set_error")
    /\ UNCHANGED <<up, queue, tables, disk, requests, history>>

SetDone(w) ==
    /\ work[w].pc = "set_done"
    /\ jobs' = [jobs EXCEPT ![work[w].job].status = "done"]
    /\ work' = [work EXCEPT ![w] = Idle]
    /\ UNCHANGED <<up, queue, chapters, pages, volumes, disk, requests, history>>

\* _set_job(done) is inside the try: its failure is handled as the task's.
SetDoneFails(w) ==
    /\ work[w].pc = "set_done"
    /\ "database" \in Faults
    /\ Goto(w, "set_error")
    /\ UNCHANGED <<up, queue, tables, disk, requests, history>>

\* Mutant: the job is set "done" in a finally clause.
SetErrorAsDone(w) ==
    /\ work[w].pc = "set_error"
    /\ jobs' = [jobs EXCEPT ![work[w].job].status = "done"]
    /\ work' = [work EXCEPT ![w] = Idle]
    /\ UNCHANGED <<up, queue, chapters, pages, volumes, disk, requests, history>>

SetError(w) ==
    /\ work[w].pc = "set_error"
    /\ jobs' = [jobs EXCEPT ![work[w].job].status = "error"]
    /\ work' = [work EXCEPT ![w] = Idle]
    /\ UNCHANGED <<up, queue, chapters, pages, volumes, disk, requests, history>>

\* Mutant: an error while an error is recorded ends the worker.
SetErrorFailsKills(w) ==
    /\ work[w].pc = "set_error"
    /\ "database" \in Faults
    /\ Goto(w, "dead")
    /\ UNCHANGED <<up, queue, tables, disk, requests, history>>

\* _set_job(error) raises out of _run_task: the job stays "running".
SetErrorFails(w) ==
    /\ work[w].pc = "set_error"
    /\ "database" \in Faults
    /\ work' = [work EXCEPT ![w] = Idle]
    /\ UNCHANGED <<up, queue, tables, disk, requests, history>>

-----------------------------------------------------------------------------
(* DELETE /api/chapters/{id}: the file goes first, then the rows.          *)

BeginDelete(d, row) ==
    /\ up
    /\ requests[d] = None
    /\ requests' = [requests EXCEPT ![d] = Snapshot(row)]
    /\ \/ disk' = [disk EXCEPT ![PathOf[row.key]] = None]
       \/ "unlink" \in Faults /\ UNCHANGED disk    \* OSError is ignored
    /\ UNCHANGED <<up, queue, work, tables, history>>

\* Mutant: no ON DELETE CASCADE; the pages read with the chapter go, no others.
CommitDeleteNoCascade(d) ==
    /\ requests[d] # None
    /\ chapters' = {r \in chapters : r.id # requests[d].row.id}
    /\ pages' = {p \in pages : p.id \notin requests[d].pages}
    /\ robbed' = (robbed \cup Owners(requests[d].pages)) \ {requests[d].row.id}
    /\ requests' = [requests EXCEPT ![d] = None]
    /\ UNCHANGED <<up, queue, work, jobs, volumes, disk, overlapped>>

\* The loaded page rows and the chapter row by id; ON DELETE CASCADE.
CommitDelete(d) ==
    /\ requests[d] # None
    /\ chapters' = {r \in chapters : r.id # requests[d].row.id}
    /\ pages' = {p \in pages : /\ p.id \notin requests[d].pages
                               /\ p.chapter # requests[d].row.id}
    /\ robbed' = (robbed \cup Owners(requests[d].pages)) \ {requests[d].row.id}
    /\ requests' = [requests EXCEPT ![d] = None]
    /\ UNCHANGED <<up, queue, work, jobs, volumes, disk, overlapped>>

DeleteFails(d) ==
    /\ requests[d] # None
    /\ "database" \in Faults
    /\ requests' = [requests EXCEPT ![d] = None]
    /\ UNCHANGED <<up, queue, work, tables, disk, history>>

-----------------------------------------------------------------------------
(* The environment and the lifespan of the application.                    *)

\* Something outside the program removes a CBZ.
FileLost(path) ==
    /\ "file_lost" \in Faults
    /\ disk[path] # None
    /\ disk' = [disk EXCEPT ![path] = None]
    /\ UNCHANGED <<up, queue, work, tables, requests, history>>

StopWorkers ==
    /\ up' = FALSE
    /\ queue' = <<>>
    /\ work' = [w \in Workers |-> Idle]
    /\ UNCHANGED <<tables, disk, history>>

\* Lifespan shutdown, once the server has finished its requests: the workers
\* are cancelled where they await and the queue is dropped.
Shutdown ==
    /\ up
    /\ "stop" \in Faults
    /\ \A d \in Deleters : requests[d] = None
    /\ StopWorkers
    /\ UNCHANGED requests

Crash ==
    /\ up
    /\ "stop" \in Faults
    /\ StopWorkers
    /\ requests' = [d \in Deleters |-> None]

\* A new process: an empty queue and idle workers; nothing looks at the jobs
\* or the files of the previous one.
Start ==
    /\ ~up
    /\ up' = TRUE
    /\ UNCHANGED <<queue, work, tables, disk, requests, history>>

-----------------------------------------------------------------------------
WorkerStep(w) ==
    \/ Take(w)
    \/ CreateJob(w)      \/ CreateJobFails(w)
    \/ SkipExisting(w)   \/ LoadExisting(w)
    \/ NoPages(w)        \/ SourceFails(w)      \/ Pack(w)
    \/ FindVolume(w)
    \/ InsertChapter(w)  \/ RewriteChapter(w)
    \/ PersistRejected(w) \/ PersistFails(w)
    \/ SetDone(w)        \/ SetDoneFails(w)
    \/ SetError(w)       \/ SetErrorFails(w)

DeleterStep(d) ==
    \/ \E row \in chapters : BeginDelete(d, row)
    \/ CommitDelete(d)
    \/ DeleteFails(d)

Next ==
    \/ \E key \in Keys : EnqueueMissing(key)
    \/ \E row \in chapters : Redownload(row)
    \/ \E w \in Workers : WorkerStep(w)
    \/ \E d \in Deleters : DeleterStep(d)
    \/ \E path \in Paths : FileLost(path)
    \/ Shutdown \/ Crash \/ Start

Spec == Init /\ [][Next]_vars

\* The event loop runs every ready coroutine, every HTTP call has a timeout and
\* every database call a busy timeout: no worker waits for ever at an await.
Fairness == \A w \in Workers : WF_vars(WorkerStep(w))

LiveSpec == Spec /\ Fairness

-----------------------------------------------------------------------------
(* Properties.                                                             *)

\* Every variable keeps its shape; the queue never outgrows its bound and an
\* idle worker holds nothing.
WorkType ==
    [pc : PCs, task : Tasks \cup {None}, job : Nat, seen : Snapshots \cup {None},
     archive : Archives \cup {None}, hasVolume : BOOLEAN]

TypeOK ==
    /\ up \in BOOLEAN
    /\ queue \in Seq(Tasks) /\ Len(queue) <= QueueSize
    /\ work \in [Workers -> WorkType]
    /\ \A w \in Workers :
          /\ work[w].pc = "idle" <=> work[w].task = None
          /\ work[w].pc \in {"volume", "persist"} => work[w].archive # None
    /\ jobs \in Seq(Jobs)
    /\ chapters \subseteq Rows
    /\ pages \subseteq PageRows
    /\ volumes \subseteq Volumes
    /\ disk \in [Paths -> Archives \cup {None}]
    /\ requests \in [Deleters -> Snapshots \cup {None}]
    /\ overlapped \subseteq Keys
    /\ robbed \subseteq Nat

\* "A chapter downloaded twice is the same row": however many tasks of one key
\* are queued or running, and whatever each read before it wrote, no two rows
\* of chapters share a key or an id.
UniqueRows ==
    \A r, s \in chapters : r.key = s.key \/ r.id = s.id => r = s

\* No page outlives its row, no row has its pages twice, and each has them: although
\* rewrites and deletes name page rows by ids they read earlier, a row is left without in
\* one way only: its pages were given ids that a late write of another row then deletes.
PagesMatchRows ==
    /\ \A p, q \in pages : p.id = q.id \/ p.chapter = q.chapter => p = q
    /\ {p.chapter : p \in pages} = {r.id : r \in chapters} \ robbed

\* A worker past _create_job holds a job of its own that says "running" for the
\* chapter it is downloading: no other worker can finish it.
HoldsJob(w) == work[w].pc \notin {"idle", "create"}

HeldJobs ==
    /\ \A w \in Workers : HoldsJob(w) =>
          /\ work[w].job \in DOMAIN jobs
          /\ jobs[work[w].job] = [key |-> work[w].task.key, status |-> "running"]
    /\ \A v, w \in Workers :
          HoldsJob(v) /\ HoldsJob(w) /\ work[v].job = work[w].job => v = w

\* The status a job ends with is never changed: not by a late worker, not by
\* the next process.
EndedJobsStay ==
    [][\A j \in DOMAIN jobs :
          jobs[j].status # "running" => j \in DOMAIN jobs' /\ jobs'[j] = jobs[j]]_vars

\* An overwrite keeps the chapter's row: no step moves a stored key to another
\* id, or a live id to another key.
SameRow ==
    [][\A r \in chapters, s \in chapters' : r.key = s.key <=> r.id = s.id]_vars

\* While every job of a chapter has ended "done", the row's hash is that of the file at
\* its path, if there is one: a failure after the file was replaced does leave a mismatch,
\* and always a job that says so.  Not where two downloads of the chapter overlapped, or
\* where its row was given an id that a download of another chapter had read.
DoneRowDescribesFile ==
    \A row \in chapters :
        \/ FileOf(row.key) \in {None, row.sha}
        \/ \E j \in DOMAIN jobs : jobs[j].key = row.key /\ jobs[j].status # "done"
        \/ row.key \in overlapped

\* "Hard delete the chapter row + its pages" (app/services/chapter.py): what a delete
\* removes is the row and the pages of the chapter the request has loaded.
DeletesAskedChapter ==
    [][\A d \in Deleters : CommitDelete(d) =>
          \A r \in chapters \ chapters' : r.key = requests[d].row.key]_vars

\* The pages of a row were downloaded for the row's own key.
OwnPages ==
    \A p \in pages, r \in chapters : p.chapter = r.id => p.of.key = r.key

\* The file is in place before the row is committed: where nothing deletes
\* chapters or files, every row has its CBZ through failures and restarts.
RowsHaveFiles == \A row \in chapters : FileOf(row.key) # None

\* Where nothing is deleted and no source is empty, a job turns "done" only
\* when its chapter has a row and a file.
DoneMeansStored ==
    [][\A j \in DOMAIN jobs :
          jobs[j].status = "running" /\ jobs'[j].status = "done" =>
              jobs[j].key \in StoredKeys /\ FileOf(jobs[j].key) # None]_vars

\* "A task must never kill its worker": every worker comes back to the queue
\* for ever, whichever awaits of the task fail.
WorkersReturn == \A w \in Workers : []<>(work[w].pc = "idle")

\* "Download queue is full; retry later": a full queue always gets room again.
QueueGetsRoom == []<>(Len(queue) < QueueSize)

\* "7. shutdown: drain queue, flush jobs" (app/main.py): an orderly shutdown
\* leaves no task in the queue and no job "running".
ShutdownDrains ==
    [][Shutdown => queue = <<>> /\ \A j \in DOMAIN jobs' : jobs'[j].status # "running"]_vars

-----------------------------------------------------------------------------
(* Refinement of ChapterStore.  A request is pending while it is queued or  *)
(* its worker has not yet committed, skipped or given up.                   *)
Waiting(key) ==
    Cardinality({i \in DOMAIN queue : queue[i].key = key})
    + Cardinality({w \in Workers :
          /\ work[w].pc \in {"create", "load", "fetch", "volume", "persist"}
          /\ work[w].task.key = key})

Catalogue == INSTANCE ChapterStore WITH
    pending <- [k \in Keys |-> Waiting(k)],
    stored <- [k \in Keys |-> IF k \in StoredKeys THEN RowOf(k).sha ELSE None]

\* Each accepted task stores its own chapter at most once, no step stores or changes a
\* chapter that no task waits for, and a step removes one chapter at most.
ImplementsCatalogue == Catalogue!Spec
=============================================================================
